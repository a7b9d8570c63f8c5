---------------------------- MODULE MCMembership ----------------------------
(* Membership on a small instance. *)
EXTENDS Membership, TLC

\* Logins differ in name only.
LoginSymmetry == Permutations(Login)
=============================================================================
