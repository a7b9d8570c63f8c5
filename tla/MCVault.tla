------------------------------- MODULE MCVault -------------------------------
(* Vault on a small instance. *)
EXTENDS Vault, TLC

\* Clients differ in name only.
ClientSymmetry == Permutations(Client)
=============================================================================
