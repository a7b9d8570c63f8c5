------------------------------ MODULE MCGroup ------------------------------
(* Group on a small instance. *)
EXTENDS Group, TLC

\* The devices that join differ in name only, and so do the links.
JoinerSymmetry ==
  Permutations(Device \ {Creator}) \cup Permutations(Invite)
=============================================================================
