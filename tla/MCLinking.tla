----------------------------- MODULE MCLinking ------------------------------
(* Linking on a small instance. *)
EXTENDS Linking, TLC

\* Devices differ in name only.
DeviceSymmetry == Permutations(Device)
=============================================================================
