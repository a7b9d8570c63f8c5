----------------------------- MODULE MCContacts -----------------------------
(* Contacts on a small instance. *)
EXTENDS Contacts, TLC

\* Nicknames and chats differ in name only.
Symmetry == Permutations(Nick) \cup Permutations(Chat)
=============================================================================
