--------------------------- MODULE MCConversation ---------------------------
(* Conversation on a small instance. *)
EXTENDS Conversation, TLC

\* Chats differ in name only, and so do the ids.
Symmetry == Permutations(Chat) \cup Permutations(Id)
=============================================================================
