------------------------------- MODULE Mailbox -------------------------------
(***************************************************************************)
(* What one direction of a 1:1 conversation promises its reader, with no   *)
(* queue, socket or acknowledgement in sight: the messages that were       *)
(* accepted are shown to the reader in the order in which they were        *)
(* accepted, and a message is skipped only once its time to live is over.  *)
(* QueueDelivery implements this module.                                   *)
(***************************************************************************)
EXTENDS Integers, Sequences

VARIABLES
  now,       \* the clock
  deadline,  \* deadline[i]: the time at which accepted message i expires
  handled,   \* the messages the reader's handler was given
  lost       \* the messages that will never be given to it

vars == <<now, deadline, handled, lost>>

Accepted == DOMAIN deadline

Init ==
  /\ now = 0
  /\ deadline = <<>>
  /\ handled = {}
  /\ lost = {}

\* The messages of S are given up: their time to live is over.
Expire(S) ==
  /\ \A i \in S : i \notin handled /\ deadline[i] <= now
  /\ lost' = lost \cup S

Tick ==
  /\ now' > now
  /\ UNCHANGED <<deadline, handled, lost>>

\* A message is accepted; the same step may give up expired ones.
Accept ==
  /\ Len(deadline') = Len(deadline) + 1
  /\ SubSeq(deadline', 1, Len(deadline)) = deadline
  /\ \E S \in SUBSET Accepted : Expire(S)
  /\ UNCHANGED <<now, handled>>

\* The reader is given message i: all earlier ones were handled or given up.
Deliver(i) ==
  /\ \A j \in Accepted : j < i => j \in handled \cup lost
  /\ handled' = handled \cup {i}
  /\ UNCHANGED <<now, deadline, lost>>

GiveUp ==
  /\ \E S \in SUBSET Accepted : Expire(S)
  /\ UNCHANGED <<now, deadline, handled>>

Next ==
  \/ Tick
  \/ Accept
  \/ GiveUp
  \/ \E i \in Accepted \ (handled \cup lost) : Deliver(i)

Spec == Init /\ [][Next]_vars
=============================================================================
