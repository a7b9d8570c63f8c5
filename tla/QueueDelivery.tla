---------------------------- MODULE QueueDelivery ----------------------------
(***************************************************************************)
(* QueueDO together with the client that reads it: useQueueSubscription in *)
(* apps/web/src/hooks/useQueueTransport.ts.  One reader holds at most one  *)
(* live WebSocket; it hands every frame to its handler and at once answers *)
(* with a cumulative acknowledgement of the highest sequence number it has *)
(* seen.  The connection may drop at any moment: the frames on it are      *)
(* lost, each acknowledgement on it may be lost or arrive later, after the *)
(* reader has reconnected and the backlog has been flushed to it again.    *)
(***************************************************************************)
EXTENDS QueueDO

CONSTANT MaxDrops  \* bound of the model: connections lost in a run

ASSUME DropsAssumption == MaxDrops \in Nat

VARIABLES
  connected,   \* the reader's WebSocket is open
  wire,        \* the frames on it, towards the reader, in order
  acks,        \* the acknowledgements on their way to the object
  maxSeqSeen,  \* the reader's variable of that name
  handled,     \* history: the messages the reader's handler was given
  drops        \* how often the connection was lost

readerVars == <<connected, wire, acks, maxSeqSeen, handled, drops>>
vars == <<now, messages, lastSeq, alarm, deadline, readerVars>>

Init ==
  /\ QueueInit
  /\ connected = FALSE
  /\ wire = <<>>
  /\ acks = {}
  /\ maxSeqSeen = 0
  /\ handled = {}
  /\ drops = 0

-----------------------------------------------------------------------------

\* A push is accepted and fanned out to the attached socket.
Push(size, ttl) ==
  /\ PushAccepted(size, ttl)
  /\ wire' = IF connected THEN Append(wire, NewRow(size, ttl)) ELSE wire
  /\ UNCHANGED <<connected, acks, maxSeqSeen, handled, drops>>

\* The orders in which handleSubscribe may send the rows: the one that is
\* ascending in seq.
NewestFirst(rows) ==
  {f \in [1 .. Cardinality(rows) -> rows] :
     /\ \A m \in rows : \E i \in DOMAIN f : f[i] = m
     /\ \A i, j \in DOMAIN f : i < j => f[i].seq > f[j].seq}
NoBacklog(rows) == {<<>>}
BacklogOrders(rows) ==
  {f \in [1 .. Cardinality(rows) -> rows] :
     /\ \A m \in rows : \E i \in DOMAIN f : f[i] = m
     /\ \A i, j \in DOMAIN f : i < j => f[i].seq < f[j].seq}

\* connect() reaches handleSubscribe, which evicts and flushes the backlog.
Connect ==
  /\ ~connected
  /\ connected' = TRUE
  /\ Evict
  /\ wire' \in BacklogOrders(Unexpired)
  /\ UNCHANGED <<acks, maxSeqSeen, handled, drops>>

\* onmessage: note the number, call the handler, acknowledge what was seen.
Receive ==
  /\ connected
  /\ wire # <<>>
  /\ LET frame == Head(wire)
         seen == IF frame.seq > maxSeqSeen THEN frame.seq ELSE maxSeqSeen
     IN /\ maxSeqSeen' = seen
        /\ handled' = handled \cup {frame.id}
        /\ acks' = acks \cup {seen}
  /\ wire' = Tail(wire)
  /\ UNCHANGED <<now, messages, lastSeq, alarm, deadline, connected, drops>>

\* The object processes an acknowledgement, whichever socket it came on.
ServerAck(upToSeq) ==
  /\ upToSeq \in acks
  /\ Ack(upToSeq)
  /\ acks' = acks \ {upToSeq}
  /\ UNCHANGED <<connected, wire, maxSeqSeen, handled, drops>>

\* The connection is lost, with the frames and some acknowledgements on it.
\* A remount of the effect (chat change, lease lost) also forgets maxSeqSeen.
Drop ==
  /\ connected
  /\ drops < MaxDrops
  /\ drops' = drops + 1
  /\ connected' = FALSE
  /\ wire' = <<>>
  /\ acks' \in SUBSET acks
  /\ maxSeqSeen' \in {maxSeqSeen, 0}
  /\ UNCHANGED <<now, messages, lastSeq, alarm, deadline, handled>>

\* What the object does without its reader: refuse a push, answer a pull,
\* fire its alarm, see time pass.
QueueOnly ==
  /\ \/ \E size \in Sizes : PushRefused(size)
     \/ Evict
     \/ Alarm
     \/ Tick
  /\ UNCHANGED readerVars

Next ==
  \/ \E size \in Sizes, ttl \in 1 .. MAX_TTL : Push(size, ttl)
  \/ Connect
  \/ Receive
  \/ \E upToSeq \in acks : ServerAck(upToSeq)
  \/ Drop
  \/ QueueOnly

(* The reconnect timer and the open socket make progress, and an alarm     *)
(* fires.  Nobody is obliged to push, to lose a connection, or to let time *)
(* pass: a message must be delivered before its deadline, not at it.       *)
Fairness ==
  /\ WF_vars(Connect)
  /\ WF_vars(Receive)
  /\ WF_vars(Alarm /\ UNCHANGED readerVars)

Spec == Init /\ [][Next]_vars
LiveSpec == Spec /\ Fairness

-----------------------------------------------------------------------------

Ids(rows) == {m.id : m \in rows}
WireRows == {wire[i] : i \in DOMAIN wire}
Accepted == DOMAIN deadline
Expired(i) == i \in Accepted /\ deadline[i] <= now

TypeOK ==
  /\ QueueTypeOK
  /\ connected \in BOOLEAN
  /\ wire \in Seq(Row)
  /\ acks \subseteq Nat
  /\ maxSeqSeen \in Nat
  /\ handled \subseteq Accepted
  /\ drops \in Nat

(* Acknowledgements are cumulative and the reader never says which rows it *)
(* has, only how far it has come.  Yet a row leaves the queue unseen only  *)
(* when its time to live is over, whatever acknowledgements of earlier     *)
(* connections arrive late (QueueDO.ts, "DELETE ... seq <= ?" against      *)
(* useQueueTransport.ts, maxSeqSeen).                                      *)
NoUnseenLoss ==
  \A i \in Accepted : i \in handled \cup Ids(messages) \/ Expired(i)

Lost == {i \in Accepted : i \notin handled \cup Ids(messages) \cup Ids(WireRows)}

M == INSTANCE Mailbox WITH lost <- Lost

(* The queue and its reader implement the mailbox: first deliveries are in *)
(* the order of acceptance, across reconnects and repeated backlogs.       *)
ImplementsMailbox == M!Spec

(* A message that was accepted is given to the handler, or its time to     *)
(* live ends first; and no expired row stays in storage for ever (the      *)
(* alarm; docs/04, TTL eviction).                                          *)
EveryMessageSettles ==
  \A i \in 1 .. MaxPushes :
    /\ (i \in Accepted) ~> (i \in handled \/ Expired(i))
    /\ Expired(i) ~> (i \notin Ids(messages))
=============================================================================
