------------------------------- MODULE QueueDO -------------------------------
(***************************************************************************)
(* The durable object behind one direction of one conversation             *)
(* (workers/messaging/src/durable-objects/QueueDO.ts).                     *)
(*                                                                         *)
(* A durable object runs one handler at a time and its SQLite calls are    *)
(* synchronous; the only awaits after the first statement of a handler are *)
(* storage awaits (getAlarm, setAlarm), during which no other event is     *)
(* delivered.  So each handler is one action.                              *)
(*                                                                         *)
(* Ciphertexts are opaque: a message is its number among the accepted      *)
(* pushes ("id").  The id and the deadline history exist only in the       *)
(* model; the code orders and deletes rows by "seq" alone.                 *)
(***************************************************************************)
EXTENDS Integers, Sequences, FiniteSetsExt

CONSTANTS
  MAX_TTL,             \* longest time to live a push may ask for
  MAX_QUEUE_MESSAGES,  \* undelivered messages one queue holds at most
  MAX_QUEUE_BYTES,     \* and their total size
  Sizes,               \* the ciphertext sizes that are pushed
  MaxTime,             \* bound of the model: the clock stops here
  MaxPushes            \* bound of the model: pushes accepted in a run

ASSUME QueueAssumption ==
  /\ MAX_TTL \in Nat \ {0}
  /\ MAX_QUEUE_MESSAGES \in Nat \ {0}
  /\ MAX_QUEUE_BYTES \in Nat
  /\ Sizes \subseteq Nat \ {0}
  /\ MaxTime \in Nat
  /\ MaxPushes \in Nat

VARIABLES
  now,       \* Date.now()
  messages,  \* the rows of the table "messages"
  lastSeq,   \* the AUTOINCREMENT counter of its primary key
  alarm,     \* the time the object's alarm is set for, or NoAlarm
  deadline   \* history: deadline[i] is the expires_at of the i-th accepted push

NoAlarm == -1

Row == [seq : Nat \ {0}, id : Nat \ {0}, size : Nat, expires : Nat]

QueueInit ==
  /\ now = 0
  /\ messages = {}
  /\ lastSeq = 0
  /\ alarm = NoAlarm
  /\ deadline = <<>>

-----------------------------------------------------------------------------
(* Statements the handlers share.                                          *)

\* What evictExpired leaves: a row goes once expires_at <= now.
Unexpired == {m \in messages : m.expires > now}

\* The depth check of a push, made on what the eviction left.
IsFull(rows, size) ==
  \/ Cardinality(rows) >= MAX_QUEUE_MESSAGES
  \/ MapThenSumSet(LAMBDA m : m.size, rows) + size > MAX_QUEUE_BYTES

\* The key SQLite gives the next row.  AUTOINCREMENT never reuses one, even
\* when the table has been emptied.
NextSeqReused == IF messages = {} THEN 1 ELSE Max({m.seq : m \in messages}) + 1
NextSeq == lastSeq + 1

NewRow(size, ttl) ==
  [seq |-> NextSeq, id |-> Len(deadline) + 1, size |-> size, expires |-> now + ttl]

\* scheduleEvictionNoLaterThan: an earlier alarm is never pushed out.
AlarmNoLaterThan(t) == IF alarm = NoAlarm \/ t < alarm THEN t ELSE alarm

\* The alarms that "SELECT MIN(expires_at)" allows: the one earliest expiry,
\* or no alarm when the table is empty.
NotRearmed(rows) == {NoAlarm}
RearmedAlarms(rows) ==
  IF rows = {} THEN {NoAlarm}
  ELSE {t \in {m.expires : m \in rows} : \A m \in rows : t <= m.expires}

\* The rows a cumulative acknowledgement leaves.
Unacked(upToSeq) == {m \in messages : m.seq > upToSeq}

-----------------------------------------------------------------------------
(* The handlers.                                                           *)

\* handlePush, 201: evict, insert, arm the alarm.  (The fan-out to the
\* attached sockets is in QueueDelivery.)
PushAccepted(size, ttl) ==
  /\ Len(deadline) < MaxPushes
  /\ ~IsFull(Unexpired, size)
  /\ messages' = Unexpired \cup {NewRow(size, ttl)}
  /\ lastSeq' = NextSeq
  /\ alarm' = AlarmNoLaterThan(now + ttl)
  /\ deadline' = Append(deadline, now + ttl)
  /\ UNCHANGED now

\* handlePush, 429: the eviction has happened, nothing is inserted.
PushRefused(size) ==
  /\ IsFull(Unexpired, size)
  /\ messages' = Unexpired
  /\ UNCHANGED <<now, lastSeq, alarm, deadline>>

\* handlePull, and the eviction at the start of handleSubscribe.
Evict ==
  /\ messages' = Unexpired
  /\ UNCHANGED <<now, lastSeq, alarm, deadline>>

\* handleAck and the "ack" frame of webSocketMessage.
Ack(upToSeq) ==
  /\ messages' = Unacked(upToSeq)
  /\ UNCHANGED <<now, lastSeq, alarm, deadline>>

\* alarm(): it fires at its time or later; evict and arm it again.
Alarm ==
  /\ alarm # NoAlarm
  /\ alarm <= now
  /\ messages' = Unexpired
  /\ alarm' \in RearmedAlarms(Unexpired)
  /\ UNCHANGED <<now, lastSeq, deadline>>

Tick ==
  /\ now < MaxTime
  /\ now' = now + 1
  /\ UNCHANGED <<messages, lastSeq, alarm, deadline>>

-----------------------------------------------------------------------------

QueueTypeOK ==
  /\ now \in Nat
  /\ messages \subseteq Row
  /\ IsFiniteSet(messages)
  /\ lastSeq \in Nat
  /\ alarm \in Nat \cup {NoAlarm}
  /\ deadline \in Seq(Nat)

(* A row cannot outlive its time to live unattended: while the table holds *)
(* rows the alarm is armed, for no later than the earliest expiry, through *)
(* every mix of pushes, acknowledgements, evictions on other paths and     *)
(* alarms that find nothing due (QueueDO.ts, alarm and                     *)
(* scheduleEvictionNoLaterThan).                                           *)
AlarmCoversBacklog ==
  \A m \in messages : alarm # NoAlarm /\ alarm <= m.expires
=============================================================================
