------------------------------ MODULE ChatProofs ------------------------------
(***************************************************************************)
(* Proofs about what a 1:1 chat rests on, for every value of the           *)
(* constants: the queue that delivers its envelopes (QueueDelivery), and   *)
(* the handshake that gives both ends a session (Handshake).               *)
(***************************************************************************)
EXTENDS QueueDelivery, Handshake, FiniteSetTheorems, SequenceTheorems,
        WellFoundedInduction, TLAPS

-----------------------------------------------------------------------------
(* The queue                                                               *)

(* Rows and frames carry the number of the push they came from, because    *)
(* AUTOINCREMENT never reuses one and only accepted pushes draw one.       *)
Numbered ==
  /\ lastSeq = Len(deadline)
  /\ \A m \in messages :
       m.seq = m.id /\ m.id \in Accepted /\ m.expires = deadline[m.id]
  /\ \A i \in DOMAIN wire : wire[i].seq = wire[i].id /\ wire[i].id \in Accepted

(* The live connection carries, in order, everything in the table that the *)
(* reader has not handled.                                                 *)
WireComplete ==
  /\ ~connected => wire = <<>>
  /\ \A i, j \in DOMAIN wire : i < j => wire[i].seq < wire[j].seq
  /\ connected =>
       \A m \in messages :
         m.id \in handled \/ \E i \in DOMAIN wire : wire[i].id = m.id

(* A position the reader has reached or acknowledged has nothing unhandled *)
(* below it in the table, and none lies beyond the last row.               *)
Reached(u) ==
  /\ u <= lastSeq
  /\ \A m \in messages : m.seq <= u => m.id \in handled

PositionsSeen == Reached(maxSeqSeen) /\ \A u \in acks : Reached(u)

IInv == TypeOK /\ Numbered /\ WireComplete /\ PositionsSeen /\ NoUnseenLoss

LEMMA InitIInv == Init => IInv
<1> SUFFICES ASSUME Init PROVE IInv
  OBVIOUS
<1> USE DEF Init, QueueInit
<1>1. TypeOK
  <2>1. IsFiniteSet(messages)
    BY FS_EmptySet
  <2>2. QueueTypeOK
    BY <2>1 DEF QueueTypeOK, NoAlarm
  <2>3. connected \in BOOLEAN
    OBVIOUS
  <2>4. wire \in Seq(Row)
    OBVIOUS
  <2>5. acks \subseteq Nat /\ maxSeqSeen \in Nat /\ handled \subseteq Accepted /\ drops \in Nat
    OBVIOUS
  <2> QED
    BY <2>2, <2>3, <2>4, <2>5 DEF TypeOK
<1>2. Numbered /\ WireComplete
  BY DEF Numbered, WireComplete, Accepted
<1>3. PositionsSeen /\ NoUnseenLoss
  BY DEF PositionsSeen, Reached, NoUnseenLoss, Accepted
<1> QED
  BY <1>1, <1>2, <1>3 DEF IInv

-----------------------------------------------------------------------------
(* The rows that an eviction or an acknowledgement leaves.                 *)

LEMMA RowsLeft ==
  ASSUME IInv, NEW rows, rows = Unexpired \/ \E u : rows = Unacked(u)
  PROVE  rows \subseteq messages /\ IsFiniteSet(rows)
<1>1. rows \subseteq messages
  BY DEF Unexpired, Unacked
<1> QED
  BY <1>1, FS_Subset DEF IInv, TypeOK, QueueTypeOK

(* Deleting rows while nothing else that IInv speaks of changes keeps it,  *)
(* provided that no row goes unseen before its time.                       *)
LEMMA ShrinkIInv ==
  ASSUME IInv, NEW rows \in SUBSET messages, IsFiniteSet(rows),
         \A m \in messages \ rows : m.id \in handled \/ m.expires <= now,
         messages' = rows, alarm' \in Nat \cup {NoAlarm},
         UNCHANGED <<now, lastSeq, deadline, connected, wire, maxSeqSeen, handled, drops>>,
         acks' \subseteq acks
  PROVE  IInv'
<1>1. TypeOK'
  BY DEF IInv, TypeOK, QueueTypeOK, Accepted
<1>2. Numbered'
  BY DEF IInv, Numbered, Accepted
<1>3. WireComplete'
  BY DEF IInv, WireComplete
<1>4. PositionsSeen'
  BY DEF IInv, PositionsSeen, Reached
<1>5. NoUnseenLoss'
  <2> SUFFICES ASSUME NEW i \in Accepted, i \notin handled, i \notin Ids(rows)
               PROVE  deadline[i] <= now
    BY DEF NoUnseenLoss, Accepted, Expired, Ids
  <2>1. CASE i \in Ids(messages)
    BY <2>1 DEF Ids, IInv, Numbered
  <2>2. CASE i \notin Ids(messages)
    BY <2>2 DEF IInv, NoUnseenLoss, Expired
  <2> QED
    BY <2>1, <2>2
<1> QED
  BY <1>1, <1>2, <1>3, <1>4, <1>5 DEF IInv

(* Evicting: the rows that go are expired.                                 *)
LEMMA EvictIInv ==
  ASSUME IInv, messages' = Unexpired, alarm' \in Nat \cup {NoAlarm},
         UNCHANGED <<now, lastSeq, deadline, readerVars>>
  PROVE  IInv'
<1>1. Unexpired \in SUBSET messages /\ IsFiniteSet(Unexpired)
  BY RowsLeft
<1>2. \A m \in messages \ Unexpired : m.expires <= now
  BY DEF Unexpired, IInv, TypeOK, QueueTypeOK, Row
<1> QED
  BY <1>1, <1>2, ShrinkIInv DEF readerVars

LEMMA QueueOnlyIInv == IInv /\ QueueOnly => IInv'
<1> SUFFICES ASSUME IInv, QueueOnly PROVE IInv'
  OBVIOUS
<1>1. ASSUME NEW size \in Sizes, PushRefused(size), UNCHANGED readerVars PROVE IInv'
  BY <1>1, EvictIInv DEF PushRefused, IInv, TypeOK, QueueTypeOK
<1>2. CASE Evict /\ UNCHANGED readerVars
  BY <1>2, EvictIInv DEF Evict, IInv, TypeOK, QueueTypeOK
<1>3. CASE Alarm /\ UNCHANGED readerVars
  <2>1. alarm' \in Nat \cup {NoAlarm}
    BY <1>3 DEF Alarm, RearmedAlarms, Unexpired, IInv, TypeOK, QueueTypeOK, Row
  <2> QED
    BY <1>3, <2>1, EvictIInv DEF Alarm
<1>4. CASE Tick /\ UNCHANGED readerVars
  <2> USE <1>4 DEF Tick, readerVars
  <2>1. TypeOK'
    BY DEF IInv, TypeOK, QueueTypeOK, Accepted
  <2>2. Numbered' /\ WireComplete' /\ PositionsSeen'
    BY DEF IInv, Numbered, WireComplete, PositionsSeen, Reached, Accepted
  <2>3. NoUnseenLoss'
    BY DEF IInv, NoUnseenLoss, Expired, Accepted, Ids, TypeOK, QueueTypeOK
  <2> QED
    BY <2>1, <2>2, <2>3 DEF IInv
<1> QED
  BY <1>1, <1>2, <1>3, <1>4 DEF QueueOnly

-----------------------------------------------------------------------------
(* The steps in which the reader takes part.                               *)

LEMMA PushIInv ==
  ASSUME IInv, NEW size \in Sizes, NEW ttl \in 1 .. MAX_TTL, Push(size, ttl)
  PROVE  IInv'
<1> DEFINE new == NewRow(size, ttl)
           top == Len(deadline) + 1
<1> USE QueueAssumption
<1>1. new \in Row /\ new.seq = top /\ new.id = top /\ new.expires = now + ttl
  BY DEF NewRow, NextSeq, Row, IInv, TypeOK, QueueTypeOK, Numbered
<1>2. /\ Unexpired \subseteq messages
      /\ IsFiniteSet(Unexpired)
      /\ IsFiniteSet(Unexpired \cup {new})
  BY RowsLeft, FS_AddElement
<1>3. /\ messages' = Unexpired \cup {new}
      /\ lastSeq' = top
      /\ deadline' = Append(deadline, now + ttl)
      /\ wire' = IF connected THEN Append(wire, new) ELSE wire
      /\ UNCHANGED <<now, connected, acks, maxSeqSeen, handled>>
  BY DEF Push, PushAccepted, NextSeq, IInv, Numbered
<1>4. deadline \in Seq(Nat) /\ wire \in Seq(Row) /\ now \in Nat /\ now + ttl \in Nat
  BY DEF IInv, TypeOK, QueueTypeOK
<1>5. /\ Accepted' = Accepted \cup {top}
      /\ top \notin Accepted
      /\ Accepted = 1 .. Len(deadline)
      /\ deadline'[top] = now + ttl
      /\ \A i \in Accepted : deadline'[i] = deadline[i]
  BY <1>3, <1>4 DEF Accepted
<1> HIDE DEF new
<1>6. TypeOK'
  <2>1. (messages \subseteq Row /\ IsFiniteSet(messages))'
    BY <1>1, <1>2, <1>3 DEF IInv, TypeOK, QueueTypeOK
  <2>2. alarm' \in Nat \cup {NoAlarm}
    BY <1>4 DEF Push, PushAccepted, AlarmNoLaterThan, IInv, TypeOK, QueueTypeOK
  <2>3. wire' \in Seq(Row)
    BY <1>1, <1>3, <1>4
  <2>4. deadline' \in Seq(Nat)
    BY <1>3, <1>4
  <2>5. lastSeq' \in Nat
    BY <1>3, <1>4
  <2>6. (handled \subseteq Accepted)'
    BY <1>3, <1>5 DEF IInv, TypeOK
  <2> QED
    BY <1>3, <2>1, <2>2, <2>3, <2>4, <2>5, <2>6 DEF IInv, TypeOK, QueueTypeOK, Push
<1>7. Numbered'
  <2>1. lastSeq' = Len(deadline')
    BY <1>3, <1>4
  <2>2. ASSUME NEW m \in messages'
        PROVE  m.seq = m.id /\ m.id \in Accepted' /\ m.expires = deadline'[m.id]
    <3>1. \A r \in messages :
            r.seq = r.id /\ r.id \in Accepted /\ r.expires = deadline[r.id]
      BY <1>1 DEF IInv, Numbered
    <3>2. CASE m \in messages
      BY <1>5, <3>1, <3>2
    <3>3. CASE m = new
      BY <1>1, <1>5, <3>3
    <3> QED BY <1>2, <1>3, <3>2, <3>3
  <2>3. ASSUME NEW i \in DOMAIN wire'
        PROVE  wire'[i].seq = wire'[i].id /\ wire'[i].id \in Accepted'
    <3>1. \A j \in DOMAIN wire :
            wire[j].seq = wire[j].id /\ wire[j].id \in Accepted
      BY DEF IInv, Numbered
    <3>2. \/ wire'[i] = new
          \/ i \in DOMAIN wire /\ wire'[i] = wire[i]
      BY <1>3, <1>4
    <3>3. new.seq = new.id /\ new.id \in Accepted'
      BY <1>1, <1>5
    <3> QED BY <1>5, <3>1, <3>2, <3>3
  <2> QED
    BY <2>1, <2>2, <2>3 DEF Numbered
<1>8. WireComplete'
  <2>1. CASE ~connected
    BY <1>3, <2>1 DEF IInv, WireComplete
  <2>2. CASE connected
    <3>1. /\ wire' = Append(wire, new)
          /\ Len(wire') = Len(wire) + 1
          /\ DOMAIN wire = 1 .. Len(wire)
          /\ DOMAIN wire' = 1 .. Len(wire) + 1
          /\ wire'[Len(wire) + 1] = new
          /\ \A i \in DOMAIN wire : wire'[i] = wire[i]
      BY <1>1, <1>3, <1>4, <2>2
    <3>2. \A i \in DOMAIN wire : wire[i].seq \in Nat /\ wire[i].seq < new.seq
      BY <1>1, <1>4, <1>5 DEF IInv, Numbered
    <3>3. \A i, j \in DOMAIN wire' : i < j => wire'[i].seq < wire'[j].seq
      BY <3>1, <3>2 DEF IInv, WireComplete
    <3>4. ASSUME NEW m \in messages'
          PROVE  m.id \in handled' \/ \E i \in DOMAIN wire' : wire'[i].id = m.id
      <4>1. CASE m = new
        BY <4>1, <3>1, <1>4
      <4>2. CASE m \in messages
        BY <4>2, <3>1, <1>3, <2>2, <1>4 DEF IInv, WireComplete
      <4> QED
        BY <4>1, <4>2, <1>2, <1>3
    <3> QED
      BY <1>3, <2>2, <3>3, <3>4 DEF WireComplete
  <2> QED
    BY <2>1, <2>2
<1>9. PositionsSeen'
  <2>1. ASSUME NEW u \in Nat, Reached(u) PROVE Reached(u)'
    <3>1. u < top
      BY <2>1, <1>4 DEF Reached, IInv, Numbered
    <3> QED
      BY <2>1, <3>1, <1>1, <1>2, <1>3, <1>4 DEF Reached, IInv, Numbered
  <2> QED
    BY <2>1, <1>3 DEF PositionsSeen, IInv, TypeOK, Reached
<1>10. NoUnseenLoss'
  <2> SUFFICES ASSUME NEW i \in Accepted', i \notin handled, i \notin Ids(messages')
               PROVE  deadline'[i] <= now
    BY <1>3 DEF NoUnseenLoss, Expired, Ids
  <2>1. i \in Accepted /\ i \notin Ids(Unexpired)
    BY <1>1, <1>3, <1>5 DEF Ids
  <2>2. CASE i \in Ids(messages)
    BY <2>1, <2>2, <1>4, <1>5 DEF Ids, Unexpired, IInv, Numbered, TypeOK, QueueTypeOK, Row
  <2>3. CASE i \notin Ids(messages)
    BY <2>1, <2>3, <1>5 DEF IInv, NoUnseenLoss, Expired
  <2> QED
    BY <2>2, <2>3
<1> QED
  BY <1>6, <1>7, <1>8, <1>9, <1>10 DEF IInv

LEMMA ConnectIInv == IInv /\ Connect => IInv'
<1> SUFFICES ASSUME IInv, Connect PROVE IInv'
  OBVIOUS
<1>1. Unexpired \subseteq messages /\ IsFiniteSet(Unexpired)
  BY RowsLeft
<1>2. /\ wire' \in [1 .. Cardinality(Unexpired) -> Unexpired]
      /\ \A m \in Unexpired : \E i \in DOMAIN wire' : wire'[i] = m
      /\ \A i, j \in DOMAIN wire' : i < j => wire'[i].seq < wire'[j].seq
  BY DEF Connect, BacklogOrders
<1>3. Cardinality(Unexpired) \in Nat
  BY <1>1, FS_CardinalityType
<1>4. /\ messages' = Unexpired
      /\ connected' = TRUE
      /\ UNCHANGED <<now, lastSeq, alarm, deadline, acks, maxSeqSeen, handled, drops>>
  BY DEF Connect, Evict
<1>5. TypeOK'
  <2>1. wire' \in Seq(Row)
    BY <1>1, <1>2, <1>3 DEF IInv, TypeOK, QueueTypeOK
  <2>2. connected' \in BOOLEAN
    BY <1>4
  <2> QED
    BY <1>1, <1>4, <2>1, <2>2 DEF IInv, TypeOK, QueueTypeOK, Accepted
<1>6. Numbered'
  <2>1. \A i \in DOMAIN wire' : wire'[i] \in messages
    BY <1>1, <1>2
  <2> QED
    BY <1>1, <1>4, <2>1 DEF IInv, Numbered, Accepted
<1>7. WireComplete'
  BY <1>2, <1>4 DEF WireComplete
<1>8. PositionsSeen'
  BY <1>1, <1>4 DEF IInv, PositionsSeen, Reached
<1>9. NoUnseenLoss'
  <2> SUFFICES ASSUME NEW i \in Accepted, i \notin handled, i \notin Ids(Unexpired)
               PROVE  deadline[i] <= now
    BY <1>4 DEF NoUnseenLoss, Accepted, Expired, Ids
  <2>1. CASE i \in Ids(messages)
    BY <2>1 DEF Ids, Unexpired, IInv, Numbered, TypeOK, QueueTypeOK, Row
  <2>2. CASE i \notin Ids(messages)
    BY <2>2 DEF IInv, NoUnseenLoss, Expired
  <2> QED
    BY <2>1, <2>2
<1> QED
  BY <1>5, <1>6, <1>7, <1>8, <1>9 DEF IInv

(* The head of the wire is the lowest unhandled row of the table or a      *)
(* repetition, so whatever the reader now claims to have seen it has.      *)
LEMMA ReceiveIInv == IInv /\ Receive => IInv'
<1> SUFFICES ASSUME IInv, Receive PROVE IInv'
  OBVIOUS
<1> DEFINE frame == Head(wire)
           seen == IF frame.seq > maxSeqSeen THEN frame.seq ELSE maxSeqSeen
<1>1. /\ wire \in Seq(Row) /\ wire # <<>>
      /\ frame = wire[1]
      /\ 1 \in DOMAIN wire
      /\ wire' = Tail(wire)
      /\ wire' \in Seq(Row)
      /\ \A i \in DOMAIN wire' : i + 1 \in DOMAIN wire /\ wire'[i] = wire[i + 1]
      /\ DOMAIN wire' \subseteq Nat
  BY DEF Receive, IInv, TypeOK
<1>2. /\ frame \in Row
      /\ frame.seq = frame.id
      /\ frame.id \in Accepted
  BY <1>1 DEF IInv, Numbered
<1>3. /\ connected
      /\ maxSeqSeen' = seen
      /\ handled' = handled \cup {frame.id}
      /\ acks' = acks \cup {seen}
      /\ UNCHANGED <<now, messages, lastSeq, alarm, deadline, connected, drops>>
  BY DEF Receive
<1>4. frame.seq \in Nat /\ maxSeqSeen \in Nat /\ seen \in Nat /\ lastSeq \in Nat
  BY <1>2 DEF IInv, TypeOK, QueueTypeOK, Row
<1>5. frame.seq <= lastSeq
  BY <1>2 DEF IInv, Numbered, TypeOK, QueueTypeOK, Accepted
<1> HIDE DEF frame
<1>6. TypeOK'
  BY <1>1, <1>2, <1>3, <1>4 DEF IInv, TypeOK, QueueTypeOK, Accepted
<1>7. Numbered'
  BY <1>1, <1>3 DEF IInv, Numbered, Accepted
<1>8. WireComplete'
  <2>1. \A i, j \in DOMAIN wire' : i < j => wire'[i].seq < wire'[j].seq
    BY <1>1 DEF IInv, WireComplete
  <2>2. ASSUME NEW m \in messages, m.id \notin handled'
        PROVE  \E i \in DOMAIN wire' : wire'[i].id = m.id
    <3>1. PICK i \in DOMAIN wire : wire[i].id = m.id
      BY <2>2, <1>3 DEF IInv, WireComplete
    <3>2. i # 1
      BY <2>2, <3>1, <1>1, <1>3
    <3>3. i - 1 \in DOMAIN wire' /\ wire'[i - 1] = wire[i]
      BY <3>2, <1>1
    <3> QED
      BY <3>1, <3>3
  <2> QED
    BY <2>1, <2>2, <1>3 DEF WireComplete
<1>9. PositionsSeen'
  <2>1. ASSUME NEW m \in messages, m.seq <= frame.seq
        PROVE  m.id \in handled'
    <3> SUFFICES ASSUME m.id \notin handled PROVE m.id = frame.id
      BY <1>3
    <3>1. PICK i \in DOMAIN wire : wire[i].id = m.id
      BY <1>3 DEF IInv, WireComplete
    <3>2. wire[i].seq = m.seq /\ m.seq \in Nat /\ m.seq = m.id
      BY <3>1 DEF IInv, Numbered, TypeOK, QueueTypeOK, Row
    <3>3. i = 1 \/ 1 < i
      BY <1>1
    <3>4. ~(1 < i)
      BY <2>1, <3>2, <1>1, <1>4 DEF IInv, WireComplete
    <3> QED
      BY <3>1, <3>3, <3>4, <1>1
  <2>2. Reached(maxSeqSeen)' /\ \A u \in acks : Reached(u)'
    BY <1>3, <1>5, <2>1, <1>4 DEF IInv, PositionsSeen, Reached
  <2>3. ASSUME NEW u \in acks' PROVE Reached(u)'
    <3>1. CASE u \in acks
      BY <3>1, <2>2
    <3>2. CASE u = maxSeqSeen'
      BY <3>2, <2>2 DEF Reached
    <3> QED
      BY <3>1, <3>2, <1>3
  <2> QED
    BY <2>2, <2>3 DEF PositionsSeen
<1>10. NoUnseenLoss'
  BY <1>3 DEF IInv, NoUnseenLoss, Expired, Accepted, Ids
<1> QED
  BY <1>6, <1>7, <1>8, <1>9, <1>10 DEF IInv

LEMMA ServerAckIInv ==
  ASSUME IInv, NEW upToSeq \in acks, ServerAck(upToSeq)
  PROVE  IInv'
<1>1. /\ Unacked(upToSeq) \in SUBSET messages
      /\ IsFiniteSet(Unacked(upToSeq))
  BY RowsLeft
<1>2. \A m \in messages \ Unacked(upToSeq) : m.id \in handled
  BY DEF Unacked, IInv, PositionsSeen, Reached, TypeOK, QueueTypeOK, Row
<1>3. /\ messages' = Unacked(upToSeq)
      /\ UNCHANGED <<now, lastSeq, alarm, deadline, connected, wire, maxSeqSeen, handled, drops>>
      /\ acks' \subseteq acks
  BY DEF ServerAck, Ack
<1>4. alarm' \in Nat \cup {NoAlarm}
  BY <1>3 DEF IInv, TypeOK, QueueTypeOK
<1> QED
  BY <1>1, <1>2, <1>3, <1>4, ShrinkIInv

LEMMA DropIInv == IInv /\ Drop => IInv'
<1> SUFFICES ASSUME IInv, Drop PROVE IInv'
  OBVIOUS
<1> USE DEF Drop
<1>1. TypeOK'
  <2>1. wire' \in Seq(Row)
    OBVIOUS
  <2>2. connected' \in BOOLEAN
    OBVIOUS
  <2> QED
    BY <2>1, <2>2 DEF IInv, TypeOK, QueueTypeOK, Accepted
<1>2. Numbered' /\ WireComplete'
  BY DEF IInv, Numbered, WireComplete, Accepted
<1>3. PositionsSeen'
  <2>1. \A m \in messages : m.seq \in Nat \ {0}
    BY DEF IInv, TypeOK, QueueTypeOK, Row
  <2> QED
    BY <2>1 DEF IInv, PositionsSeen, Reached, TypeOK, QueueTypeOK
<1>4. NoUnseenLoss'
  BY DEF IInv, NoUnseenLoss, Expired, Accepted, Ids
<1> QED
  BY <1>1, <1>2, <1>3, <1>4 DEF IInv

LEMMA StutterIInv == IInv /\ UNCHANGED vars => IInv'
<1> SUFFICES ASSUME IInv, UNCHANGED vars PROVE IInv'
  OBVIOUS
<1> USE DEF vars, readerVars
<1>1. TypeOK'
  BY DEF IInv, TypeOK, QueueTypeOK, Accepted
<1>2. Numbered' /\ WireComplete' /\ PositionsSeen'
  BY DEF IInv, Numbered, WireComplete, PositionsSeen, Reached, Accepted
<1>3. NoUnseenLoss'
  BY DEF IInv, NoUnseenLoss, Expired, Accepted, Ids
<1> QED
  BY <1>1, <1>2, <1>3 DEF IInv

LEMMA NextIInv == IInv /\ [Next]_vars => IInv'
  BY PushIInv, ConnectIInv, ReceiveIInv, ServerAckIInv, DropIInv, QueueOnlyIInv,
     StutterIInv DEF Next

(* The inductive invariant holds in every behaviour.                       *)
THEOREM Invariance == Spec => []IInv
  BY InitIInv, NextIInv, PTL DEF Spec

(* The variables keep their types (QueueDO.ts, the table and its alarm).   *)
THEOREM TypeCorrect == Spec => []TypeOK
<1>1. IInv => TypeOK
  BY DEF IInv
<1> QED
  BY <1>1, Invariance, PTL

(* For any time to live, any limits, any number of pushes, reconnects and  *)
(* late acknowledgements: a cumulative acknowledgement never deletes a row *)
(* that the reader has not handled (QueueDO.ts, handleAck and              *)
(* webSocketMessage; useQueueTransport.ts, onmessage).                     *)
THEOREM NothingLostUnseen == Spec => []NoUnseenLoss
<1>1. IInv => NoUnseenLoss
  BY DEF IInv
<1> QED
  BY <1>1, Invariance, PTL

-----------------------------------------------------------------------------
(* The alarm.                                                              *)

LEMMA AlarmStep == IInv /\ AlarmCoversBacklog /\ [Next]_vars => AlarmCoversBacklog'
<1> SUFFICES ASSUME IInv, AlarmCoversBacklog, [Next]_vars
             PROVE  AlarmCoversBacklog'
  OBVIOUS
<1> USE DEF AlarmCoversBacklog
<1>1. Unexpired \subseteq messages /\ \A u : Unacked(u) \subseteq messages
  BY DEF Unexpired, Unacked
<1>2. ASSUME NEW size \in Sizes, NEW ttl \in 1 .. MAX_TTL, Push(size, ttl)
      PROVE  AlarmCoversBacklog'
  <2>1. messages' = Unexpired \cup {NewRow(size, ttl)} /\ NewRow(size, ttl).expires = now + ttl
    BY <1>2 DEF Push, PushAccepted, NewRow
  <2>2. alarm' # NoAlarm /\ alarm' <= now + ttl /\ (alarm = NoAlarm \/ alarm' <= alarm)
    BY <1>2, QueueAssumption
    DEF Push, PushAccepted, AlarmNoLaterThan, NoAlarm, IInv, TypeOK, QueueTypeOK
  <2>3. alarm' \in Int /\ alarm \in Int /\ \A m \in messages : m.expires \in Nat
    BY <1>2, QueueAssumption
    DEF Push, PushAccepted, AlarmNoLaterThan, NoAlarm, IInv, TypeOK, QueueTypeOK, Row
  <2> QED
    BY <1>1, <2>1, <2>2, <2>3
<1>3. CASE Connect
  BY <1>1, <1>3 DEF Connect, Evict
<1>4. CASE Receive \/ Drop
  BY <1>4 DEF Receive, Drop
<1>5. ASSUME NEW upToSeq \in acks, ServerAck(upToSeq) PROVE AlarmCoversBacklog'
  BY <1>1, <1>5 DEF ServerAck, Ack
<1>6. CASE QueueOnly
  <2>1. CASE Alarm
    <3>1. messages' = Unexpired /\ alarm' \in RearmedAlarms(Unexpired)
      BY <2>1 DEF Alarm
    <3>2. \A m \in Unexpired : m.expires \in Nat
      BY <1>1 DEF IInv, TypeOK, QueueTypeOK, Row
    <3> QED
      BY <3>1, <3>2 DEF RearmedAlarms, NoAlarm
  <2> QED
    BY <1>1, <1>6, <2>1 DEF QueueOnly, PushRefused, Evict, Tick
<1>7. CASE UNCHANGED vars
  BY <1>7 DEF vars
<1> QED
  BY <1>2, <1>3, <1>4, <1>5, <1>6, <1>7 DEF Next

(* While the table holds rows, the alarm is armed for no later than the    *)
(* earliest of their expiries (QueueDO.ts, scheduleEvictionNoLaterThan and *)
(* alarm).                                                                 *)
THEOREM BacklogAlwaysCovered == Spec => []AlarmCoversBacklog
<1>1. Init => AlarmCoversBacklog
  BY DEF Init, QueueInit, AlarmCoversBacklog
<1> QED
  BY <1>1, AlarmStep, Invariance, PTL DEF Spec

-----------------------------------------------------------------------------
(* Refinement: every step of the queue and its reader is a step of the     *)
(* mailbox or leaves its variables unchanged.                              *)

(* A step that deletes expired rows, or empties the wire, without handing  *)
(* anything to the reader only gives up messages whose time is over.       *)
LEMMA GiveUpStep ==
  ASSUME IInv, IInv', UNCHANGED <<now, deadline, handled>>,
         messages' \subseteq messages,
         \A i \in DOMAIN wire' : wire'[i] \in messages \/ wire'[i] \in WireRows
  PROVE  M!GiveUp
<1> DEFINE S == Lost' \ Lost
<1>1. Accepted' = Accepted
  BY DEF Accepted
<1>2. Lost \subseteq Lost'
  BY <1>1 DEF Lost, Ids, WireRows
<1>3. ASSUME NEW i \in S PROVE i \in Accepted /\ i \notin handled /\ deadline[i] <= now
  <2>1. i \in Accepted' /\ i \notin handled' \cup Ids(messages')
    BY DEF Lost
  <2> QED
    BY <1>1, <2>1 DEF IInv, NoUnseenLoss, Expired
<1>4. S \in SUBSET M!Accepted /\ Lost' = Lost \cup S
  BY <1>2, <1>3 DEF M!Accepted, Accepted
<1> QED
  BY <1>3, <1>4 DEF M!GiveUp, M!Expire

LEMMA RefinementStep == IInv /\ IInv' /\ [Next]_vars => [M!Next]_(M!vars)
<1> SUFFICES ASSUME IInv, IInv', [Next]_vars PROVE M!Next \/ UNCHANGED M!vars
  OBVIOUS
<1>0. Unexpired \subseteq messages
  BY DEF Unexpired
<1>1. ASSUME NEW size \in Sizes, NEW ttl \in 1 .. MAX_TTL, Push(size, ttl)
      PROVE  M!Next
  <2> DEFINE S == Lost' \ Lost
             top == Len(deadline) + 1
  <2>1. /\ messages' = Unexpired \cup {NewRow(size, ttl)}
        /\ NewRow(size, ttl).id = top
        /\ deadline' = Append(deadline, now + ttl)
        /\ wire' = IF connected THEN Append(wire, NewRow(size, ttl)) ELSE wire
        /\ UNCHANGED <<now, handled>>
    BY <1>1 DEF Push, PushAccepted, NewRow
  <2>2. deadline \in Seq(Nat) /\ wire \in Seq(Row) /\ now + ttl \in Nat /\ deadline' \in Seq(Nat)
    BY QueueAssumption DEF IInv, TypeOK, QueueTypeOK
  <2>3. /\ Accepted' = Accepted \cup {top}
        /\ top \notin Accepted
        /\ \A i \in Accepted : deadline'[i] = deadline[i]
        /\ Len(deadline') = Len(deadline) + 1
        /\ SubSeq(deadline', 1, Len(deadline)) = deadline
    BY <2>1, <2>2 DEF Accepted
  <2>4. \A i \in DOMAIN wire' : wire'[i] \in WireRows \/ wire'[i] = NewRow(size, ttl)
    BY <2>1, <2>2 DEF WireRows
  <2>5. Lost \subseteq Lost'
    BY <1>0, <2>1, <2>3, <2>4 DEF Lost, Ids, WireRows
  <2>6. ASSUME NEW i \in S PROVE i \in Accepted /\ i \notin handled /\ deadline[i] <= now
    <3>1. i \in Accepted' /\ i \notin handled' \cup Ids(messages')
      BY DEF Lost
    <3>2. i # top
      BY <2>1, <3>1 DEF Ids
    <3> QED
      BY <2>1, <2>3, <3>1, <3>2 DEF IInv, NoUnseenLoss, Expired
  <2>7. S \in SUBSET M!Accepted /\ Lost' = Lost \cup S
    BY <2>5, <2>6 DEF M!Accepted, Accepted
  <2>8. M!Accept
    BY <2>1, <2>3, <2>6, <2>7 DEF M!Accept, M!Expire
  <2> QED
    BY <2>8 DEF M!Next
<1>2. CASE Connect
  <2>1. \A i \in DOMAIN wire' : wire'[i] \in messages
    BY <1>0, <1>2 DEF Connect, BacklogOrders
  <2> QED
    BY <1>0, <1>2, <2>1, GiveUpStep DEF Connect, Evict, M!Next
<1>3. CASE Drop
  BY <1>3, GiveUpStep DEF Drop, M!Next
<1>4. CASE Receive
  <2> DEFINE i == Head(wire).id
  <2>1. /\ wire \in Seq(Row) /\ wire # <<>>
        /\ 1 \in DOMAIN wire
        /\ i = wire[1].id
        /\ wire' = Tail(wire)
        /\ \A k \in DOMAIN wire' : k + 1 \in DOMAIN wire /\ wire'[k] = wire[k + 1]
        /\ \A k \in DOMAIN wire \ {1} : k - 1 \in DOMAIN wire' /\ wire'[k - 1] = wire[k]
        /\ \A k \in DOMAIN wire : k \in Nat /\ k >= 1
    BY <1>4 DEF Receive, IInv, TypeOK
  <2>2. /\ connected
        /\ handled' = handled \cup {i}
        /\ UNCHANGED <<now, messages, deadline>>
    BY <1>4 DEF Receive
  <2>3. i \in Accepted /\ i \in Ids(WireRows)
    BY <2>1 DEF IInv, Numbered, Ids, WireRows
  <2>4. Lost' = Lost
    <3>1. \A j : j \in Ids(WireRows)' \/ j = i <=> j \in Ids(WireRows) \/ j = i
      <4>1. \A j : j \in Ids(WireRows) <=> \E k \in DOMAIN wire : wire[k].id = j
        BY DEF Ids, WireRows
      <4>2. \A j : j \in Ids(WireRows)' <=> \E k \in DOMAIN wire' : wire'[k].id = j
        BY DEF Ids, WireRows
      <4> HIDE DEF i
      <4>3. ASSUME NEW k \in DOMAIN wire' PROVE wire'[k].id \in Ids(WireRows)
        BY <2>1, <4>1, <4>3
      <4>4. ASSUME NEW k \in DOMAIN wire PROVE wire[k].id \in Ids(WireRows)' \/ wire[k].id = i
        BY <2>1, <4>2, <4>4
      <4> QED
        BY <4>1, <4>2, <4>3, <4>4
    <3>2. Ids(messages)' = Ids(messages) /\ Accepted' = Accepted
      BY <2>2 DEF Ids, Accepted
    <3> QED
      BY <2>2, <2>3, <3>1, <3>2 DEF Lost
  <2>5. ASSUME NEW j \in Accepted, j < i PROVE j \in handled \cup Lost
    <3> SUFFICES ASSUME j \notin handled, j \in Ids(messages) \cup Ids(WireRows)
                 PROVE  FALSE
      BY DEF Lost
    <3>1. PICK k \in DOMAIN wire : wire[k].id = j
      BY <2>2 DEF Ids, WireRows, IInv, WireComplete
    <3>2. k = 1 \/ wire[1].seq < wire[k].seq
      BY <2>1 DEF IInv, WireComplete
    <3>3. wire[1].seq = i /\ wire[k].seq = j
      BY <2>1, <3>1 DEF IInv, Numbered
    <3>4. i \in Int /\ j \in Int
      BY <2>3 DEF Accepted, IInv, TypeOK, QueueTypeOK
    <3> QED
      BY <2>1, <2>5, <3>1, <3>2, <3>3, <3>4
  <2>6. CASE i \in handled
    BY <2>2, <2>4, <2>6 DEF M!vars
  <2>7. CASE i \notin handled
    <3>1. i \notin Lost
      BY <2>3 DEF Lost
    <3>2. M!Deliver(i)
      BY <2>2, <2>4, <2>5 DEF M!Deliver, M!Accepted, Accepted
    <3> QED
      BY <2>3, <2>7, <3>1, <3>2 DEF M!Next, M!Accepted, Accepted
  <2> QED
    BY <2>6, <2>7
<1>5. ASSUME NEW upToSeq \in acks, ServerAck(upToSeq) PROVE M!Next
  BY <1>5, GiveUpStep DEF ServerAck, Ack, Unacked, WireRows, M!Next
<1>6. CASE QueueOnly
  <2>1. CASE Tick
    <3>1. Lost' = Lost
      BY <1>6, <2>1 DEF QueueOnly, Tick, readerVars, Lost, Ids, WireRows, Accepted
    <3>2. now' > now
      BY <2>1 DEF Tick, IInv, TypeOK, QueueTypeOK
    <3> QED
      BY <1>6, <2>1, <3>1, <3>2 DEF QueueOnly, Tick, readerVars, M!Next, M!Tick
  <2>2. CASE ~Tick
    <3>1. messages' = Unexpired /\ UNCHANGED <<now, deadline, handled, wire>>
      BY <1>6, <2>2 DEF QueueOnly, PushRefused, Evict, Alarm, readerVars
    <3> QED
      BY <1>0, <3>1, GiveUpStep DEF WireRows, M!Next
  <2> QED
    BY <2>1, <2>2
<1>7. CASE UNCHANGED vars
  BY <1>7 DEF vars, readerVars, M!vars, Lost, Ids, WireRows, Accepted
<1> QED
  BY <1>1, <1>2, <1>3, <1>4, <1>5, <1>6, <1>7 DEF Next

(* The queue and its reader deliver what the mailbox promises, in the      *)
(* order of acceptance, whatever is dropped and flushed again.             *)
THEOREM DeliveryImplementsMailbox == Spec => ImplementsMailbox
<1>1. Init => M!Init
  BY DEF Init, QueueInit, M!Init, Lost, Accepted
<1>2. IInv /\ IInv' /\ [Next]_vars => [M!Next]_(M!vars)
  BY RefinementStep
<1> QED
  BY <1>1, <1>2, Invariance, PTL DEF Spec, ImplementsMailbox, M!Spec

-----------------------------------------------------------------------------
(* Handshake: the types                                                    *)

Fetch == [step : {"asked"}] \cup [step : {"answered"}, bundle : Bundle]
Task == [session : Nat, key : Nat, pool : SUBSET Nat]

Initiator ==
  [open : BOOLEAN, mounts : Nat, acked : Nat, next : Nat, ready : BOOLEAN,
   session : Nat, fetch : Fetch \cup {None}, tasks : Seq(Bundle)]
Responder ==
  [open : BOOLEAN, mounts : Nat, acked : Nat, next : Nat, key : Nat,
   session : [id : Nat, good : BOOLEAN] \cup {None},
   publish : Step \cup {None}, late : SUBSET Step, tasks : Seq(Task)]

AliceType ==
  /\ alice \in Initiator
  /\ alice.acked <= alice.next /\ alice.next <= Len(queue.alice)
BobType ==
  /\ bob \in Responder
  /\ bob.acked <= bob.next /\ bob.next <= Len(queue.bob)
\* The tasks of Bob that are under way, in the open chat and in earlier ones.
Pending == bob.late \cup ({bob.publish} \ {None})
KeysType ==
  /\ store \in [key : Nat, pool : SUBSET Nat]
  /\ prekeys \in [key : Nat, onetime : SUBSET Nat]
  /\ IsFiniteSet(prekeys.onetime)
  /\ \A t \in Pending : t.step = "publish" => IsFiniteSet(t.fresh)
  /\ minted \in Nat
  /\ used \in Seq(Nat)
OfferType == [type : {"prekey_offer"}, key : Nat]
InitType == [type : {"session_init"}, session : 1 .. Len(made)]
NetType ==
  /\ posted \in [alice : SUBSET OfferType, bob : SUBSET InitType]
  /\ queue \in [alice : Seq(OfferType), bob : Seq(InitType)]
  /\ made \in Seq(Bundle)
  /\ \A i \in DOMAIN bob.tasks : bob.tasks[i].session \in DOMAIN made
FlagType == spoilt \in BOOLEAN /\ raced \in BOOLEAN /\ faults \in Nat
HandshakeTypeInv == AliceType /\ BobType /\ KeysType /\ NetType /\ FlagType

LEMMA NoneIsNothing ==
  /\ None \notin Nat /\ None \notin Step /\ None \notin Fetch
  BY HandshakeAssumption DEF HandshakeAssumption, Fetch

LEMMA PoolSizes ==
  /\ ONETIME_POOL_TARGET_SIZE \in Nat /\ ONETIME_REPLENISH_THRESHOLD \in Nat
  /\ ONETIME_REPLENISH_THRESHOLD <= ONETIME_POOL_TARGET_SIZE
  BY HandshakeAssumption DEF HandshakeAssumption

\* Min is the smallest element of a set of natural numbers.
LEMMA OldestKey ==
  ASSUME NEW S \in SUBSET Nat, S # {}
  PROVE  Min(S) \in S
<1> DEFINE R == OpToRel(<, Nat)
<1>1. \E x \in S : \A y \in S : <<y, x>> \notin R
  <2>1. IsWellFoundedOn(R, Nat)
    BY NatLessThanWellFounded
  <2> HIDE DEF R
  <2> QED
    BY <2>1, WFMin
<1>2. PICK x \in S : \A y \in S : <<y, x>> \notin R
  BY <1>1
<1>3. \A y \in S : x =< y
  <2> SUFFICES ASSUME NEW y \in S, ~(x =< y) PROVE FALSE
    OBVIOUS
  <2>1. x \in Nat /\ y \in Nat /\ y < x
    OBVIOUS
  <2>2. <<y, x>> \in R
    BY <2>1 DEF OpToRel
  <2> QED
    BY <2>2, <1>2
<1> QED
  BY <1>3 DEF Min

\* The updates the actions make to the two devices keep their shape.
LEMMA InitiatorUpdates ==
  ASSUME NEW a \in Initiator
  PROVE  /\ \A k, n \in Nat : [a EXCEPT !.acked = k, !.next = n] \in Initiator
         /\ \A b \in BOOLEAN, m, n, k \in Nat, f \in Fetch \cup {None} :
              [a EXCEPT !.open = b, !.mounts = m, !.acked = n, !.session = k, !.fetch = f]
                \in Initiator
         /\ \A b \in BOOLEAN, k \in Nat, f \in Fetch \cup {None} :
              [a EXCEPT !.open = b, !.session = k, !.fetch = f] \in Initiator
         /\ \A b, c \in BOOLEAN, k \in Nat, f \in Fetch \cup {None}, q \in Seq(Bundle) :
              [a EXCEPT !.open = b, !.session = k, !.fetch = f, !.ready = c, !.tasks = q]
                \in Initiator
         /\ \A f \in Fetch \cup {None} : [a EXCEPT !.fetch = f] \in Initiator
         /\ \A n \in Nat : [a EXCEPT !.next = n] \in Initiator
         /\ \A q \in Seq(Bundle) : [a EXCEPT !.tasks = q] \in Initiator
         /\ \A c \in BOOLEAN, k \in Nat : [a EXCEPT !.ready = c, !.session = k] \in Initiator
<1> DEFINE B == BOOLEAN
           F == Fetch \cup {None}
           Q == Seq(Bundle)
<1>1. a \in [open : B, mounts : Nat, acked : Nat, next : Nat, ready : B,
             session : Nat, fetch : F, tasks : Q]
  BY DEF Initiator
<1>2. Initiator = [open : B, mounts : Nat, acked : Nat, next : Nat, ready : B,
                   session : Nat, fetch : F, tasks : Q]
  BY DEF Initiator
<1>3. TRUE \in B /\ None \in F /\ <<>> \in Q
  OBVIOUS
<1> SUFFICES
      /\ \A k, n \in Nat : [a EXCEPT !.acked = k, !.next = n] \in Initiator
      /\ \A b \in B, m, n, k \in Nat, f \in F :
           [a EXCEPT !.open = b, !.mounts = m, !.acked = n, !.session = k, !.fetch = f]
             \in Initiator
      /\ \A b \in B, k \in Nat, f \in F :
           [a EXCEPT !.open = b, !.session = k, !.fetch = f] \in Initiator
      /\ \A b, c \in B, k \in Nat, f \in F, q \in Q :
           [a EXCEPT !.open = b, !.session = k, !.fetch = f, !.ready = c, !.tasks = q]
             \in Initiator
      /\ \A f \in F : [a EXCEPT !.fetch = f] \in Initiator
      /\ \A n \in Nat : [a EXCEPT !.next = n] \in Initiator
      /\ \A q \in Q : [a EXCEPT !.tasks = q] \in Initiator
      /\ \A c \in B, k \in Nat : [a EXCEPT !.ready = c, !.session = k] \in Initiator
  OBVIOUS
<1> HIDE DEF B, F, Q
<1> QED
  BY <1>1, <1>2, <1>3

LEMMA ResponderUpdates ==
  ASSUME NEW a \in Responder
  PROVE  /\ \A k, n \in Nat : [a EXCEPT !.acked = k, !.next = n] \in Responder
         /\ \A b \in BOOLEAN, m, n, k \in Nat, p \in Step \cup {None} :
              [a EXCEPT !.open = b, !.mounts = m, !.acked = n, !.key = k, !.session = None,
                        !.publish = p] \in Responder
         /\ \A b \in BOOLEAN, k \in Nat, p \in Step \cup {None} :
              [a EXCEPT !.open = b, !.key = k, !.session = None, !.publish = p] \in Responder
         /\ \A l \in SUBSET Step, q \in Seq(Task) : [a EXCEPT !.late = l, !.tasks = q] \in Responder
         /\ \A k \in Nat, p \in Step \cup {None} : [a EXCEPT !.key = k, !.publish = p] \in Responder
         /\ \A p \in Step \cup {None} : [a EXCEPT !.publish = p] \in Responder
         /\ \A l \in SUBSET Step : [a EXCEPT !.late = l] \in Responder
         /\ \A n \in Nat : [a EXCEPT !.next = n] \in Responder
         /\ \A s \in [id : Nat, good : BOOLEAN] : [a EXCEPT !.session = s] \in Responder
         /\ \A q \in Seq(Task) : [a EXCEPT !.tasks = q] \in Responder
<1> DEFINE B == BOOLEAN
           D == [id : Nat, good : BOOLEAN]
           S == D \cup {None}
           P == Step \cup {None}
           L == SUBSET Step
           Q == Seq(Task)
<1>1. Responder = [open : B, mounts : Nat, acked : Nat, next : Nat, key : Nat,
                   session : S, publish : P, late : L, tasks : Q]
  BY DEF Responder
<1>2. None \in S /\ \A d \in D : d \in S
  OBVIOUS
<1> SUFFICES
      /\ \A k, n \in Nat : [a EXCEPT !.acked = k, !.next = n] \in Responder
      /\ \A b \in B, m, n, k \in Nat, p \in P :
           [a EXCEPT !.open = b, !.mounts = m, !.acked = n, !.key = k, !.session = None,
                     !.publish = p] \in Responder
      /\ \A b \in B, k \in Nat, p \in P :
           [a EXCEPT !.open = b, !.key = k, !.session = None, !.publish = p] \in Responder
      /\ \A l \in L, q \in Q : [a EXCEPT !.late = l, !.tasks = q] \in Responder
      /\ \A k \in Nat, p \in P : [a EXCEPT !.key = k, !.publish = p] \in Responder
      /\ \A p \in P : [a EXCEPT !.publish = p] \in Responder
      /\ \A l \in L : [a EXCEPT !.late = l] \in Responder
      /\ \A n \in Nat : [a EXCEPT !.next = n] \in Responder
      /\ \A s \in D : [a EXCEPT !.session = s] \in Responder
      /\ \A q \in Q : [a EXCEPT !.tasks = q] \in Responder
  OBVIOUS
<1> HIDE DEF B, D, S, P, L, Q
<1> QED
  BY <1>1, <1>2

LEMMA HandshakeInitTypes == HandshakeInit => HandshakeTypeInv
<1> SUFFICES ASSUME HandshakeInit PROVE HandshakeTypeInv
  OBVIOUS
<1> USE DEF HandshakeInit
<1>1. AliceType
  BY DEF AliceType, Initiator, Fetch, Bundle
<1>2. BobType
  BY DEF BobType, Responder
<1>3. KeysType
  BY FS_EmptySet, NoneIsNothing DEF KeysType, Pending
<1>4. NetType
  BY DEF NetType
<1>5. FlagType
  BY DEF FlagType
<1> QED
  BY <1>1, <1>2, <1>3, <1>4, <1>5 DEF HandshakeTypeInv

LEMMA TypeFacts ==
  ASSUME HandshakeTypeInv
  PROVE  /\ alice \in Initiator /\ bob \in Responder
         /\ alice.open \in BOOLEAN /\ alice.mounts \in Nat /\ alice.acked \in Nat
         /\ alice.next \in Nat /\ alice.ready \in BOOLEAN /\ alice.session \in Nat
         /\ alice.fetch \in Fetch \cup {None} /\ alice.tasks \in Seq(Bundle)
         /\ bob.open \in BOOLEAN /\ bob.mounts \in Nat /\ bob.acked \in Nat
         /\ bob.next \in Nat /\ bob.key \in Nat /\ bob.publish \in Step \cup {None}
         /\ bob.late \in SUBSET Step /\ bob.tasks \in Seq(Task)
         /\ Len(queue.alice) \in Nat /\ Len(queue.bob) \in Nat /\ Len(made) \in Nat
         /\ queue.alice \in Seq(OfferType) /\ queue.bob \in Seq(InitType)
         /\ alice.next <= Len(queue.alice) /\ bob.next <= Len(queue.bob)
         /\ alice.acked <= alice.next /\ bob.acked <= bob.next
         /\ store.key \in Nat /\ store.pool \in SUBSET Nat
         /\ prekeys.key \in Nat /\ prekeys.onetime \in SUBSET Nat
         /\ minted \in Nat /\ made \in Seq(Bundle) /\ used \in Seq(Nat)
<1>1. alice \in Initiator /\ bob \in Responder
  BY DEF HandshakeTypeInv, AliceType, BobType
<1>2. queue.alice \in Seq(OfferType) /\ queue.bob \in Seq(InitType) /\ made \in Seq(Bundle)
  BY DEF HandshakeTypeInv, NetType
<1>3. Len(queue.alice) \in Nat /\ Len(queue.bob) \in Nat /\ Len(made) \in Nat
  BY <1>2
<1>4. /\ alice.next <= Len(queue.alice) /\ bob.next <= Len(queue.bob)
      /\ alice.acked <= alice.next /\ bob.acked <= bob.next
  BY DEF HandshakeTypeInv, AliceType, BobType
<1>5. /\ store.key \in Nat /\ store.pool \in SUBSET Nat
      /\ prekeys.key \in Nat /\ prekeys.onetime \in SUBSET Nat
      /\ minted \in Nat /\ used \in Seq(Nat)
  BY DEF HandshakeTypeInv, KeysType, Pending
<1>6. /\ alice.open \in BOOLEAN /\ alice.mounts \in Nat /\ alice.acked \in Nat
      /\ alice.next \in Nat /\ alice.ready \in BOOLEAN /\ alice.session \in Nat
      /\ alice.fetch \in Fetch \cup {None} /\ alice.tasks \in Seq(Bundle)
  BY <1>1 DEF Initiator
<1>7. /\ bob.open \in BOOLEAN /\ bob.mounts \in Nat /\ bob.acked \in Nat
      /\ bob.next \in Nat /\ bob.key \in Nat /\ bob.publish \in Step \cup {None}
      /\ bob.late \in SUBSET Step /\ bob.tasks \in Seq(Task)
  BY <1>1 DEF Responder
<1> QED
  BY <1>1, <1>2, <1>3, <1>4, <1>5, <1>6, <1>7

LEMMA ArriveTypes ==
  ASSUME HandshakeTypeInv, NEW to \in {"alice", "bob"}, Arrive(to)
  PROVE  HandshakeTypeInv'
<1> USE DEF Arrive, keys, history
<1>1. PICK envelope \in posted[to] :
        /\ posted' = [posted EXCEPT ![to] = @ \ {envelope}]
        /\ \/ /\ queue' = [queue EXCEPT ![to] = Append(@, envelope)]
              /\ UNCHANGED <<spoilt, faults>>
           \/ Fault /\ UNCHANGED queue
  OBVIOUS
<1>2. /\ \A x \in {"alice", "bob"} : queue'[x] = queue[x] \/
           (x = to /\ queue'[x] = Append(queue[x], envelope))
      /\ queue' \in [alice : Seq(OfferType), bob : Seq(InitType)]
  <2>1. CASE UNCHANGED queue
    BY <2>1 DEF HandshakeTypeInv, NetType
  <2>2. CASE queue' = [queue EXCEPT ![to] = Append(@, envelope)]
    <3>1. CASE to = "alice"
      <4>1. envelope \in OfferType
        BY <3>1 DEF HandshakeTypeInv, NetType
      <4>2. Append(queue.alice, envelope) \in Seq(OfferType)
        BY <4>1, AppendProperties DEF HandshakeTypeInv, NetType
      <4> QED
        BY <2>2, <3>1, <4>2 DEF HandshakeTypeInv, NetType
    <3>2. CASE to = "bob"
      <4>1. envelope \in InitType
        BY <3>2 DEF HandshakeTypeInv, NetType
      <4>2. Append(queue.bob, envelope) \in Seq(InitType)
        BY <4>1, AppendProperties DEF HandshakeTypeInv, NetType
      <4> QED
        BY <2>2, <3>2, <4>2 DEF HandshakeTypeInv, NetType
    <3> QED
      BY <3>1, <3>2
  <2> QED
    BY <1>1, <2>1, <2>2
<1>3. Len(queue'.alice) >= Len(queue.alice) /\ Len(queue'.bob) >= Len(queue.bob)
  BY <1>2 DEF HandshakeTypeInv, NetType
<1>4. AliceType' /\ BobType'
  BY <1>3 DEF HandshakeTypeInv, AliceType, BobType, Initiator, Responder
<1>5. KeysType'
  BY DEF HandshakeTypeInv, KeysType, Pending
<1>6. NetType'
  BY <1>1, <1>2 DEF HandshakeTypeInv, NetType, InitType
<1>7. FlagType'
  <2>1. UNCHANGED <<spoilt, faults>> \/ (spoilt' = TRUE /\ faults' = faults + 1)
    BY <1>1 DEF Fault
  <2>2. spoilt' \in BOOLEAN
    BY <2>1 DEF HandshakeTypeInv, FlagType
  <2>3. faults' \in Nat /\ raced' \in BOOLEAN
    BY <2>1 DEF HandshakeTypeInv, FlagType
  <2> QED
    BY <2>2, <2>3 DEF FlagType
<1> QED
  BY <1>4, <1>5, <1>6, <1>7 DEF HandshakeTypeInv

LEMMA RedeliverTypes == HandshakeTypeInv /\ Redeliver => HandshakeTypeInv'
<1> SUFFICES ASSUME HandshakeTypeInv, Redeliver PROVE HandshakeTypeInv'
  OBVIOUS
<1>0. UNCHANGED <<store, prekeys, minted, posted, queue, made, used, raced>> /\ Fault
  BY DEF Redeliver, keys, history
<1>1. \/ UNCHANGED bob /\ \E k \in alice.acked .. alice.next - 1 :
           alice' = [alice EXCEPT !.acked = k, !.next = k]
      \/ UNCHANGED alice /\ \E k \in bob.acked .. bob.next - 1 :
           bob' = [bob EXCEPT !.acked = k, !.next = k]
  BY DEF Redeliver, Rewound
<1>2. AliceType'
  <2>1. alice.acked \in Nat /\ alice.next \in Nat
    BY DEF HandshakeTypeInv, AliceType, Initiator
  <2>2. ASSUME NEW k \in alice.acked .. alice.next - 1,
               alice' = [alice EXCEPT !.acked = k, !.next = k]
        PROVE  alice' \in Initiator /\ alice'.acked <= alice'.next /\ alice'.next <= alice.next
    <3>1. alice \in Initiator /\ k \in Nat /\ k <= alice.next
      BY <2>1 DEF HandshakeTypeInv, AliceType
    <3>2. alice' \in Initiator
      BY <2>2, <3>1, InitiatorUpdates
    <3>3. alice'.acked = k /\ alice'.next = k
      BY <2>2, <3>1 DEF Initiator
    <3> QED
      BY <3>1, <3>2, <3>3
  <2>3. alice' \in Initiator /\ alice'.acked <= alice'.next /\ alice'.next <= alice.next
    <3>1. CASE alice' = alice
      BY <3>1, TypeFacts
    <3>2. CASE \E k \in alice.acked .. alice.next - 1 : alice' = [alice EXCEPT !.acked = k, !.next = k]
      BY <3>2, <2>2
    <3> QED
      BY <1>1, <3>1, <3>2
  <2>4. alice'.next \in Nat
    BY <2>3 DEF Initiator
  <2>5. Len(queue'.alice) = Len(queue.alice) /\ Len(queue'.bob) = Len(queue.bob)
    BY <1>0
  <2> QED
    <3>1. alice.next \in Nat /\ Len(queue.alice) \in Nat /\ alice.next <= Len(queue.alice)
      BY TypeFacts
    <3>2. alice'.next <= Len(queue'.alice)
      BY <2>3, <2>4, <2>5, <3>1
    <3> QED
      BY <2>3, <3>2 DEF AliceType
<1>3. BobType'
  <2>1. bob.acked \in Nat /\ bob.next \in Nat
    BY DEF HandshakeTypeInv, BobType, Responder
  <2>2. ASSUME NEW k \in bob.acked .. bob.next - 1,
               bob' = [bob EXCEPT !.acked = k, !.next = k]
        PROVE  bob' \in Responder /\ bob'.acked <= bob'.next /\ bob'.next <= bob.next
    <3>1. bob \in Responder /\ k \in Nat /\ k <= bob.next
      BY <2>1 DEF HandshakeTypeInv, BobType
    <3>2. bob' \in Responder
      BY <2>2, <3>1, ResponderUpdates
    <3>3. bob'.acked = k /\ bob'.next = k
      BY <2>2, <3>1 DEF Responder
    <3> QED
      BY <3>1, <3>2, <3>3
  <2>3. bob' \in Responder /\ bob'.acked <= bob'.next /\ bob'.next <= bob.next
    <3>1. CASE bob' = bob
      BY <3>1, TypeFacts
    <3>2. CASE \E k \in bob.acked .. bob.next - 1 : bob' = [bob EXCEPT !.acked = k, !.next = k]
      BY <3>2, <2>2
    <3> QED
      BY <1>1, <3>1, <3>2
  <2>4. bob'.next \in Nat
    BY <2>3 DEF Responder
  <2>5. Len(queue'.alice) = Len(queue.alice) /\ Len(queue'.bob) = Len(queue.bob)
    BY <1>0
  <2> QED
    <3>1. bob.next \in Nat /\ Len(queue.bob) \in Nat /\ bob.next <= Len(queue.bob)
      BY TypeFacts
    <3>2. bob'.next <= Len(queue'.bob)
      BY <2>3, <2>4, <2>5, <3>1
    <3> QED
      BY <2>3, <3>2 DEF BobType
<1>4. bob'.late = bob.late /\ bob'.publish = bob.publish /\ bob'.tasks = bob.tasks
  BY <1>1 DEF HandshakeTypeInv, BobType, Responder
<1>5. KeysType'
  BY <1>0, <1>4 DEF HandshakeTypeInv, KeysType, Pending
<1>6. NetType'
  BY <1>0, <1>4 DEF HandshakeTypeInv, NetType, InitType
<1>7. FlagType'
  BY <1>0 DEF HandshakeTypeInv, FlagType, Fault
<1> QED
  BY <1>2, <1>3, <1>5, <1>6, <1>7 DEF HandshakeTypeInv

LEMMA MountTypes ==
  HandshakeTypeInv /\ (AliceMounts \/ AliceLeaves \/ BobMounts \/ BobLeaves)
    => HandshakeTypeInv'
<1>1. ASSUME HandshakeTypeInv, AliceMounts \/ AliceLeaves PROVE HandshakeTypeInv'
  <2> USE <1>1 DEF keys, history
  <2>1. UNCHANGED <<bob, store, prekeys, minted, posted, queue, made, used, raced, spoilt, faults>>
    BY DEF AliceMounts, AliceLeaves
  <2>2. AliceType'
    <3>1. CASE AliceMounts
      <4>1. [step |-> "asked"] \in Fetch
        BY DEF Fetch
      <4>2. alice.mounts + 1 \in Nat /\ alice.next \in Nat
        BY DEF HandshakeTypeInv, AliceType, Initiator
      <4>3. alice' \in Initiator
        BY <3>1, <4>1, <4>2, InitiatorUpdates DEF AliceMounts, HandshakeTypeInv, AliceType
      <4> QED
        BY <3>1, <4>3 DEF AliceMounts, HandshakeTypeInv, AliceType, Initiator
    <3>2. CASE AliceLeaves
      <4>1. <<>> \in Seq(Bundle) /\ 0 \in Nat
        OBVIOUS
      <4>2. alice' \in Initiator
        <5>1. alice \in Initiator /\ None \in Fetch \cup {None} /\ FALSE \in BOOLEAN
          BY DEF HandshakeTypeInv, AliceType
        <5>2. /\ [alice EXCEPT !.open = FALSE, !.session = 0, !.fetch = None] \in Initiator
              /\ [alice EXCEPT !.open = FALSE, !.session = 0, !.fetch = None,
                               !.ready = FALSE, !.tasks = <<>>] \in Initiator
          BY <4>1, <5>1, InitiatorUpdates
        <5> QED
          BY <3>2, <5>2 DEF AliceLeaves
      <4> QED
        BY <3>2, <4>2 DEF AliceLeaves, HandshakeTypeInv, AliceType, Initiator
    <3> QED
      BY <1>1, <3>1, <3>2
  <2>3. BobType' /\ KeysType' /\ NetType' /\ FlagType'
    BY <2>1 DEF HandshakeTypeInv, BobType, KeysType, Pending, NetType, FlagType, InitType
  <2> QED
    BY <2>2, <2>3 DEF HandshakeTypeInv
<1>2. ASSUME HandshakeTypeInv, BobMounts \/ BobLeaves PROVE HandshakeTypeInv'
  <2> USE <1>2 DEF keys, history
  <2>1. UNCHANGED <<alice, store, prekeys, minted, posted, queue, made, used, raced, spoilt, faults>>
    BY DEF BobMounts, BobLeaves
  <2>2. /\ bob'.tasks = bob.tasks \/ bob'.tasks = <<>>
        /\ Pending' \subseteq Pending \cup {[step |-> "load"]}
        /\ BobType'
    <3>1. CASE BobMounts
      <4>1. [step |-> "load"] \in Step
        BY DEF Step
      <4>2. bob.mounts + 1 \in Nat /\ bob.next \in Nat /\ 0 \in Nat
        BY DEF HandshakeTypeInv, BobType, Responder
      <4>3. bob' \in Responder
        BY <3>1, <4>1, <4>2, ResponderUpdates DEF BobMounts, HandshakeTypeInv, BobType
      <4> QED
        <5>1. /\ bob'.tasks = bob.tasks /\ bob'.late = bob.late
              /\ bob'.publish = [step |-> "load"]
              /\ bob'.acked = bob.next /\ bob'.next = bob.next
          BY <3>1 DEF BobMounts, HandshakeTypeInv, BobType, Responder
        <5> QED
          <6>1. BobType'
            BY <5>1, <4>3, <2>1, TypeFacts DEF BobType
          <6> QED
            BY <5>1, <6>1 DEF Pending
    <3>2. CASE BobLeaves
      <4> DEFINE closed == [bob EXCEPT !.open = FALSE, !.key = 0, !.session = None, !.publish = None]
                 underway == {t \in {bob.publish} : \E step \in {"load", "top up", "publish"} : At(step)}
      <4>1. underway \subseteq Step /\ underway \subseteq {bob.publish} \ {None}
        BY DEF At, HandshakeTypeInv, BobType, Responder
      <4>2. \/ bob' = [closed EXCEPT !.late = @ \cup underway]
            \/ bob' = [closed EXCEPT !.late = {}, !.tasks = <<>>]
        BY <3>2 DEF BobLeaves
      <4>3. bob \in Responder
        BY DEF HandshakeTypeInv, BobType
      <4>4. closed \in Responder
        <5>1. 0 \in Nat /\ None \in Step \cup {None}
          OBVIOUS
        <5> QED
          BY <4>3, <5>1, ResponderUpdates
      <4>5. closed.late = bob.late /\ closed.tasks = bob.tasks /\ closed.publish = None
            /\ closed.acked = bob.acked /\ closed.next = bob.next
        BY <4>3 DEF Responder
      <4> HIDE DEF underway, closed
      <4>6. closed.late \cup underway \in SUBSET Step /\ {} \in SUBSET Step /\ <<>> \in Seq(Task)
        BY <4>1, <4>4 DEF Responder
      <4>7. bob' \in Responder
        <5>1. [closed EXCEPT !.late = closed.late \cup underway] \in Responder
          BY <4>4, <4>6, ResponderUpdates
        <5>2. [closed EXCEPT !.late = {}, !.tasks = <<>>] \in Responder
          BY <4>4, <4>6, ResponderUpdates
        <5> QED
          BY <4>2, <5>1, <5>2
      <4>8. /\ bob'.late \subseteq bob.late \cup underway
            /\ bob'.tasks \in {bob.tasks, <<>>} /\ bob'.publish = None
            /\ bob'.acked = bob.acked /\ bob'.next = bob.next
        BY <4>2, <4>4, <4>5 DEF Responder
      <4> QED
        <5>1. BobType'
          BY <4>7, <4>8, <2>1 DEF HandshakeTypeInv, BobType
        <5>2. Pending' \subseteq Pending \cup {[step |-> "load"]}
          BY <4>1, <4>8 DEF Pending
        <5> QED
          BY <5>1, <5>2, <4>8
    <3> QED
      BY <1>2, <3>1, <3>2
  <2>3. AliceType' /\ FlagType'
    BY <2>1 DEF HandshakeTypeInv, AliceType, FlagType
  <2>4. KeysType'
    BY <2>1, <2>2 DEF HandshakeTypeInv, KeysType, Pending
  <2>5. NetType'
    BY <2>1, <2>2 DEF HandshakeTypeInv, NetType, InitType
  <2> QED
    BY <2>2, <2>3, <2>4, <2>5 DEF HandshakeTypeInv
<1> QED
  BY <1>1, <1>2

LEMMA FetchTypes == HandshakeTypeInv /\ (ServeFetch \/ FetchFails) => HandshakeTypeInv'
<1> SUFFICES ASSUME HandshakeTypeInv, ServeFetch \/ FetchFails PROVE HandshakeTypeInv'
  OBVIOUS
<1>1. /\ UNCHANGED <<bob, store, minted, posted, queue, made, used, raced>>
      /\ \/ UNCHANGED <<spoilt, faults>>
         \/ Fault
  BY DEF ServeFetch, FetchFails, keys, history
<1>2. alice.fetch # None
  BY DEF ServeFetch, FetchFails, Asked
<1>3. prekeys.onetime # {} => HandedOut \in prekeys.onetime
  BY TypeFacts, OldestKey DEF HandedOut
<1>4. [step |-> "answered", bundle |-> [key |-> prekeys.key, onetime |-> HandedOut]] \in Fetch
  <2>1. HandedOut \in Nat \cup {None} /\ prekeys.key \in Nat
    BY <1>3, TypeFacts DEF HandedOut
  <2> QED
    BY <2>1 DEF Fetch, Bundle
<1>5. \E f \in Fetch \cup {None} : alice' = [alice EXCEPT !.fetch = f]
  BY <1>4 DEF ServeFetch, FetchFails
<1>6. AliceType'
  <2>1. PICK f \in Fetch \cup {None} : alice' = [alice EXCEPT !.fetch = f]
    BY <1>5
  <2>2. alice \in Initiator
    BY TypeFacts
  <2>3. alice' \in Initiator
    BY <2>1, <2>2, InitiatorUpdates
  <2>4. alice'.acked = alice.acked /\ alice'.next = alice.next
    BY <2>1, <2>2 DEF Initiator
  <2> QED
    BY <2>3, <2>4, <1>1 DEF HandshakeTypeInv, AliceType
<1>7. /\ prekeys' \in [key : Nat, onetime : SUBSET Nat]
      /\ IsFiniteSet(prekeys'.onetime)
  <2>1. prekeys' = prekeys \/ prekeys' = AfterPop
    BY DEF ServeFetch, FetchFails, keys
  <2>2. IsFiniteSet(prekeys.onetime \ {HandedOut})
    BY FS_Subset DEF HandshakeTypeInv, KeysType, Pending
  <2> QED
    BY <2>1, <2>2 DEF HandshakeTypeInv, KeysType, AfterPop
<1>8. BobType' /\ NetType'
  BY <1>1 DEF HandshakeTypeInv, BobType, NetType, InitType
<1>9. KeysType'
  BY <1>1, <1>7 DEF HandshakeTypeInv, KeysType, Pending
<1>10. FlagType'
  <2>1. UNCHANGED <<spoilt, faults>> \/ (spoilt' = TRUE /\ faults' = faults + 1)
    BY <1>1 DEF Fault
  <2>2. spoilt' \in BOOLEAN
    BY <2>1 DEF HandshakeTypeInv, FlagType
  <2>3. faults' \in Nat /\ raced' \in BOOLEAN
    BY <2>1, <1>1 DEF HandshakeTypeInv, FlagType
  <2> QED
    BY <2>2, <2>3 DEF FlagType
<1> QED
  BY <1>6, <1>8, <1>9, <1>10 DEF HandshakeTypeInv

\* The device that goes on after a fetched bundle, an offer, or a wait.
Going(device) ==
  /\ device \in Initiator
  /\ device.acked <= device.next /\ device.next <= Len(queue.alice)

LEMMA SeqGrows ==
  ASSUME NEW S, NEW T, S \subseteq T, NEW q \in Seq(S)
  PROVE  q \in Seq(T)
<1>1. Len(q) \in Nat /\ q \in [1 .. Len(q) -> T]
  OBVIOUS
<1> QED
  BY <1>1

LEMMA CreateTypes ==
  ASSUME HandshakeTypeInv, NEW device, Going(device), NEW bundle \in Bundle,
         Create(device, bundle),
         UNCHANGED <<bob, keys, queue, history, faults>>
  PROVE  HandshakeTypeInv'
<1>1. UNCHANGED <<bob, store, prekeys, minted, queue, used, raced, faults>>
  BY DEF keys, history
<1>2. /\ made' = Append(made, bundle) /\ made' \in Seq(Bundle) /\ Len(made') = Len(made) + 1
      /\ Len(made) \in Nat
  BY TypeFacts DEF Create
<1>3. AliceType'
  <2>1. \E k \in Nat : alice' = [device EXCEPT !.ready = TRUE, !.session = k]
    <3> DEFINE k == IF device.open THEN Len(made) + 1 ELSE 0
    <3>1. k \in Nat
      BY <1>2
    <3>2. alice' = [device EXCEPT !.ready = TRUE, !.session = k]
      BY DEF Create
    <3> HIDE DEF k
    <3> QED
      BY <3>1, <3>2
  <2>2. PICK k \in Nat : alice' = [device EXCEPT !.ready = TRUE, !.session = k]
    BY <2>1
  <2>3. device \in Initiator
    BY DEF Going
  <2>4. alice' \in Initiator
    BY <2>2, <2>3, InitiatorUpdates
  <2>5. alice'.acked = device.acked /\ alice'.next = device.next
    BY <2>2, <2>3 DEF Initiator
  <2> QED
    BY <2>4, <2>5, <1>1 DEF AliceType, Going
<1>4. NetType'
  <2>1. 1 .. Len(made) \subseteq 1 .. Len(made') /\ Len(made) + 1 \in 1 .. Len(made')
    BY <1>2
  <2>2. InitType \subseteq InitType' /\ SessionInit(Len(made) + 1) \in InitType'
    BY <2>1 DEF InitType, SessionInit
  <2>3. posted' = [posted EXCEPT !.bob = @ \cup {SessionInit(Len(made) + 1)}]
    BY DEF Create
  <2>4. posted' \in [alice : SUBSET OfferType, bob : SUBSET InitType']
    BY <2>2, <2>3 DEF HandshakeTypeInv, NetType
  <2>5. queue.bob \in Seq(InitType')
    BY <2>2, TypeFacts, SeqGrows
  <2>6. queue' \in [alice : Seq(OfferType), bob : Seq(InitType')]
    BY <1>1, <2>5 DEF HandshakeTypeInv, NetType
  <2>7. DOMAIN made \subseteq DOMAIN made'
    <3>1. DOMAIN made = 1 .. Len(made) /\ DOMAIN made' = 1 .. Len(made')
      BY <1>2, TypeFacts
    <3> QED
      BY <2>1, <3>1
  <2>8. OfferType' = OfferType
    BY DEF OfferType
  <2> QED
    BY <1>1, <1>2, <2>4, <2>6, <2>7 DEF HandshakeTypeInv, NetType, OfferType
<1>5. BobType' /\ KeysType'
  BY <1>1 DEF HandshakeTypeInv, BobType, KeysType, Pending
<1>6. FlagType'
  <2>1. spoilt' \in BOOLEAN
    BY DEF Create
  <2> QED
    BY <2>1, <1>1 DEF HandshakeTypeInv, FlagType
<1> QED
  BY <1>3, <1>4, <1>5, <1>6 DEF HandshakeTypeInv

LEMMA InitiateTypes ==
  ASSUME HandshakeTypeInv, NEW device, Going(device), NEW bundle \in Bundle,
         Initiate(device, bundle)
  PROVE  HandshakeTypeInv'
<1>1. CASE Create(device, bundle)
  BY <1>1, CreateTypes DEF Initiate
<1>2. CASE /\ alice' = device \/ alice' = [device EXCEPT !.tasks = Append(@, bundle)]
           /\ UNCHANGED <<posted, made, spoilt>>
  <2>1. UNCHANGED <<bob, store, prekeys, minted, queue, used, raced, faults, posted, made, spoilt>>
    BY <1>2 DEF Initiate, keys, history
  <2>2. device \in Initiator
    BY DEF Going
  <2>3. Append(device.tasks, bundle) \in Seq(Bundle)
    BY <2>2, AppendProperties DEF Initiator
  <2>4. alice' \in Initiator
    BY <1>2, <2>2, <2>3, InitiatorUpdates
  <2>5. alice'.acked = device.acked /\ alice'.next = device.next
    BY <1>2, <2>2 DEF Initiator
  <2>6. AliceType'
    BY <2>4, <2>5, <2>1 DEF AliceType, Going
  <2>7. BobType' /\ KeysType' /\ NetType' /\ FlagType'
    BY <2>1 DEF HandshakeTypeInv, BobType, KeysType, Pending, NetType, InitType, FlagType
  <2> QED
    BY <2>6, <2>7 DEF HandshakeTypeInv
<1> QED
  BY <1>1, <1>2 DEF Initiate

\* What the three steps that use a bundle go on with.
LEMMA UseFetchedGoes ==
  ASSUME HandshakeTypeInv, UseFetched
  PROVE  /\ alice.fetch \in Fetch /\ alice.fetch.bundle \in Bundle
         /\ Going([alice EXCEPT !.fetch = None])
<1>1. alice \in Initiator /\ alice.fetch \in Fetch
  BY TypeFacts DEF UseFetched
<1>2. alice.fetch.bundle \in Bundle
  BY <1>1 DEF UseFetched, Fetch
<1>3. [alice EXCEPT !.fetch = None] \in Initiator
  BY <1>1, InitiatorUpdates
<1>4. Going([alice EXCEPT !.fetch = None])
  BY <1>1, <1>3, TypeFacts DEF Going, Initiator
<1> QED
  BY <1>1, <1>2, <1>4

LEMMA UseOfferGoes ==
  ASSUME HandshakeTypeInv, UseOffer
  PROVE  /\ queue.alice[alice.next + 1] \in OfferType
         /\ [key |-> queue.alice[alice.next + 1].key, onetime |-> None] \in Bundle
         /\ Going([alice EXCEPT !.next = @ + 1])
<1>1. /\ alice \in Initiator /\ alice.next + 1 \in 1 .. Len(queue.alice)
      /\ alice.next + 1 \in Nat
  <2>1. alice \in Initiator /\ alice.next \in Nat /\ Len(queue.alice) \in Nat
    BY TypeFacts
  <2>2. alice.next < Len(queue.alice)
    BY DEF UseOffer
  <2> QED
    BY <2>1, <2>2
<1>2. queue.alice[alice.next + 1] \in OfferType
  BY <1>1, TypeFacts
<1>3. [key |-> queue.alice[alice.next + 1].key, onetime |-> None] \in Bundle
  BY <1>2 DEF OfferType, Bundle
<1>4. [alice EXCEPT !.next = alice.next + 1] \in Initiator
  BY <1>1, InitiatorUpdates
<1>5. Going([alice EXCEPT !.next = @ + 1])
  <2>1. /\ [alice EXCEPT !.next = @ + 1].next = alice.next + 1
        /\ [alice EXCEPT !.next = @ + 1].acked = alice.acked
    BY <1>1 DEF Initiator
  <2> QED
    BY <1>1, <1>4, <2>1, TypeFacts DEF Going
<1> QED
  BY <1>2, <1>3, <1>5

LEMMA ResumeGoes ==
  ASSUME HandshakeTypeInv, Resume
  PROVE  /\ Head(alice.tasks) \in Bundle
         /\ Going([alice EXCEPT !.tasks = Tail(@)])
<1>1. alice \in Initiator /\ alice.tasks \in Seq(Bundle) /\ alice.tasks # <<>>
  BY TypeFacts DEF Resume
<1>2. Head(alice.tasks) \in Bundle /\ Tail(alice.tasks) \in Seq(Bundle)
  BY <1>1
<1>3. [alice EXCEPT !.tasks = Tail(alice.tasks)] \in Initiator
  BY <1>1, <1>2, InitiatorUpdates
<1>4. Going([alice EXCEPT !.tasks = Tail(@)])
  BY <1>1, <1>3, TypeFacts DEF Going, Initiator
<1> QED
  BY <1>2, <1>4

LEMMA UseTypes == HandshakeTypeInv /\ (UseFetched \/ UseOffer \/ Resume) => HandshakeTypeInv'
<1>1. ASSUME HandshakeTypeInv, UseFetched PROVE HandshakeTypeInv'
  BY <1>1, UseFetchedGoes, InitiateTypes DEF UseFetched
<1>2. ASSUME HandshakeTypeInv, UseOffer PROVE HandshakeTypeInv'
  BY <1>2, UseOfferGoes, InitiateTypes DEF UseOffer
<1>3. ASSUME HandshakeTypeInv, Resume PROVE HandshakeTypeInv'
  BY <1>3, ResumeGoes, CreateTypes DEF Resume
<1> QED
  BY <1>1, <1>2, <1>3

\* Bob's publication goes on, or a task of an earlier mount ends.
LEMMA PublicationGoes ==
  ASSUME HandshakeTypeInv, NEW p \in Step \cup {None}, bob' = [bob EXCEPT !.publish = p],
         queue' = queue
  PROVE  /\ BobType' /\ bob'.publish = p /\ bob'.late = bob.late
         /\ bob'.tasks = bob.tasks /\ bob'.open = bob.open /\ bob'.key = bob.key
         /\ bob'.next = bob.next /\ bob'.session = bob.session
<1>1. bob \in Responder
  BY TypeFacts
<1>2. bob' \in Responder
  BY <1>1, ResponderUpdates
<1>3. /\ bob'.publish = p /\ bob'.late = bob.late
      /\ bob'.tasks = bob.tasks /\ bob'.open = bob.open /\ bob'.key = bob.key
      /\ bob'.next = bob.next /\ bob'.session = bob.session /\ bob'.acked = bob.acked
  BY <1>1 DEF Responder
<1>4. BobType'
  BY <1>2, <1>3 DEF HandshakeTypeInv, BobType
<1> QED
  BY <1>3, <1>4

LEMMA LateGoes ==
  ASSUME HandshakeTypeInv, NEW t, bob' = [bob EXCEPT !.late = @ \ {t}],
         queue' = queue
  PROVE  /\ BobType' /\ bob'.publish = bob.publish /\ bob'.late = bob.late \ {t}
         /\ bob'.tasks = bob.tasks /\ bob'.open = bob.open /\ bob'.key = bob.key
         /\ bob'.next = bob.next /\ bob'.session = bob.session
<1>1. bob \in Responder /\ bob.late \ {t} \in SUBSET Step
  BY TypeFacts
<1>2. bob' \in Responder
  BY <1>1, ResponderUpdates
<1>3. /\ bob'.publish = bob.publish /\ bob'.late = bob.late \ {t}
      /\ bob'.tasks = bob.tasks /\ bob'.open = bob.open /\ bob'.key = bob.key
      /\ bob'.next = bob.next /\ bob'.session = bob.session /\ bob'.acked = bob.acked
  BY <1>1 DEF Responder
<1>4. BobType'
  BY <1>2, <1>3 DEF HandshakeTypeInv, BobType
<1> QED
  BY <1>3, <1>4

\* What a task is, by its step.
LEMMA TaskKinds ==
  ASSUME NEW t \in Step
  PROVE  /\ t # None
         /\ t.step = "offer" => t.key \in Nat
         /\ t.step = "top up" => t.pool \in SUBSET Nat /\ t.need \in Nat
         /\ t.step = "publish" => t.key \in Nat /\ t.fresh \in SUBSET Nat
  BY NoneIsNothing DEF Step

LEMMA StepFacts ==
  /\ [step |-> "load"] \in Step /\ [step |-> "status"] \in Step
  /\ \A k \in Nat : [step |-> "offer", key |-> k] \in Step
  /\ \A p \in SUBSET Nat, n \in Nat : [step |-> "top up", pool |-> p, need |-> n] \in Step
  /\ \A k \in Nat, f \in SUBSET Nat : [step |-> "publish", key |-> k, fresh |-> f] \in Step
  BY DEF Step

LEMMA AtFacts ==
  ASSUME HandshakeTypeInv, NEW s, At(s)
  PROVE  bob.publish \in Step /\ bob.publish.step = s /\ bob.publish \in Pending
  BY TypeFacts DEF At, Pending

LEMMA StoreUpdates ==
  ASSUME NEW s \in [key : Nat, pool : SUBSET Nat]
  PROVE  /\ \A k \in Nat :
              /\ [s EXCEPT !.key = k] \in [key : Nat, pool : SUBSET Nat]
              /\ [s EXCEPT !.key = k].key = k /\ [s EXCEPT !.key = k].pool = s.pool
         /\ \A p \in SUBSET Nat :
              /\ [s EXCEPT !.pool = p] \in [key : Nat, pool : SUBSET Nat]
              /\ [s EXCEPT !.pool = p].key = s.key /\ [s EXCEPT !.pool = p].pool = p
<1> DEFINE P == SUBSET Nat
<1> SUFFICES ASSUME s \in [key : Nat, pool : P]
             PROVE  /\ \A k \in Nat :
                         /\ [s EXCEPT !.key = k] \in [key : Nat, pool : P]
                         /\ [s EXCEPT !.key = k].key = k /\ [s EXCEPT !.key = k].pool = s.pool
                    /\ \A p \in P :
                         /\ [s EXCEPT !.pool = p] \in [key : Nat, pool : P]
                         /\ [s EXCEPT !.pool = p].key = s.key /\ [s EXCEPT !.pool = p].pool = p
  OBVIOUS
<1> HIDE DEF P
<1> QED
  OBVIOUS

LEMMA LoadTypes == HandshakeTypeInv /\ LoadIdentity => HandshakeTypeInv'
<1> SUFFICES ASSUME HandshakeTypeInv, LoadIdentity PROVE HandshakeTypeInv'
  OBVIOUS
<1>1. UNCHANGED <<alice, prekeys, minted, posted, queue, made, used, raced, faults>>
  BY DEF LoadIdentity, history
<1>2. GetOrRotate
  BY DEF LoadIdentity
<1>3. store' \in [key : Nat, pool : SUBSET Nat] /\ store'.key \in Nat
  <2>1. store' = store \/ store' = [store EXCEPT !.key = @ + 1]
    BY <1>2 DEF GetOrRotate
  <2>2. store \in [key : Nat, pool : SUBSET Nat] /\ store.key + 1 \in Nat
    BY TypeFacts DEF HandshakeTypeInv, KeysType
  <2> QED
    BY <2>1, <2>2, StoreUpdates
<1>4. /\ BobType' /\ bob'.tasks = bob.tasks
      /\ \A t \in Pending' : t \in Pending \/ t.step = "offer"
  <2>1. CASE At("load") /\ Publishing([step |-> "offer", key |-> store'.key])
    <3>1. bob' = [bob EXCEPT !.publish = [step |-> "offer", key |-> store'.key]]
      BY <2>1 DEF Publishing
    <3>2. [step |-> "offer", key |-> store'.key] \in Step
      BY <1>3, StepFacts
    <3> QED
      BY <3>1, <3>2, <1>1, PublicationGoes DEF Pending
  <2>2. CASE \E t \in bob.late : bob' = [bob EXCEPT !.late = @ \ {t}]
    BY <2>2, <1>1, LateGoes DEF Pending
  <2> QED
    BY <2>1, <2>2 DEF LoadIdentity
<1>5. AliceType' /\ NetType'
  BY <1>1, <1>4 DEF HandshakeTypeInv, AliceType, NetType, InitType
<1>6. KeysType'
  BY <1>1, <1>3, <1>4 DEF HandshakeTypeInv, KeysType
<1>7. FlagType'
  <2>1. spoilt' \in BOOLEAN
    BY <1>2 DEF GetOrRotate, HandshakeTypeInv, FlagType
  <2> QED
    BY <2>1, <1>1 DEF HandshakeTypeInv, FlagType
<1> QED
  BY <1>4, <1>5, <1>6, <1>7 DEF HandshakeTypeInv

LEMMA PushOfferTypes == HandshakeTypeInv /\ PushOffer => HandshakeTypeInv'
<1> SUFFICES ASSUME HandshakeTypeInv, PushOffer PROVE HandshakeTypeInv'
  OBVIOUS
<1>1. UNCHANGED <<alice, store, prekeys, minted, queue, made, used, raced, spoilt, faults>>
  BY DEF PushOffer, keys, history
<1>2. bob.publish \in Step /\ bob.publish.key \in Nat
  BY AtFacts, TaskKinds DEF PushOffer
<1>3. /\ BobType' /\ bob'.tasks = bob.tasks
      /\ bob'.publish.step = "status" /\ bob'.late = bob.late
  <2>1. bob \in Responder
    BY TypeFacts
  <2>2. bob' = [bob EXCEPT !.key = bob.publish.key, !.publish = [step |-> "status"]]
    BY DEF PushOffer
  <2>3. bob' \in Responder
    BY <2>1, <2>2, <1>2, StepFacts, ResponderUpdates
  <2>4. /\ bob'.tasks = bob.tasks /\ bob'.publish = [step |-> "status"] /\ bob'.late = bob.late
        /\ bob'.next = bob.next /\ bob'.acked = bob.acked
    BY <2>1, <2>2 DEF Responder
  <2> QED
    BY <2>3, <2>4, <1>1 DEF HandshakeTypeInv, BobType
<1>4. AliceType' /\ FlagType'
  BY <1>1 DEF HandshakeTypeInv, AliceType, FlagType
<1>5. NetType'
  <2>1. Offer(bob.publish.key) \in OfferType
    BY <1>2 DEF Offer, OfferType
  <2>2. posted' \in [alice : SUBSET OfferType, bob : SUBSET InitType]
    BY <2>1 DEF PushOffer, HandshakeTypeInv, NetType
  <2> QED
    BY <2>2, <1>1, <1>3 DEF HandshakeTypeInv, NetType, InitType
<1>6. KeysType'
  BY <1>1, <1>3 DEF HandshakeTypeInv, KeysType, Pending
<1> QED
  BY <1>3, <1>4, <1>5, <1>6 DEF HandshakeTypeInv

\* After the status, the pool is topped up, or the bundle published without keys.
LEMMA AskStatusGoes ==
  ASSUME HandshakeTypeInv, AskStatus
  PROVE  \E p \in Step :
           /\ bob' = [bob EXCEPT !.publish = p]
           /\ p.step \in {"top up", "publish"}
           /\ p.step = "top up" => p.pool = store.pool
           /\ p.step = "publish" => p.key = bob.key /\ p.fresh = {}
<1> DEFINE count == Cardinality(prekeys.onetime)
           topUp == [step |-> "top up", pool |-> store.pool,
                     need |-> ONETIME_POOL_TARGET_SIZE - count]
           publish == [step |-> "publish", key |-> bob.key, fresh |-> {}]
<1>1. count \in Nat
  BY FS_CardinalityType DEF HandshakeTypeInv, KeysType
<1>2. \/ count < ONETIME_REPLENISH_THRESHOLD /\ bob' = [bob EXCEPT !.publish = topUp]
      \/ bob' = [bob EXCEPT !.publish = publish]
  BY DEF AskStatus, Publishing
<1>3. count < ONETIME_REPLENISH_THRESHOLD => topUp \in Step
  <2> SUFFICES ASSUME count < ONETIME_REPLENISH_THRESHOLD PROVE topUp \in Step
    OBVIOUS
  <2>1. ONETIME_POOL_TARGET_SIZE - count \in Nat
    BY <1>1, PoolSizes
  <2> QED
    BY <2>1, TypeFacts, StepFacts
<1>4. publish \in Step
  BY TypeFacts, StepFacts
<1>5. /\ topUp.step = "top up" /\ topUp.pool = store.pool
      /\ publish.step = "publish" /\ publish.key = bob.key /\ publish.fresh = {}
  OBVIOUS
<1> HIDE DEF count, topUp, publish
<1> QED
  BY <1>2, <1>3, <1>4, <1>5

LEMMA AskStatusTypes == HandshakeTypeInv /\ AskStatus => HandshakeTypeInv'
<1> SUFFICES ASSUME HandshakeTypeInv, AskStatus PROVE HandshakeTypeInv'
  OBVIOUS
<1>1. UNCHANGED <<alice, store, prekeys, minted, posted, queue, made, used, raced, spoilt, faults>>
  BY DEF AskStatus, keys, history
<1>2. PICK p \in Step : bob' = [bob EXCEPT !.publish = p] /\ (p.step = "publish" => p.fresh = {})
  BY AskStatusGoes
<1>3. BobType' /\ bob'.publish = p /\ bob'.late = bob.late /\ bob'.tasks = bob.tasks
  BY <1>1, <1>2, PublicationGoes
<1>4. AliceType' /\ FlagType' /\ NetType'
  BY <1>1, <1>3 DEF HandshakeTypeInv, AliceType, FlagType, NetType, InitType
<1>5. KeysType'
  BY <1>1, <1>2, <1>3, FS_EmptySet DEF HandshakeTypeInv, KeysType, Pending
<1> QED
  BY <1>3, <1>4, <1>5 DEF HandshakeTypeInv

\* The keys that follow the last one that was minted.
LEMMA FreshKeys ==
  ASSUME NEW m \in Nat, NEW n \in Nat
  PROVE  /\ m + 1 .. m + n \in SUBSET Nat /\ IsFiniteSet(m + 1 .. m + n)
         /\ \A k \in m + 1 .. m + n : k \in 1 .. m + n /\ k > m
         /\ m + n \in Nat
<1>1. m + 1 \in Int /\ m + n \in Int
  OBVIOUS
<1>2. IsFiniteSet(m + 1 .. m + n)
  BY <1>1, FS_Interval
<1> QED
  BY <1>2

\* What is saved.
LEMMA SavePoolTypes ==
  ASSUME HandshakeTypeInv, NEW t \in Step, t.step = "top up", SavePool(t)
  PROVE  /\ store' \in [key : Nat, pool : SUBSET Nat] /\ store'.key = store.key
         /\ store'.pool = t.pool \cup Fresh(t)
         /\ minted' \in Nat /\ minted' = minted + t.need
         /\ Fresh(t) \in SUBSET Nat /\ IsFiniteSet(Fresh(t))
         /\ \A k \in Fresh(t) : k \in 1 .. minted' /\ k > minted
<1> DEFINE n == t.need
           fresh == Fresh(t)
<1>1. t.pool \in SUBSET Nat
  BY TaskKinds
<1>2. n \in Nat /\ minted \in Nat
  BY TaskKinds, TypeFacts
<1>3. fresh = minted + 1 .. minted + n
  BY DEF Fresh
<1>4. minted' = minted + n
  BY DEF SavePool
<1>5. store \in [key : Nat, pool : SUBSET Nat]
  BY DEF HandshakeTypeInv, KeysType
<1>6. store' = [store EXCEPT !.pool = t.pool \cup fresh]
  BY DEF SavePool, ToppedUp
<1> HIDE DEF n, fresh
<1>7. /\ fresh \in SUBSET Nat /\ IsFiniteSet(fresh)
      /\ \A k \in fresh : k \in 1 .. minted + n /\ k > minted
  BY <1>2, <1>3, FreshKeys
<1>8. t.pool \cup fresh \in SUBSET Nat
  BY <1>1, <1>7
<1>9. /\ store' \in [key : Nat, pool : SUBSET Nat] /\ store'.key = store.key
      /\ store'.pool = t.pool \cup fresh
  BY <1>5, <1>6, <1>8, StoreUpdates
<1>10. minted' \in Nat
  BY <1>2, <1>4, FreshKeys
<1> QED
  BY <1>4, <1>7, <1>9, <1>10 DEF n, fresh

LEMMA TopUpCases ==
  ASSUME HandshakeTypeInv, TopUp
  PROVE  \/ /\ At("top up") /\ bob.publish \in Step /\ SavePool(bob.publish)
            /\ [step |-> "publish", key |-> bob.key, fresh |-> Fresh(bob.publish)] \in Step
            /\ bob' = [bob EXCEPT !.publish = [step |-> "publish", key |-> bob.key,
                                               fresh |-> Fresh(bob.publish)]]
         \/ \E t \in bob.late : /\ t \in Step /\ t.step = "top up" /\ SavePool(t)
                                /\ bob' = [bob EXCEPT !.late = @ \ {t}]
<1>1. CASE At("top up") /\ SavePool(bob.publish)
           /\ Publishing([step |-> "publish", key |-> bob.key, fresh |-> Fresh(bob.publish)])
  <2>1. bob.publish \in Step /\ bob.publish.step = "top up"
    BY <1>1, AtFacts
  <2>2. Fresh(bob.publish) \in SUBSET Nat
    BY <1>1, <2>1, SavePoolTypes
  <2>3. [step |-> "publish", key |-> bob.key, fresh |-> Fresh(bob.publish)] \in Step
    BY <2>2, TypeFacts, StepFacts
  <2> QED
    BY <1>1, <2>1, <2>3 DEF Publishing
<1>2. CASE \E t \in bob.late : /\ t.step = "top up" /\ SavePool(t)
                               /\ bob' = [bob EXCEPT !.late = @ \ {t}]
  BY <1>2, TypeFacts
<1> QED
  BY <1>1, <1>2 DEF TopUp

LEMMA TopUpTypes == HandshakeTypeInv /\ TopUp => HandshakeTypeInv'
<1> SUFFICES ASSUME HandshakeTypeInv, TopUp PROVE HandshakeTypeInv'
  OBVIOUS
<1>1. UNCHANGED <<alice, prekeys, posted, queue, made, used, spoilt, faults>>
  BY DEF TopUp
<1>2. \E t \in Step :
        /\ t.step = "top up" /\ SavePool(t)
        /\ BobType' /\ bob'.tasks = bob.tasks
        /\ \A u \in Pending' : u \in Pending \/ (u.step = "publish" => u.fresh = Fresh(t))
  <2>1. CASE /\ At("top up") /\ bob.publish \in Step /\ SavePool(bob.publish)
             /\ [step |-> "publish", key |-> bob.key, fresh |-> Fresh(bob.publish)] \in Step
             /\ bob' = [bob EXCEPT !.publish = [step |-> "publish", key |-> bob.key,
                                                fresh |-> Fresh(bob.publish)]]
    <3>1. BobType' /\ bob'.tasks = bob.tasks /\ bob'.late = bob.late
          /\ bob'.publish = [step |-> "publish", key |-> bob.key, fresh |-> Fresh(bob.publish)]
      BY <2>1, <1>1, PublicationGoes
    <3>2. bob.publish.step = "top up"
      BY <2>1, AtFacts
    <3>3. \A u \in Pending' : u \in Pending \/ u = [step |-> "publish", key |-> bob.key,
                                                    fresh |-> Fresh(bob.publish)]
      BY <3>1 DEF Pending
    <3>4. \A u \in Pending' : u \in Pending \/ u.fresh = Fresh(bob.publish)
      BY <3>3
    <3> QED
      BY <2>1, <3>1, <3>2, <3>4
  <2>2. CASE \E t \in bob.late : /\ t \in Step /\ t.step = "top up" /\ SavePool(t)
                                 /\ bob' = [bob EXCEPT !.late = @ \ {t}]
    BY <2>2, <1>1, LateGoes DEF Pending
  <2> QED
    BY <2>1, <2>2, TopUpCases
<1>3. PICK t \in Step :
        /\ t.step = "top up" /\ SavePool(t)
        /\ BobType' /\ bob'.tasks = bob.tasks
        /\ \A u \in Pending' : u \in Pending \/ (u.step = "publish" => u.fresh = Fresh(t))
  BY <1>2
<1>4. /\ store' \in [key : Nat, pool : SUBSET Nat] /\ minted' \in Nat /\ IsFiniteSet(Fresh(t))
  BY <1>3, SavePoolTypes
<1>5. AliceType' /\ NetType'
  BY <1>1, <1>3 DEF HandshakeTypeInv, AliceType, NetType, InitType
<1>6. KeysType'
  BY <1>1, <1>3, <1>4 DEF HandshakeTypeInv, KeysType
<1>7. FlagType'
  <2>1. raced' \in BOOLEAN
    BY <1>3 DEF SavePool, HandshakeTypeInv, FlagType
  <2> QED
    BY <2>1, <1>1 DEF HandshakeTypeInv, FlagType
<1> QED
  BY <1>3, <1>5, <1>6, <1>7 DEF HandshakeTypeInv

LEMMA MadeDomain ==
  ASSUME HandshakeTypeInv
  PROVE  DOMAIN made = 1 .. Len(made) /\ DOMAIN made \subseteq Nat
<1>1. made \in Seq(Bundle)
  BY TypeFacts
<1> QED
  BY <1>1

\* The publication that is made: of the open chat, or late.
LEMMA PublishCases ==
  ASSUME HandshakeTypeInv, Publish
  PROVE  \E t \in Pending :
           /\ t \in Step /\ t.step = "publish" /\ prekeys' = Published(t)
           /\ \/ t = bob.publish /\ bob' = [bob EXCEPT !.publish = None]
              \/ t \in bob.late /\ bob' = [bob EXCEPT !.late = @ \ {t}]
<1>1. CASE At("publish") /\ prekeys' = Published(bob.publish) /\ Publishing(None)
  BY <1>1, AtFacts DEF Publishing
<1>2. CASE \E t \in bob.late : /\ t.step = "publish" /\ prekeys' = Published(t)
                               /\ bob' = [bob EXCEPT !.late = @ \ {t}]
  BY <1>2, TypeFacts DEF Pending
<1> QED
  BY <1>1, <1>2 DEF Publish

LEMMA PublishTypes == HandshakeTypeInv /\ Publish => HandshakeTypeInv'
<1> SUFFICES ASSUME HandshakeTypeInv, Publish PROVE HandshakeTypeInv'
  OBVIOUS
<1>1. UNCHANGED <<alice, store, minted, posted, queue, made, used, raced, spoilt, faults>>
  BY DEF Publish, history
<1>2. PICK t \in Pending :
           /\ t \in Step /\ t.step = "publish" /\ prekeys' = Published(t)
           /\ \/ t = bob.publish /\ bob' = [bob EXCEPT !.publish = None]
              \/ t \in bob.late /\ bob' = [bob EXCEPT !.late = @ \ {t}]
  BY PublishCases
<1>3. BobType' /\ bob'.tasks = bob.tasks /\ Pending' \subseteq Pending
  <2>1. CASE bob' = [bob EXCEPT !.publish = None]
    BY <2>1, <1>1, PublicationGoes DEF Pending
  <2>2. CASE bob' = [bob EXCEPT !.late = @ \ {t}]
    BY <2>2, <1>1, LateGoes DEF Pending
  <2> QED
    BY <2>1, <2>2, <1>2
<1>4. t.key \in Nat /\ t.fresh \in SUBSET Nat /\ IsFiniteSet(t.fresh)
  BY <1>2, TaskKinds DEF HandshakeTypeInv, KeysType
<1>5. prekeys' = [key |-> t.key, onetime |-> prekeys.onetime \cup t.fresh]
  BY <1>2 DEF Published
<1>6. IsFiniteSet(prekeys.onetime \cup t.fresh)
  BY <1>4, FS_Union DEF HandshakeTypeInv, KeysType
<1>7. AliceType' /\ FlagType' /\ NetType'
  BY <1>1, <1>3 DEF HandshakeTypeInv, AliceType, FlagType, NetType, InitType
<1>8. KeysType'
  <2>1. prekeys' \in [key : Nat, onetime : SUBSET Nat]
    BY <1>4, <1>5, TypeFacts
  <2> QED
    BY <1>1, <1>3, <1>5, <1>6, <2>1 DEF HandshakeTypeInv, KeysType
<1> QED
  BY <1>3, <1>7, <1>8 DEF HandshakeTypeInv

LEMMA PublishFailsTypes == HandshakeTypeInv /\ PublishFails => HandshakeTypeInv'
<1> SUFFICES ASSUME HandshakeTypeInv, PublishFails PROVE HandshakeTypeInv'
  OBVIOUS
<1>1. UNCHANGED <<alice, store, prekeys, minted, posted, queue, made, used, raced>> /\ Fault
  BY DEF PublishFails, keys, history
<1>2. BobType' /\ bob'.tasks = bob.tasks /\ Pending' \subseteq Pending
  <2>1. bob' = [bob EXCEPT !.publish = None] /\ None \in Step \cup {None}
    BY DEF PublishFails, Publishing
  <2> QED
    BY <2>1, <1>1, PublicationGoes DEF Pending
<1>3. AliceType' /\ NetType'
  BY <1>1, <1>2 DEF HandshakeTypeInv, AliceType, NetType, InitType
<1>4. KeysType'
  BY <1>1, <1>2 DEF HandshakeTypeInv, KeysType
<1>5. FlagType'
  BY <1>1 DEF HandshakeTypeInv, FlagType, Fault
<1> QED
  BY <1>2, <1>3, <1>4, <1>5 DEF HandshakeTypeInv

\* The session_init that Bob takes, and what he makes of it.
LEMMA AcceptCases ==
  ASSUME HandshakeTypeInv, AcceptInit
  PROVE  LET s == queue.bob[bob.next + 1].session
             onetime == made[s].onetime
             device == [bob EXCEPT !.next = bob.next + 1]
             task == [session |-> s, key |-> bob.key, pool |-> store.pool]
         IN  /\ queue.bob[bob.next + 1] \in InitType
             /\ bob.next + 1 \in 1 .. Len(queue.bob) /\ s \in DOMAIN made
             /\ \/ bob.key = 0 /\ bob' = device
                \/ /\ bob.key # 0 /\ onetime = None
                   /\ bob' = [device EXCEPT !.session = Derived(s, bob.key)]
                \/ /\ bob.key # 0 /\ onetime # None
                   /\ bob' = [device EXCEPT !.tasks = Append(device.tasks, task)]
<1>1. bob.next \in Nat /\ Len(queue.bob) \in Nat /\ bob.next < Len(queue.bob)
  BY TypeFacts DEF AcceptInit
<1>2. bob.next + 1 \in 1 .. Len(queue.bob)
  BY <1>1
<1>3. queue.bob[bob.next + 1] \in InitType
  BY <1>2, TypeFacts
<1>4. queue.bob[bob.next + 1].session \in DOMAIN made
  <2>1. queue.bob[bob.next + 1].session \in 1 .. Len(made)
    BY <1>3 DEF InitType
  <2> QED
    BY <2>1, MadeDomain
<1> QED
  BY <1>2, <1>3, <1>4 DEF AcceptInit

LEMMA AcceptTypes ==
  ASSUME HandshakeTypeInv, AcceptInit
  PROVE  /\ HandshakeTypeInv'
         /\ UNCHANGED <<alice, store, prekeys, minted, posted, queue, made, used, raced, spoilt, faults>>
         /\ bob'.publish = bob.publish /\ bob'.late = bob.late /\ bob'.key = bob.key
         /\ bob'.open = bob.open /\ bob'.next = bob.next + 1
<1>1. UNCHANGED <<alice, store, prekeys, minted, posted, queue, made, used, raced, spoilt, faults>>
  BY DEF AcceptInit, keys, history
<1> DEFINE s == queue.bob[bob.next + 1].session
           device == [bob EXCEPT !.next = bob.next + 1]
           task == [session |-> s, key |-> bob.key, pool |-> store.pool]
<1>2. bob.next + 1 \in 1 .. Len(queue.bob) /\ s \in DOMAIN made
      /\ bob.next + 1 \in Nat
  BY AcceptCases, TypeFacts
<1>3. \/ bob' = device
      \/ bob' = [device EXCEPT !.session = Derived(s, bob.key)]
      \/ bob' = [device EXCEPT !.tasks = Append(device.tasks, task)]
  BY AcceptCases
<1>4. /\ device \in Responder /\ device.next = bob.next + 1
      /\ device.acked = bob.acked /\ device.publish = bob.publish /\ device.late = bob.late
      /\ device.tasks = bob.tasks /\ device.key = bob.key /\ device.open = bob.open
  <2>1. bob \in Responder
    BY TypeFacts
  <2>2. device \in Responder
    BY <1>2, <2>1, ResponderUpdates
  <2> QED
    BY <2>1, <2>2 DEF Responder
<1>5. s \in Nat
  BY <1>2, MadeDomain
<1>6. task \in Task
  BY <1>5, TypeFacts DEF Task
<1>7. Derived(s, bob.key) \in [id : Nat, good : BOOLEAN]
  BY <1>5 DEF Derived
<1>8. Append(device.tasks, task) \in Seq(Task)
  BY <1>4, <1>6, TypeFacts, AppendProperties
<1>9. task.session = s
  OBVIOUS
<1> HIDE DEF device, task
<1>10. bob' \in Responder
  BY <1>3, <1>4, <1>7, <1>8, ResponderUpdates
<1>11. /\ bob'.next = bob.next + 1 /\ bob'.acked = bob.acked
       /\ bob'.publish = bob.publish /\ bob'.late = bob.late
       /\ bob'.key = bob.key /\ bob'.open = bob.open
       /\ bob'.tasks \in {bob.tasks, Append(bob.tasks, task)}
  BY <1>3, <1>4 DEF Responder
<1>12. \A i \in DOMAIN bob'.tasks : bob'.tasks[i].session \in DOMAIN made
  <2>1. CASE bob'.tasks = bob.tasks
    BY <2>1 DEF HandshakeTypeInv, NetType
  <2>2. CASE bob'.tasks = Append(bob.tasks, task)
    <3> SUFFICES ASSUME NEW i \in DOMAIN bob'.tasks PROVE bob'.tasks[i].session \in DOMAIN made
      OBVIOUS
    <3>1. bob.tasks \in Seq(Task)
      BY TypeFacts
    <3>2. i \in 1 .. Len(bob.tasks) + 1
      BY <2>2, <3>1
    <3>3. CASE i = Len(bob.tasks) + 1
      BY <2>2, <3>1, <3>3, <1>2, <1>9
    <3>4. CASE i \in 1 .. Len(bob.tasks)
      BY <2>2, <3>1, <3>4 DEF HandshakeTypeInv, NetType
    <3> QED
      BY <3>1, <3>2, <3>3, <3>4
  <2> QED
    BY <1>11, <2>1, <2>2
<1>13. BobType'
  <2>1. bob'.acked <= bob'.next /\ bob'.next <= Len(queue.bob)
    BY <1>2, <1>11, TypeFacts
  <2> QED
    BY <1>1, <1>10, <2>1 DEF BobType
<1>14. AliceType' /\ FlagType'
  BY <1>1 DEF HandshakeTypeInv, AliceType, FlagType
<1>15. NetType'
  BY <1>1, <1>12 DEF HandshakeTypeInv, NetType, InitType
<1>16. KeysType'
  BY <1>1, <1>11 DEF HandshakeTypeInv, KeysType, Pending
<1> QED
  BY <1>1, <1>11, <1>13, <1>14, <1>15, <1>16 DEF HandshakeTypeInv

Without(q, i) == SubSeq(q, 1, i - 1) \o SubSeq(q, i + 1, Len(q))

LEMMA WithoutOne ==
  ASSUME NEW S, NEW q \in Seq(S), NEW i \in 1 .. Len(q)
  PROVE  /\ Without(q, i) \in Seq(S)
         /\ \A k \in DOMAIN Without(q, i) : \E j \in DOMAIN q : Without(q, i)[k] = q[j]
         /\ Len(q) = 1 => Without(q, i) = <<>>
<1>1. Len(q) \in Nat /\ i \in Nat /\ i - 1 \in Nat
  OBVIOUS
<1>2. /\ SubSeq(q, 1, i - 1) \in Seq(S) /\ Len(SubSeq(q, 1, i - 1)) = i - 1
      /\ \A k \in 1 .. i - 1 : SubSeq(q, 1, i - 1)[k] = q[k]
  BY <1>1
<1>3. /\ SubSeq(q, i + 1, Len(q)) \in Seq(S) /\ Len(SubSeq(q, i + 1, Len(q))) = Len(q) - i
      /\ \A k \in 1 .. Len(q) - i : SubSeq(q, i + 1, Len(q))[k] = q[i + k]
  BY <1>1
<1> DEFINE a == SubSeq(q, 1, i - 1)
           b == SubSeq(q, i + 1, Len(q))
           r == Without(q, i)
<1>4. r = a \o b
  BY DEF Without
<1> HIDE DEF a, b, r
<1>5. /\ a \in Seq(S) /\ Len(a) = i - 1 /\ \A k \in 1 .. i - 1 : a[k] = q[k]
      /\ b \in Seq(S) /\ Len(b) = Len(q) - i /\ \A k \in 1 .. Len(q) - i : b[k] = q[i + k]
  BY <1>2, <1>3 DEF a, b
<1>6. r \in Seq(S) /\ Len(r) = Len(q) - 1 /\ DOMAIN r = 1 .. Len(q) - 1
  BY <1>1, <1>4, <1>5
<1>7. \A k \in DOMAIN r : \E j \in DOMAIN q : r[k] = q[j]
  <2> SUFFICES ASSUME NEW k \in 1 .. Len(q) - 1 PROVE \E j \in 1 .. Len(q) : r[k] = q[j]
    BY <1>6
  <2>1. CASE k <= i - 1
    <3>1. r[k] = a[k] /\ k \in 1 .. i - 1
      BY <2>1, <1>1, <1>4, <1>5
    <3> QED
      BY <3>1, <1>1, <1>5
  <2>2. CASE k > i - 1
    <3>1. r[k] = b[k - (i - 1)] /\ k - (i - 1) \in 1 .. Len(q) - i
      BY <2>2, <1>1, <1>4, <1>5
    <3>2. b[k - (i - 1)] = q[i + (k - (i - 1))]
      BY <3>1, <1>5
    <3>3. i + (k - (i - 1)) = k + 1 /\ k + 1 \in 1 .. Len(q)
      BY <1>1
    <3> QED
      BY <3>1, <3>2, <3>3
  <2> QED
    BY <2>1, <2>2, <1>1
<1>8. Len(q) = 1 => r = <<>>
  BY <1>6, EmptySeq
<1> QED
  BY <1>6, <1>7, <1>8 DEF r

\* The first thing a task of a session_init sees: the pool it has read.
LEMMA ConsumeTypes ==
  ASSUME HandshakeTypeInv, NEW i \in DOMAIN bob.tasks, Consume(i)
  PROVE  /\ HandshakeTypeInv'
         /\ UNCHANGED <<alice, prekeys, minted, posted, queue, made, spoilt, faults>>
         /\ bob'.publish = bob.publish /\ bob'.late = bob.late /\ bob'.key = bob.key
         /\ bob'.open = bob.open /\ bob'.next = bob.next
         /\ bob'.tasks = Without(bob.tasks, i)
         /\ LET task == bob.tasks[i]
                onetime == made[task.session].onetime
            IN  /\ task \in Task
                /\ \/ /\ onetime \in task.pool
                      /\ store'.pool = task.pool \ {onetime} /\ store'.key = store.key
                      /\ raced' = (raced \/ task.pool # store.pool)
                      /\ used' = Append(used, onetime)
                      /\ bob.open => bob'.session = Derived(task.session, task.key)
                   \/ onetime \notin task.pool /\ UNCHANGED <<store, raced, used>>
<1> DEFINE task == bob.tasks[i]
           onetime == made[task.session].onetime
           device == [bob EXCEPT !.tasks = Without(@, i)]
<1>1. UNCHANGED <<alice, prekeys, minted, posted, queue, made, spoilt, faults>>
  BY DEF Consume
<1>2. \/ /\ onetime \in task.pool
         /\ store' = [store EXCEPT !.pool = task.pool \ {onetime}]
         /\ raced' = (raced \/ task.pool # store.pool)
         /\ used' = Append(used, onetime)
         /\ bob' = IF bob.open THEN [device EXCEPT !.session = Derived(task.session, task.key)]
                               ELSE device
      \/ onetime \notin task.pool /\ UNCHANGED <<store, raced, used>> /\ bob' = device
  BY DEF Consume, Consumed, Without
<1>3. bob.tasks \in Seq(Task) /\ i \in 1 .. Len(bob.tasks) /\ task \in Task
  <2>1. bob.tasks \in Seq(Task)
    BY TypeFacts
  <2>2. i \in 1 .. Len(bob.tasks)
    BY <2>1
  <2> HIDE DEF task
  <2>3. bob.tasks[i] \in Task
    BY <2>1, <2>2
  <2> QED
    BY <2>1, <2>2, <2>3 DEF task
<1>4. task.session \in Nat /\ task.pool \in SUBSET Nat /\ task.key \in Nat
  BY <1>3 DEF Task
<1>5. /\ Without(bob.tasks, i) \in Seq(Task)
      /\ \A k \in DOMAIN Without(bob.tasks, i) :
           \E j \in DOMAIN bob.tasks : Without(bob.tasks, i)[k] = bob.tasks[j]
  BY <1>3, WithoutOne
<1>6. /\ device \in Responder /\ device.tasks = Without(bob.tasks, i)
      /\ device.next = bob.next /\ device.acked = bob.acked
      /\ device.publish = bob.publish /\ device.late = bob.late
      /\ device.key = bob.key /\ device.open = bob.open
  <2>1. bob \in Responder
    BY TypeFacts
  <2>2. device \in Responder
    BY <1>5, <2>1, ResponderUpdates
  <2> QED
    BY <2>1, <2>2 DEF Responder
<1>7. Derived(task.session, task.key) \in [id : Nat, good : BOOLEAN]
  BY <1>4 DEF Derived
<1> DEFINE derived == Derived(task.session, task.key)
           after == [device EXCEPT !.session = derived]
<1>8. /\ after \in Responder /\ after.tasks = Without(bob.tasks, i)
      /\ after.next = bob.next /\ after.acked = bob.acked
      /\ after.publish = bob.publish /\ after.late = bob.late
      /\ after.key = bob.key /\ after.open = bob.open
      /\ after.session = derived
  <2> HIDE DEF device, derived
  <2>1. after \in Responder
    BY <1>6, <1>7, ResponderUpdates DEF derived
  <2> QED
    BY <2>1, <1>6 DEF Responder
<1>9. bob' = device \/ bob' = after
  BY <1>2
<1>10. onetime \in task.pool /\ bob.open => bob' = after
  BY <1>2
<1> HIDE DEF device, after, derived
<1>11. /\ bob' \in Responder /\ bob'.tasks = Without(bob.tasks, i)
       /\ bob'.next = bob.next /\ bob'.acked = bob.acked
       /\ bob'.publish = bob.publish /\ bob'.late = bob.late
       /\ bob'.key = bob.key /\ bob'.open = bob.open
  BY <1>6, <1>8, <1>9
<1>12. onetime \in task.pool /\ bob.open => bob'.session = Derived(task.session, task.key)
  BY <1>8, <1>10 DEF derived
<1>13. onetime \in task.pool =>
         /\ store'.pool = task.pool \ {onetime} /\ store'.key = store.key
         /\ store' \in [key : Nat, pool : SUBSET Nat]
         /\ used' = Append(used, onetime) /\ used' \in Seq(Nat)
  <2> SUFFICES ASSUME onetime \in task.pool
               PROVE  /\ store'.pool = task.pool \ {onetime} /\ store'.key = store.key
                      /\ store' \in [key : Nat, pool : SUBSET Nat]
                      /\ used' = Append(used, onetime) /\ used' \in Seq(Nat)
    OBVIOUS
  <2>1. store' = [store EXCEPT !.pool = task.pool \ {onetime}] /\ used' = Append(used, onetime)
    BY <1>2
  <2>2. store \in [key : Nat, pool : SUBSET Nat] /\ task.pool \ {onetime} \in SUBSET Nat
    BY <1>4 DEF HandshakeTypeInv, KeysType
  <2>3. onetime \in Nat /\ used \in Seq(Nat)
    BY <1>4, TypeFacts
  <2>4. Append(used, onetime) \in Seq(Nat)
    BY <2>3, AppendProperties
  <2> QED
    BY <2>1, <2>2, <2>4, StoreUpdates
<1>14. /\ store' \in [key : Nat, pool : SUBSET Nat] /\ used' \in Seq(Nat)
  BY <1>2, <1>13 DEF HandshakeTypeInv, KeysType
<1>15. BobType'
  BY <1>1, <1>11 DEF HandshakeTypeInv, BobType
<1>16. AliceType'
  BY <1>1 DEF HandshakeTypeInv, AliceType
<1>17. NetType'
  BY <1>1, <1>5, <1>11 DEF HandshakeTypeInv, NetType, InitType
<1>18. KeysType'
  BY <1>1, <1>11, <1>14 DEF HandshakeTypeInv, KeysType, Pending
<1>19. FlagType'
  <2>1. raced' \in BOOLEAN
    BY <1>2 DEF HandshakeTypeInv, FlagType
  <2> QED
    BY <2>1, <1>1 DEF HandshakeTypeInv, FlagType
<1>20. HandshakeTypeInv'
  BY <1>15, <1>16, <1>17, <1>18, <1>19 DEF HandshakeTypeInv
<1>21. \/ /\ onetime \in task.pool
          /\ store'.pool = task.pool \ {onetime} /\ store'.key = store.key
          /\ raced' = (raced \/ task.pool # store.pool)
          /\ used' = Append(used, onetime)
          /\ bob.open => bob'.session = Derived(task.session, task.key)
       \/ onetime \notin task.pool /\ UNCHANGED <<store, raced, used>>
  <2>1. CASE onetime \in task.pool
    <3>1. raced' = (raced \/ task.pool # store.pool)
      BY <1>2, <2>1
    <3> QED
      BY <2>1, <3>1, <1>12, <1>13
  <2>2. CASE onetime \notin task.pool
    BY <1>2, <2>2
  <2> QED
    BY <2>1, <2>2
<1> QED
  BY <1>1, <1>3, <1>11, <1>20, <1>21

\* Every step keeps the types.
LEMMA HandshakeTypes == HandshakeTypeInv /\ [HandshakeNext]_handshakeVars => HandshakeTypeInv'
<1> SUFFICES ASSUME HandshakeTypeInv, [HandshakeNext]_handshakeVars PROVE HandshakeTypeInv'
  OBVIOUS
<1>1. CASE UNCHANGED handshakeVars
  BY <1>1 DEF handshakeVars, keys, history, HandshakeTypeInv, AliceType, BobType, KeysType,
              Pending, NetType, InitType, FlagType
<1>2. CASE HandshakeNext
  BY <1>2, ArriveTypes, RedeliverTypes, MountTypes, FetchTypes, UseTypes, LoadTypes,
     PushOfferTypes, AskStatusTypes, TopUpTypes, PublishTypes, PublishFailsTypes,
     AcceptTypes, ConsumeTypes DEF HandshakeNext
<1> QED
  BY <1>1, <1>2

-----------------------------------------------------------------------------
(* Handshake: where the one-time keys are                                  *)

\* Bob generates a one-time key in a top-up; its public half is in a publication
\* under way, then in PrekeyDO, in the answer to a fetch, in a bundle that waits
\* for the WebAssembly module, and at last in a session Alice has made.
Publications == {t \in Pending : t.step = "publish"}
Announced == UNION {t.fresh : t \in Publications}
Fetched ==
  IF alice.fetch # None /\ alice.fetch.step = "answered"
  THEN {alice.fetch.bundle.onetime} \ {None} ELSE {}
Waiting == {alice.tasks[i].onetime : i \in DOMAIN alice.tasks} \ {None}
Given == {made[i].onetime : i \in DOMAIN made} \ {None}
Free == (prekeys.onetime \cup Fetched) \cup (Waiting \cup Announced)
UsedKeys == {used[i] : i \in DOMAIN used}

TaskPools ==
  /\ \A t \in Pending : t.step = "top up" => t.pool \subseteq 1 .. minted
  /\ \A i \in DOMAIN bob.tasks : bob.tasks[i].pool \subseteq 1 .. minted
Minted ==
  /\ store.pool \subseteq 1 .. minted /\ Free \subseteq 1 .. minted
  /\ Given \subseteq 1 .. minted /\ UsedKeys \subseteq 1 .. minted
  /\ TaskPools

PublishedOnce ==
  /\ \A t, u \in Publications : t # u => t.fresh \cap u.fresh = {}
  /\ \A t \in Publications : t = bob.publish /\ t \in bob.late => t.fresh = {}
WaitingOnce ==
  \A i, j \in DOMAIN alice.tasks :
    alice.tasks[i].onetime = alice.tasks[j].onetime /\ i # j => alice.tasks[i].onetime = None
OnceEach ==
  /\ Given \cap Free = {}
  /\ Waiting \cap ((prekeys.onetime \cup Fetched) \cup Announced) = {}
  /\ Fetched \cap (prekeys.onetime \cup Announced) = {}
  /\ prekeys.onetime \cap Announced = {}
  /\ PublishedOnce /\ WaitingOnce

PoolInv ==
  ~raced =>
    /\ Free \subseteq store.pool
    /\ UsedKeys \cap store.pool = {}
    /\ UsedOnceUnlessRaced

KeysInv == Minted /\ OnceEach /\ PoolInv

LEMMA AnnouncedKeys ==
  /\ \A k : k \in Announced <=> \E t \in Publications : k \in t.fresh
  /\ \A k : k \in Announced' <=> \E t \in Publications' : k \in t.fresh
  BY DEF Announced

LEMMA KeysInit == HandshakeInit => KeysInv
<1> SUFFICES ASSUME HandshakeInit PROVE KeysInv
  OBVIOUS
<1>1. /\ alice.fetch = None /\ alice.tasks = <<>> /\ bob.tasks = <<>>
      /\ bob.publish = None /\ bob.late = {}
      /\ store.pool = {} /\ prekeys.onetime = {} /\ made = <<>> /\ minted = 0
      /\ used = <<>>
  BY DEF HandshakeInit
<1>2. Pending = {} /\ Publications = {} /\ Announced = {}
  BY <1>1 DEF Pending, Publications, Announced
<1>3. Fetched = {} /\ Waiting = {} /\ Given = {} /\ UsedKeys = {} /\ Free = {}
  BY <1>1, <1>2 DEF Fetched, Waiting, Given, UsedKeys, Free
<1>4. Minted
  BY <1>1, <1>2, <1>3 DEF Minted, TaskPools
<1>5. OnceEach
  BY <1>1, <1>2, <1>3 DEF OnceEach, PublishedOnce, WaitingOnce
<1>6. PoolInv
  BY <1>1, <1>3 DEF PoolInv, UsedOnceUnlessRaced
<1> QED
  BY <1>4, <1>5, <1>6 DEF KeysInv

\* A step that only moves public keys on, or loses some.
LEMMA KeysStay ==
  ASSUME KeysInv, store'.pool = store.pool, minted' = minted, used' = used, raced' = raced,
         Free' \subseteq Free, Given' \subseteq Given \cup Free, TaskPools', OnceEach'
  PROVE  KeysInv'
<1>1. UsedKeys' = UsedKeys
  BY DEF UsedKeys
<1>2. Minted'
  BY <1>1 DEF KeysInv, Minted
<1>3. PoolInv'
  BY <1>1 DEF KeysInv, PoolInv, UsedOnceUnlessRaced
<1> QED
  BY <1>2, <1>3 DEF KeysInv

\* A step that adds no publication with keys and no other place of a key.
LEMMA KeysShrink ==
  ASSUME KeysInv, store'.pool = store.pool,
         minted' = minted, used' = used, raced' = raced, made' = made,
         prekeys'.onetime \subseteq prekeys.onetime, Fetched' \subseteq Fetched,
         alice'.tasks \in {alice.tasks, <<>>},
         \A t \in Publications' : t \in Publications \/ t.fresh = {},
         \A t \in Publications' : t = bob'.publish /\ t \in bob'.late =>
           t.fresh = {} \/ (t = bob.publish /\ t \in bob.late),
         TaskPools'
  PROVE  KeysInv'
<1>1. Given' = Given
  BY DEF Given
<1>2. Waiting' \subseteq Waiting /\ WaitingOnce'
  BY DEF Waiting, WaitingOnce, KeysInv, OnceEach
<1>3. Announced' \subseteq Announced
  BY AnnouncedKeys
<1>4. PublishedOnce'
  BY DEF PublishedOnce, KeysInv, OnceEach
<1>5. Free' \subseteq Free
  BY <1>2, <1>3 DEF Free
<1>6. OnceEach'
  BY <1>1, <1>2, <1>3, <1>4, <1>5 DEF KeysInv, OnceEach
<1> QED
  BY <1>1, <1>5, <1>6, KeysStay

\* Nothing about the keys changes on Bob's side.
LEMMA BobStays ==
  ASSUME KeysInv, bob'.publish = bob.publish, bob'.late = bob.late, bob'.tasks = bob.tasks,
         minted' = minted
  PROVE  /\ Pending' = Pending /\ Publications' = Publications /\ Announced' = Announced
         /\ TaskPools' /\ PublishedOnce'
<1>1. Pending' = Pending
  BY DEF Pending
<1>2. Publications' = Publications
  BY <1>1 DEF Publications
<1>3. Announced' = Announced
  BY <1>2 DEF Announced
<1>4. TaskPools'
  BY <1>1 DEF TaskPools, KeysInv, Minted
<1>5. PublishedOnce'
  BY <1>2 DEF PublishedOnce, KeysInv, OnceEach
<1> QED
  BY <1>1, <1>2, <1>3, <1>4, <1>5

LEMMA ArriveKeys ==
  ASSUME HandshakeTypeInv, KeysInv, NEW to \in {"alice", "bob"}, Arrive(to)
  PROVE  KeysInv'
<1>1. UNCHANGED <<alice, bob, store, prekeys, minted, made, used, raced>>
  BY DEF Arrive, keys, history
<1>2. Fetched' = Fetched
  BY <1>1 DEF Fetched
<1> QED
  BY <1>1, <1>2, BobStays, KeysShrink DEF KeysInv, OnceEach, PublishedOnce

\* What a step of Alice that makes no session does.
LEMMA AliceKeys ==
  ASSUME HandshakeTypeInv, KeysInv,
         AliceMounts \/ AliceLeaves \/ FetchFails
  PROVE  KeysInv'
<1>1. UNCHANGED <<bob, store, prekeys, minted, made, used, raced>>
  BY DEF AliceMounts, AliceLeaves, FetchFails, keys, history
<1>2. alice \in Initiator
  BY TypeFacts
<1>3. /\ alice'.fetch = None \/ alice'.fetch.step = "asked"
      /\ alice'.tasks \in {alice.tasks, <<>>}
  <2>1. CASE AliceMounts
    <3>1. alice'.fetch = [step |-> "asked"] /\ alice'.tasks = alice.tasks
      BY <2>1, <1>2 DEF AliceMounts, Initiator
    <3> QED
      BY <3>1
  <2>2. CASE AliceLeaves
    BY <2>2, <1>2 DEF AliceLeaves, Initiator
  <2>3. CASE FetchFails
    BY <2>3, <1>2 DEF FetchFails, Initiator
  <2> QED
    BY <2>1, <2>2, <2>3
<1>4. Fetched' \subseteq Fetched
  BY <1>3 DEF Fetched
<1> QED
  BY <1>1, <1>3, <1>4, BobStays, KeysShrink DEF KeysInv, OnceEach, PublishedOnce

LEMMA RedeliverKeys ==
  ASSUME HandshakeTypeInv, KeysInv, Redeliver
  PROVE  KeysInv'
<1>1. UNCHANGED <<store, prekeys, minted, made, used, raced>>
  BY DEF Redeliver, keys, history
<1>2. alice \in Initiator /\ bob \in Responder
  BY TypeFacts
<1>3. alice'.fetch = alice.fetch /\ alice'.tasks = alice.tasks
  BY <1>2 DEF Redeliver, Rewound, Initiator
<1>4. bob'.publish = bob.publish /\ bob'.late = bob.late /\ bob'.tasks = bob.tasks
  BY <1>2 DEF Redeliver, Rewound, Responder
<1>5. Fetched' \subseteq Fetched
  BY <1>3 DEF Fetched
<1> QED
  BY <1>1, <1>3, <1>4, <1>5, BobStays, KeysShrink DEF KeysInv, OnceEach, PublishedOnce

\* Bob's steps that publish nothing.
LEMMA MountKeys ==
  ASSUME HandshakeTypeInv, KeysInv, BobMounts \/ BobLeaves
  PROVE  KeysInv'
<1>1. UNCHANGED <<alice, store, prekeys, minted, made, used, raced>>
  BY DEF BobMounts, BobLeaves, keys, history
<1>2. bob \in Responder
  BY TypeFacts
<1>3. /\ bob'.tasks \in {bob.tasks, <<>>}
      /\ \/ bob'.late = bob.late /\ bob'.publish = [step |-> "load"]
         \/ bob'.late \subseteq bob.late \cup ({bob.publish} \ {None}) /\ bob'.publish = None
  <2>1. CASE BobMounts
    BY <2>1, <1>2 DEF BobMounts, Responder
  <2>2. CASE BobLeaves
    <3> DEFINE closed == [bob EXCEPT !.open = FALSE, !.key = 0, !.session = None, !.publish = None]
               underway == {t \in {bob.publish} : \E step \in {"load", "top up", "publish"} : At(step)}
    <3>1. underway \subseteq {bob.publish} \ {None}
      BY DEF At
    <3>2. closed.late = bob.late /\ closed.tasks = bob.tasks /\ closed.publish = None
          /\ closed \in [open : {closed.open}, mounts : {closed.mounts}, acked : {closed.acked},
                         next : {closed.next}, key : {closed.key}, session : {closed.session},
                         publish : {None}, late : {bob.late}, tasks : {bob.tasks}]
      BY <1>2 DEF Responder
    <3>3. \/ bob' = [closed EXCEPT !.late = @ \cup underway]
          \/ bob' = [closed EXCEPT !.late = {}, !.tasks = <<>>]
      BY <2>2 DEF BobLeaves
    <3> HIDE DEF closed, underway
    <3>4. \/ bob'.late = bob.late \cup underway /\ bob'.tasks = bob.tasks /\ bob'.publish = None
          \/ bob'.late = {} /\ bob'.tasks = <<>> /\ bob'.publish = None
      BY <3>2, <3>3
    <3> QED
      BY <3>1, <3>4
  <2> QED
    BY <2>1, <2>2
<1>4. \A t \in Publications' : t \in Publications /\ t # bob'.publish
  <2> SUFFICES ASSUME NEW t \in Publications' PROVE t \in Publications /\ t # bob'.publish
    OBVIOUS
  <2>1. t \in Pending' /\ t.step = "publish"
    BY DEF Publications
  <2>2. CASE bob'.publish = None
    <3>1. t \in Pending /\ t # None
      BY <1>3, <2>1, <2>2, TypeFacts, NoneIsNothing DEF Pending
    <3> QED
      BY <2>1, <2>2, <3>1 DEF Publications
  <2>3. CASE bob'.late = bob.late /\ bob'.publish = [step |-> "load"]
    <3>1. t # [step |-> "load"]
      BY <2>1
    <3>2. t \in Pending
      BY <2>1, <2>3, <3>1 DEF Pending
    <3> QED
      BY <2>1, <2>3, <3>1, <3>2 DEF Publications
  <2> QED
    BY <1>3, <2>2, <2>3
<1>5. TaskPools'
  <2>1. \A t \in Pending' : t.step = "top up" => t \in Pending
    <3>1. bob'.publish = None \/ bob'.publish = [step |-> "load"]
      BY <1>3
    <3>2. \A t \in Pending' : t \in Pending \/ t = [step |-> "load"]
      BY <1>3, <3>1 DEF Pending
    <3>3. [step |-> "load"].step # "top up"
      OBVIOUS
    <3> QED
      BY <3>2, <3>3
  <2>2. \A i \in DOMAIN bob'.tasks : bob'.tasks[i].pool \subseteq 1 .. minted
    <3>1. CASE bob'.tasks = bob.tasks
      BY <3>1 DEF TaskPools, KeysInv, Minted
    <3>2. CASE bob'.tasks = <<>>
      BY <3>2
    <3> QED
      BY <1>3, <3>1, <3>2
  <2> QED
    BY <1>1, <2>1, <2>2 DEF TaskPools, KeysInv, Minted
<1>6. Fetched' = Fetched
  BY <1>1 DEF Fetched
<1> QED
  BY <1>1, <1>4, <1>5, <1>6, KeysShrink

\* A publication that goes on to a step without keys.
LEMMA TaskKeys ==
  ASSUME HandshakeTypeInv, KeysInv, NEW p \in Step \cup {None},
         bob'.publish = p, bob'.late \subseteq bob.late, bob'.tasks = bob.tasks,
         minted' = minted,
         p # None /\ p.step = "publish" => p.fresh = {},
         p # None /\ p.step = "top up" => p.pool \subseteq 1 .. minted
  PROVE  /\ \A t \in Publications' : t \in Publications \/ t.fresh = {}
         /\ \A t \in Publications' : t = bob'.publish => t.fresh = {}
         /\ TaskPools'
<1>1. \A t \in Pending' : t \in Pending \/ (t = p /\ p # None)
  BY DEF Pending
<1>2. \A t \in Publications' : t \in Publications \/ t.fresh = {}
  BY <1>1 DEF Publications
<1>3. \A t \in Publications' : t = bob'.publish => t.fresh = {}
  <2>1. \A t \in Pending' : t # None
    BY TypeFacts, NoneIsNothing DEF Pending
  <2> QED
    BY <2>1 DEF Publications
<1>4. TaskPools'
  BY <1>1 DEF TaskPools, KeysInv, Minted
<1> QED
  BY <1>2, <1>3, <1>4

LEMMA LoadKeys ==
  ASSUME HandshakeTypeInv, KeysInv, LoadIdentity
  PROVE  KeysInv'
<1>1. UNCHANGED <<alice, prekeys, minted, made, used, raced, queue>>
  BY DEF LoadIdentity, history
<1>2. store'.pool = store.pool /\ store'.key \in Nat
  <2>1. store' = store \/ store' = [store EXCEPT !.key = @ + 1]
    BY DEF LoadIdentity, GetOrRotate
  <2>2. store \in [key : Nat, pool : SUBSET Nat] /\ store.key + 1 \in Nat
    BY TypeFacts DEF HandshakeTypeInv, KeysType
  <2> QED
    BY <2>1, <2>2, StoreUpdates
<1>3. Fetched' = Fetched
  BY <1>1 DEF Fetched
<1>4. /\ \A t \in Publications' : t \in Publications \/ t.fresh = {}
      /\ \A t \in Publications' : t = bob'.publish /\ t \in bob'.late =>
           t.fresh = {} \/ (t = bob.publish /\ t \in bob.late)
      /\ TaskPools'
  <2>1. CASE At("load") /\ Publishing([step |-> "offer", key |-> store'.key])
    <3> DEFINE p == [step |-> "offer", key |-> store'.key]
    <3>1. p \in Step /\ p.step = "offer"
      BY <1>2, StepFacts
    <3>2. bob' = [bob EXCEPT !.publish = p]
      BY <2>1 DEF Publishing
    <3> HIDE DEF p
    <3>3. bob'.publish = p /\ bob'.late = bob.late /\ bob'.tasks = bob.tasks
      BY <3>1, <3>2, <1>1, PublicationGoes
    <3> QED
      BY <3>1, <3>3, <1>1, TaskKeys
  <2>2. CASE \E t \in bob.late : bob' = [bob EXCEPT !.late = @ \ {t}]
    <3>1. /\ bob'.publish = bob.publish /\ bob'.tasks = bob.tasks
          /\ bob'.late \subseteq bob.late
      BY <2>2, <1>1, LateGoes
    <3>2. Pending' \subseteq Pending /\ Publications' \subseteq Publications
      BY <3>1 DEF Pending, Publications
    <3> QED
      BY <3>1, <3>2, <1>1 DEF TaskPools, KeysInv, Minted
  <2> QED
    BY <2>1, <2>2 DEF LoadIdentity
<1> QED
  BY <1>1, <1>2, <1>3, <1>4, KeysShrink

LEMMA OfferKeys ==
  ASSUME HandshakeTypeInv, KeysInv, PushOffer \/ PublishFails
  PROVE  KeysInv'
<1>1. UNCHANGED <<alice, store, prekeys, minted, made, used, raced>>
  BY DEF PushOffer, PublishFails, keys, history
<1>2. bob \in Responder
  BY TypeFacts
<1>3. /\ bob'.publish \in {[step |-> "status"], None}
      /\ bob'.late = bob.late /\ bob'.tasks = bob.tasks
  <2>1. CASE PushOffer
    BY <2>1, <1>2 DEF PushOffer, Responder
  <2>2. CASE PublishFails
    BY <2>2, <1>2 DEF PublishFails, Publishing, Responder
  <2> QED
    BY <2>1, <2>2
<1>4. Fetched' = Fetched
  BY <1>1 DEF Fetched
<1>5. /\ \A t \in Publications' : t \in Publications \/ t.fresh = {}
      /\ \A t \in Publications' : t = bob'.publish => t.fresh = {}
      /\ TaskPools'
  <2>1. PICK p \in {[step |-> "status"], None} : bob'.publish = p
    BY <1>3
  <2>2. p \in Step \cup {None} /\ (p # None => p.step = "status")
    <3>1. CASE p = [step |-> "status"]
      BY <3>1, StepFacts
    <3>2. CASE p = None
      BY <3>2
    <3> QED
      BY <2>1, <3>1, <3>2
  <2> QED
    BY <2>1, <2>2, <1>1, <1>3, TaskKeys
<1> QED
  BY <1>1, <1>4, <1>5, KeysShrink

LEMMA AskStatusKeys ==
  ASSUME HandshakeTypeInv, KeysInv, AskStatus
  PROVE  KeysInv'
<1>1. UNCHANGED <<alice, store, prekeys, minted, made, used, raced, queue>>
  BY DEF AskStatus, keys, history
<1>2. PICK p \in Step :
        /\ bob' = [bob EXCEPT !.publish = p]
        /\ p.step = "top up" => p.pool = store.pool
        /\ p.step = "publish" => p.fresh = {}
  BY AskStatusGoes
<1>3. bob'.publish = p /\ bob'.late = bob.late /\ bob'.tasks = bob.tasks
  BY <1>1, <1>2, PublicationGoes
<1>4. p.step = "top up" => p.pool \subseteq 1 .. minted
  BY <1>2 DEF KeysInv, Minted
<1>5. /\ \A t \in Publications' : t \in Publications \/ t.fresh = {}
      /\ \A t \in Publications' : t = bob'.publish => t.fresh = {}
      /\ TaskPools'
  BY <1>1, <1>2, <1>3, <1>4, TaskKeys
<1>6. Fetched' = Fetched
  BY <1>1 DEF Fetched
<1> QED
  BY <1>1, <1>5, <1>6, KeysShrink

\* The oldest key is handed out.
LEMMA ServeFetchKeys ==
  ASSUME HandshakeTypeInv, KeysInv, ServeFetch
  PROVE  KeysInv'
<1>1. UNCHANGED <<bob, store, minted, made, used, raced>>
  BY DEF ServeFetch, keys, history
<1>2. alice \in Initiator
  BY TypeFacts
<1>3. Fetched = {}
  BY DEF Fetched, ServeFetch, Asked
<1>4. alice'.tasks = alice.tasks
  BY <1>2 DEF ServeFetch, Initiator
<1>5. /\ prekeys'.onetime \subseteq prekeys.onetime
      /\ Fetched' \subseteq prekeys.onetime /\ Fetched' \cap prekeys'.onetime = {}
  <2>1. CASE prekeys.key = 0
    <3>1. alice'.fetch = None /\ prekeys' = prekeys
      BY <2>1, <1>2 DEF ServeFetch, Initiator
    <3> QED
      BY <3>1 DEF Fetched
  <2>2. CASE prekeys.key # 0
    <3>1. alice'.fetch.bundle.onetime = HandedOut
      BY <2>2, <1>2 DEF ServeFetch, Initiator
    <3>2. prekeys'.onetime = prekeys.onetime \ {HandedOut}
      <4>1. prekeys \in [key : Nat, onetime : SUBSET Nat]
        BY DEF HandshakeTypeInv, KeysType
      <4>2. prekeys' = [prekeys EXCEPT !.onetime = @ \ {HandedOut}]
        BY <2>2 DEF ServeFetch, AfterPop
      <4> QED
        BY <4>1, <4>2
    <3>3. Fetched' \subseteq {HandedOut} \ {None}
      BY <3>1 DEF Fetched
    <3>4. HandedOut \in prekeys.onetime \/ HandedOut = None
      BY TypeFacts, OldestKey DEF HandedOut
    <3> QED
      BY <3>2, <3>3, <3>4
  <2> QED
    BY <2>1, <2>2
<1>6. Waiting' = Waiting /\ WaitingOnce' /\ Given' = Given
  BY <1>1, <1>4 DEF Waiting, WaitingOnce, Given, KeysInv, OnceEach
<1>7. Announced' = Announced /\ PublishedOnce' /\ TaskPools'
  BY <1>1, BobStays
<1>8. Free' \subseteq Free
  BY <1>5, <1>6, <1>7 DEF Free
<1>9. OnceEach'
  BY <1>5, <1>6, <1>7, <1>8 DEF KeysInv, OnceEach, Free
<1> QED
  BY <1>1, <1>6, <1>7, <1>8, <1>9, KeysStay

\* A session is made: the key of its bundle is given away.
LEMMA GivenKeys ==
  ASSUME HandshakeTypeInv, NEW bundle \in Bundle, made' = Append(made, bundle)
  PROVE  Given' = Given \cup ({bundle.onetime} \ {None})
<1>1. made \in Seq(Bundle)
  BY TypeFacts
<1>2. /\ DOMAIN made' = 1 .. Len(made) + 1 /\ Len(made) \in Nat
      /\ \A i \in 1 .. Len(made) : made'[i] = made[i]
      /\ made'[Len(made) + 1] = bundle /\ DOMAIN made = 1 .. Len(made)
  BY <1>1
<1>3. \A k : (\E i \in DOMAIN made' : k = made'[i].onetime) <=>
             (\E i \in DOMAIN made : k = made[i].onetime) \/ k = bundle.onetime
  <2> SUFFICES ASSUME NEW k
               PROVE  (\E i \in DOMAIN made' : k = made'[i].onetime) <=>
                      (\E i \in DOMAIN made : k = made[i].onetime) \/ k = bundle.onetime
    OBVIOUS
  <2>1. \A i \in 1 .. Len(made) + 1 : i \in 1 .. Len(made) \/ i = Len(made) + 1
    BY <1>2
  <2>2. 1 .. Len(made) \subseteq 1 .. Len(made) + 1 /\ Len(made) + 1 \in 1 .. Len(made) + 1
    BY <1>2
  <2> QED
    BY <1>2, <2>1, <2>2
<1> QED
  BY <1>3 DEF Given

LEMMA CreateKeys ==
  ASSUME HandshakeTypeInv, KeysInv, NEW device \in Initiator, NEW bundle \in Bundle,
         Create(device, bundle), UNCHANGED <<bob, keys, queue, history, faults>>,
         Fetched' \subseteq Fetched,
         {alice'.tasks[i].onetime : i \in DOMAIN alice'.tasks} \ {None} \subseteq Waiting,
         WaitingOnce',
         bundle.onetime # None => /\ bundle.onetime \in Fetched \cup Waiting
                                  /\ bundle.onetime \notin Fetched' \cup Waiting'
  PROVE  KeysInv'
<1>1. UNCHANGED <<bob, store, prekeys, minted, used, raced>>
  BY DEF keys, history
<1>2. Given' = Given \cup ({bundle.onetime} \ {None})
  BY GivenKeys DEF Create
<1>3. Waiting' \subseteq Waiting
  BY DEF Waiting
<1>4. Announced' = Announced /\ PublishedOnce' /\ TaskPools'
  BY <1>1, BobStays
<1>5. Free' \subseteq Free /\ Given' \subseteq Given \cup Free
  BY <1>1, <1>2, <1>3, <1>4 DEF Free
<1>6. Given' \cap Free' = {}
  BY <1>1, <1>2, <1>3, <1>4 DEF Free, KeysInv, OnceEach
<1>7. OnceEach'
  BY <1>1, <1>3, <1>4, <1>6 DEF KeysInv, OnceEach
<1> QED
  BY <1>1, <1>4, <1>5, <1>7, KeysStay

LEMMA ResumeKeys ==
  ASSUME HandshakeTypeInv, KeysInv, Resume
  PROVE  KeysInv'
<1> DEFINE device == [alice EXCEPT !.tasks = Tail(@)]
           bundle == Head(alice.tasks)
<1>1. /\ alice \in Initiator /\ bundle \in Bundle /\ device \in Initiator
      /\ alice.tasks \in Seq(Bundle) /\ alice.tasks # <<>>
  BY TypeFacts, ResumeGoes DEF Going, Resume
<1>2. Create(device, bundle) /\ UNCHANGED <<bob, keys, queue, history, faults>>
  BY DEF Resume
<1>3. alice'.tasks = Tail(alice.tasks) /\ alice'.fetch = alice.fetch
  BY <1>1, <1>2 DEF Create, Initiator
<1>4. /\ \A i \in DOMAIN alice'.tasks : /\ i + 1 \in DOMAIN alice.tasks
                                        /\ alice'.tasks[i] = alice.tasks[i + 1]
                                        /\ i + 1 # 1 /\ i \in Nat
      /\ 1 \in DOMAIN alice.tasks /\ bundle = alice.tasks[1]
  BY <1>1, <1>3
<1>5. Fetched' = Fetched
  BY <1>3 DEF Fetched
<1>6. WaitingOnce'
  <2> SUFFICES ASSUME NEW i \in DOMAIN alice'.tasks, NEW j \in DOMAIN alice'.tasks,
                      alice'.tasks[i].onetime = alice'.tasks[j].onetime, i # j
               PROVE  alice'.tasks[i].onetime = None
    BY DEF WaitingOnce
  <2>1. i + 1 # j + 1
    BY <1>4
  <2> QED
    BY <1>4, <2>1 DEF KeysInv, OnceEach, WaitingOnce
<1>7. {alice'.tasks[i].onetime : i \in DOMAIN alice'.tasks} \ {None} \subseteq Waiting
  BY <1>4 DEF Waiting
<1>8. bundle.onetime # None => /\ bundle.onetime \in Fetched \cup Waiting
                               /\ bundle.onetime \notin Fetched' \cup Waiting'
  <2> SUFFICES ASSUME bundle.onetime # None
               PROVE  /\ bundle.onetime \in Waiting
                      /\ bundle.onetime \notin Fetched /\ bundle.onetime \notin Waiting'
    BY <1>5
  <2>1. bundle.onetime \in Waiting
    BY <1>4 DEF Waiting
  <2>2. bundle.onetime \notin Fetched
    BY <2>1 DEF KeysInv, OnceEach
  <2>3. ASSUME NEW i \in DOMAIN alice'.tasks PROVE alice'.tasks[i].onetime # bundle.onetime
    BY <1>4 DEF KeysInv, OnceEach, WaitingOnce
  <2>4. bundle.onetime \notin Waiting'
    BY <2>3 DEF Waiting
  <2> QED
    BY <2>1, <2>2, <2>4
<1> HIDE DEF device, bundle
<1> QED
  BY <1>1, <1>2, <1>5, <1>6, <1>7, <1>8, CreateKeys

\* A bundle joins those that wait.
LEMMA WaitingKeys ==
  ASSUME HandshakeTypeInv, KeysInv, NEW bundle \in Bundle,
         alice'.tasks = Append(alice.tasks, bundle), bundle.onetime \notin Waiting
  PROVE  Waiting' = Waiting \cup ({bundle.onetime} \ {None}) /\ WaitingOnce'
<1>1. alice.tasks \in Seq(Bundle)
  BY TypeFacts
<1> DEFINE n == Len(alice.tasks)
<1>2. /\ n \in Nat /\ DOMAIN alice.tasks = 1 .. n /\ DOMAIN alice'.tasks = 1 .. n + 1
      /\ \A i \in 1 .. n : alice'.tasks[i] = alice.tasks[i]
      /\ alice'.tasks[n + 1] = bundle
  BY <1>1
<1>3. \A i \in 1 .. n + 1 : i \in 1 .. n \/ i = n + 1
  BY <1>2
<1>4. 1 .. n \subseteq 1 .. n + 1 /\ n + 1 \in 1 .. n + 1
  BY <1>2
<1> HIDE DEF n
<1>5. \A k : (\E i \in DOMAIN alice'.tasks : k = alice'.tasks[i].onetime) <=>
             (\E i \in DOMAIN alice.tasks : k = alice.tasks[i].onetime) \/ k = bundle.onetime
  <2> SUFFICES ASSUME NEW k
               PROVE  (\E i \in 1 .. n + 1 : k = alice'.tasks[i].onetime) <=>
                      (\E i \in 1 .. n : k = alice.tasks[i].onetime) \/ k = bundle.onetime
    BY <1>2
  <2> QED
    BY <1>2, <1>3, <1>4
<1>6. Waiting' = Waiting \cup ({bundle.onetime} \ {None})
  BY <1>5 DEF Waiting
<1>7. WaitingOnce'
  <2> SUFFICES ASSUME NEW i \in DOMAIN alice'.tasks, NEW j \in DOMAIN alice'.tasks,
                      alice'.tasks[i].onetime = alice'.tasks[j].onetime, i # j,
                      alice'.tasks[i].onetime # None
               PROVE  FALSE
    BY DEF WaitingOnce
  <2>1. i \in 1 .. n \/ i = n + 1
    BY <1>2, <1>3
  <2>2. j \in 1 .. n \/ j = n + 1
    BY <1>2, <1>3
  <2>3. \A k \in 1 .. n : alice.tasks[k].onetime # None => alice.tasks[k].onetime \in Waiting
    BY <1>2 DEF Waiting
  <2>4. CASE i \in 1 .. n /\ j \in 1 .. n
    BY <2>4, <1>2 DEF KeysInv, OnceEach, WaitingOnce
  <2>5. CASE i \in 1 .. n /\ j = n + 1
    BY <2>5, <1>2, <2>3
  <2>6. CASE i = n + 1 /\ j \in 1 .. n
    BY <2>6, <1>2, <2>3
  <2> QED
    BY <2>1, <2>2, <2>4, <2>5, <2>6
<1> QED
  BY <1>6, <1>7

LEMMA InitiateKeys ==
  ASSUME HandshakeTypeInv, KeysInv, NEW device \in Initiator, NEW bundle \in Bundle,
         Initiate(device, bundle), device.tasks = alice.tasks,
         device.fetch \in {alice.fetch, None},
         bundle.onetime # None => bundle.onetime \in Fetched /\ device.fetch = None
  PROVE  KeysInv'
<1>1. UNCHANGED <<bob, store, prekeys, minted, used, raced>>
  BY DEF Initiate, keys, history
<1>2. alice'.fetch = device.fetch
  BY DEF Initiate, Create, Initiator
<1>3. Fetched' \subseteq Fetched /\ (bundle.onetime # None => Fetched' = {})
  BY <1>2 DEF Fetched
<1>4. bundle.onetime \notin Waiting
  BY DEF KeysInv, OnceEach, Waiting
<1>5. CASE alice' = device /\ made' = made
  BY <1>1, <1>3, <1>5, BobStays, KeysShrink DEF KeysInv, OnceEach, PublishedOnce
<1>6. CASE Create(device, bundle)
  <2>1. alice'.tasks = alice.tasks
    BY <1>6 DEF Create, Initiator
  <2>2. Waiting' = Waiting /\ WaitingOnce'
    BY <2>1 DEF Waiting, WaitingOnce, KeysInv, OnceEach
  <2>3. {alice'.tasks[i].onetime : i \in DOMAIN alice'.tasks} \ {None} \subseteq Waiting
    BY <2>1 DEF Waiting
  <2>4. bundle.onetime # None => /\ bundle.onetime \in Fetched \cup Waiting
                                 /\ bundle.onetime \notin Fetched' \cup Waiting'
    BY <1>3, <1>4, <2>2
  <2>5. UNCHANGED <<bob, keys, queue, history, faults>>
    BY DEF Initiate
  <2> QED
    BY <1>3, <1>6, <2>2, <2>3, <2>4, <2>5, CreateKeys
<1>7. CASE alice' = [device EXCEPT !.tasks = Append(@, bundle)] /\ made' = made
  <2>1. alice'.tasks = Append(alice.tasks, bundle)
    BY <1>7 DEF Initiator
  <2>2. Waiting' = Waiting \cup ({bundle.onetime} \ {None}) /\ WaitingOnce'
    BY <2>1, <1>4, WaitingKeys
  <2>3. Announced' = Announced /\ PublishedOnce' /\ TaskPools'
    BY <1>1, BobStays
  <2>4. Given' = Given
    BY <1>7 DEF Given
  <2>5. Free' \subseteq Free
    BY <1>1, <1>3, <2>2, <2>3 DEF Free
  <2>6. Given' \cap Free' = {}
    BY <2>4, <2>5 DEF KeysInv, OnceEach
  <2>7. bundle.onetime # None => bundle.onetime \notin prekeys.onetime \cup Announced
    BY DEF KeysInv, OnceEach
  <2>8. Waiting' \cap ((prekeys'.onetime \cup Fetched') \cup Announced') = {}
    BY <1>1, <1>3, <2>2, <2>3, <2>7 DEF KeysInv, OnceEach
  <2>9. OnceEach'
    BY <1>1, <1>3, <2>2, <2>3, <2>6, <2>8 DEF KeysInv, OnceEach
  <2> QED
    BY <1>1, <2>3, <2>4, <2>5, <2>9, KeysStay
<1> QED
  BY <1>5, <1>6, <1>7 DEF Initiate

LEMMA UseKeys ==
  ASSUME HandshakeTypeInv, KeysInv, UseFetched \/ UseOffer
  PROVE  KeysInv'
<1>1. CASE UseFetched
  <2> DEFINE device == [alice EXCEPT !.fetch = None]
  <2>1. alice \in Initiator /\ device \in Initiator /\ alice.fetch.bundle \in Bundle
    BY <1>1, TypeFacts, UseFetchedGoes DEF Going
  <2>2. device.tasks = alice.tasks /\ device.fetch = None
    BY <2>1 DEF Initiator
  <2>3. Initiate(device, alice.fetch.bundle)
    BY <1>1 DEF UseFetched
  <2>4. alice.fetch.bundle.onetime # None => alice.fetch.bundle.onetime \in Fetched
    BY <1>1 DEF UseFetched, Fetched
  <2> HIDE DEF device
  <2> QED
    BY <2>1, <2>2, <2>3, <2>4, InitiateKeys
<1>2. CASE UseOffer
  <2> DEFINE device == [alice EXCEPT !.next = @ + 1]
             bundle == [key |-> queue.alice[alice.next + 1].key, onetime |-> None]
  <2>1. alice \in Initiator /\ device \in Initiator /\ bundle \in Bundle
    BY <1>2, TypeFacts, UseOfferGoes DEF Going
  <2>2. device.tasks = alice.tasks /\ device.fetch = alice.fetch /\ bundle.onetime = None
    BY <2>1 DEF Initiator
  <2>3. Initiate(device, bundle)
    BY <1>2 DEF UseOffer
  <2> HIDE DEF device, bundle
  <2> QED
    BY <2>1, <2>2, <2>3, InitiateKeys
<1> QED
  BY <1>1, <1>2

\* A key whose public half has been published, or is to be, has been minted.
LEMMA PublishedMinted ==
  ASSUME KeysInv, NEW t \in Publications
  PROVE  t.fresh \subseteq 1 .. minted /\ t.fresh \subseteq Announced /\ t.fresh \subseteq Free
<1>1. t.fresh \subseteq Announced
  BY DEF Announced
<1> QED
  BY <1>1 DEF Free, KeysInv, Minted

LEMMA PublishKeys ==
  ASSUME HandshakeTypeInv, KeysInv, Publish
  PROVE  KeysInv'
<1>1. UNCHANGED <<alice, store, minted, made, used, raced, queue>>
  BY DEF Publish, history
<1>2. PICK t \in Pending :
         /\ t \in Step /\ t.step = "publish" /\ prekeys' = Published(t)
         /\ \/ t = bob.publish /\ bob' = [bob EXCEPT !.publish = None]
            \/ t \in bob.late /\ bob' = [bob EXCEPT !.late = @ \ {t}]
  BY PublishCases
<1>3. t \in Publications
  BY <1>2 DEF Publications
<1>4. prekeys'.onetime = prekeys.onetime \cup t.fresh
  BY <1>2 DEF Published
<1>5. /\ bob'.tasks = bob.tasks
      /\ \/ t = bob.publish /\ bob'.publish = None /\ bob'.late = bob.late
         \/ t \in bob.late /\ bob'.publish = bob.publish /\ bob'.late = bob.late \ {t}
  <2>1. CASE t = bob.publish /\ bob' = [bob EXCEPT !.publish = None]
    BY <2>1, <1>1, PublicationGoes
  <2>2. CASE t \in bob.late /\ bob' = [bob EXCEPT !.late = @ \ {t}]
    BY <2>2, <1>1, LateGoes
  <2> QED
    BY <1>2, <2>1, <2>2
<1>6. Pending' \subseteq Pending
  BY <1>5 DEF Pending
<1>7. Publications' \subseteq Publications
  BY <1>6 DEF Publications
<1>8. t \in Publications' => t.fresh = {}
  <2> SUFFICES ASSUME t \in Publications' PROVE t = bob.publish /\ t \in bob.late
    BY <1>3 DEF KeysInv, OnceEach, PublishedOnce
  <2>1. t \in Pending' /\ t # None
    BY <1>2, TaskKinds DEF Publications
  <2> QED
    BY <2>1, <1>5 DEF Pending
<1>9. PublishedOnce'
  <2>1. \A u \in Publications' : u = bob'.publish /\ u \in bob'.late =>
          u = bob.publish /\ u \in bob.late
    <3>1. \A u \in Publications' : u # None
      BY <1>7, TypeFacts, TaskKinds, NoneIsNothing DEF Publications, Pending
    <3> QED
      BY <3>1, <1>5
  <2> QED
    BY <2>1, <1>7 DEF PublishedOnce, KeysInv, OnceEach
<1>10. TaskPools'
  BY <1>1, <1>5, <1>6 DEF TaskPools, KeysInv, Minted
<1>11. Announced' \subseteq Announced /\ t.fresh \subseteq Announced /\ t.fresh \subseteq Free
  BY <1>3, <1>7, AnnouncedKeys, PublishedMinted
<1>12. t.fresh \cap Announced' = {}
  <2> SUFFICES ASSUME NEW k \in t.fresh, k \in Announced' PROVE FALSE
    OBVIOUS
  <2>1. PICK u \in Publications' : k \in u.fresh
    BY AnnouncedKeys
  <2>2. u # t
    BY <2>1, <1>8
  <2> QED
    BY <2>1, <2>2, <1>3, <1>7 DEF KeysInv, OnceEach, PublishedOnce
<1>13. Fetched' = Fetched /\ Waiting' = Waiting /\ WaitingOnce' /\ Given' = Given
  BY <1>1 DEF Fetched, Waiting, WaitingOnce, Given, KeysInv, OnceEach
<1>14. Free' \subseteq Free
  BY <1>4, <1>11, <1>13 DEF Free
<1>15. OnceEach'
  <2>1. Given' \cap Free' = {}
    BY <1>13, <1>14 DEF KeysInv, OnceEach
  <2>2. Waiting' \cap ((prekeys'.onetime \cup Fetched') \cup Announced') = {}
    BY <1>4, <1>11, <1>13 DEF KeysInv, OnceEach
  <2>3. Fetched' \cap (prekeys'.onetime \cup Announced') = {}
    BY <1>4, <1>11, <1>13 DEF KeysInv, OnceEach
  <2>4. prekeys'.onetime \cap Announced' = {}
    BY <1>4, <1>11, <1>12 DEF KeysInv, OnceEach
  <2> QED
    BY <1>9, <1>13, <2>1, <2>2, <2>3, <2>4 DEF OnceEach
<1> QED
  BY <1>1, <1>10, <1>13, <1>14, <1>15, KeysStay

\* What Bob makes of a session_init.
LEMMA AcceptEffect ==
  ASSUME HandshakeTypeInv, AcceptInit
  PROVE  LET s == queue.bob[bob.next + 1].session
             task == [session |-> s, key |-> bob.key, pool |-> store.pool]
         IN  \/ /\ bob.key = 0
                /\ bob'.tasks = bob.tasks /\ bob'.session = bob.session
             \/ /\ bob.key # 0 /\ made[s].onetime = None
                /\ bob'.tasks = bob.tasks /\ bob'.session = Derived(s, bob.key)
             \/ /\ bob.key # 0 /\ made[s].onetime # None
                /\ bob'.tasks = Append(bob.tasks, task) /\ bob'.session = bob.session
<1> DEFINE s == queue.bob[bob.next + 1].session
           device == [bob EXCEPT !.next = bob.next + 1]
           task == [session |-> s, key |-> bob.key, pool |-> store.pool]
<1>1. \/ bob.key = 0 /\ bob' = device
      \/ /\ bob.key # 0 /\ made[s].onetime = None
         /\ bob' = [device EXCEPT !.session = Derived(s, bob.key)]
      \/ /\ bob.key # 0 /\ made[s].onetime # None
         /\ bob' = [device EXCEPT !.tasks = Append(device.tasks, task)]
  BY AcceptCases
<1>2. bob \in Responder /\ bob.next + 1 \in Nat
  BY TypeFacts
<1>3. device \in Responder
  BY <1>2, ResponderUpdates
<1>4. device.tasks = bob.tasks /\ device.session = bob.session
  BY <1>2 DEF Responder
<1> HIDE DEF device, task
<1>5. \/ /\ bob.key = 0
         /\ bob'.tasks = bob.tasks /\ bob'.session = bob.session
      \/ /\ bob.key # 0 /\ made[s].onetime = None
         /\ bob'.tasks = bob.tasks /\ bob'.session = Derived(s, bob.key)
      \/ /\ bob.key # 0 /\ made[s].onetime # None
         /\ bob'.tasks = Append(bob.tasks, task) /\ bob'.session = bob.session
  BY <1>1, <1>3, <1>4 DEF Responder
<1> QED
  BY <1>5 DEF task

LEMMA AcceptKeys ==
  ASSUME HandshakeTypeInv, KeysInv, AcceptInit
  PROVE  KeysInv'
<1>1. /\ UNCHANGED <<alice, store, prekeys, minted, made, used, raced>>
      /\ bob'.publish = bob.publish /\ bob'.late = bob.late
  BY AcceptTypes
<1>2. \A i \in DOMAIN bob'.tasks : bob'.tasks[i].pool \subseteq 1 .. minted
  <2> DEFINE s == queue.bob[bob.next + 1].session
             task == [session |-> s, key |-> bob.key, pool |-> store.pool]
  <2>1. bob'.tasks = bob.tasks \/ bob'.tasks = Append(bob.tasks, task)
    BY AcceptEffect
  <2>2. task.pool \subseteq 1 .. minted
    BY DEF KeysInv, Minted
  <2>3. bob.tasks \in Seq(Task) /\ Len(bob.tasks) \in Nat
    BY TypeFacts
  <2> HIDE DEF task
  <2>4. CASE bob'.tasks = bob.tasks
    BY <2>4 DEF TaskPools, KeysInv, Minted
  <2>5. CASE bob'.tasks = Append(bob.tasks, task)
    <3> SUFFICES ASSUME NEW i \in DOMAIN bob'.tasks PROVE bob'.tasks[i].pool \subseteq 1 .. minted
      OBVIOUS
    <3>1. i \in 1 .. Len(bob.tasks) + 1
      BY <2>5, <2>3
    <3>2. CASE i = Len(bob.tasks) + 1
      BY <3>2, <2>5, <2>3, <2>2
    <3>3. CASE i \in 1 .. Len(bob.tasks)
      <4>1. bob'.tasks[i] = bob.tasks[i] /\ i \in DOMAIN bob.tasks
        BY <3>3, <2>5, <2>3
      <4> QED
        BY <4>1 DEF TaskPools, KeysInv, Minted
    <3> QED
      BY <3>1, <3>2, <3>3, <2>3
  <2> QED
    BY <2>1, <2>4, <2>5
<1>3. Pending' = Pending /\ Publications' = Publications
  <2>1. Pending' = Pending
    BY <1>1 DEF Pending
  <2> QED
    BY <2>1 DEF Publications
<1>4. TaskPools'
  BY <1>1, <1>2, <1>3 DEF TaskPools, KeysInv, Minted
<1>5. Fetched' = Fetched
  BY <1>1 DEF Fetched
<1> QED
  BY <1>1, <1>3, <1>4, <1>5, KeysShrink DEF KeysInv, OnceEach, PublishedOnce

LEMMA TopUpKeys ==
  ASSUME HandshakeTypeInv, KeysInv, TopUp
  PROVE  KeysInv'
<1>1. UNCHANGED <<alice, prekeys, made, used, queue>>
  BY DEF TopUp
<1>2. \E t \in Pending :
        /\ t \in Step /\ t.step = "top up" /\ SavePool(t) /\ bob'.tasks = bob.tasks
        /\ \/ /\ bob'.late = bob.late /\ bob'.publish.step = "publish"
              /\ bob'.publish.fresh = Fresh(t)
           \/ bob'.late \subseteq bob.late /\ bob'.publish = bob.publish
  <2>1. CASE /\ At("top up") /\ bob.publish \in Step /\ SavePool(bob.publish)
             /\ [step |-> "publish", key |-> bob.key, fresh |-> Fresh(bob.publish)] \in Step
             /\ bob' = [bob EXCEPT !.publish = [step |-> "publish", key |-> bob.key,
                                                fresh |-> Fresh(bob.publish)]]
    <3>1. bob'.tasks = bob.tasks /\ bob'.late = bob.late
          /\ bob'.publish = [step |-> "publish", key |-> bob.key, fresh |-> Fresh(bob.publish)]
      BY <2>1, <1>1, PublicationGoes
    <3>2. bob.publish.step = "top up" /\ bob.publish \in Pending
      BY <2>1, AtFacts
    <3>3. bob'.publish.step = "publish" /\ bob'.publish.fresh = Fresh(bob.publish)
      BY <3>1
    <3> QED
      BY <2>1, <3>1, <3>2, <3>3
  <2>2. CASE \E t \in bob.late : /\ t \in Step /\ t.step = "top up" /\ SavePool(t)
                                 /\ bob' = [bob EXCEPT !.late = @ \ {t}]
    BY <2>2, <1>1, LateGoes DEF Pending
  <2> QED
    BY <2>1, <2>2, TopUpCases
<1>3. PICK t \in Pending :
        /\ t \in Step /\ t.step = "top up" /\ SavePool(t) /\ bob'.tasks = bob.tasks
        /\ \/ /\ bob'.late = bob.late /\ bob'.publish.step = "publish"
              /\ bob'.publish.fresh = Fresh(t)
           \/ bob'.late \subseteq bob.late /\ bob'.publish = bob.publish
  BY <1>2
<1>4. /\ store'.pool = t.pool \cup Fresh(t) /\ minted' = minted + t.need
      /\ minted' \in Nat /\ minted \in Nat
      /\ \A k \in Fresh(t) : k \in 1 .. minted' /\ k > minted
      /\ t.need \in Nat
  BY <1>3, SavePoolTypes, TaskKinds, TypeFacts
<1>5. /\ 1 .. minted \subseteq 1 .. minted'
      /\ \A k \in Fresh(t) : k \notin 1 .. minted
  <2>1. minted <= minted'
    <3> DEFINE n == t.need
    <3>1. n \in Nat /\ minted' = minted + n
      BY <1>4
    <3> HIDE DEF n
    <3> QED
      BY <3>1, <1>4
  <2> QED
    BY <1>4, <2>1
<1>6. t.pool \subseteq 1 .. minted
  BY <1>3 DEF KeysInv, Minted, TaskPools
<1>7. \A u \in Publications' : u \in Publications \/ (u = bob'.publish /\ u.fresh = Fresh(t))
  BY <1>3 DEF Publications, Pending
<1>8. \A u \in Publications : u.fresh \subseteq 1 .. minted
  BY PublishedMinted
<1>9. Announced' \subseteq Announced \cup Fresh(t)
  BY <1>7, AnnouncedKeys
<1>10. PublishedOnce'
  <2>1. \A u, v \in Publications' : u # v => u.fresh \cap v.fresh = {}
    <3> SUFFICES ASSUME NEW u \in Publications', NEW v \in Publications', u # v
                 PROVE  u.fresh \cap v.fresh = {}
      OBVIOUS
    <3>1. CASE u \in Publications /\ v \in Publications
      BY <3>1 DEF KeysInv, OnceEach, PublishedOnce
    <3>2. CASE u \in Publications /\ v = bob'.publish /\ v.fresh = Fresh(t)
      BY <3>2, <1>5, <1>8
    <3>3. CASE v \in Publications /\ u = bob'.publish /\ u.fresh = Fresh(t)
      BY <3>3, <1>5, <1>8
    <3> QED
      BY <1>7, <3>1, <3>2, <3>3
  <2>2. \A u \in Publications' : u = bob'.publish /\ u \in bob'.late => u.fresh = {}
    <3> SUFFICES ASSUME NEW u \in Publications', u = bob'.publish, u \in bob'.late
                 PROVE  u.fresh = {}
      OBVIOUS
    <3>1. u \in bob.late /\ u \in Publications
      BY <1>3 DEF Publications, Pending
    <3>2. CASE bob'.publish.fresh = Fresh(t)
      BY <3>1, <3>2, <1>5, <1>8
    <3>3. CASE bob'.publish = bob.publish
      BY <3>1, <3>3 DEF KeysInv, OnceEach, PublishedOnce
    <3> QED
      BY <1>3, <3>2, <3>3
  <2> QED
    BY <2>1, <2>2 DEF PublishedOnce
<1>11. TaskPools'
  <2>1. \A u \in Pending' : u.step = "top up" => u \in Pending
    <3> SUFFICES ASSUME NEW u \in Pending', u.step = "top up" PROVE u \in Pending
      OBVIOUS
    <3>1. u \in bob'.late \/ (u = bob'.publish /\ u # None)
      BY DEF Pending
    <3>2. CASE bob'.late = bob.late /\ bob'.publish.step = "publish"
      BY <3>1, <3>2 DEF Pending
    <3>3. CASE bob'.late \subseteq bob.late /\ bob'.publish = bob.publish
      BY <3>1, <3>3 DEF Pending
    <3> QED
      BY <1>3, <3>2, <3>3
  <2> QED
    BY <2>1, <1>3, <1>5 DEF TaskPools, KeysInv, Minted
<1>12. Fetched' = Fetched /\ Waiting' = Waiting /\ WaitingOnce' /\ Given' = Given /\ UsedKeys' = UsedKeys
  BY <1>1 DEF Fetched, Waiting, WaitingOnce, Given, UsedKeys, KeysInv, OnceEach
<1>13. Free' \subseteq Free \cup Fresh(t)
  BY <1>1, <1>9, <1>12 DEF Free
<1>14. Minted'
  <2>1. store'.pool \subseteq 1 .. minted' /\ Free' \subseteq 1 .. minted'
    BY <1>4, <1>5, <1>6, <1>13 DEF KeysInv, Minted
  <2>2. Given' \subseteq 1 .. minted' /\ UsedKeys' \subseteq 1 .. minted'
    BY <1>5, <1>12 DEF KeysInv, Minted
  <2> QED
    BY <1>11, <2>1, <2>2 DEF Minted
<1>15. OnceEach'
  <2>1. Given \cap Fresh(t) = {} /\ Free \cap Fresh(t) = {}
    BY <1>5 DEF KeysInv, Minted
  <2>2. Given' \cap Free' = {}
    BY <1>12, <1>13, <2>1 DEF KeysInv, OnceEach
  <2>3. Waiting \cap Fresh(t) = {} /\ Fetched \cap Fresh(t) = {} /\ prekeys.onetime \cap Fresh(t) = {}
    BY <2>1 DEF Free
  <2>4. Waiting' \cap ((prekeys'.onetime \cup Fetched') \cup Announced') = {}
    BY <1>1, <1>9, <1>12, <2>3 DEF KeysInv, OnceEach
  <2>5. Fetched' \cap (prekeys'.onetime \cup Announced') = {} /\ prekeys'.onetime \cap Announced' = {}
    BY <1>1, <1>9, <1>12, <2>3 DEF KeysInv, OnceEach
  <2> QED
    BY <1>10, <1>12, <2>2, <2>4, <2>5 DEF OnceEach
<1>16. PoolInv'
  <2> SUFFICES ASSUME ~raced'
               PROVE  Free' \subseteq store'.pool /\ UsedKeys' \cap store'.pool = {} /\ UsedOnceUnlessRaced'
    BY DEF PoolInv
  <2>1. ~raced /\ t.pool = store.pool
    BY <1>3 DEF SavePool
  <2>2. Free \subseteq store.pool /\ UsedKeys \cap store.pool = {} /\ UsedOnceUnlessRaced
    BY <2>1 DEF KeysInv, PoolInv
  <2>3. Free' \subseteq store'.pool
    BY <1>4, <1>13, <2>1, <2>2
  <2>4. UsedKeys \cap Fresh(t) = {}
    BY <1>5 DEF KeysInv, Minted
  <2>5. UsedKeys' \cap store'.pool = {}
    BY <1>4, <1>12, <2>1, <2>2, <2>4
  <2>6. UsedOnceUnlessRaced'
    BY <1>1, <2>1, <2>2 DEF UsedOnceUnlessRaced
  <2> QED
    BY <2>3, <2>5, <2>6
<1> QED
  BY <1>14, <1>15, <1>16 DEF KeysInv

\* The private key is read from the pool, used, and the rest of the pool saved.
LEMMA ConsumeKeys ==
  ASSUME HandshakeTypeInv, KeysInv, NEW i \in DOMAIN bob.tasks, Consume(i)
  PROVE  KeysInv'
<1> DEFINE task == bob.tasks[i]
           onetime == made[task.session].onetime
<1>1. /\ UNCHANGED <<alice, prekeys, minted, made>>
      /\ bob'.publish = bob.publish /\ bob'.late = bob.late
      /\ bob'.tasks = Without(bob.tasks, i)
      /\ \/ /\ onetime \in task.pool
            /\ store'.pool = task.pool \ {onetime}
            /\ raced' = (raced \/ task.pool # store.pool)
            /\ used' = Append(used, onetime)
         \/ onetime \notin task.pool /\ UNCHANGED <<store, raced, used>>
      /\ task \in Task
  BY ConsumeTypes
<1>2. Pending' = Pending /\ Publications' = Publications
  <2>1. Pending' = Pending
    BY <1>1 DEF Pending
  <2> QED
    BY <2>1 DEF Publications
<1>3. TaskPools'
  <2>1. \A k \in DOMAIN Without(bob.tasks, i) :
          \E j \in DOMAIN bob.tasks : Without(bob.tasks, i)[k] = bob.tasks[j]
    <3>1. bob.tasks \in Seq(Task)
      BY TypeFacts
    <3>2. i \in 1 .. Len(bob.tasks)
      BY <3>1
    <3> QED
      BY <3>1, <3>2, WithoutOne
  <2>2. \A k \in DOMAIN bob'.tasks : bob'.tasks[k].pool \subseteq 1 .. minted
    BY <1>1, <2>1 DEF TaskPools, KeysInv, Minted
  <2> QED
    BY <1>1, <1>2, <2>2 DEF TaskPools, KeysInv, Minted
<1>4. Fetched' = Fetched
  BY <1>1 DEF Fetched
<1>5. CASE onetime \notin task.pool
  <2>1. UNCHANGED <<store, raced, used>>
    BY <1>1, <1>5
  <2> QED
    BY <2>1, <1>1, <1>2, <1>3, <1>4, KeysShrink DEF KeysInv, OnceEach, PublishedOnce
<1>6. CASE onetime \in task.pool
  <2>1. /\ store'.pool = task.pool \ {onetime}
        /\ raced' = (raced \/ task.pool # store.pool)
        /\ used' = Append(used, onetime)
    BY <1>1, <1>6
  <2>2. onetime \in Nat /\ task.pool \subseteq 1 .. minted /\ task.session \in DOMAIN made
    BY <1>1, <1>6 DEF Task, KeysInv, Minted, TaskPools, HandshakeTypeInv, NetType
  <2>3. onetime \in Given
    BY <2>2, NoneIsNothing DEF Given
  <2> HIDE DEF task, onetime
  <2>4. /\ Len(used) \in Nat /\ DOMAIN used = 1 .. Len(used)
        /\ DOMAIN used' = 1 .. Len(used) + 1
        /\ \A k \in 1 .. Len(used) : used'[k] = used[k]
        /\ used'[Len(used) + 1] = onetime
        /\ \A k \in 1 .. Len(used) + 1 : k \in 1 .. Len(used) \/ k = Len(used) + 1
    <3>1. used \in Seq(Nat)
      BY TypeFacts
    <3> QED
      BY <2>1, <3>1
  <2>5. UsedKeys' \subseteq UsedKeys \cup {onetime}
    BY <2>4 DEF UsedKeys
  <2>6. /\ Waiting' = Waiting /\ WaitingOnce' /\ Given' = Given /\ Announced' = Announced
        /\ PublishedOnce' /\ Free' = Free
    <3>1. Waiting' = Waiting /\ WaitingOnce' /\ Given' = Given
      BY <1>1 DEF Waiting, WaitingOnce, Given, KeysInv, OnceEach
    <3>2. Announced' = Announced /\ PublishedOnce'
      BY <1>1, <1>2 DEF Announced, PublishedOnce, KeysInv, OnceEach
    <3> QED
      BY <1>1, <1>4, <3>1, <3>2 DEF Free
  <2>7. OnceEach'
    BY <1>1, <1>4, <2>6 DEF KeysInv, OnceEach
  <2>8. Minted'
    BY <1>1, <1>3, <1>6, <2>1, <2>2, <2>5, <2>6 DEF KeysInv, Minted
  <2>9. PoolInv'
    <3> SUFFICES ASSUME ~raced'
                 PROVE  Free' \subseteq store'.pool /\ UsedKeys' \cap store'.pool = {} /\ UsedOnceUnlessRaced'
      BY DEF PoolInv
    <3>1. ~raced /\ task.pool = store.pool
      BY <2>1
    <3>2. Free \subseteq store.pool /\ UsedKeys \cap store.pool = {} /\ UsedOnceUnlessRaced
      BY <3>1 DEF KeysInv, PoolInv
    <3>3. onetime \notin Free
      BY <2>3 DEF KeysInv, OnceEach
    <3>4. Free' \subseteq store'.pool /\ UsedKeys' \cap store'.pool = {}
      BY <2>1, <2>5, <2>6, <3>1, <3>2, <3>3
    <3>5. \A k \in 1 .. Len(used) : used[k] # onetime
      BY <1>6, <2>4, <3>1, <3>2 DEF UsedKeys
    <3>6. UsedOnceUnlessRaced'
      <4> SUFFICES ASSUME NEW j \in DOMAIN used', NEW k \in DOMAIN used', used'[j] = used'[k]
                   PROVE  j = k
        BY DEF UsedOnceUnlessRaced
      <4>1. (j \in 1 .. Len(used) \/ j = Len(used) + 1) /\ (k \in 1 .. Len(used) \/ k = Len(used) + 1)
        BY <2>4
      <4>2. CASE j \in 1 .. Len(used) /\ k \in 1 .. Len(used)
        BY <4>2, <2>4, <3>1, <3>2 DEF UsedOnceUnlessRaced
      <4>3. CASE j \in 1 .. Len(used) /\ k = Len(used) + 1
        BY <4>3, <2>4, <3>5
      <4>4. CASE j = Len(used) + 1 /\ k \in 1 .. Len(used)
        BY <4>4, <2>4, <3>5
      <4> QED
        BY <4>1, <4>2, <4>3, <4>4
    <3> QED
      BY <3>4, <3>6
  <2> QED
    BY <2>7, <2>8, <2>9 DEF KeysInv
<1> QED
  BY <1>5, <1>6

LEMMA HandshakeKeys ==
  ASSUME HandshakeTypeInv, KeysInv, [HandshakeNext]_handshakeVars
  PROVE  KeysInv'
<1>1. CASE UNCHANGED handshakeVars
  <2>1. UNCHANGED <<alice, bob, store, prekeys, minted, made, used, raced>>
    BY <1>1 DEF handshakeVars, keys, history
  <2>2. Fetched' = Fetched
    BY <2>1 DEF Fetched
  <2> QED
    BY <2>1, <2>2, BobStays, KeysShrink DEF KeysInv, OnceEach, PublishedOnce
<1>2. CASE HandshakeNext
  BY <1>2, ArriveKeys, RedeliverKeys, MountKeys, AliceKeys, ServeFetchKeys, UseKeys, ResumeKeys,
     LoadKeys, OfferKeys, AskStatusKeys, TopUpKeys, PublishKeys, AcceptKeys, ConsumeKeys
     DEF HandshakeNext
<1> QED
  BY <1>1, <1>2

LEMMA KeysSafe == HandshakeSpec => [](HandshakeTypeInv /\ KeysInv)
<1>1. HandshakeInit => HandshakeTypeInv /\ KeysInv
  BY HandshakeInitTypes, KeysInit
<1>2. HandshakeTypeInv /\ KeysInv /\ [HandshakeNext]_handshakeVars
        => (HandshakeTypeInv /\ KeysInv)'
  BY HandshakeTypes, HandshakeKeys
<1> QED
  BY <1>1, <1>2, PTL DEF HandshakeSpec

(* A one-time private key serves one session, although session_inits are   *)
(* redelivered and kept, as long as no two updates of the sealed pool      *)
(* overlap (consumeFromPool).                                              *)
THEOREM UsedOnce == HandshakeSpec => []UsedOnceUnlessRaced
<1>1. HandshakeTypeInv /\ KeysInv => UsedOnceUnlessRaced
  BY DEF KeysInv, PoolInv, UsedOnceUnlessRaced
<1> QED
  BY <1>1, KeysSafe, PTL

(* Every public one-time key that is on offer has its private half in the  *)
(* pool until it is used, under the same proviso (topUpPool,               *)
(* publishBundle, handleFetchAndPop).                                      *)
THEOREM OfferedHeld == HandshakeSpec => []HeldUnlessRaced
<1>1. HandshakeTypeInv /\ KeysInv => HeldUnlessRaced
  BY DEF KeysInv, PoolInv, HeldUnlessRaced, OfferedKeysHeld, Offered, Free, Fetched
<1> QED
  BY <1>1, KeysSafe, PTL

-----------------------------------------------------------------------------
(* Handshake: the key pairs                                                *)

\* The key pairs of all bundles that are about: those of offers, of the
\* bundles Alice has, of publications under way, and PrekeyDO's.
OfferedPairs == {e.key : e \in posted.alice} \cup {queue.alice[i].key : i \in DOMAIN queue.alice}
FetchedPair ==
  IF alice.fetch # None /\ alice.fetch.step = "answered" THEN {alice.fetch.bundle.key} ELSE {}
BundlePairs ==
  {made[i].key : i \in DOMAIN made} \cup
  ({alice.tasks[i].key : i \in DOMAIN alice.tasks} \cup FetchedPair)
PublishedPairs == {t.key : t \in Publications} \cup ({prekeys.key} \ {0})
Public == OfferedPairs \cup (BundlePairs \cup PublishedPairs)

\* None is newer than the one Bob's chat is about to use or uses.
NotNewer == \A k \in Public : k \in 1 .. store.key
KeyInUse ==
  /\ bob.key <= store.key
  /\ bob.key # 0 => \A k \in Public : k <= bob.key
KeyLoaded ==
  At("offer") => /\ bob.publish.key \in 1 .. store.key
                 /\ \A k \in Public : k <= bob.publish.key
\* The chat has a key pair from its offer on.
KeyWhenOpen ==
  /\ bob.open /\ bob.key = 0 => At("load") \/ At("offer")
  /\ bob.publish # None => bob.open
  /\ At("load") \/ At("offer") => bob.key = 0
  /\ At("status") \/ (At("top up") \/ At("publish")) => bob.key # 0
KeyPairInv == NotNewer /\ KeyInUse /\ KeyLoaded /\ KeyWhenOpen

LEMMA KeyPairInit == HandshakeInit => KeyPairInv
<1> SUFFICES ASSUME HandshakeInit PROVE KeyPairInv
  OBVIOUS
<1>1. /\ alice.fetch = None /\ alice.tasks = <<>>
      /\ bob.publish = None /\ bob.late = {} /\ bob.key = 0 /\ bob.open = FALSE
      /\ store.key = 0 /\ prekeys.key = 0 /\ made = <<>>
      /\ posted.alice = {} /\ queue.alice = <<>>
  BY DEF HandshakeInit
<1>2. Publications = {}
  BY <1>1 DEF Pending, Publications
<1>3. OfferedPairs = {} /\ BundlePairs = {} /\ PublishedPairs = {}
  BY <1>1, <1>2 DEF OfferedPairs, BundlePairs, FetchedPair, PublishedPairs
<1>4. Public = {}
  BY <1>3 DEF Public
<1> QED
  BY <1>1, <1>4 DEF KeyPairInv, NotNewer, KeyInUse, KeyLoaded, KeyWhenOpen, At

LEMMA KeyPairsStay ==
  ASSUME KeyPairInv, Public' \subseteq Public, store'.key = store.key, bob'.key = bob.key,
         bob'.publish = bob.publish, bob'.open = bob.open
  PROVE  KeyPairInv'
<1>1. \A s : At(s)' <=> At(s)
  BY DEF At
<1>2. NotNewer'
  BY DEF KeyPairInv, NotNewer
<1>3. KeyInUse'
  BY DEF KeyPairInv, KeyInUse
<1>4. KeyLoaded'
  BY DEF KeyPairInv, KeyLoaded, At
<1>5. KeyWhenOpen'
  BY DEF KeyPairInv, KeyWhenOpen, At
<1> QED
  BY <1>2, <1>3, <1>4, <1>5 DEF KeyPairInv

LEMMA ArrivePairs ==
  ASSUME HandshakeTypeInv, KeyPairInv, NEW to \in {"alice", "bob"}, Arrive(to)
  PROVE  KeyPairInv'
<1>1. UNCHANGED <<alice, bob, store, prekeys, minted, made>>
  BY DEF Arrive, keys, history
<1>2. OfferedPairs' \subseteq OfferedPairs
  <2>1. PICK e \in posted[to] :
          /\ posted' = [posted EXCEPT ![to] = @ \ {e}]
          /\ queue' = queue \/ queue' = [queue EXCEPT ![to] = Append(@, e)]
    BY DEF Arrive
  <2>2. posted \in [alice : SUBSET OfferType, bob : SUBSET InitType]
        /\ queue \in [alice : Seq(OfferType), bob : Seq(InitType)]
    BY DEF HandshakeTypeInv, NetType
  <2>3. posted'.alice \subseteq posted.alice
    BY <2>1, <2>2
  <2>4. queue'.alice = queue.alice \/ (to = "alice" /\ queue'.alice = Append(queue.alice, e))
    BY <2>1, <2>2
  <2>5. ASSUME NEW i \in DOMAIN queue'.alice
        PROVE  queue'.alice[i].key \in OfferedPairs
    <3>1. queue.alice \in Seq(OfferType)
      BY TypeFacts
    <3>2. (i \in DOMAIN queue.alice /\ queue'.alice[i] = queue.alice[i])
          \/ (queue'.alice[i] = e /\ e \in posted.alice)
      <4>1. CASE queue'.alice = queue.alice
        BY <4>1
      <4>2. CASE to = "alice" /\ queue'.alice = Append(queue.alice, e)
        <5>1. e \in posted.alice
          BY <2>1, <4>2
        <5>2. i \in 1 .. Len(queue.alice) + 1 /\ Len(queue.alice) \in Nat
          BY <4>2, <3>1
        <5>3. CASE i \in 1 .. Len(queue.alice)
          BY <5>3, <4>2, <3>1
        <5>4. CASE i = Len(queue.alice) + 1
          BY <5>4, <5>1, <4>2, <3>1
        <5> QED
          BY <5>2, <5>3, <5>4
      <4> QED
        BY <2>4, <4>1, <4>2
    <3> QED
      BY <3>2 DEF OfferedPairs
  <2> QED
    BY <2>3, <2>5 DEF OfferedPairs
<1>3. BundlePairs' = BundlePairs
  BY <1>1 DEF BundlePairs, FetchedPair
<1>4. PublishedPairs' = PublishedPairs
  BY <1>1 DEF PublishedPairs, Publications, Pending
<1> QED
  BY <1>1, <1>2, <1>3, <1>4, KeyPairsStay DEF Public

LEMMA RedeliverPairs ==
  ASSUME HandshakeTypeInv, KeyPairInv, Redeliver
  PROVE  KeyPairInv'
<1>1. UNCHANGED <<store, prekeys, minted, posted, queue, made>>
  BY DEF Redeliver, keys, history
<1>2. alice \in Initiator /\ bob \in Responder
  BY TypeFacts
<1>3. alice'.fetch = alice.fetch /\ alice'.tasks = alice.tasks
  BY <1>2 DEF Redeliver, Rewound, Initiator
<1>4. /\ bob'.publish = bob.publish /\ bob'.late = bob.late /\ bob'.key = bob.key
      /\ bob'.open = bob.open
  BY <1>2 DEF Redeliver, Rewound, Responder
<1>5. OfferedPairs' = OfferedPairs
  BY <1>1 DEF OfferedPairs
<1>6. BundlePairs' = BundlePairs
  BY <1>1, <1>3 DEF BundlePairs, FetchedPair
<1>7. PublishedPairs' = PublishedPairs
  BY <1>1, <1>4 DEF PublishedPairs, Publications, Pending
<1> QED
  BY <1>1, <1>4, <1>5, <1>6, <1>7, KeyPairsStay DEF Public

\* A step of Alice, who makes bundles from none but those she has.
LEMMA AlicePairs ==
  ASSUME KeyPairInv, UNCHANGED <<bob, store>>, posted'.alice = posted.alice, queue' = queue,
         prekeys'.key = prekeys.key, BundlePairs' \subseteq Public
  PROVE  KeyPairInv'
<1>1. OfferedPairs' = OfferedPairs
  BY DEF OfferedPairs
<1>2. PublishedPairs' = PublishedPairs
  BY DEF PublishedPairs, Publications, Pending
<1> QED
  BY <1>1, <1>2, KeyPairsStay DEF Public

LEMMA FetchPairs ==
  ASSUME HandshakeTypeInv, KeyPairInv, AliceMounts \/ AliceLeaves \/ FetchFails \/ ServeFetch
  PROVE  KeyPairInv'
<1>1. UNCHANGED <<bob, store, posted, queue, made>>
  BY DEF AliceMounts, AliceLeaves, FetchFails, ServeFetch, keys, history
<1>2. alice \in Initiator
  BY TypeFacts
<1>3. /\ alice'.tasks \in {alice.tasks, <<>>}
      /\ FetchedPair' \subseteq {prekeys.key} \ {0}
      /\ prekeys'.key = prekeys.key
  <2>1. CASE AliceMounts
    <3>1. alice'.fetch = [step |-> "asked"] /\ alice'.tasks = alice.tasks /\ prekeys' = prekeys
      BY <2>1, <1>2 DEF AliceMounts, keys, Initiator
    <3>2. alice'.fetch.step = "asked"
      BY <3>1
    <3> QED
      BY <3>1, <3>2 DEF FetchedPair
  <2>2. CASE AliceLeaves
    <3>1. alice'.fetch = None /\ alice'.tasks \in {alice.tasks, <<>>} /\ prekeys' = prekeys
      BY <2>2, <1>2 DEF AliceLeaves, keys, Initiator
    <3> QED
      BY <3>1 DEF FetchedPair
  <2>3. CASE FetchFails
    <3>1. alice'.fetch = None /\ alice'.tasks = alice.tasks /\ prekeys' = prekeys
      BY <2>3, <1>2 DEF FetchFails, keys, Initiator
    <3> QED
      BY <3>1 DEF FetchedPair
  <2>4. CASE ServeFetch
    <3>1. alice'.tasks = alice.tasks
      BY <2>4, <1>2 DEF ServeFetch, Initiator
    <3>2. prekeys'.key = prekeys.key
      <4>1. prekeys \in [key : Nat, onetime : SUBSET Nat]
        BY DEF HandshakeTypeInv, KeysType
      <4>2. prekeys' = prekeys \/ prekeys' = [prekeys EXCEPT !.onetime = @ \ {HandedOut}]
        BY <2>4 DEF ServeFetch, AfterPop
      <4> QED
        BY <4>1, <4>2
    <3>3. CASE prekeys.key = 0
      <4>1. alice'.fetch = None
        BY <2>4, <3>3, <1>2 DEF ServeFetch, Initiator
      <4> QED
        BY <3>1, <3>2, <4>1 DEF FetchedPair
    <3>4. CASE prekeys.key # 0
      <4>1. alice'.fetch.bundle.key = prekeys.key
        BY <2>4, <3>4, <1>2 DEF ServeFetch, Initiator
      <4> QED
        BY <3>1, <3>2, <3>4, <4>1 DEF FetchedPair
    <3> QED
      BY <3>3, <3>4
  <2> QED
    BY <2>1, <2>2, <2>3, <2>4
<1>4. BundlePairs' \subseteq Public
  <2>1. {alice'.tasks[i].key : i \in DOMAIN alice'.tasks} \subseteq BundlePairs
    BY <1>3 DEF BundlePairs
  <2>2. {made'[i].key : i \in DOMAIN made'} \subseteq BundlePairs
    BY <1>1 DEF BundlePairs
  <2>3. FetchedPair' \subseteq PublishedPairs
    BY <1>3 DEF PublishedPairs
  <2> QED
    BY <2>1, <2>2, <2>3 DEF BundlePairs, Public
<1> QED
  BY <1>1, <1>3, <1>4, AlicePairs

LEMMA AppendedPairs ==
  ASSUME NEW q \in Seq(Bundle), NEW b \in Bundle
  PROVE  \A i \in DOMAIN Append(q, b) :
           Append(q, b)[i].key \in {q[j].key : j \in DOMAIN q} \cup {b.key}
<1> SUFFICES ASSUME NEW i \in 1 .. Len(q) + 1
             PROVE  Append(q, b)[i].key \in {q[j].key : j \in DOMAIN q} \cup {b.key}
  OBVIOUS
<1>1. CASE i = Len(q) + 1
  BY <1>1
<1>2. CASE i \in 1 .. Len(q)
  <2>1. Append(q, b)[i] = q[i] /\ i \in DOMAIN q
    BY <1>2
  <2> QED
    BY <2>1
<1> QED
  BY <1>1, <1>2

\* Alice goes on with a bundle whose key pair is about.
LEMMA GoingPairs ==
  ASSUME HandshakeTypeInv, KeyPairInv, NEW device \in Initiator, NEW bundle \in Bundle,
         Create(device, bundle) \/
           (/\ alice' = device \/ alice' = [device EXCEPT !.tasks = Append(@, bundle)]
            /\ UNCHANGED <<posted, made>>),
         UNCHANGED <<bob, store, prekeys, queue>>,
         bundle.key \in Public,
         {device.tasks[i].key : i \in DOMAIN device.tasks} \subseteq BundlePairs,
         device.fetch \in {alice.fetch, None}
  PROVE  KeyPairInv'
<1>1. made \in Seq(Bundle) /\ device.tasks \in Seq(Bundle)
  BY TypeFacts DEF Initiator
<1>2. posted'.alice = posted.alice
  BY DEF Create, HandshakeTypeInv, NetType
<1>3. made' = made \/ made' = Append(made, bundle)
  BY DEF Create
<1>4. /\ alice'.tasks = device.tasks \/ alice'.tasks = Append(device.tasks, bundle)
      /\ alice'.fetch = device.fetch
  BY DEF Create, Initiator
<1>5. \A i \in DOMAIN made' : made'[i].key \in Public
  <2>1. {made[i].key : i \in DOMAIN made} \subseteq Public
    BY DEF Public, BundlePairs
  <2>2. CASE made' = made
    BY <2>1, <2>2
  <2>3. CASE made' = Append(made, bundle)
    BY <2>1, <2>3, <1>1, AppendedPairs
  <2> QED
    BY <1>3, <2>2, <2>3
<1>6. \A i \in DOMAIN alice'.tasks : alice'.tasks[i].key \in Public
  <2>1. {device.tasks[i].key : i \in DOMAIN device.tasks} \subseteq Public
    BY DEF Public
  <2>2. CASE alice'.tasks = device.tasks
    BY <2>1, <2>2
  <2>3. CASE alice'.tasks = Append(device.tasks, bundle)
    BY <2>1, <2>3, <1>1, AppendedPairs
  <2> QED
    BY <1>4, <2>2, <2>3
<1>7. FetchedPair' \subseteq Public
  BY <1>4 DEF FetchedPair, Public, BundlePairs
<1>8. BundlePairs' \subseteq Public
  BY <1>5, <1>6, <1>7 DEF BundlePairs
<1> QED
  BY <1>2, <1>8, AlicePairs

LEMMA UsePairs ==
  ASSUME HandshakeTypeInv, KeyPairInv, UseFetched \/ (UseOffer \/ Resume)
  PROVE  KeyPairInv'
<1>1. CASE UseFetched
  <2> DEFINE device == [alice EXCEPT !.fetch = None]
  <2>1. alice \in Initiator /\ device \in Initiator /\ alice.fetch.bundle \in Bundle
    BY <1>1, TypeFacts, UseFetchedGoes DEF Going
  <2>2. device.tasks = alice.tasks /\ device.fetch = None
    BY <2>1 DEF Initiator
  <2>3. Initiate(device, alice.fetch.bundle)
    BY <1>1 DEF UseFetched
  <2>4. alice.fetch.bundle.key \in Public
    BY <1>1 DEF UseFetched, FetchedPair, BundlePairs, Public
  <2>5. {device.tasks[i].key : i \in DOMAIN device.tasks} \subseteq BundlePairs
    BY <2>2 DEF BundlePairs
  <2> HIDE DEF device
  <2> QED
    BY <2>1, <2>2, <2>3, <2>4, <2>5, GoingPairs DEF Initiate, keys
<1>2. CASE UseOffer
  <2> DEFINE device == [alice EXCEPT !.next = @ + 1]
             bundle == [key |-> queue.alice[alice.next + 1].key, onetime |-> None]
  <2>1. alice \in Initiator /\ device \in Initiator /\ bundle \in Bundle
    BY <1>2, TypeFacts, UseOfferGoes DEF Going
  <2>2. device.tasks = alice.tasks /\ device.fetch = alice.fetch
    BY <2>1 DEF Initiator
  <2>3. Initiate(device, bundle)
    BY <1>2 DEF UseOffer
  <2>4. bundle.key \in Public
    <3>1. alice.next + 1 \in DOMAIN queue.alice
      <4>1. alice.next \in Nat /\ queue.alice \in Seq(OfferType) /\ alice.next < Len(queue.alice)
        BY <1>2, TypeFacts DEF UseOffer
      <4> QED
        BY <4>1
    <3> QED
      BY <3>1 DEF OfferedPairs, Public
  <2>5. {device.tasks[i].key : i \in DOMAIN device.tasks} \subseteq BundlePairs
    BY <2>2 DEF BundlePairs
  <2> HIDE DEF device, bundle
  <2> QED
    BY <2>1, <2>2, <2>3, <2>4, <2>5, GoingPairs DEF Initiate, keys
<1>3. CASE Resume
  <2> DEFINE device == [alice EXCEPT !.tasks = Tail(@)]
             bundle == Head(alice.tasks)
  <2>1. alice \in Initiator /\ device \in Initiator /\ bundle \in Bundle
    BY <1>3, TypeFacts, ResumeGoes DEF Going
  <2>2. device.tasks = Tail(alice.tasks) /\ device.fetch = alice.fetch
    BY <2>1 DEF Initiator
  <2>3. Create(device, bundle) /\ UNCHANGED <<bob, keys, queue, history, faults>>
    BY <1>3 DEF Resume
  <2>4. alice.tasks \in Seq(Bundle) /\ alice.tasks # <<>>
    BY <1>3, TypeFacts DEF Resume
  <2>5. /\ 1 \in DOMAIN alice.tasks /\ bundle = alice.tasks[1]
        /\ \A i \in DOMAIN Tail(alice.tasks) : /\ i + 1 \in DOMAIN alice.tasks
                                               /\ Tail(alice.tasks)[i] = alice.tasks[i + 1]
    BY <2>4
  <2>6. bundle.key \in Public
    BY <2>5 DEF BundlePairs, Public
  <2>7. {device.tasks[i].key : i \in DOMAIN device.tasks} \subseteq BundlePairs
    BY <2>2, <2>5 DEF BundlePairs
  <2> HIDE DEF device, bundle
  <2> QED
    BY <2>1, <2>2, <2>3, <2>6, <2>7, GoingPairs DEF keys
<1> QED
  BY <1>1, <1>2, <1>3

\* Bob's steps leave Alice's bundles and the offers alone.
LEMMA BobPairs ==
  ASSUME alice' = alice, made' = made, posted' = posted, queue' = queue,
         NEW P, PublishedPairs' \subseteq PublishedPairs \cup P
  PROVE  Public' \subseteq Public \cup P
<1>1. OfferedPairs' = OfferedPairs /\ BundlePairs' = BundlePairs
  BY DEF OfferedPairs, BundlePairs, FetchedPair
<1> QED
  BY <1>1 DEF Public

LEMMA MountPairs ==
  ASSUME HandshakeTypeInv, KeyPairInv, BobMounts \/ BobLeaves
  PROVE  KeyPairInv'
<1>1. UNCHANGED <<alice, store, prekeys, minted, posted, queue, made>>
  BY DEF BobMounts, BobLeaves, keys, history
<1>2. bob \in Responder
  BY TypeFacts
<1>3. /\ bob'.key = 0
      /\ \/ /\ bob'.late = bob.late /\ bob'.publish = [step |-> "load"] /\ bob'.open = TRUE
         \/ /\ bob'.late \subseteq bob.late \cup ({bob.publish} \ {None}) /\ bob'.publish = None
            /\ bob'.open = FALSE
  <2>1. CASE BobMounts
    BY <2>1, <1>2 DEF BobMounts, Responder
  <2>2. CASE BobLeaves
    <3> DEFINE closed == [bob EXCEPT !.open = FALSE, !.key = 0, !.session = None, !.publish = None]
               underway == {t \in {bob.publish} : \E step \in {"load", "top up", "publish"} : At(step)}
    <3>1. underway \subseteq {bob.publish} \ {None}
      BY DEF At
    <3>2. closed.late = bob.late /\ closed.publish = None /\ closed.key = 0 /\ closed.open = FALSE
          /\ closed \in [open : {closed.open}, mounts : {closed.mounts}, acked : {closed.acked},
                         next : {closed.next}, key : {closed.key}, session : {closed.session},
                         publish : {None}, late : {bob.late}, tasks : {bob.tasks}]
      BY <1>2 DEF Responder
    <3>3. \/ bob' = [closed EXCEPT !.late = @ \cup underway]
          \/ bob' = [closed EXCEPT !.late = {}, !.tasks = <<>>]
      BY <2>2 DEF BobLeaves
    <3> HIDE DEF closed, underway
    <3>4. /\ bob'.late = bob.late \cup underway \/ bob'.late = {}
          /\ bob'.publish = None /\ bob'.key = 0 /\ bob'.open = FALSE
      BY <3>2, <3>3
    <3> QED
      BY <3>1, <3>4
  <2> QED
    BY <2>1, <2>2
<1>4. Publications' \subseteq Publications
  <2> SUFFICES ASSUME NEW t \in Publications' PROVE t \in Publications
    OBVIOUS
  <2>1. t \in Pending' /\ t.step = "publish" /\ t # [step |-> "load"]
    BY DEF Publications
  <2>2. t \in Pending
    BY <1>3, <2>1 DEF Pending
  <2> QED
    BY <2>1, <2>2 DEF Publications
<1>5. PublishedPairs' \subseteq PublishedPairs \cup {}
  BY <1>1, <1>4 DEF PublishedPairs
<1>6. Public' \subseteq Public
  BY <1>1, <1>5, BobPairs
<1>7. /\ At("load")' <=> (bob'.publish = [step |-> "load"])
      /\ ~At("offer")' /\ ~At("status")' /\ ~At("top up")' /\ ~At("publish")'
  <2>1. \A s : At(s)' <=> (bob'.publish # None /\ bob'.publish.step = s)
    BY DEF At
  <2>2. CASE bob'.publish = None
    BY <2>1, <2>2, StepFacts, NoneIsNothing
  <2>3. CASE bob'.publish = [step |-> "load"]
    <3>1. bob'.publish.step = "load" /\ bob'.publish # None
      <4>1. [step |-> "load"] # None
        BY StepFacts, NoneIsNothing
      <4> QED
        BY <2>3, <4>1
    <3> QED
      BY <2>1, <2>3, <3>1
  <2> QED
    BY <1>3, <2>2, <2>3
<1>8. NotNewer' /\ KeyInUse' /\ KeyLoaded'
  <2>1. NotNewer'
    BY <1>1, <1>6 DEF KeyPairInv, NotNewer
  <2>2. KeyInUse'
    <3>1. store'.key \in Nat
      BY <1>1, TypeFacts
    <3> QED
      BY <1>3, <3>1 DEF KeyInUse
  <2>3. KeyLoaded'
    BY <1>7 DEF KeyLoaded
  <2> QED
    BY <2>1, <2>2, <2>3
<1>9. KeyWhenOpen'
  BY <1>3, <1>7, StepFacts, NoneIsNothing DEF KeyWhenOpen
<1> QED
  BY <1>8, <1>9 DEF KeyPairInv

LEMMA InRange ==
  ASSUME NEW m \in Nat, NEW n \in Nat, m <= n, m # 0
  PROVE  m \in 1 .. n /\ m <= m
  OBVIOUS

\* Bob's chat goes from one step of its publication to another.
LEMMA NextStep ==
  ASSUME HandshakeTypeInv, KeyPairInv, NEW p \in Step \cup {None}, bob'.publish = p,
         bob'.open = bob.open, bob'.key = bob.key, bob.publish # None, bob.key # 0,
         p # None => p.step \in {"status", "top up", "publish"},
         Public' \subseteq Public \cup {bob.key}, store'.key = store.key
  PROVE  KeyPairInv'
<1>1. \A s : At(s)' <=> (p # None /\ p.step = s)
  BY DEF At
<1>2. ~At("load")' /\ ~At("offer")'
  BY <1>1
<1>3. bob.open
  BY DEF KeyPairInv, KeyWhenOpen
<1>4. bob.key \in 1 .. store.key /\ bob.key <= bob.key
  <2>1. bob.key \in Nat /\ store.key \in Nat
    BY TypeFacts
  <2>2. bob.key <= store.key
    BY DEF KeyPairInv, KeyInUse
  <2> QED
    BY <2>1, <2>2, InRange
<1>5. NotNewer' /\ KeyInUse'
  BY <1>4 DEF KeyPairInv, NotNewer, KeyInUse
<1>6. KeyLoaded' /\ KeyWhenOpen'
  BY <1>2, <1>3 DEF KeyLoaded, KeyWhenOpen
<1> QED
  BY <1>5, <1>6 DEF KeyPairInv

\* A task of an earlier mount ends.
LEMMA LatePairs ==
  ASSUME HandshakeTypeInv, KeyPairInv, NEW t, bob' = [bob EXCEPT !.late = @ \ {t}],
         UNCHANGED <<alice, made, posted, queue>>, store'.key = store.key,
         prekeys'.key \in {prekeys.key} \cup PublishedPairs
  PROVE  KeyPairInv'
<1>1. /\ bob'.publish = bob.publish /\ bob'.key = bob.key /\ bob'.open = bob.open
      /\ bob'.late \subseteq bob.late
  BY LateGoes
<1>2. Publications' \subseteq Publications
  BY <1>1 DEF Publications, Pending
<1>3. PublishedPairs' \subseteq PublishedPairs \cup {}
  BY <1>2 DEF PublishedPairs
<1>4. Public' \subseteq Public
  BY <1>3, BobPairs
<1> QED
  BY <1>1, <1>4, KeyPairsStay

LEMMA LoadPairs ==
  ASSUME HandshakeTypeInv, KeyPairInv, LoadIdentity
  PROVE  KeyPairInv'
<1>1. UNCHANGED <<alice, prekeys, minted, posted, queue, made>>
  BY DEF LoadIdentity
<1>2. store'.key \in Nat /\ store'.key >= store.key /\ store'.key >= 1
  <2>1. store.key \in Nat
    BY TypeFacts
  <2>2. (store' = store /\ store.key # 0) \/ store' = [store EXCEPT !.key = @ + 1]
    BY DEF LoadIdentity, GetOrRotate
  <2>3. store \in [key : Nat, pool : SUBSET Nat] /\ store.key + 1 \in Nat
    BY <2>1 DEF HandshakeTypeInv, KeysType
  <2>4. (store' = store /\ store.key # 0) \/ store'.key = store.key + 1
    BY <2>2, <2>3, StoreUpdates
  <2> QED
    BY <2>1, <2>4
<1>3. \A k \in Public : k \in 1 .. store'.key
  <2>1. store.key \in Nat
    BY TypeFacts
  <2> QED
    BY <1>2, <2>1 DEF KeyPairInv, NotNewer
<1>4. bob.key \in Nat /\ store.key \in Nat
  BY TypeFacts
<1>5. CASE At("load") /\ Publishing([step |-> "offer", key |-> store'.key])
  <2> DEFINE p == [step |-> "offer", key |-> store'.key]
  <2>1. p \in Step /\ p # None
    BY <1>2, StepFacts, NoneIsNothing
  <2>2. bob' = [bob EXCEPT !.publish = p]
    BY <1>5 DEF Publishing
  <2>3. p.step = "offer" /\ p.key = store'.key
    OBVIOUS
  <2> HIDE DEF p
  <2>4. /\ bob'.publish = p /\ bob'.late = bob.late /\ bob'.key = bob.key /\ bob'.open = bob.open
    BY <2>1, <2>2, <1>1, PublicationGoes
  <2>5. Publications' \subseteq Publications
    BY <2>3, <2>4 DEF Publications, Pending
  <2>6. PublishedPairs' \subseteq PublishedPairs \cup {}
    BY <2>5, <1>1 DEF PublishedPairs
  <2>7. Public' \subseteq Public
    BY <2>6, <1>1, BobPairs
  <2>8. bob.key = 0 /\ bob.open
    BY <1>5 DEF At, KeyPairInv, KeyWhenOpen
  <2>9. \A s : At(s)' <=> s = "offer"
    BY <2>1, <2>3, <2>4 DEF At
  <2>10. NotNewer'
    BY <1>3, <2>7 DEF NotNewer
  <2>11. KeyInUse'
    BY <1>2, <2>4, <2>8 DEF KeyInUse
  <2>12. KeyLoaded'
    <3>1. store'.key \in 1 .. store'.key
      BY <1>2
    <3>2. \A k \in Public : k <= store'.key
      BY <1>3, <1>2
    <3> QED
      BY <2>3, <2>4, <2>7, <3>1, <3>2 DEF KeyLoaded
  <2>13. KeyWhenOpen'
    BY <2>4, <2>8, <2>9 DEF KeyWhenOpen
  <2> QED
    BY <2>10, <2>11, <2>12, <2>13 DEF KeyPairInv
<1>6. CASE \E t \in bob.late : bob' = [bob EXCEPT !.late = @ \ {t}]
  <2>1. /\ bob'.publish = bob.publish /\ bob'.key = bob.key /\ bob'.open = bob.open
        /\ bob'.late \subseteq bob.late
    BY <1>6, <1>1, LateGoes
  <2>2. Publications' \subseteq Publications
    BY <2>1 DEF Publications, Pending
  <2>3. PublishedPairs' \subseteq PublishedPairs \cup {}
    BY <2>2, <1>1 DEF PublishedPairs
  <2>4. Public' \subseteq Public
    BY <2>3, <1>1, BobPairs
  <2>5. NotNewer'
    BY <1>3, <2>4 DEF NotNewer
  <2>6. KeyInUse'
    <3>1. bob.key <= store'.key
      BY <1>2, <1>4 DEF KeyPairInv, KeyInUse
    <3> QED
      BY <2>1, <2>4, <3>1 DEF KeyPairInv, KeyInUse
  <2>7. KeyLoaded'
    <3> SUFFICES ASSUME At("offer")
                 PROVE  /\ bob.publish.key \in 1 .. store'.key
                        /\ \A k \in Public : k <= bob.publish.key
      BY <2>1, <2>4 DEF KeyLoaded, At
    <3>1. bob.publish.key \in 1 .. store.key /\ \A k \in Public : k <= bob.publish.key
      BY DEF KeyPairInv, KeyLoaded
    <3> QED
      BY <3>1, <1>2, <1>4
  <2>8. KeyWhenOpen'
    BY <2>1 DEF KeyPairInv, KeyWhenOpen, At
  <2> QED
    BY <2>5, <2>6, <2>7, <2>8 DEF KeyPairInv
<1> QED
  BY <1>5, <1>6 DEF LoadIdentity

\* The key pair that was loaded is put to use.
LEMMA PushOfferPairs ==
  ASSUME HandshakeTypeInv, KeyPairInv, PushOffer
  PROVE  KeyPairInv'
<1>1. UNCHANGED <<alice, store, prekeys, minted, queue, made>>
  BY DEF PushOffer, keys, history
<1>2. bob \in Responder /\ At("offer")
  BY TypeFacts DEF PushOffer
<1> DEFINE k == bob.publish.key
<1>3. /\ bob'.key = k /\ bob'.publish = [step |-> "status"] /\ bob'.late = bob.late
      /\ bob'.open = bob.open
  BY <1>2 DEF PushOffer, Responder
<1>4. posted'.alice = posted.alice \cup {Offer(k)}
  BY DEF PushOffer, HandshakeTypeInv, NetType
<1>5. /\ k \in 1 .. store.key /\ \A j \in Public : j <= k
      /\ store.key \in Nat
  BY <1>2, TypeFacts DEF KeyPairInv, KeyLoaded
<1>6. bob.open
  BY <1>2 DEF At, KeyPairInv, KeyWhenOpen
<1>7. Offer(k).key = k
  BY DEF Offer
<1>8. [step |-> "status"] # None /\ [step |-> "status"].step = "status"
  BY StepFacts, NoneIsNothing
<1> HIDE DEF k
<1>9. Public' \subseteq Public \cup {k}
  <2>1. OfferedPairs' \subseteq OfferedPairs \cup {k}
    BY <1>1, <1>4, <1>7 DEF OfferedPairs
  <2>2. BundlePairs' = BundlePairs
    BY <1>1 DEF BundlePairs, FetchedPair
  <2>3. Publications' \subseteq Publications
    BY <1>3, <1>8 DEF Publications, Pending
  <2>4. PublishedPairs' \subseteq PublishedPairs
    BY <1>1, <2>3 DEF PublishedPairs
  <2> QED
    BY <2>1, <2>2, <2>4 DEF Public
<1>10. \A s : At(s)' <=> s = "status"
  BY <1>3, <1>8 DEF At
<1>11. NotNewer'
  BY <1>1, <1>5, <1>9 DEF KeyPairInv, NotNewer
<1>12. KeyInUse'
  <2>1. k <= store.key /\ k <= k
    BY <1>5
  <2> QED
    BY <1>1, <1>3, <1>5, <1>9, <2>1 DEF KeyInUse
<1>13. KeyLoaded' /\ KeyWhenOpen'
  <2>1. k # 0
    BY <1>5
  <2> QED
    BY <1>3, <1>6, <1>10, <2>1 DEF KeyLoaded, KeyWhenOpen
<1> QED
  BY <1>11, <1>12, <1>13 DEF KeyPairInv

\* What is published is the key pair in use.
LEMMA PublicationPairs ==
  ASSUME HandshakeTypeInv, KeyPairInv, NEW p \in Step \cup {None},
         bob'.publish = p, bob'.late \subseteq bob.late, UNCHANGED <<alice, made, posted, queue>>,
         prekeys'.key \in {prekeys.key} \cup PublishedPairs,
         p # None /\ p.step = "publish" => p.key = bob.key
  PROVE  Public' \subseteq Public \cup {bob.key}
<1>1. \A t \in Publications' : t \in Publications \/ (p # None /\ t = p /\ t.step = "publish")
  BY DEF Publications, Pending
<1>2. PublishedPairs' \subseteq PublishedPairs \cup {bob.key}
  BY <1>1 DEF PublishedPairs
<1> QED
  BY <1>2, BobPairs

LEMMA AskStatusPairs ==
  ASSUME HandshakeTypeInv, KeyPairInv, AskStatus
  PROVE  KeyPairInv'
<1>1. UNCHANGED <<alice, store, prekeys, minted, posted, queue, made>> /\ At("status")
  BY DEF AskStatus, keys, history
<1>2. PICK p \in Step :
        /\ bob' = [bob EXCEPT !.publish = p]
        /\ p.step \in {"top up", "publish"}
        /\ p.step = "publish" => p.key = bob.key
  BY AskStatusGoes
<1>3. /\ bob'.publish = p /\ bob'.late = bob.late /\ bob'.key = bob.key /\ bob'.open = bob.open
  BY <1>1, <1>2, PublicationGoes
<1>4. Public' \subseteq Public \cup {bob.key}
  BY <1>1, <1>2, <1>3, PublicationPairs
<1> QED
  BY <1>1, <1>2, <1>3, <1>4, NextStep DEF At, KeyPairInv, KeyWhenOpen

LEMMA TopUpPairs ==
  ASSUME HandshakeTypeInv, KeyPairInv, TopUp
  PROVE  KeyPairInv'
<1>1. UNCHANGED <<alice, prekeys, posted, queue, made>>
  BY DEF TopUp
<1>2. store'.key = store.key
  <2>1. \E t \in Step : t.step = "top up" /\ SavePool(t)
    BY TopUpCases, AtFacts
  <2> QED
    BY <2>1, SavePoolTypes
<1>3. CASE /\ At("top up")
           /\ \E p \in Step : p.step = "publish" /\ p.key = bob.key
                              /\ bob' = [bob EXCEPT !.publish = p]
  <2>1. PICK p \in Step : p.step = "publish" /\ p.key = bob.key /\ bob' = [bob EXCEPT !.publish = p]
    BY <1>3
  <2>2. /\ bob'.publish = p /\ bob'.late = bob.late /\ bob'.key = bob.key /\ bob'.open = bob.open
    BY <1>1, <2>1, PublicationGoes
  <2>3. Public' \subseteq Public \cup {bob.key}
    BY <1>1, <2>1, <2>2, PublicationPairs
  <2> QED
    BY <1>2, <1>3, <2>1, <2>2, <2>3, NextStep DEF At, KeyPairInv, KeyWhenOpen
<1>4. CASE \E t \in bob.late : bob' = [bob EXCEPT !.late = @ \ {t}]
  BY <1>1, <1>2, <1>4, LatePairs
<1> QED
  <2>1. CASE \E t \in bob.late : bob' = [bob EXCEPT !.late = @ \ {t}]
    BY <2>1, <1>4
  <2>2. CASE /\ At("top up")
             /\ [step |-> "publish", key |-> bob.key, fresh |-> Fresh(bob.publish)] \in Step
             /\ bob' = [bob EXCEPT !.publish = [step |-> "publish", key |-> bob.key,
                                                fresh |-> Fresh(bob.publish)]]
    <3> DEFINE p == [step |-> "publish", key |-> bob.key, fresh |-> Fresh(bob.publish)]
    <3>1. p \in Step /\ bob' = [bob EXCEPT !.publish = p] /\ p.step = "publish" /\ p.key = bob.key
      BY <2>2
    <3> HIDE DEF p
    <3> QED
      BY <2>2, <3>1, <1>3
  <2> QED
    BY <2>1, <2>2, TopUpCases

LEMMA PublishPairs ==
  ASSUME HandshakeTypeInv, KeyPairInv, Publish
  PROVE  KeyPairInv'
<1>1. UNCHANGED <<alice, store, posted, queue, made>>
  BY DEF Publish
<1>2. PICK t \in Pending :
         /\ t \in Step /\ t.step = "publish" /\ prekeys' = Published(t)
         /\ \/ t = bob.publish /\ bob' = [bob EXCEPT !.publish = None]
            \/ t \in bob.late /\ bob' = [bob EXCEPT !.late = @ \ {t}]
  BY PublishCases
<1>3. prekeys'.key \in PublishedPairs
  BY <1>2 DEF Published, PublishedPairs, Publications
<1>4. CASE t = bob.publish /\ bob' = [bob EXCEPT !.publish = None]
  <2>1. /\ bob'.publish = None /\ bob'.late = bob.late /\ bob'.key = bob.key /\ bob'.open = bob.open
    BY <1>1, <1>4, PublicationGoes
  <2>2. Public' \subseteq Public \cup {bob.key}
    BY <1>1, <1>3, <2>1, PublicationPairs
  <2>3. bob.publish # None /\ At("publish")
    BY <1>2, <1>4, TaskKinds DEF At
  <2> QED
    BY <1>1, <2>1, <2>2, <2>3, NextStep DEF KeyPairInv, KeyWhenOpen
<1>5. CASE bob' = [bob EXCEPT !.late = @ \ {t}]
  BY <1>1, <1>3, <1>5, LatePairs
<1> QED
  BY <1>2, <1>4, <1>5

LEMMA PublishFailsPairs ==
  ASSUME HandshakeTypeInv, KeyPairInv, PublishFails
  PROVE  KeyPairInv'
<1>1. UNCHANGED <<alice, store, prekeys, posted, queue, made>> /\ (At("status") \/ At("publish"))
  BY DEF PublishFails, keys, history
<1>2. bob' = [bob EXCEPT !.publish = None]
  BY DEF PublishFails, Publishing
<1>3. /\ bob'.publish = None /\ bob'.late = bob.late /\ bob'.key = bob.key /\ bob'.open = bob.open
  BY <1>1, <1>2, PublicationGoes
<1>4. Public' \subseteq Public \cup {bob.key}
  BY <1>1, <1>3, PublicationPairs
<1> QED
  BY <1>1, <1>3, <1>4, NextStep DEF At, KeyPairInv, KeyWhenOpen

LEMMA InitPairs ==
  ASSUME HandshakeTypeInv, KeyPairInv,
         AcceptInit \/ \E i \in DOMAIN bob.tasks : Consume(i)
  PROVE  KeyPairInv'
<1>1. /\ UNCHANGED <<alice, prekeys, posted, queue, made>> /\ store'.key = store.key
      /\ bob'.publish = bob.publish /\ bob'.late = bob.late /\ bob'.key = bob.key
      /\ bob'.open = bob.open
  BY AcceptTypes, ConsumeTypes
<1>2. PublishedPairs' \subseteq PublishedPairs \cup {}
  BY <1>1 DEF PublishedPairs, Publications, Pending
<1>3. Public' \subseteq Public
  BY <1>1, <1>2, BobPairs
<1> QED
  BY <1>1, <1>3, KeyPairsStay

LEMMA HandshakePairs ==
  ASSUME HandshakeTypeInv, KeyPairInv, [HandshakeNext]_handshakeVars
  PROVE  KeyPairInv'
<1>1. CASE UNCHANGED handshakeVars
  <2>1. UNCHANGED <<alice, bob, store, prekeys, minted, posted, queue, made>>
    BY <1>1 DEF handshakeVars, keys, history
  <2>2. PublishedPairs' \subseteq PublishedPairs \cup {}
    BY <2>1 DEF PublishedPairs, Publications, Pending
  <2> QED
    BY <2>1, <2>2, BobPairs, KeyPairsStay
<1>2. CASE HandshakeNext
  BY <1>2, ArrivePairs, RedeliverPairs, FetchPairs, UsePairs, MountPairs, LoadPairs, PushOfferPairs,
     AskStatusPairs, TopUpPairs, PublishPairs, PublishFailsPairs, InitPairs DEF HandshakeNext
<1> QED
  BY <1>1, <1>2

-----------------------------------------------------------------------------
(* Handshake: where the latest handshake is                                *)

Latest == Len(made)
Precondition == raced => made[Latest].onetime = None
Lone == alice.session # 0 /\ ~spoilt

\* The offer of Bob's key pair is still to come: Alice will make a session from it.
OfferComing ==
  \/ At("load") \/ At("offer")
  \/ Offer(store.key) \in posted.alice
  \/ \E i \in alice.next + 1 .. Len(queue.alice) : queue.alice[i] = Offer(store.key)

\* The session_init is on its way, waits in the queue, has been taken and waits
\* for the pool, or Bob has answered it.
PrivateHalf(pool) ==
  ~raced /\ made[Latest].onetime # None => made[Latest].onetime \in pool
InPost ==
  /\ posted.bob = {SessionInit(Latest)} /\ bob.next = Len(queue.bob)
  /\ bob.tasks = <<>> /\ PrivateHalf(store.pool)
InQueue ==
  /\ posted.bob = {} /\ bob.next + 1 = Len(queue.bob)
  /\ queue.bob[bob.next + 1] = SessionInit(Latest)
  /\ bob.tasks = <<>> /\ PrivateHalf(store.pool)
InTask ==
  /\ posted.bob = {} /\ bob.next = Len(queue.bob)
  /\ Len(bob.tasks) = 1 /\ bob.tasks[1].session = Latest /\ bob.tasks[1].key = store.key
  /\ made[Latest].onetime # None /\ PrivateHalf(bob.tasks[1].pool)
Answered ==
  bob.open => bob.session = [id |-> Latest, good |-> TRUE] \/ OfferComing
Done ==
  /\ posted.bob = {} /\ bob.next = Len(queue.bob) /\ bob.tasks = <<>> /\ Answered
Whereabouts == InPost \/ (InQueue \/ (InTask \/ Done))

AliceInv ==
  alice.session # 0 => alice.session = Latest /\ alice.open /\ alice.ready
LoneInv ==
  Lone =>
    /\ alice.fetch = None /\ alice.tasks = <<>>
    /\ made[Latest].key = store.key
    /\ Precondition => Whereabouts

LEMMA AliceInvStep ==
  ASSUME HandshakeTypeInv, AliceInv, [HandshakeNext]_handshakeVars
  PROVE  AliceInv'
<1>1. alice \in Initiator
  BY TypeFacts
<1>2. ASSUME alice'.session \in {alice.session, 0}, made' = made,
             alice'.session # 0 => alice'.open = alice.open /\ alice'.ready = alice.ready
      PROVE  AliceInv'
  BY <1>2 DEF AliceInv, Latest
<1>3. ASSUME NEW device \in Initiator, NEW bundle \in Bundle, Create(device, bundle)
      PROVE  AliceInv'
  <2>1. /\ made' = Append(made, bundle)
        /\ alice' = [device EXCEPT !.ready = TRUE,
                                   !.session = IF device.open THEN Len(made) + 1 ELSE 0]
    BY <1>3 DEF Create
  <2>2. Len(made') = Len(made) + 1
    BY <2>1, TypeFacts
  <2>3. /\ alice'.session = (IF device.open THEN Len(made) + 1 ELSE 0)
        /\ alice'.ready = TRUE /\ alice'.open = device.open /\ device.open \in BOOLEAN
    BY <2>1, <1>3 DEF Initiator
  <2> QED
    BY <2>2, <2>3 DEF AliceInv, Latest
<1>4. ASSUME NEW device \in Initiator, NEW bundle \in Bundle, Initiate(device, bundle),
             device.session = alice.session, device.open = alice.open, device.ready = alice.ready
      PROVE  AliceInv'
  <2>1. CASE Create(device, bundle)
    BY <2>1, <1>3
  <2>2. CASE /\ alice' = device \/ alice' = [device EXCEPT !.tasks = Append(@, bundle)]
             /\ made' = made
    <3>1. /\ alice'.session = alice.session /\ alice'.open = alice.open
          /\ alice'.ready = alice.ready
      BY <2>2, <1>4 DEF Initiator
    <3> QED
      BY <2>2, <3>1, <1>2
  <2> QED
    BY <1>4, <2>1, <2>2 DEF Initiate
<1>5. CASE alice' = alice /\ made' = made
  BY <1>5, <1>2
<1>6. CASE UNCHANGED handshakeVars \/ ((\E to \in {"alice", "bob"} : Arrive(to)) \/
           (BobMounts \/ (BobLeaves \/ (LoadIdentity \/ (PushOffer \/ (AskStatus \/ (TopUp \/
           (Publish \/ (PublishFails \/ (AcceptInit \/ \E i \in DOMAIN bob.tasks : Consume(i)))))))))))
  BY <1>5, <1>6 DEF handshakeVars, Arrive, BobMounts, BobLeaves, LoadIdentity, PushOffer, AskStatus,
     TopUp, Publish, PublishFails, AcceptInit, Consume
<1>7. CASE Redeliver \/ (AliceMounts \/ (AliceLeaves \/ (ServeFetch \/ FetchFails)))
  <2>1. made' = made
    BY <1>7 DEF Redeliver, AliceMounts, AliceLeaves, ServeFetch, FetchFails
  <2>2. /\ alice'.session \in {alice.session, 0}
        /\ alice'.session # 0 => alice'.open = alice.open /\ alice'.ready = alice.ready
    <3>1. CASE Redeliver
      BY <3>1, <1>1 DEF Redeliver, Rewound, Initiator
    <3>2. CASE AliceMounts
      BY <3>2, <1>1 DEF AliceMounts, Initiator
    <3>3. CASE AliceLeaves
      BY <3>3, <1>1 DEF AliceLeaves, Initiator
    <3>4. CASE ServeFetch
      BY <3>4, <1>1 DEF ServeFetch, Initiator
    <3>5. CASE FetchFails
      BY <3>5, <1>1 DEF FetchFails, Initiator
    <3> QED
      BY <1>7, <3>1, <3>2, <3>3, <3>4, <3>5
  <2> QED
    BY <2>1, <2>2, <1>2
<1>8. CASE UseFetched
  <2> DEFINE device == [alice EXCEPT !.fetch = None]
  <2>1. device \in Initiator /\ alice.fetch.bundle \in Bundle /\ Initiate(device, alice.fetch.bundle)
    BY <1>8, UseFetchedGoes DEF Going, UseFetched
  <2>2. device.session = alice.session /\ device.open = alice.open /\ device.ready = alice.ready
    BY <1>1 DEF Initiator
  <2> HIDE DEF device
  <2> QED
    BY <2>1, <2>2, <1>4
<1>9. CASE UseOffer
  <2> DEFINE device == [alice EXCEPT !.next = @ + 1]
             bundle == [key |-> queue.alice[alice.next + 1].key, onetime |-> None]
  <2>1. device \in Initiator /\ bundle \in Bundle /\ Initiate(device, bundle)
    BY <1>9, UseOfferGoes DEF Going, UseOffer
  <2>2. device.session = alice.session /\ device.open = alice.open /\ device.ready = alice.ready
    BY <1>1 DEF Initiator
  <2> HIDE DEF device, bundle
  <2> QED
    BY <2>1, <2>2, <1>4
<1>10. CASE Resume
  BY <1>10, <1>3, ResumeGoes DEF Going, Resume
<1> QED
  <2>1. CASE UNCHANGED handshakeVars
    BY <2>1, <1>6
  <2>2. CASE HandshakeNext
    BY <2>2, <1>6, <1>7, <1>8, <1>9, <1>10 DEF HandshakeNext
  <2> QED
    BY <2>1, <2>2

\* The handshake stays where it is.
LEMMA LoneStays ==
  ASSUME LoneInv, Lone,
         alice'.fetch = alice.fetch, alice'.tasks = alice.tasks, made' = made,
         store'.key = store.key, posted'.bob = posted.bob, queue'.bob = queue.bob,
         bob'.next = bob.next, bob'.tasks = bob.tasks, raced => raced',
         ~raced' => store.pool \subseteq store'.pool,
         made[Latest].key = store.key /\ Answered => Answered'
  PROVE  LoneInv'
<1>1. /\ alice'.fetch = None /\ alice'.tasks = <<>> /\ made'[Latest'].key = store'.key
      /\ Precondition' => Precondition
      /\ Latest' = Latest
  BY DEF LoneInv, Latest, Precondition
<1>2. Whereabouts => Whereabouts'
  <2>1. InPost => InPost'
    BY <1>1 DEF InPost, PrivateHalf
  <2>2. InQueue => InQueue'
    BY <1>1 DEF InQueue, PrivateHalf
  <2>3. InTask => InTask'
    BY <1>1 DEF InTask, PrivateHalf
  <2>4. Done => Done'
    BY <1>1 DEF Done, LoneInv
  <2> QED
    BY <2>1, <2>2, <2>3, <2>4 DEF Whereabouts
<1> QED
  BY <1>1, <1>2 DEF LoneInv

LEMMA ArriveLone ==
  ASSUME HandshakeTypeInv, LoneInv, NEW to \in {"alice", "bob"}, Arrive(to)
  PROVE  LoneInv'
<1> SUFFICES ASSUME Lone' PROVE LoneInv'
  BY DEF LoneInv
<1>1. UNCHANGED <<alice, bob, store, prekeys, minted, made, used, raced>>
  BY DEF Arrive, keys, history
<1>2. PICK e \in posted[to] :
        /\ posted' = [posted EXCEPT ![to] = @ \ {e}]
        /\ queue' = [queue EXCEPT ![to] = Append(@, e)] /\ spoilt' = spoilt
  BY DEF Arrive, Fault, Lone
<1>3. Lone
  BY <1>1, <1>2 DEF Lone
<1>4. posted \in [alice : SUBSET OfferType, bob : SUBSET InitType]
      /\ queue \in [alice : Seq(OfferType), bob : Seq(InitType)]
  BY DEF HandshakeTypeInv, NetType
<1>5. CASE to = "alice"
  <2>1. /\ posted'.bob = posted.bob /\ queue'.bob = queue.bob
        /\ posted'.alice = posted.alice \ {e} /\ queue'.alice = Append(queue.alice, e)
        /\ e \in posted.alice
    BY <1>2, <1>4, <1>5
  <2>2. OfferComing => OfferComing'
    <3>1. /\ Len(queue'.alice) = Len(queue.alice) + 1 /\ queue'.alice[Len(queue.alice) + 1] = e
          /\ \A i \in 1 .. Len(queue.alice) : queue'.alice[i] = queue.alice[i]
          /\ alice.next \in Nat /\ Len(queue.alice) \in Nat /\ alice.next <= Len(queue.alice)
      <4>1. queue.alice \in Seq(OfferType)
        BY TypeFacts
      <4>2. /\ Len(queue'.alice) = Len(queue.alice) + 1 /\ queue'.alice[Len(queue.alice) + 1] = e
            /\ \A i \in 1 .. Len(queue.alice) : queue'.alice[i] = queue.alice[i]
        BY <2>1, <4>1
      <4> QED
        BY <4>2, TypeFacts
    <3>2. CASE At("load") \/ At("offer")
      BY <3>2, <1>1 DEF OfferComing, At
    <3>3. CASE Offer(store.key) \in posted.alice
      <4>1. CASE Offer(store.key) = e
        <5>1. Len(queue.alice) + 1 \in alice.next + 1 .. Len(queue'.alice)
          BY <3>1
        <5> QED
          BY <4>1, <5>1, <3>1, <1>1 DEF OfferComing
      <4>2. CASE Offer(store.key) # e
        BY <4>2, <3>3, <2>1, <1>1 DEF OfferComing
      <4> QED
        BY <4>1, <4>2
    <3>4. CASE \E i \in alice.next + 1 .. Len(queue.alice) : queue.alice[i] = Offer(store.key)
      <4>1. PICK i \in alice.next + 1 .. Len(queue.alice) : queue.alice[i] = Offer(store.key)
        BY <3>4
      <4>2. i \in alice.next + 1 .. Len(queue'.alice) /\ i \in 1 .. Len(queue.alice)
        BY <3>1
      <4> QED
        BY <4>1, <4>2, <3>1, <1>1 DEF OfferComing
    <3> QED
      BY <3>2, <3>3, <3>4 DEF OfferComing
  <2>3. Answered => Answered'
    BY <2>2, <1>1 DEF Answered, Latest
  <2> QED
    BY <1>1, <1>3, <2>1, <2>3, LoneStays
<1>6. CASE to = "bob"
  <2>1. /\ posted'.alice = posted.alice /\ queue'.alice = queue.alice
        /\ posted'.bob = posted.bob \ {e} /\ queue'.bob = Append(queue.bob, e)
        /\ e \in posted.bob
    BY <1>2, <1>4, <1>6
  <2>2. Latest' = Latest /\ (Precondition' => Precondition)
    BY <1>1 DEF Latest, Precondition
  <2>3. Precondition' => Whereabouts'
    <3> SUFFICES ASSUME Precondition PROVE Whereabouts'
      BY <2>2
    <3>1. InPost
      BY <1>3, <2>1 DEF LoneInv, Whereabouts, InQueue, InTask, Done
    <3>2. e = SessionInit(Latest) /\ posted'.bob = {}
      BY <2>1, <3>1 DEF InPost
    <3>3. Len(queue'.bob) = Len(queue.bob) + 1 /\ queue'.bob[Len(queue.bob) + 1] = e
      <4>1. queue.bob \in Seq(InitType)
        BY TypeFacts
      <4> QED
        BY <2>1, <4>1
    <3>4. InQueue'
      BY <1>1, <2>2, <3>1, <3>2, <3>3 DEF InPost, InQueue, PrivateHalf
    <3> QED
      BY <3>4 DEF Whereabouts
  <2> QED
    BY <1>1, <1>3, <2>2, <2>3 DEF LoneInv
<1> QED
  BY <1>5, <1>6

\* A fault, or a step that resets Alice's session.
LEMMA SpoiltLone ==
  ASSUME HandshakeTypeInv, LoneInv,
         Redeliver \/ (AliceMounts \/ (AliceLeaves \/ (ServeFetch \/ (FetchFails \/ PublishFails))))
  PROVE  LoneInv'
<1>1. alice \in Initiator
  BY TypeFacts
<1>2. CASE Redeliver \/ (FetchFails \/ PublishFails)
  <2>1. spoilt' = TRUE
    BY <1>2 DEF Redeliver, FetchFails, PublishFails, Fault
  <2> QED
    BY <2>1 DEF LoneInv, Lone
<1>3. CASE AliceMounts \/ AliceLeaves
  <2>1. alice'.session = 0
    BY <1>1, <1>3 DEF AliceMounts, AliceLeaves, Initiator
  <2> QED
    BY <2>1 DEF LoneInv, Lone
<1>4. CASE ServeFetch
  <2>1. alice'.session = alice.session /\ spoilt' = spoilt
    BY <1>1, <1>4 DEF ServeFetch, Initiator
  <2>2. alice.fetch # None
    BY <1>4 DEF ServeFetch, Asked
  <2> QED
    BY <2>1, <2>2 DEF LoneInv, Lone
<1> QED
  BY <1>2, <1>3, <1>4

\* A session is made while nothing else is under way.
LEMMA CreateLone ==
  ASSUME HandshakeTypeInv, KeysInv, NEW device \in Initiator, NEW bundle \in Bundle,
         Create(device, bundle), UNCHANGED <<bob, keys, queue, history, faults>>,
         bundle.onetime # None => bundle.onetime \in Fetched \cup Waiting
  PROVE  LoneInv'
<1> SUFFICES ASSUME Lone' PROVE LoneInv'
  BY DEF LoneInv
<1>1. UNCHANGED <<bob, store, prekeys, minted, used, raced>>
  BY DEF keys, history
<1>2. Alone(device, bundle)
  BY DEF Create, Lone
<1>3. alice'.fetch = None /\ alice'.tasks = <<>>
  BY <1>2 DEF Create, Alone, Initiator
<1>4. made' = Append(made, bundle) /\ made \in Seq(Bundle)
  BY TypeFacts DEF Create
<1>5. Latest' = Len(made) + 1 /\ made'[Latest'] = bundle
  BY <1>4 DEF Latest
<1>6. posted'.bob = {SessionInit(Latest')}
  <2>1. posted'.bob = posted.bob \cup {SessionInit(Len(made) + 1)}
    BY DEF Create, HandshakeTypeInv, NetType
  <2> QED
    BY <1>2, <1>5, <2>1 DEF Alone
<1>7. bob'.next = Len(queue'.bob) /\ bob'.tasks = <<>> /\ bundle.key = store'.key
  BY <1>1, <1>2 DEF Alone
<1>8. PrivateHalf(store.pool)'
  BY <1>1, <1>5 DEF PrivateHalf, KeysInv, PoolInv, Free
<1>9. InPost'
  BY <1>6, <1>7, <1>8 DEF InPost
<1> QED
  BY <1>3, <1>5, <1>7, <1>9 DEF LoneInv, Whereabouts

LEMMA UseFetchedLone ==
  ASSUME HandshakeTypeInv, KeysInv, AliceInv, LoneInv, UseFetched
  PROVE  LoneInv'
<1> DEFINE device == [alice EXCEPT !.fetch = None]
           bundle == alice.fetch.bundle
<1>1. alice \in Initiator /\ device \in Initiator /\ bundle \in Bundle
  BY TypeFacts, UseFetchedGoes DEF Going
<1>2. device.session = alice.session /\ Initiate(device, bundle)
  BY <1>1 DEF Initiator, UseFetched
<1>3. bundle.onetime # None => bundle.onetime \in Fetched \cup Waiting
  BY DEF UseFetched, Fetched
<1>4. ~Lone
  BY DEF UseFetched, LoneInv
<1> HIDE DEF device, bundle
<1>5. CASE Create(device, bundle)
  BY <1>1, <1>2, <1>3, <1>5, CreateLone DEF Initiate
<1>6. CASE /\ alice' = device \/ alice' = [device EXCEPT !.tasks = Append(@, bundle)]
           /\ spoilt' = spoilt
  <2>1. alice'.session = alice.session
    BY <1>1, <1>2, <1>6 DEF Initiator
  <2> QED
    BY <1>4, <1>6, <2>1 DEF LoneInv, Lone
<1> QED
  BY <1>2, <1>5, <1>6 DEF Initiate

LEMMA UseOfferLone ==
  ASSUME HandshakeTypeInv, KeysInv, AliceInv, LoneInv, UseOffer
  PROVE  LoneInv'
<1> DEFINE device == [alice EXCEPT !.next = @ + 1]
           bundle == [key |-> queue.alice[alice.next + 1].key, onetime |-> None]
<1>1. alice \in Initiator /\ device \in Initiator /\ bundle \in Bundle
  BY TypeFacts, UseOfferGoes DEF Going
<1>2. /\ device.session = alice.session /\ device.next = alice.next + 1
      /\ device.fetch = alice.fetch /\ device.tasks = alice.tasks
  BY <1>1 DEF Initiator
<1>3. Initiate(device, bundle)
  BY DEF UseOffer
<1>4. bundle.onetime = None /\ bundle.key = queue.alice[alice.next + 1].key
  OBVIOUS
<1> HIDE DEF device, bundle
<1>5. CASE Create(device, bundle)
  BY <1>1, <1>3, <1>4, <1>5, CreateLone DEF Initiate
<1>6. CASE Ignored(bundle) /\ alice' = device /\ UNCHANGED <<posted, made, spoilt>>
  <2> SUFFICES ASSUME Lone' PROVE LoneInv'
    BY DEF LoneInv
  <2>1. Lone
    BY <1>2, <1>6 DEF Lone
  <2>2. UNCHANGED <<bob, store, prekeys, minted, queue, used, raced>>
    BY <1>3 DEF Initiate, keys, history
  <2>3. made[Latest].key = store.key /\ alice.session = Latest
    BY <2>1 DEF LoneInv, AliceInv, Lone
  <2>4. queue.alice[alice.next + 1] # Offer(store.key)
    BY <1>4, <1>6, <2>3 DEF Ignored, Offer
  <2>5. OfferComing => OfferComing'
    <3>1. alice.next \in Nat /\ Len(queue.alice) \in Nat /\ alice'.next = alice.next + 1
      BY <1>2, <1>6, TypeFacts
    <3>2. CASE \E i \in alice.next + 1 .. Len(queue.alice) : queue.alice[i] = Offer(store.key)
      <4>1. PICK i \in alice.next + 1 .. Len(queue.alice) : queue.alice[i] = Offer(store.key)
        BY <3>2
      <4>2. i # alice.next + 1
        BY <4>1, <2>4
      <4>3. i \in alice'.next + 1 .. Len(queue.alice)
        BY <3>1, <4>2
      <4> QED
        BY <4>1, <4>3, <2>2 DEF OfferComing
    <3>3. CASE At("load") \/ (At("offer") \/ Offer(store.key) \in posted.alice)
      BY <3>3, <2>2, <1>6 DEF OfferComing, At
    <3> QED
      BY <3>2, <3>3 DEF OfferComing
  <2>6. Answered => Answered'
    BY <2>2, <2>5, <1>6 DEF Answered, Latest
  <2>7. alice'.fetch = alice.fetch /\ alice'.tasks = alice.tasks
    BY <1>2, <1>6
  <2> QED
    BY <1>6, <2>1, <2>2, <2>6, <2>7, LoneStays
<1>7. CASE /\ ~Ignored(bundle) /\ ~alice.ready
           /\ alice' = [device EXCEPT !.tasks = Append(@, bundle)] /\ spoilt' = spoilt
  <2>1. alice'.session = alice.session
    BY <1>1, <1>2, <1>7 DEF Initiator
  <2> QED
    BY <1>7, <2>1 DEF LoneInv, Lone, AliceInv
<1> QED
  BY <1>3, <1>5, <1>6, <1>7 DEF Initiate

LEMMA ResumeLone ==
  ASSUME HandshakeTypeInv, KeysInv, Resume
  PROVE  LoneInv'
<1> DEFINE device == [alice EXCEPT !.tasks = Tail(@)]
           bundle == Head(alice.tasks)
<1>1. device \in Initiator /\ bundle \in Bundle
  BY ResumeGoes DEF Going
<1>2. Create(device, bundle) /\ UNCHANGED <<bob, keys, queue, history, faults>>
  BY DEF Resume
<1>3. bundle.onetime # None => bundle.onetime \in Fetched \cup Waiting
  <2>1. alice.tasks \in Seq(Bundle) /\ alice.tasks # <<>>
    BY TypeFacts DEF Resume
  <2>2. 1 \in DOMAIN alice.tasks /\ bundle = alice.tasks[1]
    BY <2>1
  <2> QED
    BY <2>2 DEF Waiting
<1> HIDE DEF device, bundle
<1> QED
  BY <1>1, <1>2, <1>3, CreateLone

LEMMA BobLeavesLone ==
  ASSUME HandshakeTypeInv, LoneInv, Lone, UNCHANGED <<alice, store, posted, queue, made, raced>>,
         bob'.next = bob.next, bob'.tasks \in {bob.tasks, <<>>}, Answered'
  PROVE  LoneInv'
<1>1. CASE bob'.tasks = bob.tasks
  BY <1>1, LoneStays
<1>2. CASE bob'.tasks = <<>>
  <2>1. Latest' = Latest /\ (Precondition' => Precondition)
    BY DEF Latest, Precondition
  <2>2. InPost => InPost'
    BY <1>2, <2>1 DEF InPost, PrivateHalf
  <2>3. InQueue => InQueue'
    BY <1>2, <2>1 DEF InQueue, PrivateHalf
  <2>4. InTask \/ Done => Done'
    BY <1>2 DEF InTask, Done
  <2>5. Precondition' => Whereabouts'
    BY <2>1, <2>2, <2>3, <2>4 DEF LoneInv, Whereabouts
  <2> QED
    BY <2>1, <2>5 DEF LoneInv
<1> QED
  BY <1>1, <1>2

LEMMA MountLone ==
  ASSUME HandshakeTypeInv, LoneInv, BobMounts \/ BobLeaves
  PROVE  LoneInv'
<1> SUFFICES ASSUME Lone' PROVE LoneInv'
  BY DEF LoneInv
<1>1. UNCHANGED <<alice, store, posted, queue, made, raced, spoilt>>
  BY DEF BobMounts, BobLeaves, keys, history
<1>2. Lone
  BY <1>1 DEF Lone
<1>3. bob \in Responder
  BY TypeFacts
<1>4. CASE BobMounts
  <2>1. bob'.next = bob.next /\ bob'.tasks = bob.tasks /\ bob'.publish = [step |-> "load"]
    BY <1>3, <1>4 DEF BobMounts, Responder
  <2>2. At("load")'
    <3>1. [step |-> "load"] # None
      BY StepFacts, NoneIsNothing
    <3> QED
      BY <2>1, <3>1 DEF At
  <2> QED
    BY <1>1, <1>2, <2>1, <2>2, BobLeavesLone DEF Answered, OfferComing
<1>5. CASE BobLeaves
  <2> DEFINE closed == [bob EXCEPT !.open = FALSE, !.key = 0, !.session = None, !.publish = None]
             underway == {t \in {bob.publish} : \E step \in {"load", "top up", "publish"} : At(step)}
  <2>1. \/ bob' = [closed EXCEPT !.late = @ \cup underway]
        \/ bob' = [closed EXCEPT !.late = {}, !.tasks = <<>>]
    BY <1>5 DEF BobLeaves
  <2>2. closed \in Responder
    <3>1. 0 \in Nat /\ None \in Step \cup {None} /\ FALSE \in BOOLEAN
      OBVIOUS
    <3> QED
      BY <1>3, <3>1, ResponderUpdates
  <2>3. closed.next = bob.next /\ closed.tasks = bob.tasks /\ closed.open = FALSE
    BY <1>3 DEF Responder
  <2> HIDE DEF closed, underway
  <2>4. bob'.next = bob.next /\ bob'.tasks \in {bob.tasks, <<>>} /\ bob'.open = FALSE
    BY <2>1, <2>2, <2>3 DEF Responder
  <2> QED
    BY <1>1, <1>2, <2>4, BobLeavesLone DEF Answered
<1> QED
  BY <1>4, <1>5

\* The bundle that is offered is that of the key pair the handshake was made with.
LEMMA LatestIsPublic ==
  ASSUME HandshakeTypeInv, KeyPairInv, AliceInv, LoneInv, Lone
  PROVE  /\ store.key \in Public /\ store.key # 0
         /\ bob.key # 0 => bob.key = store.key
         /\ At("offer") => bob.publish.key = store.key
         /\ alice.session = Latest /\ Latest \in DOMAIN made
<1>1. alice.session = Latest /\ Latest # 0
  BY DEF AliceInv, Lone
<1>2. Latest \in DOMAIN made
  <2>1. DOMAIN made = 1 .. Latest /\ Latest \in Nat
    BY MadeDomain, TypeFacts DEF Latest
  <2> QED
    BY <1>1, <2>1
<1>3. store.key \in Public
  BY <1>2 DEF LoneInv, Public, BundlePairs
<1>4. store.key \in 1 .. store.key /\ store.key \in Nat
  BY <1>3, TypeFacts DEF KeyPairInv, NotNewer
<1>5. bob.key # 0 => bob.key = store.key
  <2> SUFFICES ASSUME bob.key # 0 PROVE bob.key = store.key
    OBVIOUS
  <2>1. bob.key <= store.key /\ store.key <= bob.key
    BY <1>3 DEF KeyPairInv, KeyInUse
  <2>2. bob.key \in Nat /\ store.key \in Nat
    BY TypeFacts
  <2> QED
    BY <2>1, <2>2
<1>6. At("offer") => bob.publish.key = store.key
  <2> SUFFICES ASSUME At("offer") PROVE bob.publish.key = store.key
    OBVIOUS
  <2>1. bob.publish.key \in 1 .. store.key /\ store.key <= bob.publish.key
    BY <1>3 DEF KeyPairInv, KeyLoaded
  <2>2. bob.publish.key \in Nat /\ bob.publish.key <= store.key
    BY <1>4, <2>1
  <2> QED
    BY <1>4, <2>1, <2>2
<1> QED
  BY <1>1, <1>2, <1>3, <1>4, <1>5, <1>6

LEMMA LoadLone ==
  ASSUME HandshakeTypeInv, KeyPairInv, AliceInv, LoneInv, LoadIdentity
  PROVE  LoneInv'
<1> SUFFICES ASSUME Lone' PROVE LoneInv'
  BY DEF LoneInv
<1>1. UNCHANGED <<alice, prekeys, minted, posted, queue, made, used, raced>>
  BY DEF LoadIdentity, history
<1>2. Lone /\ store' = store
  <2>1. \/ store.key # 0 /\ store' = store /\ spoilt' = spoilt
        \/ spoilt' = (spoilt \/ store.key # 0)
    BY DEF LoadIdentity, GetOrRotate
  <2>2. ~spoilt'
    BY DEF Lone
  <2>3. ~spoilt
    BY <2>1, <2>2
  <2>4. Lone
    BY <1>1, <2>3 DEF Lone
  <2>5. store.key # 0
    BY <2>4, LatestIsPublic
  <2> QED
    BY <2>1, <2>2, <2>4, <2>5
<1>3. store' = store
  BY <1>2
<1>4. /\ bob'.next = bob.next /\ bob'.tasks = bob.tasks /\ bob'.session = bob.session
      /\ bob'.open = bob.open
      /\ At("load") \/ At("offer") => (At("load") \/ At("offer"))'
  <2>1. CASE At("load") /\ Publishing([step |-> "offer", key |-> store'.key])
    <3> DEFINE p == [step |-> "offer", key |-> store'.key]
    <3>1. p \in Step /\ p # None /\ p.step = "offer"
      BY <1>3, TypeFacts, StepFacts, NoneIsNothing
    <3>2. bob' = [bob EXCEPT !.publish = p]
      BY <2>1 DEF Publishing
    <3> HIDE DEF p
    <3>3. /\ bob'.publish = p /\ bob'.next = bob.next /\ bob'.tasks = bob.tasks
          /\ bob'.session = bob.session /\ bob'.open = bob.open
      BY <3>1, <3>2, <1>1, PublicationGoes
    <3> QED
      BY <3>1, <3>3 DEF At
  <2>2. CASE \E t \in bob.late : bob' = [bob EXCEPT !.late = @ \ {t}]
    BY <2>2, <1>1, LateGoes DEF At
  <2> QED
    BY <2>1, <2>2 DEF LoadIdentity
<1>5. Answered => Answered'
  BY <1>1, <1>3, <1>4 DEF Answered, OfferComing, Latest
<1> QED
  BY <1>1, <1>2, <1>3, <1>4, <1>5, LoneStays

LEMMA PushOfferLone ==
  ASSUME HandshakeTypeInv, KeyPairInv, AliceInv, LoneInv, PushOffer
  PROVE  LoneInv'
<1> SUFFICES ASSUME Lone' PROVE LoneInv'
  BY DEF LoneInv
<1>1. UNCHANGED <<alice, store, queue, made, raced, spoilt>> /\ At("offer")
  BY DEF PushOffer, keys, history
<1>2. Lone
  BY <1>1 DEF Lone
<1>3. /\ bob'.next = bob.next /\ bob'.tasks = bob.tasks
      /\ posted'.bob = posted.bob /\ posted'.alice = posted.alice \cup {Offer(bob.publish.key)}
  <2>1. bob \in Responder
    BY TypeFacts
  <2>2. posted \in [alice : SUBSET OfferType, bob : SUBSET InitType]
    BY DEF HandshakeTypeInv, NetType
  <2>3. bob'.next = bob.next /\ bob'.tasks = bob.tasks
    BY <2>1 DEF PushOffer, Responder
  <2>4. posted' = [posted EXCEPT !.alice = @ \cup {Offer(bob.publish.key)}]
    BY DEF PushOffer
  <2> QED
    BY <2>2, <2>3, <2>4
<1>4. bob.publish.key = store.key
  BY <1>1, <1>2, LatestIsPublic
<1>5. Answered'
  BY <1>1, <1>3, <1>4 DEF Answered, OfferComing
<1> QED
  BY <1>1, <1>2, <1>3, <1>5, LoneStays

\* The rest of the publication, and tasks of earlier mounts.
LEMMA PublicationLone ==
  ASSUME HandshakeTypeInv, LoneInv, AskStatus \/ (TopUp \/ Publish)
  PROVE  LoneInv'
<1> SUFFICES ASSUME Lone' PROVE LoneInv'
  BY DEF LoneInv
<1>1. UNCHANGED <<alice, posted, queue, made, spoilt>>
  BY DEF AskStatus, TopUp, Publish
<1>2. Lone
  BY <1>1 DEF Lone
<1>3. store'.key = store.key /\ (raced => raced') /\ (~raced' => store.pool \subseteq store'.pool)
  <2>1. CASE AskStatus \/ Publish
    <3>1. store' = store /\ raced' = raced
      BY <2>1 DEF AskStatus, Publish, keys, history
    <3> QED
      BY <3>1
  <2>2. CASE TopUp
    <3>1. PICK t \in Step : t.step = "top up" /\ SavePool(t)
      BY <2>2, TopUpCases, AtFacts
    <3>2. store'.key = store.key /\ store'.pool = t.pool \cup Fresh(t)
      BY <3>1, SavePoolTypes
    <3>3. raced' = (raced \/ t.pool # store.pool)
      BY <3>1 DEF SavePool
    <3>4. raced => raced'
      BY <3>3
    <3>5. ~raced' => t.pool = store.pool
      BY <3>3
    <3> QED
      BY <3>2, <3>4, <3>5
  <2> QED
    BY <2>1, <2>2
<1>4. \/ \E t : bob' = [bob EXCEPT !.late = @ \ {t}]
      \/ /\ ~At("load") /\ ~At("offer")
         /\ \E p \in Step \cup {None} : bob' = [bob EXCEPT !.publish = p]
  <2>1. CASE AskStatus
    BY <2>1, AskStatusGoes DEF AskStatus, At
  <2>2. CASE TopUp
    BY <2>2, TopUpCases DEF At
  <2>3. CASE Publish
    BY <2>3 DEF Publish, Publishing, At
  <2> QED
    BY <2>1, <2>2, <2>3
<1>5. /\ bob'.next = bob.next /\ bob'.tasks = bob.tasks /\ bob'.session = bob.session
      /\ bob'.open = bob.open
      /\ At("load") \/ At("offer") => bob'.publish = bob.publish
  BY <1>1, <1>4, LateGoes, PublicationGoes
<1>6. Answered => Answered'
  BY <1>1, <1>3, <1>5 DEF Answered, OfferComing, Latest, At
<1> QED
  BY <1>1, <1>2, <1>3, <1>5, <1>6, LoneStays

LEMMA AcceptLone ==
  ASSUME HandshakeTypeInv, KeyPairInv, AliceInv, LoneInv, AcceptInit
  PROVE  LoneInv'
<1> SUFFICES ASSUME Lone' PROVE LoneInv'
  BY DEF LoneInv
<1>1. /\ UNCHANGED <<alice, store, prekeys, minted, posted, queue, made, used, raced, spoilt, faults>>
      /\ bob'.publish = bob.publish /\ bob'.open = bob.open /\ bob'.next = bob.next + 1
  BY AcceptTypes
<1>2. Lone
  BY <1>1 DEF Lone
<1>3. Latest' = Latest /\ Precondition' = Precondition
  BY <1>1 DEF Latest, Precondition
<1>4. bob.open /\ bob.next < Len(queue.bob) /\ bob.next \in Nat /\ Len(queue.bob) \in Nat
  BY TypeFacts DEF AcceptInit
<1>5. Precondition => Whereabouts'
  <2> SUFFICES ASSUME Precondition PROVE Whereabouts'
    OBVIOUS
  <2>1. InQueue
    <3>1. Whereabouts
      BY <1>2 DEF LoneInv
    <3>2. bob.next # Len(queue.bob)
      BY <1>4
    <3> QED
      BY <3>1, <3>2 DEF Whereabouts, InPost, InTask, Done
  <2>2. queue.bob[bob.next + 1].session = Latest /\ bob'.next = Len(queue'.bob)
    BY <1>1, <2>1 DEF InQueue, SessionInit
  <2> DEFINE task == [session |-> Latest, key |-> bob.key, pool |-> store.pool]
  <2>3. \/ /\ bob.key = 0
           /\ bob'.tasks = bob.tasks /\ bob'.session = bob.session
        \/ /\ bob.key # 0 /\ made[Latest].onetime = None
           /\ bob'.tasks = bob.tasks /\ bob'.session = Derived(Latest, bob.key)
        \/ /\ bob.key # 0 /\ made[Latest].onetime # None
           /\ bob'.tasks = Append(bob.tasks, task) /\ bob'.session = bob.session
    BY <2>2, AcceptEffect
  <2>4. task.session = Latest /\ task.key = bob.key /\ task.pool = store.pool
    OBVIOUS
  <2> HIDE DEF task
  <2>5. bob.tasks = <<>> /\ posted'.bob = {}
    BY <1>1, <2>1 DEF InQueue
  <2>6. bob.key # 0 => bob.key = store.key
    BY <1>2, LatestIsPublic
  <2>7. CASE bob.key = 0
    <3>1. At("load") \/ At("offer")
      BY <1>4, <2>7 DEF KeyPairInv, KeyWhenOpen
    <3>2. (At("load") \/ At("offer"))'
      BY <1>1, <3>1 DEF At
    <3>3. Answered'
      BY <3>2 DEF Answered, OfferComing
    <3> QED
      BY <2>2, <2>3, <2>5, <2>7, <3>3 DEF Whereabouts, Done
  <2>8. CASE bob.key # 0 /\ made[Latest].onetime = None
    <3>1. bob'.session = Derived(Latest, store.key) /\ bob'.tasks = <<>>
      BY <2>3, <2>5, <2>6, <2>8
    <3>2. bob'.session = [id |-> Latest', good |-> TRUE]
      BY <1>2, <1>3, <3>1 DEF Derived, LoneInv
    <3> QED
      BY <2>2, <2>5, <3>1, <3>2 DEF Whereabouts, Done, Answered
  <2>9. CASE bob.key # 0 /\ made[Latest].onetime # None
    <3>1. bob'.tasks = <<task>>
      BY <2>3, <2>5, <2>9
    <3>2. Len(bob'.tasks) = 1 /\ bob'.tasks[1] = task
      BY <3>1
    <3>3. PrivateHalf(store.pool)
      BY <2>1 DEF InQueue
    <3>4. PrivateHalf(bob.tasks[1].pool)'
      BY <1>1, <1>3, <2>4, <3>2, <3>3 DEF PrivateHalf
    <3>5. InTask'
      BY <1>1, <1>3, <2>2, <2>4, <2>5, <2>6, <2>9, <3>2, <3>4 DEF InTask
    <3> QED
      BY <3>5 DEF Whereabouts
  <2> QED
    BY <2>7, <2>8, <2>9
<1> QED
  BY <1>1, <1>2, <1>3, <1>5 DEF LoneInv

LEMMA ConsumeLone ==
  ASSUME HandshakeTypeInv, KeyPairInv, AliceInv, LoneInv, NEW i \in DOMAIN bob.tasks, Consume(i)
  PROVE  LoneInv'
<1> SUFFICES ASSUME Lone' PROVE LoneInv'
  BY DEF LoneInv
<1> DEFINE task == bob.tasks[i]
           onetime == made[task.session].onetime
<1>1. /\ UNCHANGED <<alice, prekeys, minted, posted, queue, made, spoilt, faults>>
      /\ bob'.open = bob.open /\ bob'.next = bob.next
      /\ bob'.tasks = Without(bob.tasks, i)
      /\ \/ /\ onetime \in task.pool
            /\ raced' = (raced \/ task.pool # store.pool) /\ store'.key = store.key
            /\ bob.open => bob'.session = Derived(task.session, task.key)
         \/ onetime \notin task.pool /\ UNCHANGED <<store, raced, used>>
  BY ConsumeTypes
<1>2. Lone /\ Latest' = Latest
  BY <1>1 DEF Lone, Latest
<1>3. (raced => raced') /\ store'.key = store.key
  <2>1. CASE onetime \in task.pool
    <3>1. raced' = (raced \/ task.pool # store.pool)
      BY <1>1, <2>1
    <3>2. raced => raced'
      BY <3>1
    <3> QED
      BY <1>1, <2>1, <3>2
  <2>2. CASE onetime \notin task.pool
    <3>1. store' = store /\ raced' = raced
      BY <1>1, <2>2
    <3> QED
      BY <3>1
  <2> QED
    BY <2>1, <2>2
<1>4. Precondition' => Whereabouts'
  <2> SUFFICES ASSUME Precondition' PROVE Whereabouts'
    OBVIOUS
  <2>1. Precondition
    BY <1>1, <1>2, <1>3 DEF Precondition
  <2>2. bob.tasks # <<>>
    OBVIOUS
  <2>3. InTask
    BY <1>2, <2>1, <2>2 DEF LoneInv, Whereabouts, InPost, InQueue, Done
  <2>4. bob.tasks \in Seq(Task) /\ i \in 1 .. Len(bob.tasks) /\ Len(bob.tasks) = 1
    <3>1. bob.tasks \in Seq(Task)
      BY TypeFacts
    <3> QED
      BY <2>3, <3>1 DEF InTask
  <2>5. i = 1 /\ bob'.tasks = <<>>
    BY <1>1, <2>4, WithoutOne
  <2>6. task.session = Latest /\ task.key = store.key /\ onetime # None /\ PrivateHalf(task.pool)
    BY <2>3, <2>5 DEF InTask
  <2>7. ~raced
    BY <1>1, <1>2, <1>3, <2>6 DEF Precondition
  <2>8. onetime \in task.pool
    BY <2>6, <2>7 DEF PrivateHalf
  <2>9. bob.open => bob'.session = Derived(Latest, store.key)
    BY <1>1, <2>6, <2>8
  <2>10. bob.open => bob'.session = [id |-> Latest, good |-> TRUE]
    BY <1>2, <2>9 DEF Derived, LoneInv
  <2>11. Answered'
    BY <1>1, <1>2, <2>10 DEF Answered
  <2>12. posted'.bob = {} /\ bob'.next = Len(queue'.bob)
    BY <1>1, <2>3 DEF InTask
  <2> QED
    BY <2>5, <2>11, <2>12 DEF Whereabouts, Done
<1> QED
  BY <1>1, <1>2, <1>3, <1>4 DEF LoneInv

HandshakeInv ==
  HandshakeTypeInv /\ KeysInv /\ KeyPairInv /\ AliceInv /\ LoneInv

LEMMA HandshakeInvStep == HandshakeInv /\ [HandshakeNext]_handshakeVars => HandshakeInv'
<1> SUFFICES ASSUME HandshakeInv, [HandshakeNext]_handshakeVars PROVE HandshakeInv'
  OBVIOUS
<1>1. HandshakeTypeInv' /\ KeysInv' /\ KeyPairInv' /\ AliceInv'
  BY HandshakeTypes, HandshakeKeys, HandshakePairs, AliceInvStep DEF HandshakeInv
<1>2. LoneInv'
  <2>1. CASE UNCHANGED handshakeVars
    <3>1. Latest' = Latest /\ Precondition' = Precondition /\ Lone' = Lone /\ Whereabouts' = Whereabouts
      BY <2>1 DEF handshakeVars, keys, history, Latest, Precondition, Lone, Whereabouts, InPost,
                  InQueue, InTask, Done, Answered, OfferComing, PrivateHalf, At
    <3> QED
      BY <2>1, <3>1 DEF handshakeVars, keys, history, HandshakeInv, LoneInv
  <2>2. CASE HandshakeNext
    BY <2>2, ArriveLone, SpoiltLone, UseFetchedLone, UseOfferLone, ResumeLone, MountLone, LoadLone,
       PushOfferLone, PublicationLone, AcceptLone, ConsumeLone DEF HandshakeInv, HandshakeNext
  <2> QED
    BY <2>1, <2>2
<1> QED
  BY <1>1, <1>2 DEF HandshakeInv

LEMMA HandshakeSafe == HandshakeSpec => []HandshakeInv
<1>1. HandshakeInit => HandshakeInv
  <2> SUFFICES ASSUME HandshakeInit PROVE HandshakeInv
    OBVIOUS
  <2>1. alice.session = 0
    BY DEF HandshakeInit
  <2> QED
    BY <2>1, HandshakeInitTypes, KeysInit, KeyPairInit DEF HandshakeInv, AliceInv, LoneInv, Lone
<1> QED
  BY <1>1, HandshakeInvStep, PTL DEF HandshakeSpec

(* A handshake that had the stage to itself ends with both sides in the    *)
(* same session, whatever went wrong before (useQueueTransport.ts,         *)
(* "RE-HANDSHAKE RECOVERY").                                               *)
THEOREM LoneRepairs == HandshakeSpec => []LoneHandshakeRepairs
<1>1. HandshakeInv => LoneHandshakeRepairs
  <2> SUFFICES ASSUME HandshakeInv, Quiet, alice.session # 0, ~spoilt,
                      raced => made[alice.session].onetime = None
               PROVE  Agreed
    BY DEF LoneHandshakeRepairs
  <2>1. Lone /\ alice.session = Latest
    BY DEF HandshakeInv, AliceInv, Lone
  <2>2. Precondition
    BY <2>1 DEF Precondition
  <2>3. Whereabouts
    BY <2>1, <2>2 DEF HandshakeInv, LoneInv
  <2>4. /\ bob.next = Len(queue.bob) /\ bob.open /\ posted.alice = {} /\ posted.bob = {}
        /\ bob.publish = None /\ bob.tasks = <<>> /\ alice.next = Len(queue.alice)
    BY DEF Quiet
  <2>5. Done
    <3>1. bob.next \in Nat
      BY TypeFacts DEF HandshakeInv
    <3>2. ~InQueue /\ ~InPost
      BY <2>4, <3>1 DEF InQueue, InPost
    <3>3. ~InTask
      BY <2>4 DEF InTask
    <3> QED
      BY <2>3, <3>2, <3>3 DEF Whereabouts
  <2>6. ~OfferComing
    <3>1. alice.next \in Nat
      BY TypeFacts DEF HandshakeInv
    <3>2. alice.next + 1 .. Len(queue.alice) = {}
      BY <2>4, <3>1
    <3> QED
      BY <2>4, <3>2 DEF OfferComing, At
  <2> QED
    BY <2>1, <2>4, <2>5, <2>6 DEF Done, Answered, Agreed
<1> QED
  BY <1>1, HandshakeSafe, PTL

=============================================================================
