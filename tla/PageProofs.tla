----------------------------- MODULE PageProofs -----------------------------
(***************************************************************************)
(* Proofs about the page of a 1:1 chat, for every value of the constants:  *)
(* which of the linked devices runs its session (DeviceLease), and what    *)
(* the two ends show (Conversation).                                       *)
(*                                                                         *)
(* DeviceLease: while no device has raced its own past (which a hydration  *)
(* of another chat is part of), every call of an                           *)
(* open device is one its effect waits for, a grant that is still under    *)
(* way is backed by a lease at least as young as the call, and a device    *)
(* that runs the ratchet has a lease that outlasts the next decision of    *)
(* its effect, which is due when a call in flight is answered or, if there *)
(* is none, MaxDelay after the next heartbeat.                             *)
(*                                                                         *)
(* Conversation: for each message the frames on their way from an end form *)
(* a line in which the last that says something about the text, and the    *)
(* last about the reaction of that end, are what the sender shows already; *)
(* with an empty line both ends show the same.  A receipt is under way for *)
(* every message that was opened and shows as sent, and no cursor goes     *)
(* beyond what its page has received.                                      *)
(***************************************************************************)
EXTENDS DeviceLease, Conversation, SequenceTheorems, TLAPS

-----------------------------------------------------------------------------
(* DeviceLease: the invariant                                              *)

OwnCalls(d) == open[d] => \A i \in Slot : Of(i, d) => Awaited(i, d)

GrantsHeld(d) ==
  open[d] =>
    \A i \in Slot :
      Of(i, d) /\ calls[i].phase \in {"granted", "hydrating"} =>
        HeldBy(d) /\ lease.left + calls[i].age >= LEASE_TTL

OutlastsDecision(d) ==
  \/ lease.left > timer[d] + MaxDelay
  \/ \E i \in Slot : Awaited(i, d) /\ lease.left + calls[i].age > MaxDelay

BeliefBacked(d) == Live(d) => HeldBy(d) /\ OutlastsDecision(d)

Local(d) == OwnCalls(d) /\ GrantsHeld(d) /\ BeliefBacked(d)

Backed == ~raced => \A d \in Device : Local(d)

-----------------------------------------------------------------------------
(* Type correctness.                                                       *)

LEMMA NewCallType ==
  ASSUME NEW d \in Device, NEW kind \in {"acquire", "release"}
  PROVE  NewCall(d, kind) \in Call
BY LeaseAssumption DEF NewCall, Call

LEMMA CancelType ==
  ASSUME NEW c \in Call
  PROVE  Cancel(c) \in Call \cup {None}
<1>1. [c EXCEPT !.cancelled = TRUE, !.age = 0] \in Call
  <2>1. 0 \in 0 .. MaxDelay
    BY LeaseAssumption
  <2>2. [c EXCEPT !.cancelled = TRUE] \in Call
    BY DEF Call
  <2> QED
    BY <2>1, <2>2 DEF Call
<1> QED
  BY <1>1 DEF Cancel

LEMMA CancelledType ==
  ASSUME TypeOK, NEW d \in Device
  PROVE  /\ Cancelled(d) \in [Slot -> Call \cup {None}]
         /\ Orphaned(d) \in [Slot -> Call \cup {None}]
<1>1. \A i \in Slot : Awaited(i, d) => calls[i] \in Call
  BY DEF TypeOK, Awaited, Of
<1>2. \A i \in Slot : Awaited(i, d) => Cancel(calls[i]) \in Call \cup {None}
  BY <1>1, CancelType
<1> QED
  BY <1>2 DEF TypeOK, Cancelled, Orphaned

LEMMA GrantedType ==
  ASSUME NEW d \in Device
  PROVE  Granted(d) \in Row
BY LeaseAssumption DEF Granted, Row

LEMMA InitType == Init => TypeOK
<1> SUFFICES ASSUME Init PROVE TypeOK
  OBVIOUS
<1>1. timer \in [Device -> 0 .. HEARTBEAT] /\ fails \in 0 .. MaxFails
  BY LeaseAssumption DEF Init
<1>2. /\ open \in [Device -> BOOLEAN]
      /\ elsewhere \in [Device -> BOOLEAN]
      /\ hasLease \in [Device -> BOOLEAN]
      /\ session \in [Device -> BOOLEAN]
      /\ raced \in BOOLEAN
  BY Zenon DEF Init
<1>3. calls \in [Slot -> Call \cup {None}]
  BY DEF Init
<1> QED
  BY <1>1, <1>2, <1>3 DEF Init, TypeOK

LEMMA NextType ==
  ASSUME TypeOK, [Next]_vars
  PROVE  TypeOK'
<1>1. ASSUME NEW d \in Device, Open(d)
      PROVE  TypeOK'
  <2>1. PICK i \in NextSlot : calls' = [calls EXCEPT ![i] = NewCall(d, "acquire")]
    BY <1>1 DEF Open
  <2>2. calls' \in [Slot -> Call \cup {None}]
    BY <2>1, NewCallType DEF TypeOK
  <2>3. raced' \in BOOLEAN
    BY <1>1 DEF Open
  <2> QED
    BY <1>1, <2>2, <2>3, LeaseAssumption DEF Open, TypeOK
<1>2. ASSUME NEW d \in Device, Close(d)
      PROVE  TypeOK'
  <2>1. PICK i \in NextSlot : calls' = [Cancelled(d) EXCEPT ![i] = NewCall(d, "release")]
    BY <1>2 DEF Close
  <2>2. calls' \in [Slot -> Call \cup {None}]
    BY <2>1, NewCallType, CancelledType
  <2> QED
    BY <1>2, <2>2, LeaseAssumption DEF Close, TypeOK
<1>3. ASSUME NEW d \in Device, Rerun(d)
      PROVE  TypeOK'
  <2>1. PICK i \in NextSlot, j \in Free :
          calls' = [Cancelled(d) EXCEPT ![i] = NewCall(d, "release"),
                                        ![j] = NewCall(d, "acquire")]
    BY <1>3 DEF Rerun
  <2>2. calls' \in [Slot -> Call \cup {None}]
    BY <2>1, NewCallType, CancelledType
  <2> QED
    BY <1>3, <2>2, LeaseAssumption DEF Rerun, TypeOK
<1>4. ASSUME NEW d \in Device, Crash(d)
      PROVE  TypeOK'
  BY <1>4, CancelledType, LeaseAssumption DEF Crash, TypeOK
<1>5. ASSUME NEW d \in Device, Heartbeat(d)
      PROVE  TypeOK'
  <2>1. PICK i \in NextSlot : calls' = [calls EXCEPT ![i] = NewCall(d, "acquire")]
    BY <1>5 DEF Heartbeat
  <2>2. calls' \in [Slot -> Call \cup {None}]
    BY <2>1, NewCallType DEF TypeOK
  <2> QED
    BY <1>5, <2>2, LeaseAssumption DEF Heartbeat, TypeOK
<1>6. ASSUME NEW d \in Device,
             Establish(d) \/ HydrateElsewhere(d) \/ HydratedElsewhere(d)
      PROVE  TypeOK'
  <2>1. CASE Establish(d)
    BY <2>1 DEF Establish, TypeOK
  <2>2. CASE HydrateElsewhere(d)
    BY <2>2 DEF HydrateElsewhere, TypeOK
  <2>3. CASE HydratedElsewhere(d)
    <3>1. raced' \in BOOLEAN
      BY <2>3, Zenon DEF HydratedElsewhere
    <3> QED
      BY <2>3, <3>1 DEF HydratedElsewhere, TypeOK
  <2> QED
    BY <1>6, <2>1, <2>2, <2>3
<1>7. ASSUME NEW i \in Slot, ServeAcquire(i)
      PROVE  TypeOK'
  <2>1. calls[i] \in Call /\ calls[i].dev \in Device
    BY <1>7 DEF ServeAcquire, TypeOK, Call
  <2>2. calls' \in [Slot -> Call \cup {None}]
    <3>1. \A phase \in {"granted", "refused"} : [calls[i] EXCEPT !.phase = phase] \in Call
      BY <2>1 DEF Call
    <3> QED
      BY <1>7, <3>1 DEF ServeAcquire, Answered, TypeOK
  <2>3. lease' \in Row \cup {None}
    BY <1>7, <2>1, GrantedType DEF ServeAcquire, TypeOK
  <2> QED
    BY <1>7, <2>2, <2>3 DEF ServeAcquire, TypeOK
<1>8. ASSUME NEW i \in Slot, ServeRelease(i)
      PROVE  TypeOK'
  BY <1>8 DEF ServeRelease, TypeOK
<1>9. ASSUME NEW i \in Slot, Answer(i)
      PROVE  TypeOK'
  <2>1. calls[i] \in Call
    BY <1>9 DEF Answer, TypeOK
  <2>2. calls' \in [Slot -> Call \cup {None}]
    <3>1. [calls[i] EXCEPT !.phase = "hydrating"] \in Call
      BY <2>1 DEF Call
    <3> QED
      BY <1>9, <3>1 DEF Answer, TypeOK
  <2>3. hasLease' \in [Device -> BOOLEAN]
    BY <1>9 DEF Answer, Decided, TypeOK
  <2> QED
    BY <1>9, <2>2, <2>3 DEF Answer, TypeOK
<1>10. ASSUME NEW i \in Slot, Hydrated(i)
       PROVE  TypeOK'
  <2>1. calls' \in [Slot -> Call \cup {None}]
    BY <1>10 DEF Hydrated, TypeOK
  <2>2. hasLease' \in [Device -> BOOLEAN]
    BY <1>10 DEF Hydrated, TypeOK
  <2>3. session' \in [Device -> BOOLEAN]
    <3>1. PICK imported \in BOOLEAN :
            session' = [session EXCEPT ![calls[i].dev] = @ \/ (imported /\ ~calls[i].cancelled)]
      BY <1>10 DEF Hydrated
    <3> QED
      BY <3>1 DEF TypeOK
  <2> QED
    BY <1>10, <2>1, <2>2, <2>3 DEF Hydrated, TypeOK
<1>11. ASSUME NEW i \in Slot, Fail(i)
       PROVE  TypeOK'
  <2>1. calls' \in [Slot -> Call \cup {None}]
    BY <1>11 DEF Fail, TypeOK
  <2>2. hasLease' \in [Device -> BOOLEAN]
    BY <1>11 DEF Fail, TypeOK
  <2>3. fails' \in 0 .. MaxFails
    BY <1>11, LeaseAssumption DEF Fail, TypeOK
  <2> QED
    BY <1>11, <2>1, <2>2, <2>3 DEF Fail, TypeOK
<1>12. CASE Alarm
  BY <1>12 DEF Alarm, TypeOK
<1>13. CASE Tick
  <2>1. lease' \in Row \cup {None}
    BY <1>13, LeaseAssumption DEF Tick, Held, TypeOK, Row
  <2>2. timer' \in [Device -> 0 .. HEARTBEAT]
    BY <1>13, LeaseAssumption DEF Tick, TypeOK
  <2>3. calls' \in [Slot -> Call \cup {None}]
    <3>1. ASSUME NEW i \in Slot, NEW d \in Device, Awaited(i, d)
          PROVE  [calls[i] EXCEPT !.age = @ + 1] \in Call
      <4>1. calls[i] \in Call /\ calls[i].age < MaxDelay
        BY <1>13, <3>1 DEF Tick, Awaited, Of, TypeOK
      <4> QED
        BY <4>1, LeaseAssumption DEF Call
    <3> QED
      BY <1>13, <3>1 DEF Tick, TypeOK
  <2> QED
    BY <1>13, <2>1, <2>2, <2>3 DEF Tick, TypeOK
<1>14. CASE UNCHANGED vars
  BY <1>14 DEF vars, TypeOK
<1> QED
  BY <1>1, <1>2, <1>3, <1>4, <1>5, <1>6, <1>7, <1>8, <1>9, <1>10, <1>11, <1>12,
     <1>13, <1>14 DEF Next

(* TypeOK holds in every reachable state, for any devices, times and       *)
(* bounds (DeviceLeaseDO.ts and the lease effect of useQueueTransport.ts). *)
THEOREM LeaseTypeCorrect == Spec => []TypeOK
BY InitType, NextType, PTL DEF Spec

-----------------------------------------------------------------------------
(* A device that runs the ratchet holds the lease.                         *)

\* A step that leaves a device, its calls and its lease alone.
Untouched(d) ==
  /\ open'[d] = open[d]
  /\ hasLease'[d] = hasLease[d]
  /\ timer'[d] = timer[d]
  /\ \A i \in Slot : Of(i, d) \/ Of(i, d)' => calls'[i] = calls[i]
  /\ HeldBy(d) => lease' = lease

LEMMA UntouchedLocal ==
  ASSUME NEW d \in Device, Local(d), Untouched(d)
  PROVE  Local(d)'
<1>1. OwnCalls(d)'
  BY DEF Local, OwnCalls, Untouched, Awaited, Of
<1>2. GrantsHeld(d)'
  BY DEF Local, GrantsHeld, Untouched, HeldBy, Of
<1>3. BeliefBacked(d)'
  <2> SUFFICES ASSUME Live(d)' PROVE HeldBy(d)' /\ OutlastsDecision(d)'
    BY DEF BeliefBacked
  <2>1. HeldBy(d) /\ OutlastsDecision(d)
    BY DEF Local, BeliefBacked, Live, Untouched
  <2>2. lease' = lease /\ timer'[d] = timer[d]
    BY <2>1 DEF Untouched
  <2>3. \A i \in Slot : Awaited(i, d) => calls'[i] = calls[i]
    BY DEF Untouched, Awaited
  <2> QED
    BY <2>1, <2>2, <2>3 DEF HeldBy, OutlastsDecision, Awaited, Of
<1> QED
  BY <1>1, <1>2, <1>3 DEF Local

\* The device is not open afterwards.
LEMMA ClosedLocal ==
  ASSUME NEW d \in Device, ~open'[d]
  PROVE  Local(d)'
BY DEF Local, OwnCalls, GrantsHeld, BeliefBacked, Live

\* What the margin is for: a grant outlasts every awaited call, and the next
\* decision after its own.
LEMMA GrantOutlasts ==
  ASSUME TypeOK, Margin, NEW d \in Device, NEW i \in Slot, calls[i] # None,
         HeldBy(d), lease.left + calls[i].age >= LEASE_TTL
  PROVE  lease.left > timer[d] + MaxDelay
<1>1. calls[i].age \in 0 .. MaxDelay /\ timer[d] \in 0 .. HEARTBEAT
  BY DEF TypeOK, Call
<1>2. lease.left \in Nat
  BY LeaseAssumption DEF TypeOK, HeldBy, Row
<1> QED
  BY <1>1, <1>2, LeaseAssumption DEF Margin

LEMMA OpenLocal ==
  ASSUME TypeOK, Backed, NEW d \in Device, Open(d)
  PROVE  Backed'
<1> SUFFICES ASSUME ~raced', NEW e \in Device
             PROVE  Local(e)'
  BY DEF Backed
<1>1. ~raced /\ Quiet(d) /\ Local(e)
  BY DEF Open, Backed
<1>2. PICK i \in NextSlot : calls' = [calls EXCEPT ![i] = NewCall(d, "acquire")]
  BY DEF Open
<1>3. i \in Slot /\ calls[i] = None /\ calls'[i] = NewCall(d, "acquire")
  BY <1>2 DEF NextSlot, Free, TypeOK
<1>4. CASE e = d
  <2>1. open'[d] /\ ~hasLease'[d]
    BY DEF Open, TypeOK
  <2>2. \A j \in Slot : Of(j, d)' => j = i
    BY <1>1, <1>2 DEF Quiet, Of, TypeOK
  <2>3. OwnCalls(d)'
    BY <1>3, <2>2 DEF OwnCalls, Awaited, Of, NewCall
  <2>4. GrantsHeld(d)'
    BY <1>3, <2>2 DEF GrantsHeld, NewCall
  <2>5. BeliefBacked(d)'
    BY <2>1 DEF BeliefBacked, Live
  <2> QED
    BY <1>4, <2>3, <2>4, <2>5 DEF Local
<1>5. CASE e # d
  <2>1. Untouched(e)
    BY <1>2, <1>3, <1>5 DEF Open, Untouched, Of, NewCall, TypeOK
  <2> QED
    BY <1>1, <2>1, UntouchedLocal
<1> QED
  BY <1>4, <1>5

LEMMA LeaveLocal ==
  ASSUME TypeOK, Backed, NEW d \in Device, Close(d) \/ Crash(d)
  PROVE  Backed'
<1> SUFFICES ASSUME ~raced', NEW e \in Device
             PROVE  Local(e)'
  BY DEF Backed
<1>1. ~raced /\ Local(e)
  BY DEF Close, Crash, Backed
<1>2. CASE e = d
  <2>1. ~open'[d]
    BY DEF Close, Crash, TypeOK
  <2> QED
    BY <1>2, <2>1, ClosedLocal
<1>3. CASE e # d
  <2>1. \A i \in Slot : Of(i, e) \/ Of(i, e)' => calls'[i] = calls[i]
    <3>1. \A i \in Slot : Of(i, e) => /\ Cancelled(d)[i] = calls[i]
                                    /\ Orphaned(d)[i] = calls[i]
      BY <1>3 DEF Cancelled, Orphaned, Awaited, Of
    <3>2. ASSUME NEW i \in Slot
          PROVE  /\ Cancelled(d)[i] = None \/ Cancelled(d)[i].dev # e \/ Of(i, e)
                 /\ Orphaned(d)[i] = None \/ Orphaned(d)[i].dev # e \/ Of(i, e)
      <4>1. CASE Of(i, d)
        <5>1. calls[i] \in Call /\ calls[i].dev = d
          BY <4>1 DEF Of, TypeOK
        <5>2. Cancel(calls[i]) = None \/ Cancel(calls[i]).dev = d
          BY <5>1 DEF Cancel, Call
        <5> QED
          BY <4>1, <5>1, <5>2, <1>3 DEF Cancelled, Orphaned
      <4>2. CASE ~Of(i, d)
        BY <4>2 DEF Cancelled, Orphaned, Awaited, Of
      <4> QED
        BY <4>1, <4>2
    <3>3. CASE Close(d)
      <4>1. PICK k \in NextSlot : calls' = [Cancelled(d) EXCEPT ![k] = NewCall(d, "release")]
        BY <3>3 DEF Close
      <4>2. k \in Slot /\ ~Of(k, e) /\ NewCall(d, "release").dev = d
        BY <4>1 DEF NextSlot, Free, Of, NewCall
      <4>3. Cancelled(d) \in [Slot -> Call \cup {None}]
        BY CancelledType
      <4>4. calls'[k].dev = d
        BY <4>1, <4>2, <4>3
      <4>5. \A i \in Slot : i # k => calls'[i] = Cancelled(d)[i]
        BY <4>1, <4>3
      <4> TAKE i \in Slot
      <4>6. CASE i = k
        BY <4>2, <4>4, <4>6, <1>3 DEF Of
      <4>7. CASE i # k
        <5>1. calls'[i] = Cancelled(d)[i]
          BY <4>5, <4>7
        <5>2. Of(i, e)' => Of(i, e)
          <6> SUFFICES ASSUME Of(i, e)' PROVE Of(i, e)
            OBVIOUS
          <6>1. Cancelled(d)[i] # None /\ Cancelled(d)[i].dev = e
            BY <5>1 DEF Of
          <6> QED
            BY <3>2, <6>1
        <5> QED
          BY <3>1, <5>1, <5>2
      <4> QED
        BY <4>6, <4>7
    <3>4. CASE Crash(d)
      <4> TAKE i \in Slot
      <4>1. calls'[i] = Orphaned(d)[i]
        BY <3>4 DEF Crash
      <4>2. Of(i, e)' => Of(i, e)
        <5> SUFFICES ASSUME Of(i, e)' PROVE Of(i, e)
          OBVIOUS
        <5>1. Orphaned(d)[i] # None /\ Orphaned(d)[i].dev = e
          BY <4>1 DEF Of
        <5> QED
          BY <3>2, <5>1
      <4> QED
        BY <3>1, <4>1, <4>2
    <3> QED
      BY <3>3, <3>4
  <2>2. Untouched(e)
    BY <1>3, <2>1 DEF Close, Crash, Untouched, TypeOK
  <2> QED
    BY <1>1, <2>2, UntouchedLocal
<1> QED
  BY <1>2, <1>3

LEMMA HeartbeatLocal ==
  ASSUME TypeOK, TypeOK', Backed, NEW d \in Device, Heartbeat(d)
  PROVE  Backed'
<1> SUFFICES ASSUME ~raced', NEW e \in Device
             PROVE  Local(e)'
  BY DEF Backed
<1>1. ~raced /\ Local(e)
  BY DEF Heartbeat, Backed
<1>2. PICK i \in NextSlot : calls' = [calls EXCEPT ![i] = NewCall(d, "acquire")]
  BY DEF Heartbeat
<1>3. i \in Slot /\ calls[i] = None /\ calls'[i] = NewCall(d, "acquire")
  BY <1>2 DEF NextSlot, Free, TypeOK
<1>4. \A j \in Slot : j # i => calls'[j] = calls[j]
  BY <1>2 DEF TypeOK
<1>5. lease' = lease /\ open' = open /\ hasLease' = hasLease
  BY DEF Heartbeat
<1>6. CASE e = d
  <2>1. OwnCalls(d)'
    BY <1>1, <1>3, <1>4, <1>5, <1>6 DEF Local, OwnCalls, Awaited, Of, NewCall
  <2>2. GrantsHeld(d)'
    BY <1>1, <1>3, <1>4, <1>5, <1>6 DEF Local, GrantsHeld, HeldBy, Of, NewCall
  <2>3. BeliefBacked(d)'
    <3> SUFFICES ASSUME Live(d)' PROVE HeldBy(d)' /\ OutlastsDecision(d)'
      BY DEF BeliefBacked
    <3>1. HeldBy(d) /\ OutlastsDecision(d) /\ timer[d] = 0
      BY <1>1, <1>5, <1>6 DEF Local, BeliefBacked, Live, Heartbeat
    <3>2. CASE lease.left > timer[d] + MaxDelay
      <4>0. calls'[i] \in Call
        BY <1>3, NewCallType
      <4>1. Awaited(i, d)' /\ calls'[i].age = 0
        <5>1. calls'[i] # None
          BY <4>0, LeaseAssumption
        <5> QED
          BY <1>3, <5>1 DEF Awaited, Of, NewCall
      <4>2. lease.left \in Nat
        BY <3>1, LeaseAssumption DEF TypeOK, HeldBy, Row
      <4>3. lease'.left + calls'[i].age > MaxDelay
        BY <3>1, <3>2, <4>1, <4>2, <1>5, LeaseAssumption
      <4> QED
        BY <3>1, <4>1, <4>3, <1>3, <1>5 DEF HeldBy, OutlastsDecision
    <3>3. CASE \E j \in Slot : Awaited(j, d) /\ lease.left + calls[j].age > MaxDelay
      BY <3>1, <3>3, <1>3, <1>4, <1>5 DEF HeldBy, OutlastsDecision, Awaited, Of
    <3> QED
      BY <3>1, <3>2, <3>3 DEF OutlastsDecision
  <2> QED
    BY <1>6, <2>1, <2>2, <2>3 DEF Local
<1>7. CASE e # d
  <2>1. Untouched(e)
    BY <1>3, <1>4, <1>5, <1>7 DEF Heartbeat, Untouched, Of, NewCall, TypeOK
  <2> QED
    BY <1>1, <2>1, UntouchedLocal
<1> QED
  BY <1>6, <1>7

LEMMA GrantedHeld ==
  ASSUME NEW d \in Device, lease' = Granted(d)
  PROVE  HeldBy(d)' /\ lease'.left = LEASE_TTL
<1>1. lease' # None
  BY GrantedType, LeaseAssumption
<1>2. lease'.holder = d /\ lease'.left = LEASE_TTL
  BY DEF Granted
<1> QED
  BY <1>1, <1>2, LeaseAssumption DEF HeldBy

LEMMA ServeAcquireLocal ==
  ASSUME TypeOK, Backed, NEW i \in Slot, ServeAcquire(i)
  PROVE  Backed'
<1> SUFFICES ASSUME ~raced', NEW e \in Device
             PROVE  Local(e)'
  BY DEF Backed
<1>1. ~raced /\ Local(e)
  BY DEF ServeAcquire, Backed
<1>0. PICK d \in Device : d = calls[i].dev
  BY DEF ServeAcquire, TypeOK, Call
<1>2. /\ calls[i] \in Call /\ calls[i] # None /\ Of(i, d)
      /\ calls[i].kind = "acquire" /\ calls[i].phase = "sent"
  BY <1>0 DEF ServeAcquire, TypeOK, Call, Of
<1>3. \A j \in Slot : j # i => calls'[j] = calls[j]
  BY DEF ServeAcquire, Answered, TypeOK
<1>4. \/ Grants(d) /\ lease' = Granted(d) /\ Answered(i, "granted")
      \/ lease' = lease /\ Answered(i, "refused")
  BY <1>0 DEF ServeAcquire
<1>5. open' = open /\ hasLease' = hasLease /\ timer' = timer
  BY DEF ServeAcquire
<1>6. calls[i].cancelled => calls'[i] = None
  BY <1>4 DEF Answered, TypeOK
<1>7. ASSUME ~calls[i].cancelled
      PROVE  \/ /\ Grants(d) /\ lease' = Granted(d)
                /\ calls'[i] = [calls[i] EXCEPT !.phase = "granted"]
             \/ lease' = lease /\ calls'[i] = [calls[i] EXCEPT !.phase = "refused"]
  BY <1>4, <1>7 DEF Answered, TypeOK
<1>8. CASE e # d
  <2>1. HeldBy(e) => lease' = lease
    BY <1>4, <1>8 DEF Grants, Held, HeldBy
  <2>2. calls'[i] = None \/ calls'[i].dev = d
    BY <1>0, <1>2, <1>6, <1>7 DEF Call
  <2>3. Untouched(e)
    BY <1>2, <1>3, <1>5, <1>8, <2>1, <2>2 DEF Untouched, Of
  <2> QED
    BY <1>1, <2>3, UntouchedLocal
<1>9. CASE e = d
  <2> SUFFICES ASSUME open'[d] PROVE Local(d)'
    BY <1>9, ClosedLocal
  <2>1. ~calls[i].cancelled
    BY <1>1, <1>2, <1>5, <1>9 DEF Local, OwnCalls, Awaited
  <2>2. /\ calls'[i] \in Call /\ calls'[i].dev = d /\ calls'[i].kind = "acquire"
        /\ ~calls'[i].cancelled /\ calls'[i].age = calls[i].age
    BY <1>0, <1>2, <1>7, <2>1 DEF Call
  <2>3. calls'[i] # None
    BY <2>2, LeaseAssumption
  <2>4. Awaited(i, d)' /\ Awaited(i, d)
    BY <1>2, <2>1, <2>2, <2>3 DEF Awaited, Of
  <2>5. calls'[i].phase = "granted" \/ calls'[i].phase = "refused"
    BY <1>2, <1>7, <2>1 DEF Call
  <2>6. calls'[i].phase = "granted" => lease' = Granted(d)
    BY <1>2, <1>7, <2>1 DEF Call
  <2>7. lease' = lease \/ (HeldBy(d)' /\ lease'.left = LEASE_TTL)
    BY <1>2, <1>4, GrantedHeld
  <2>8. HeldBy(d) => lease.left \in 0 .. LEASE_TTL
    BY DEF HeldBy, TypeOK, Row
  <2>9. HeldBy(d) => HeldBy(d)' /\ lease'.left \in Nat /\ lease'.left >= lease.left
    BY <2>7, <2>8, LeaseAssumption DEF HeldBy
  <2>10. \A j \in Slot : calls[j] # None => calls[j].age \in 0 .. MaxDelay
    BY DEF TypeOK, Call
  <2>11. OwnCalls(d)'
    BY <1>1, <1>3, <1>5, <1>9, <2>4 DEF Local, OwnCalls, Awaited, Of
  <2>12. GrantsHeld(d)'
    <3> SUFFICES ASSUME NEW j \in Slot, Of(j, d)', calls'[j].phase \in {"granted", "hydrating"}
                 PROVE  HeldBy(d)' /\ lease'.left + calls'[j].age >= LEASE_TTL
      BY DEF GrantsHeld
    <3>1. CASE j = i
      BY <1>2, <2>2, <2>5, <2>6, <2>10, <3>1, GrantedHeld, LeaseAssumption
    <3>2. CASE j # i
      <4>1. /\ HeldBy(d) /\ lease.left + calls[j].age >= LEASE_TTL
            /\ calls'[j] = calls[j] /\ calls[j] # None
        BY <1>1, <1>3, <1>5, <1>9, <3>2 DEF Local, GrantsHeld, Of
      <4>2. calls[j].age \in 0 .. MaxDelay
        BY <2>10, <4>1
      <4> QED
        BY <2>8, <2>9, <4>1, <4>2, LeaseAssumption
    <3> QED
      BY <3>1, <3>2
  <2>13. BeliefBacked(d)'
    <3> SUFFICES ASSUME Live(d)' PROVE HeldBy(d)' /\ OutlastsDecision(d)'
      BY DEF BeliefBacked
    <3>1. HeldBy(d) /\ OutlastsDecision(d)
      BY <1>1, <1>5, <1>9 DEF Local, BeliefBacked, Live
    <3>2. HeldBy(d)' /\ lease'.left >= lease.left /\ lease.left \in Nat /\ lease'.left \in Nat
      BY <3>1, <2>8, <2>9
    <3>3. CASE lease.left > timer[d] + MaxDelay
      <4>1. timer[d] \in Nat
        BY <1>2, LeaseAssumption DEF TypeOK
      <4> QED
        BY <3>2, <3>3, <4>1, <1>5, LeaseAssumption DEF OutlastsDecision
    <3>4. CASE \E j \in Slot : Awaited(j, d) /\ lease.left + calls[j].age > MaxDelay
      <4>1. PICK j \in Slot : Awaited(j, d) /\ lease.left + calls[j].age > MaxDelay
        BY <3>4
      <4>2. Awaited(j, d)' /\ calls'[j].age = calls[j].age
        BY <1>3, <2>2, <2>4, <4>1 DEF Awaited, Of
      <4>3. calls[j].age \in 0 .. MaxDelay
        BY <2>10, <4>1 DEF Awaited, Of
      <4>4. lease'.left + calls'[j].age > MaxDelay
        BY <3>2, <4>1, <4>2, <4>3, LeaseAssumption
      <4> QED
        BY <3>2, <4>2, <4>4 DEF OutlastsDecision
    <3> QED
      BY <3>1, <3>3, <3>4 DEF OutlastsDecision
  <2> QED
    BY <2>11, <2>12, <2>13 DEF Local
<1> QED
  BY <1>8, <1>9

LEMMA ServeReleaseLocal ==
  ASSUME TypeOK, Backed, NEW i \in Slot, ServeRelease(i)
  PROVE  Backed'
<1> SUFFICES ASSUME ~raced', NEW e \in Device
             PROVE  Local(e)'
  BY DEF Backed
<1> SUFFICES ASSUME open'[e] PROVE Local(e)'
  BY ClosedLocal
<1>1. ~raced /\ Local(e) /\ open[e]
  BY DEF ServeRelease, Backed
<1>2. ~Of(i, e)
  BY <1>1 DEF Local, OwnCalls, Awaited, ServeRelease
<1>3. calls[i] # None /\ calls[i].dev # e
  BY <1>2 DEF Of, ServeRelease
<1>4. HeldBy(e) => lease' = lease
  BY <1>3 DEF ServeRelease, Releases, HeldBy
<1>5. Untouched(e)
  BY <1>2, <1>4 DEF ServeRelease, Untouched, Of, TypeOK
<1> QED
  BY <1>1, <1>5, UntouchedLocal

\* The answer to an awaited call of device d is known to its effect, and the
\* slot is free again: the belief is decided anew.
LEMMA DecidedLocal ==
  ASSUME TypeOK, Margin, NEW i \in Slot, NEW d \in Device, calls[i] # None, calls[i].dev = d,
         Local(d), lease' = lease, open' = open, timer' = timer,
         calls' = [calls EXCEPT ![i] = None],
         Live(d)' => calls[i].phase \in {"granted", "hydrating"}
  PROVE  Local(d)'
<1> SUFFICES ASSUME open'[d] PROVE Local(d)'
  BY ClosedLocal
<1>1. \A j \in Slot : Of(j, d)' => Of(j, d) /\ calls'[j] = calls[j]
  BY DEF Of, TypeOK
<1>2. OwnCalls(d)' /\ GrantsHeld(d)'
  BY <1>1 DEF Local, OwnCalls, GrantsHeld, Awaited, Of, HeldBy
<1>3. BeliefBacked(d)'
  <2> SUFFICES ASSUME Live(d)' PROVE HeldBy(d)' /\ OutlastsDecision(d)'
    BY DEF BeliefBacked
  <2>1. HeldBy(d) /\ lease.left + calls[i].age >= LEASE_TTL
    BY DEF Local, GrantsHeld, Of
  <2>2. lease.left > timer[d] + MaxDelay
    BY <2>1, GrantOutlasts
  <2> QED
    BY <2>1, <2>2 DEF HeldBy, OutlastsDecision
<1> QED
  BY <1>2, <1>3 DEF Local

LEMMA DecisionLocal ==
  ASSUME TypeOK, Margin, Backed, NEW i \in Slot, Answer(i) \/ Hydrated(i) \/ Fail(i)
  PROVE  Backed'
<1> SUFFICES ASSUME ~raced', NEW e \in Device
             PROVE  Local(e)'
  BY DEF Backed
<1>1. ~raced /\ Local(e) /\ lease' = lease /\ open' = open /\ timer' = timer
  BY DEF Answer, Hydrated, Fail, Backed
<1>0. PICK d \in Device : d = calls[i].dev
  BY DEF Answer, Hydrated, Fail, TypeOK, Call
<1>2. calls[i] \in Call /\ calls[i] # None /\ Of(i, d)
  BY <1>0 DEF Answer, Hydrated, Fail, TypeOK, Of
<1>3. \A j \in Slot : j # i => calls'[j] = calls[j]
  BY DEF Answer, Hydrated, Fail, TypeOK
<1>4. calls'[i] = None \/ calls'[i].dev = d
  BY <1>0, <1>2 DEF Answer, Hydrated, Fail, TypeOK, Call
<1>5. CASE e # d
  <2>1. hasLease'[e] = hasLease[e]
    BY <1>0, <1>5 DEF Answer, Hydrated, Fail, Decided, TypeOK
  <2>2. Untouched(e)
    BY <1>1, <1>2, <1>3, <1>4, <1>5, <2>1 DEF Untouched, Of
  <2> QED
    BY <1>1, <2>2, UntouchedLocal
<1>6. CASE e = d /\ Answer(i) /\ calls[i].phase = "granted" /\ ~session[d]
  <2>1. calls' = [calls EXCEPT ![i].phase = "hydrating"] /\ hasLease' = hasLease
    BY <1>0, <1>6 DEF Answer
  <2>2. calls'[i] = [calls[i] EXCEPT !.phase = "hydrating"]
    BY <2>1 DEF TypeOK
  <2>3. /\ calls'[i] \in Call /\ calls'[i].dev = d /\ calls'[i].kind = calls[i].kind
        /\ calls'[i].cancelled = calls[i].cancelled /\ calls'[i].age = calls[i].age
    BY <1>0, <1>2, <2>2 DEF Call
  <2>4. calls'[i] # None
    BY <2>3, LeaseAssumption
  <2>5. OwnCalls(d)'
    BY <1>1, <1>2, <1>3, <1>6, <2>3, <2>4 DEF Local, OwnCalls, Awaited, Of
  <2>6. GrantsHeld(d)'
    BY <1>1, <1>2, <1>3, <1>6, <2>3 DEF Local, GrantsHeld, Of, HeldBy
  <2>7. BeliefBacked(d)'
    <3>1. \A j \in Slot : Awaited(j, d) => Awaited(j, d)' /\ calls'[j].age = calls[j].age
      BY <1>3, <2>3, <2>4 DEF Awaited, Of
    <3> QED
      BY <1>1, <1>6, <2>1, <3>1 DEF Local, BeliefBacked, Live, HeldBy, OutlastsDecision
  <2> QED
    BY <1>6, <2>5, <2>6, <2>7 DEF Local
<1>7. CASE e = d /\ ~(Answer(i) /\ calls[i].phase = "granted" /\ ~session[d])
  <2>1. calls' = [calls EXCEPT ![i] = None]
    BY <1>0, <1>7 DEF Answer, Hydrated, Fail
  <2>2. Live(d)' => calls[i].phase \in {"granted", "hydrating"}
    <3>1. CASE Answer(i)
      BY <1>0, <1>7, <3>1 DEF Answer, Decided, Live, TypeOK
    <3>2. CASE Hydrated(i)
      BY <3>2 DEF Hydrated
    <3>3. CASE Fail(i)
      <4> SUFFICES ASSUME open[d] PROVE ~hasLease'[d]
        BY <1>1 DEF Live
      <4>1. Awaited(i, d)
        BY <1>1, <1>2, <1>7 DEF Local, OwnCalls
      <4> QED
        BY <1>0, <3>3, <4>1 DEF Fail, Awaited, TypeOK
    <3> QED
      BY <3>1, <3>2, <3>3
  <2> QED
    BY <1>0, <1>1, <1>2, <1>7, <2>1, <2>2, DecidedLocal
<1> QED
  BY <1>5, <1>6, <1>7

LEMMA TickLocal ==
  ASSUME TypeOK, Margin, Backed, Tick
  PROVE  Backed'
<1> SUFFICES ASSUME ~raced', NEW d \in Device
             PROVE  Local(d)'
  BY DEF Backed
<1> SUFFICES ASSUME open'[d] PROVE Local(d)'
  BY ClosedLocal
<1>1. /\ ~raced /\ Local(d) /\ open' = open /\ hasLease' = hasLease
      /\ open[d] /\ timer[d] > 0 /\ timer'[d] = timer[d] - 1
  BY DEF Tick, Backed
<1>2. timer[d] \in Nat /\ MaxDelay \in Nat /\ HEARTBEAT \in Nat /\ LEASE_TTL \in Nat
  BY LeaseAssumption DEF TypeOK
<1>3. \A i \in Slot : calls'[i] = None <=> calls[i] = None
  BY <1>1, LeaseAssumption DEF Tick, TypeOK, Call, Awaited, Of
<1>4. ASSUME NEW i \in Slot, Of(i, d) \/ Of(i, d)'
      PROVE  /\ Of(i, d) /\ Of(i, d)' /\ Awaited(i, d) /\ Awaited(i, d)'
             /\ calls'[i].phase = calls[i].phase
             /\ calls'[i].age = calls[i].age + 1
             /\ calls[i].age \in Nat /\ calls[i].age < MaxDelay
  <2>1. calls[i] \in Call /\ calls[i] # None
    BY <1>3, <1>4 DEF Of, TypeOK
  <2>2. calls'[i] = [calls[i] EXCEPT !.age = @ + 1] \/ calls'[i] = calls[i]
    BY DEF Tick
  <2>3. Of(i, d) /\ Awaited(i, d)
    BY <1>1, <1>4, <2>1, <2>2 DEF Local, OwnCalls, Of, Call
  <2>4. calls'[i] = [calls[i] EXCEPT !.age = @ + 1] /\ calls[i].age < MaxDelay
    BY <2>3 DEF Tick
  <2>5. /\ calls'[i].dev = calls[i].dev /\ calls'[i].kind = calls[i].kind
        /\ calls'[i].cancelled = calls[i].cancelled /\ calls'[i].phase = calls[i].phase
        /\ calls'[i].age = calls[i].age + 1 /\ calls[i].age \in Nat
    BY <2>1, <2>4 DEF Call
  <2> QED
    BY <1>3, <2>1, <2>3, <2>4, <2>5 DEF Of, Awaited
<1>5. HeldBy(d) => /\ lease.left \in Nat /\ lease' = [lease EXCEPT !.left = @ - 1]
                   /\ lease'.left = lease.left - 1
                   /\ lease.left > 1 => HeldBy(d)'
  <2> SUFFICES ASSUME HeldBy(d)
               PROVE  /\ lease.left \in Nat /\ lease' = [lease EXCEPT !.left = @ - 1]
                      /\ lease'.left = lease.left - 1
                      /\ lease.left > 1 => HeldBy(d)'
    OBVIOUS
  <2>1. lease \in Row /\ lease' = [lease EXCEPT !.left = @ - 1]
    BY DEF HeldBy, Tick, Held, TypeOK
  <2>2. lease.left \in 0 .. LEASE_TTL /\ lease.left > 0 /\ lease.holder = d
    BY <2>1 DEF HeldBy, Row
  <2>3. lease'.left = lease.left - 1 /\ lease'.holder = d /\ lease' \in Row
    BY <1>2, <2>1, <2>2 DEF Row
  <2>4. lease' # None
    BY <2>3, LeaseAssumption
  <2> QED
    BY <1>2, <2>1, <2>2, <2>3, <2>4 DEF HeldBy
<1>6. OwnCalls(d)'
  BY <1>4 DEF OwnCalls
<1>7. GrantsHeld(d)'
  <2> SUFFICES ASSUME NEW i \in Slot, Of(i, d)', calls'[i].phase \in {"granted", "hydrating"}
               PROVE  HeldBy(d)' /\ lease'.left + calls'[i].age >= LEASE_TTL
    BY DEF GrantsHeld
  <2>1. HeldBy(d) /\ lease.left + calls[i].age >= LEASE_TTL
    BY <1>1, <1>4 DEF Local, GrantsHeld
  <2>2. lease.left > 1
    BY <1>2, <1>4, <1>5, <2>1 DEF Margin
  <2> QED
    BY <1>2, <1>4, <1>5, <2>1, <2>2
<1>8. BeliefBacked(d)'
  <2> SUFFICES ASSUME Live(d)' PROVE HeldBy(d)' /\ OutlastsDecision(d)'
    BY DEF BeliefBacked
  <2>1. HeldBy(d) /\ OutlastsDecision(d)
    BY <1>1 DEF Local, BeliefBacked, Live
  <2>2. CASE lease.left > timer[d] + MaxDelay
    BY <1>1, <1>2, <1>5, <2>1, <2>2 DEF OutlastsDecision
  <2>3. CASE \E i \in Slot : Awaited(i, d) /\ lease.left + calls[i].age > MaxDelay
    <3>1. PICK i \in Slot : Awaited(i, d) /\ lease.left + calls[i].age > MaxDelay
      BY <2>3
    <3>2. Of(i, d)
      BY <3>1 DEF Awaited
    <3>3. lease.left > 1 /\ lease'.left + calls'[i].age > MaxDelay
      BY <1>2, <1>4, <1>5, <2>1, <3>1, <3>2
    <3> QED
      BY <1>4, <1>5, <2>1, <3>2, <3>3 DEF OutlastsDecision
  <2> QED
    BY <2>1, <2>2, <2>3 DEF OutlastsDecision
<1> QED
  BY <1>6, <1>7, <1>8 DEF Local

LEMMA InitBacked == Init => Backed
BY DEF Init, Backed, Local, OwnCalls, GrantsHeld, BeliefBacked, Live

LEMMA NextBacked ==
  ASSUME Margin, TypeOK, TypeOK', Backed, [Next]_vars
  PROVE  Backed'
<1>1. ASSUME NEW d \in Device,
             \/ Open(d) \/ Close(d) \/ Rerun(d) \/ Crash(d)
             \/ Heartbeat(d) \/ HydrateElsewhere(d) \/ HydratedElsewhere(d)
             \/ Establish(d)
      PROVE  Backed'
  <2>1. CASE Rerun(d)
    BY <2>1 DEF Rerun, Backed
  <2>2. CASE Establish(d) \/ HydrateElsewhere(d)
    <3> SUFFICES ASSUME ~raced', NEW e \in Device
                 PROVE  Local(e)'
      BY DEF Backed
    <3>1. Local(e) /\ Untouched(e)
      BY <2>2 DEF Establish, HydrateElsewhere, Backed, Untouched
    <3> QED
      BY <3>1, UntouchedLocal
  <2>3. CASE HydratedElsewhere(d)
    <3> SUFFICES ASSUME ~raced', NEW e \in Device
                 PROVE  Local(e)'
      BY DEF Backed
    <3>1. ~raced /\ ~open[d] /\ open' = open
      BY <2>3 DEF HydratedElsewhere
    <3>2. CASE e = d
      BY <3>1, <3>2, ClosedLocal
    <3>3. CASE e # d
      <4>1. Local(e) /\ Untouched(e)
        BY <2>3, <3>1, <3>3 DEF HydratedElsewhere, Backed, Untouched, TypeOK
      <4> QED
        BY <4>1, UntouchedLocal
    <3> QED
      BY <3>2, <3>3
  <2> QED
    BY <1>1, <2>1, <2>2, <2>3, OpenLocal, LeaveLocal, HeartbeatLocal
<1>2. ASSUME NEW i \in Slot,
             ServeAcquire(i) \/ ServeRelease(i) \/ Answer(i) \/ Hydrated(i) \/ Fail(i)
      PROVE  Backed'
  BY <1>2, ServeAcquireLocal, ServeReleaseLocal, DecisionLocal
<1>3. CASE Alarm \/ UNCHANGED vars
  <2> SUFFICES ASSUME ~raced', NEW e \in Device
               PROVE  Local(e)'
    BY DEF Backed
  <2>1. HeldBy(e) => lease' = lease
    BY <1>3 DEF Alarm, vars, HeldBy
  <2>2. Local(e) /\ Untouched(e)
    BY <1>3, <2>1 DEF Alarm, vars, Backed, Untouched
  <2> QED
    BY <2>2, UntouchedLocal
<1>4. CASE Tick
  BY <1>4, TickLocal
<1> QED
  BY <1>1, <1>2, <1>3, <1>4 DEF Next

LEMMA BackedInvariant == Margin => (Spec => [](TypeOK /\ Backed))
<1> SUFFICES ASSUME Margin PROVE Spec => [](TypeOK /\ Backed)
  OBVIOUS
<1>1. Init => TypeOK /\ Backed
  BY InitType, InitBacked
<1>2. TypeOK /\ Backed /\ [Next]_vars => (TypeOK /\ Backed)'
  BY NextType, NextBacked
<1> QED
  BY <1>1, <1>2, PTL DEF Spec

(* Under the margin between heartbeat, delay and lease time, a device that *)
(* has not raced its own past and runs the ratchet holds the lease on the  *)
(* server (useQueueTransport.ts, the lease effect; DeviceLeaseDO.ts).      *)
THEOREM LeaseBehindEveryLiveDevice == Margin => (Spec => []LiveHoldsLease)
<1> SUFFICES ASSUME Margin PROVE Spec => []LiveHoldsLease
  OBVIOUS
<1>1. Backed => LiveHoldsLease
  BY DEF Backed, Local, BeliefBacked, LiveHoldsLease
<1> QED
  BY <1>1, BackedInvariant, PTL

(* Under the same margin no two devices run the ratchet of one chat role   *)
(* at a time unless a device has raced its own past (DeviceLeaseDO.ts,     *)
(* "held by at most one deviceId at a time").                              *)
THEOREM LeaseExcludes == Margin => (Spec => []ExclusiveUnlessRaced)
<1> SUFFICES ASSUME Margin PROVE Spec => []ExclusiveUnlessRaced
  OBVIOUS
<1>1. Backed => ExclusiveUnlessRaced
  BY DEF Backed, Local, BeliefBacked, ExclusiveUnlessRaced, MutualExclusion, HeldBy
<1> QED
  BY <1>1, BackedInvariant, PTL

-----------------------------------------------------------------------------
(* No theft.                                                               *)

LEMMA NextKeepsLease ==
  ASSUME TypeOK, [Next]_vars, NEW d \in Device, HeldBy(d), ~HeldBy(d)'
  PROVE  \/ lease.left = 1 /\ lease' = [lease EXCEPT !.left = 0]
         \/ \E i \in Slot : Of(i, d) /\ calls[i].kind = "release" /\ calls'[i] = None
<1>1. lease' # lease
  BY DEF HeldBy
<1>2. ASSUME NEW i \in Slot, ServeAcquire(i)
      PROVE  FALSE
  <2>1. PICK e \in Device : e = calls[i].dev
    BY <1>2 DEF ServeAcquire, TypeOK, Call
  <2>2. Grants(e) /\ lease' = Granted(e)
    BY <1>1, <1>2, <2>1 DEF ServeAcquire
  <2>3. e = d
    BY <2>2 DEF Grants, Held, HeldBy
  <2> QED
    BY <2>2, <2>3, GrantedHeld
<1>3. ASSUME NEW i \in Slot, ServeRelease(i)
      PROVE  Of(i, d) /\ calls[i].kind = "release" /\ calls'[i] = None
  BY <1>1, <1>3 DEF ServeRelease, Releases, HeldBy, Of, TypeOK
<1>4. CASE Tick
  <2>1. lease \in Row /\ lease.left \in 0 .. LEASE_TTL /\ lease.left > 0 /\ lease.holder = d
    BY DEF HeldBy, TypeOK, Row
  <2>2. lease' = [lease EXCEPT !.left = @ - 1]
    BY <1>4, <2>1 DEF Tick, Held, HeldBy
  <2>3. lease' \in Row /\ lease'.holder = d /\ lease'.left = lease.left - 1
    BY <2>1, <2>2, LeaseAssumption DEF Row
  <2>4. ~(lease'.left > 0)
    BY <2>3, LeaseAssumption DEF HeldBy
  <2>5. lease.left = 1
    BY <2>1, <2>3, <2>4, LeaseAssumption
  <2> QED
    BY <2>2, <2>5
<1>5. ~Alarm
  BY DEF Alarm, HeldBy
<1> QED
  BY <1>1, <1>2, <1>3, <1>4, <1>5
     DEF Next, vars, Open, Close, Rerun, Crash, Heartbeat, HydrateElsewhere,
         HydratedElsewhere, Establish, Answer, Hydrated, Fail

(* No step takes a lease from its holder but its expiry and the holder's   *)
(* own release, for any devices and timing (handleAcquire, handleRelease). *)
THEOREM LeaseNeverStolen == Spec => NoTheft
<1>1. TypeOK /\ [Next]_vars =>
        [\A d \in Device :
           HeldBy(d) /\ ~HeldBy(d)' =>
             \/ lease.left = 1 /\ lease' = [lease EXCEPT !.left = 0]
             \/ \E i \in Slot :
                  Of(i, d) /\ calls[i].kind = "release" /\ calls'[i] = None]_vars
  BY NextKeepsLease
<1> QED
  BY <1>1, LeaseTypeCorrect, PTL DEF Spec, NoTheft

-----------------------------------------------------------------------------
(* Conversation: the types                                                 *)

Payload ==
  [chat : Chat, from : Side, kind : Kind, target : Id, number : Nat, session : Nat,
   at : {"push", "answer"}, seq : Nat \cup {Nothing}]
Reactions == {"react", "unreact"}
Timer == [page : Page, kind : {"delivered", "read"}, chat : Chat, upTo : Nat]
Cursor == [chat : Chat, to : Side, kind : {"delivered", "read"}, upTo : Nat]

ConversationTypes ==
  /\ active \in Chat \cup {Nothing}
  /\ active = Nothing <=> switches = 0
  /\ active = Nothing => pendingRead["here"] = 0 /\ \A t \in timers : t.page # "here"
  /\ sessions \in [Chat -> [Side -> Nat]]
  /\ items \in [Chat -> [Side -> [Id -> Item \cup {Nothing}]]]
  /\ written \in SUBSET Id
  /\ pushes \in SUBSET Payload
  /\ queue \in [Chat -> [Side -> Seq(Payload \cup {Nothing})]]
  /\ taken \in [Chat -> [Side -> Nat]]
  /\ timers \in SUBSET Timer /\ cursors \in SUBSET Cursor
  /\ pendingRead \in [Page -> Nat] /\ readSent \in [Page -> Nat]
  /\ decrypted \in [Chat -> [Side -> SUBSET Nat]]
  /\ seen \in [Chat -> [Side -> SUBSET Nat]]
  /\ late \in SUBSET Id /\ forgone \in SUBSET Cursor /\ disturbed \in SUBSET Chat
  /\ payloads \in Nat /\ switches \in Nat /\ faults \in Nat

\* What is on its way from end s is of that end, and is about an id in use; and
\* so is what a page shows.
Coming(c, s) == taken[c][s] + 1 .. Len(queue[c][s])
FrameInv ==
  /\ \A c \in Chat, s \in Side :
       /\ taken[c][s] <= Len(queue[c][s])
       /\ decrypted[c][s] \subseteq 1 .. taken[c][s]
       /\ \A n \in Coming(c, s) :
            /\ queue[c][s][n] \in Payload
            /\ queue[c][s][n].chat = c /\ queue[c][s][n].from = Other(s)
            /\ queue[c][s][n].target \in written
       /\ \A i \in Id : items[c][s][i] # Nothing => i \in written
  /\ \A p \in pushes : p.target \in written

-----------------------------------------------------------------------------
(* Conversation: the status of a message                                   *)

Mine(c, s, i) == items[c][s][i] # Nothing /\ items[c][s][i].own
Texts == {p \in pushes : p.kind = "text"}
Answers == {p \in pushes : p.at = "answer"}

\* A message knows its number from the answer to its push, and until then it
\* shows that it is being sent.
StatusInv ==
  /\ \A p, q \in Texts : p.target = q.target => p = q
  /\ \A p \in Answers : p.kind = "text" /\ p.seq \in 1 .. Len(queue[p.chat][Other(p.from)])
  /\ \A p \in Texts : Mine(p.chat, p.from, p.target) =>
       /\ items[p.chat][p.from][p.target].status = "sending"
       /\ items[p.chat][p.from][p.target].outSeq = Nothing
  /\ \A c \in Chat, s \in Side, i \in Id : Mine(c, s, i) =>
       LET m == items[c][s][i]
       IN  /\ m.outSeq # Nothing => m.outSeq \in 1 .. Len(queue[c][Other(s)])
           /\ m.status \in {"sent", "delivered", "read"} => m.outSeq # Nothing

\* The receipt for frame n of end s is still to come, or was given up.
Owed(c, s, n) ==
  \/ [page |-> PageOf(c, Other(s)), kind |-> "delivered", chat |-> c, upTo |-> n] \in timers
  \/ [chat |-> c, to |-> s, kind |-> "delivered", upTo |-> n] \in cursors
  \/ [chat |-> c, to |-> s, kind |-> "delivered", upTo |-> n] \in forgone
OwedInv ==
  /\ \A c \in Chat, s \in Side, i \in Id :
       Mine(c, s, i) /\ items[c][s][i].status = "sent"
         /\ items[c][s][i].outSeq \in decrypted[c][Other(s)]
         => Owed(c, s, items[c][s][i].outSeq) \/ i \in late
  /\ \A p \in Answers :
       Mine(p.chat, p.from, p.target) /\ p.seq \in decrypted[p.chat][Other(p.from)]
         => Owed(p.chat, p.from, p.seq) \/ p.target \in late

LEMMA ConversationTypeFacts ==
  ASSUME ConversationTypes
  PROVE  /\ \A c \in Chat, s \in Side :
              /\ sessions[c][s] \in Nat /\ taken[c][s] \in Nat
              /\ queue[c][s] \in Seq(Payload \cup {Nothing})
              /\ Len(queue[c][s]) \in Nat
              /\ decrypted[c][s] \in SUBSET Nat /\ seen[c][s] \in SUBSET Nat
              /\ \A i \in Id : items[c][s][i] \in Item \cup {Nothing}
         /\ \A p \in pushes : p \in Payload
         /\ \A p \in Page : pendingRead[p] \in Nat /\ readSent[p] \in Nat
         /\ active # Nothing => active \in Chat
  BY DEF ConversationTypes

LEMMA Sides ==
  /\ \A s \in Side : Other(s) \in Side /\ Other(s) # s /\ Other(Other(s)) = s
  /\ \A s, r \in Side : r # s => r = Other(s)
  /\ \A c \in Chat, s \in Side : PageOf(c, s) \in Page
  BY DEF Side, Other, PageOf, Page

\* Messages are told from their absence.
LEMMA NothingElse ==
  /\ Nothing \notin Item /\ Nothing \notin Chat /\ Nothing \notin Id
  /\ Nothing \notin Nat /\ "here" \notin Chat
  BY ConversationAssumption

LEMMA EndUpdate ==
  ASSUME NEW f, NEW T, f \in [Chat -> [Side -> T]],
         NEW c \in Chat, NEW s \in Side, NEW v
  PROVE  LET g == [f EXCEPT ![c][s] = v]
         IN  /\ \A d \in Chat, r \in Side :
                  g[d][r] = IF d = c /\ r = s THEN v ELSE f[d][r]
             /\ v \in T => g \in [Chat -> [Side -> T]]
  OBVIOUS

LEMMA EffectIs ==
  ASSUME NEW m \in Item \cup {Nothing}, NEW s \in Side, NEW from \in Side,
         NEW p \in Payload
  PROVE  /\ p.kind = "text" =>
              Effect(m, s, from, p) = IF m = Nothing THEN Message(s = from, p.number) ELSE m
         /\ p.kind # "text" /\ m = Nothing => Effect(m, s, from, p) = Nothing
         /\ p.kind = "edit" /\ m # Nothing =>
              Effect(m, s, from, p) = [m EXCEPT !.text = p.number]
         /\ p.kind = "delete" => Effect(m, s, from, p) = Nothing
         /\ p.kind = "react" /\ m # Nothing =>
              Effect(m, s, from, p) = [m EXCEPT !.reacted = @ \cup {from}]
         /\ p.kind = "unreact" /\ m # Nothing =>
              Effect(m, s, from, p) = [m EXCEPT !.reacted = @ \ {from}]
  BY DEF Effect, Reacted, Payload, Kind

LEMMA MessageFields ==
  ASSUME NEW own \in BOOLEAN, NEW number \in Nat
  PROVE  /\ Message(own, number) \in Item
         /\ Message(own, number).own = own /\ Message(own, number).text = number
         /\ Message(own, number).reacted = {} /\ Message(own, number).outSeq = Nothing
         /\ own => Message(own, number).status = "sending"
         /\ ~own => Message(own, number).status = Nothing
  BY DEF Message, Item, Status

\* What a payload leaves of a message that is there.
LEMMA EffectFields ==
  ASSUME NEW m \in Item \cup {Nothing}, NEW s \in Side, NEW from \in Side,
         NEW p \in Payload
  PROVE  LET e == Effect(m, s, from, p)
         IN  /\ e \in Item \cup {Nothing}
             /\ e # Nothing /\ m # Nothing =>
                  /\ e.own = m.own /\ e.status = m.status /\ e.outSeq = m.outSeq
                  /\ e.text = IF p.kind = "edit" THEN p.number ELSE m.text
                  /\ \A r \in Side : r # from => (r \in e.reacted <=> r \in m.reacted)
                  /\ p.kind = "react" => from \in e.reacted
                  /\ p.kind = "unreact" => from \notin e.reacted
                  /\ p.kind \notin Reactions => e.reacted = m.reacted
             /\ m = Nothing /\ p.kind # "text" => e = Nothing
             /\ m = Nothing /\ p.kind = "text" => e = Message(s = from, p.number)
             /\ e = Nothing => m = Nothing \/ p.kind = "delete"
             /\ p.kind = "delete" => e = Nothing
<1> DEFINE e == Effect(m, s, from, p)
<1> USE NothingElse
<1>0. p.kind \in Kind /\ p.number \in Nat /\ (s = from) \in BOOLEAN
  BY DEF Payload
<1>1. CASE m = Nothing
  <2>1. CASE p.kind = "text"
    <3>1. e = Message(s = from, p.number)
      BY <1>1, <2>1, EffectIs
    <3>2. Message(s = from, p.number) \in Item
      BY <1>0, MessageFields
    <3>3. e \in Item
      BY <3>1, <3>2
    <3> HIDE DEF e
    <3> QED
      BY <1>1, <2>1, <3>1, <3>3 DEF e
  <2>2. CASE p.kind # "text"
    <3>1. e = Nothing
      BY <1>1, <2>2, EffectIs
    <3> QED
      BY <1>1, <2>2, <3>1
  <2> QED
    BY <2>1, <2>2
<1>2. CASE m # Nothing
  <2> HIDE DEF e
  <2>0. m \in Item
    BY <1>2
  <2>1. CASE p.kind = "text"
    <3>1. e = m
      BY <1>2, <2>1, EffectIs DEF e
    <3> QED
      BY <1>2, <2>0, <2>1, <3>1 DEF e, Reactions
  <2>2. CASE p.kind = "edit"
    <3>1. e = [m EXCEPT !.text = p.number]
      BY <1>2, <2>2, EffectIs DEF e
    <3>2. e \in Item /\ e.own = m.own /\ e.status = m.status /\ e.outSeq = m.outSeq
          /\ e.text = p.number /\ e.reacted = m.reacted
      BY <3>1, <2>0, <1>0 DEF Item
    <3> QED
      BY <1>2, <2>0, <2>2, <3>2 DEF e, Reactions
  <2>3. CASE p.kind = "delete"
    <3>1. e = Nothing
      BY <2>3, EffectIs DEF e
    <3> QED
      BY <1>2, <2>3, <3>1 DEF e
  <2>4. CASE p.kind = "react"
    <3>1. e = [m EXCEPT !.reacted = @ \cup {from}]
      BY <1>2, <2>4, EffectIs DEF e
    <3>2. e \in Item /\ e.own = m.own /\ e.status = m.status /\ e.outSeq = m.outSeq
          /\ e.text = m.text /\ e.reacted = m.reacted \cup {from}
      BY <3>1, <2>0 DEF Item
    <3> QED
      BY <1>2, <2>0, <2>4, <3>2 DEF e, Reactions
  <2>5. CASE p.kind = "unreact"
    <3>1. e = [m EXCEPT !.reacted = @ \ {from}]
      BY <1>2, <2>5, EffectIs DEF e
    <3>2. e \in Item /\ e.own = m.own /\ e.status = m.status /\ e.outSeq = m.outSeq
          /\ e.text = m.text /\ e.reacted = m.reacted \ {from}
      BY <3>1, <2>0 DEF Item
    <3> QED
      BY <1>2, <2>0, <2>5, <3>2 DEF e, Reactions
  <2> QED
    BY <1>0, <2>1, <2>2, <2>3, <2>4, <2>5 DEF Kind
<1> QED
  BY <1>1, <1>2

-----------------------------------------------------------------------------
(* Conversation: what the steps do                                         *)

\* What does not change of a message when its status does.
StatusOnly(m, n) ==
  /\ m = Nothing <=> n = Nothing
  /\ m # Nothing => /\ n \in Item /\ n.own = m.own /\ n.text = m.text
                    /\ n.reacted = m.reacted

LEMMA StatusSet ==
  ASSUME ConversationTypes, NEW c \in Chat, NEW s \in Side, NEW i \in Id,
         NEW status \in Status, NEW seq \in Nat \cup {Nothing},
         SetStatus(c, s, i, status, seq)
  PROVE  /\ items' \in [Chat -> [Side -> [Id -> Item \cup {Nothing}]]]
         /\ \A d \in Chat, r \in Side, j \in Id :
              ~(d = c /\ r = s /\ j = i) => items'[d][r][j] = items[d][r][j]
         /\ StatusOnly(items[c][s][i], items'[c][s][i])
         /\ items[c][s][i] # Nothing =>
              items'[c][s][i].status = status /\ items'[c][s][i].outSeq = seq
<1> DEFINE m == items[c][s][i]
           n == IF m = Nothing THEN m ELSE [m EXCEPT !.status = status, !.outSeq = seq]
<1>1. items \in [Chat -> [Side -> [Id -> Item \cup {Nothing}]]]
  BY DEF ConversationTypes
<1>2. items' = [items EXCEPT ![c][s][i] = n]
  BY <1>1 DEF SetStatus
<1>3. m \in Item \cup {Nothing}
  BY <1>1
<1>4. m = Nothing => n = Nothing
  OBVIOUS
<1>5. ASSUME m # Nothing
      PROVE  /\ n \in Item /\ n.own = m.own /\ n.text = m.text
             /\ n.reacted = m.reacted /\ n.status = status /\ n.outSeq = seq
  <2>1. m \in Item /\ n = [m EXCEPT !.status = status, !.outSeq = seq]
    BY <1>3, <1>5
  <2> HIDE DEF m, n
  <2> QED
    BY <2>1 DEF Item
<1> HIDE DEF n
<1>6. n \in Item \cup {Nothing} /\ (m = Nothing <=> n = Nothing)
  BY <1>3, <1>4, <1>5, NothingElse
<1>7. items' \in [Chat -> [Side -> [Id -> Item \cup {Nothing}]]]
  BY <1>1, <1>2, <1>6
<1>8. /\ items'[c][s][i] = n
      /\ \A d \in Chat, r \in Side, j \in Id :
           ~(d = c /\ r = s /\ j = i) => items'[d][r][j] = items[d][r][j]
  BY <1>1, <1>2
<1> QED
  BY <1>4, <1>5, <1>6, <1>7, <1>8 DEF StatusOnly

SentFrame(c, s, kind, i) ==
  [chat |-> c, from |-> s, kind |-> kind, target |-> i,
   number |-> IF kind = "edit" THEN payloads ELSE 0, session |-> sessions[c][s],
   at |-> "push", seq |-> Nothing]

\* The frame is pushed, or nothing is for want of a session.
SendOutcome(c, s, kind, i) ==
  LET p == SentFrame(c, s, kind, i)
      e == Effect(items[c][s][i], s, s, p)
  IN  \/ /\ items'[c][s][i] = e /\ pushes' = pushes \cup {p}
         /\ c \notin disturbed' => \A q \in pushes :
              ~(q.chat = c /\ q.from = s /\ q.target = i /\ q.at = "push")
      \/ /\ pushes' = pushes /\ c \in disturbed'
         /\ \/ kind # "text" /\ items'[c][s][i] = e
            \/ kind = "text" /\ items'[c][s][i] = [e EXCEPT !.status = "failed"]

LEMMA SendFacts ==
  ASSUME ConversationTypes, NEW c \in Chat, NEW s \in Side, NEW kind \in Kind,
         NEW i \in Id, Send(c, s, kind, i)
  PROVE  LET p == SentFrame(c, s, kind, i)
             m == items[c][s][i]
         IN  /\ p \in Payload
             /\ UNCHANGED <<active, sessions, queue, taken, timers, cursors, pendingRead,
                            readSent, decrypted, seen, late, forgone, switches, faults>>
             /\ written' = written \cup {i} /\ payloads' = payloads + 1
             /\ items' \in [Chat -> [Side -> [Id -> Item \cup {Nothing}]]]
             /\ \A d \in Chat, r \in Side, j \in Id :
                  ~(d = c /\ r = s /\ j = i) => items'[d][r][j] = items[d][r][j]
             /\ disturbed \subseteq disturbed' /\ disturbed' \subseteq disturbed \cup {c}
             /\ pushes' = pushes \cup {p} \/ pushes' = pushes
             /\ SendOutcome(c, s, kind, i)
             /\ kind = "text" => i \notin written
             /\ kind \in {"edit", "delete"} => m # Nothing /\ m.own
             /\ kind \in Reactions => m # Nothing
<1> DEFINE p == SentFrame(c, s, kind, i)
           m == items[c][s][i]
           e == Effect(m, s, s, p)
           list == Applied(items[c][s], s, s, p)
           silent == sessions[c][s] = 0
           race == \E q \in pushes : /\ q.chat = c /\ q.from = s
                                     /\ q.target = i /\ q.at = "push"
           new == IF silent /\ kind = "text"
                  THEN [list EXCEPT ![i].status = "failed"] ELSE list
<1>1. p \in Payload
  BY DEF SentFrame, Payload, ConversationTypes
<1>2. /\ UNCHANGED <<active, sessions, queue, taken, timers, cursors, pendingRead,
                     readSent, decrypted, seen, late, forgone, switches, faults>>
      /\ written' = written \cup {i} /\ payloads' = payloads + 1
  BY DEF Send, receipts
<1>3. /\ items' = [items EXCEPT ![c][s] = new]
      /\ pushes' = IF silent THEN pushes ELSE pushes \cup {p}
      /\ disturbed' = IF silent \/ race THEN disturbed \cup {c} ELSE disturbed
  BY DEF Send, SentFrame
<1>4. items \in [Chat -> [Side -> [Id -> Item \cup {Nothing}]]]
  BY DEF ConversationTypes
<1>5. m \in Item \cup {Nothing}
  BY <1>4
<1>6. /\ kind = "text" => i \notin written
      /\ kind \in {"edit", "delete"} => m # Nothing /\ m.own
      /\ kind \in Reactions => m # Nothing
  BY DEF Send, Offered, Reactions
<1>7. p.target = i /\ p.kind = kind
  BY DEF SentFrame
<1>8. list = [items[c][s] EXCEPT ![i] = e]
  BY <1>4, <1>7 DEF Applied
<1>9. e \in Item \cup {Nothing}
  BY <1>1, <1>5, EffectFields
<1> HIDE DEF e, p, m, list
<1>10. /\ list \in [Id -> Item \cup {Nothing}] /\ list[i] = e
       /\ \A j \in Id : j # i => list[j] = items[c][s][j]
  BY <1>4, <1>8, <1>9
<1>11. kind = "text" => e \in Item
  <2> SUFFICES ASSUME kind = "text" PROVE e # Nothing
    BY <1>9
  <2>1. /\ m = Nothing => e = Message(s = s, p.number)
        /\ m # Nothing => e = m
    BY <1>1, <1>5, <1>7, EffectIs DEF e
  <2>2. p.number \in Nat /\ (s = s) \in BOOLEAN
    BY <1>1 DEF Payload
  <2>3. Message(s = s, p.number) \in Item
    BY <2>2, MessageFields
  <2> QED
    BY <2>1, <2>3, <1>5, NothingElse
<1>12. kind = "text" => [e EXCEPT !.status = "failed"] \in Item
  BY <1>11 DEF Item, Status
<1>13. /\ new \in [Id -> Item \cup {Nothing}]
       /\ \A j \in Id : j # i => new[j] = items[c][s][j]
       /\ new[i] = IF silent /\ kind = "text" THEN [e EXCEPT !.status = "failed"] ELSE e
  <2>1. CASE silent /\ kind = "text"
    <3>1. new = [list EXCEPT ![i] = [e EXCEPT !.status = "failed"]]
      BY <2>1, <1>10
    <3> QED
      BY <2>1, <3>1, <1>10, <1>12
  <2>2. CASE ~(silent /\ kind = "text")
    BY <2>2, <1>10
  <2> QED
    BY <2>1, <2>2
<1> HIDE DEF new
<1>14. /\ items' \in [Chat -> [Side -> [Id -> Item \cup {Nothing}]]]
       /\ items'[c][s] = new
       /\ \A d \in Chat, r \in Side : ~(d = c /\ r = s) => items'[d][r] = items[d][r]
  BY <1>3, <1>4, <1>13
<1>15. \A d \in Chat, r \in Side, j \in Id :
         ~(d = c /\ r = s /\ j = i) => items'[d][r][j] = items[d][r][j]
  BY <1>13, <1>14
<1>16. items'[c][s][i] = IF silent /\ kind = "text" THEN [e EXCEPT !.status = "failed"] ELSE e
  BY <1>13, <1>14
<1>17. SendOutcome(c, s, kind, i)
  <2>1. CASE silent
    BY <1>3, <1>16, <2>1 DEF SendOutcome, e, p, m
  <2>2. CASE ~silent
    BY <1>3, <1>16, <2>2 DEF SendOutcome, e, p, m
  <2> QED
    BY <2>1, <2>2
<1>18. /\ disturbed \subseteq disturbed' /\ disturbed' \subseteq disturbed \cup {c}
       /\ pushes' = pushes \cup {p} \/ pushes' = pushes
  BY <1>3
<1> QED
  BY <1>1, <1>2, <1>6, <1>14, <1>15, <1>17, <1>18 DEF p, m

LEMMA PushFacts ==
  ASSUME ConversationTypes, NEW p \in pushes, Push(p)
  PROVE  LET c == p.chat
             t == Other(p.from)
             n == Len(queue[c][t]) + 1
             a == [p EXCEPT !.at = "answer", !.seq = n]
         IN  /\ p \in Payload /\ p.at = "push"
             /\ UNCHANGED <<active, items, written, sessions, taken, timers, cursors,
                            pendingRead, readSent, decrypted, seen, late, forgone,
                            disturbed, payloads, switches, faults>>
             /\ queue' \in [Chat -> [Side -> Seq(Payload \cup {Nothing})]]
             /\ \A d \in Chat, r \in Side : ~(d = c /\ r = t) => queue'[d][r] = queue[d][r]
             /\ Len(queue'[c][t]) = n /\ queue'[c][t][n] = p
             /\ \A k \in 1 .. Len(queue[c][t]) : queue'[c][t][k] = queue[c][t][k]
             /\ a \in Payload /\ a.at = "answer" /\ a.seq = n /\ a.kind = p.kind
             /\ a.chat = c /\ a.from = p.from /\ a.target = p.target
             /\ pushes' = (pushes \ {p}) \cup IF p.kind = "text" THEN {a} ELSE {}
<1> DEFINE c == p.chat
           t == Other(p.from)
           n == Len(queue[c][t]) + 1
           a == [p EXCEPT !.at = "answer", !.seq = n]
<1>1. /\ p \in Payload /\ p.at = "push"
      /\ UNCHANGED <<active, items, written, sessions, taken, timers, cursors,
                     pendingRead, readSent, decrypted, seen, late, forgone,
                     disturbed, payloads, switches, faults>>
  BY ConversationTypeFacts DEF Push, lists, receipts, history
<1>2. /\ queue' = [queue EXCEPT ![c][t] = Append(queue[c][t], p)]
      /\ pushes' = (pushes \ {p}) \cup IF p.kind = "text" THEN {a} ELSE {}
  <2>1. queue \in [Chat -> [Side -> Seq(Payload \cup {Nothing})]]
    BY DEF ConversationTypes
  <2> QED
    BY <2>1 DEF Push
<1>3. c \in Chat /\ p.from \in Side /\ t \in Side
  BY <1>1, Sides DEF Payload
<1>4. /\ queue \in [Chat -> [Side -> Seq(Payload \cup {Nothing})]]
      /\ queue[c][t] \in Seq(Payload \cup {Nothing})
  BY <1>3 DEF ConversationTypes
<1>5. /\ Append(queue[c][t], p) \in Seq(Payload \cup {Nothing})
      /\ Len(Append(queue[c][t], p)) = n /\ Append(queue[c][t], p)[n] = p
      /\ \A k \in 1 .. Len(queue[c][t]) : Append(queue[c][t], p)[k] = queue[c][t][k]
      /\ n \in Nat
  BY <1>1, <1>4
<1>6. /\ queue' \in [Chat -> [Side -> Seq(Payload \cup {Nothing})]]
      /\ queue'[c][t] = Append(queue[c][t], p)
      /\ \A d \in Chat, r \in Side : ~(d = c /\ r = t) => queue'[d][r] = queue[d][r]
  <2> DEFINE new == Append(queue[c][t], p)
  <2>1. new \in Seq(Payload \cup {Nothing})
    BY <1>5
  <2>2. queue' = [queue EXCEPT ![c][t] = new]
    BY <1>2
  <2> HIDE DEF new, t, c
  <2>3. /\ queue' \in [Chat -> [Side -> Seq(Payload \cup {Nothing})]]
        /\ queue'[c][t] = new
        /\ \A d \in Chat, r \in Side : ~(d = c /\ r = t) => queue'[d][r] = queue[d][r]
    BY <1>3, <1>4, <2>1, <2>2
  <2> QED
    BY <2>3 DEF new
<1>7. /\ a \in Payload /\ a.at = "answer" /\ a.seq = n /\ a.kind = p.kind
      /\ a.chat = c /\ a.from = p.from /\ a.target = p.target
  <2>1. n \in Nat
    BY <1>5
  <2> HIDE DEF n
  <2> QED
    BY <1>1, <2>1 DEF Payload
<1> QED
  BY <1>1, <1>2, <1>5, <1>6, <1>7

LEMMA MaxOfTwo ==
  ASSUME NEW m \in Nat, NEW n \in Nat
  PROVE  Max({m, n}) \in Nat /\ Max({m, n}) = IF m > n THEN m ELSE n
<1> DEFINE x == IF m > n THEN m ELSE n
<1>1. x \in {m, n} /\ \A y \in {m, n} : x >= y
  OBVIOUS
<1>2. \A y \in {m, n} : (\A z \in {m, n} : y >= z) => y = x
  OBVIOUS
<1>3. Max({m, n}) = CHOOSE y \in {m, n} : \A z \in {m, n} : y >= z
  BY DEF Max
<1>4. Max({m, n}) = x
  BY <1>1, <1>2, <1>3
<1> QED
  BY <1>4

\* A frame is dropped, or it opens and takes effect.
Dropped(c) ==
  /\ disturbed' = disturbed \cup {c}
  /\ UNCHANGED <<items, timers, readSent, pendingRead, decrypted, seen>>

Opened(c, s, focused) ==
  LET n == taken[c][s] + 1
      p == queue[c][s][n]
      page == PageOf(c, s)
  IN  /\ disturbed' = disturbed
      /\ items' \in [Chat -> [Side -> [Id -> Item \cup {Nothing}]]]
      /\ \A d \in Chat, r \in Side, j \in Id :
           ~(d = c /\ r = s /\ j = p.target) => items'[d][r][j] = items[d][r][j]
      /\ items'[c][s][p.target] = Effect(items[c][s][p.target], s, Other(s), p)
      /\ timers' = timers
           \cup {[page |-> page, kind |-> "delivered", chat |-> c, upTo |-> n]}
           \cup IF focused /\ n > readSent[page]
                THEN {[page |-> page, kind |-> "read", chat |-> c, upTo |-> n]} ELSE {}
      /\ readSent' \in [Page -> Nat] /\ pendingRead' \in [Page -> Nat]
      /\ \A q \in Page : q # page =>
           readSent'[q] = readSent[q] /\ pendingRead'[q] = pendingRead[q]
      /\ readSent'[page] = IF focused /\ n > readSent[page] THEN n ELSE readSent[page]
      /\ pendingRead'[page] =
           IF ~focused /\ n > pendingRead[page] THEN n ELSE pendingRead[page]
      /\ decrypted' \in [Chat -> [Side -> SUBSET Nat]]
      /\ seen' \in [Chat -> [Side -> SUBSET Nat]]
      /\ \A d \in Chat, r \in Side : ~(d = c /\ r = s) =>
           decrypted'[d][r] = decrypted[d][r] /\ seen'[d][r] = seen[d][r]
      /\ decrypted'[c][s] = decrypted[c][s] \cup {n}
      /\ seen'[c][s] = IF focused THEN decrypted'[c][s] ELSE seen[c][s]

LEMMA ReceiveFacts ==
  ASSUME ConversationTypes, FrameInv, NEW c \in Chat, NEW s \in Side,
         NEW focused \in BOOLEAN, Receive(c, s, focused)
  PROVE  LET n == taken[c][s] + 1
             p == queue[c][s][n]
         IN  /\ IsAt(c, s) /\ n \in Coming(c, s)
             /\ p \in Payload /\ p.chat = c /\ p.from = Other(s) /\ p.target \in written
             /\ UNCHANGED <<active, written, sessions, pushes, cursors, late, forgone,
                            payloads, switches, faults>>
             /\ taken' \in [Chat -> [Side -> Nat]] /\ taken'[c][s] = n
             /\ \A d \in Chat, r \in Side : ~(d = c /\ r = s) => taken'[d][r] = taken[d][r]
             /\ queue' \in [Chat -> [Side -> Seq(Payload \cup {Nothing})]]
             /\ \A d \in Chat, r \in Side :
                  /\ Len(queue'[d][r]) = Len(queue[d][r])
                  /\ \A k \in 1 .. Len(queue[d][r]) :
                       ~(d = c /\ r = s /\ k = n) => queue'[d][r][k] = queue[d][r][k]
             /\ Dropped(c) \/ Opened(c, s, focused)
<1> DEFINE n == taken[c][s] + 1
           p == queue[c][s][n]
           page == PageOf(c, s)
           opens == sessions[c][s] # 0 /\ p.session = sessions[c][s]
<1>1. /\ IsAt(c, s) /\ taken[c][s] < Len(queue[c][s])
      /\ UNCHANGED <<active, written, sessions, pushes, cursors, late, forgone,
                     payloads, switches, faults>>
  BY DEF Receive
<1>2. /\ taken[c][s] \in Nat /\ Len(queue[c][s]) \in Nat
      /\ queue[c][s] \in Seq(Payload \cup {Nothing})
      /\ n \in Nat /\ n \in Coming(c, s) /\ n \in 1 .. Len(queue[c][s])
  BY <1>1, ConversationTypeFacts DEF Coming
<1>3. p \in Payload /\ p.chat = c /\ p.from = Other(s) /\ p.target \in written
  BY <1>2 DEF FrameInv
<1>4. /\ taken' = [taken EXCEPT ![c][s] = n]
      /\ queue' = [queue EXCEPT ![c][s] = [queue[c][s] EXCEPT ![n] = Nothing]]
  BY DEF Receive, ConversationTypes
<1>5. /\ taken' \in [Chat -> [Side -> Nat]] /\ taken'[c][s] = n
      /\ \A d \in Chat, r \in Side : ~(d = c /\ r = s) => taken'[d][r] = taken[d][r]
  <2> HIDE DEF n
  <2> QED
    BY <1>2, <1>4, EndUpdate DEF ConversationTypes
<1>6. /\ queue' \in [Chat -> [Side -> Seq(Payload \cup {Nothing})]]
      /\ \A d \in Chat, r \in Side :
           /\ Len(queue'[d][r]) = Len(queue[d][r])
           /\ \A k \in 1 .. Len(queue[d][r]) :
                ~(d = c /\ r = s /\ k = n) => queue'[d][r][k] = queue[d][r][k]
  <2> DEFINE new == [queue[c][s] EXCEPT ![n] = Nothing]
  <2>1. /\ new \in Seq(Payload \cup {Nothing}) /\ Len(new) = Len(queue[c][s])
        /\ \A k \in 1 .. Len(queue[c][s]) : k # n => new[k] = queue[c][s][k]
    BY <1>2
  <2>2. queue' = [queue EXCEPT ![c][s] = new]
    BY <1>4
  <2>3. queue \in [Chat -> [Side -> Seq(Payload \cup {Nothing})]]
    BY DEF ConversationTypes
  <2> HIDE DEF new, n
  <2>4. /\ queue' \in [Chat -> [Side -> Seq(Payload \cup {Nothing})]]
        /\ queue'[c][s] = new
        /\ \A d \in Chat, r \in Side : ~(d = c /\ r = s) => queue'[d][r] = queue[d][r]
    BY <2>1, <2>2, <2>3
  <2> QED
    BY <2>1, <2>4
<1>7. CASE ~opens
  <2>1. Dropped(c)
    BY <1>7 DEF Receive, Dropped
  <2> QED
    BY <1>1, <1>2, <1>3, <1>5, <1>6, <2>1
<1>8. CASE opens
  <2>1. page \in Page
    BY Sides
  <2>2. /\ items' = [items EXCEPT ![c][s] = Applied(items[c][s], s, Other(s), p)]
        /\ timers' = timers
             \cup {[page |-> page, kind |-> "delivered", chat |-> c, upTo |-> n]}
             \cup IF focused THEN ReadTimer(page, n) ELSE {}
        /\ readSent' = [readSent EXCEPT
             ![page] = IF focused THEN Max({readSent[page], n}) ELSE readSent[page]]
        /\ pendingRead' = [pendingRead EXCEPT
             ![page] = IF focused THEN pendingRead[page] ELSE Max({pendingRead[page], n})]
        /\ decrypted' = [decrypted EXCEPT ![c][s] = decrypted[c][s] \cup {n}]
        /\ seen' = IF focused THEN [seen EXCEPT ![c][s] = decrypted[c][s] \cup {n}]
                              ELSE seen
        /\ disturbed' = disturbed
    <3>1. /\ items \in [Chat -> [Side -> [Id -> Item \cup {Nothing}]]]
          /\ decrypted \in [Chat -> [Side -> SUBSET Nat]]
          /\ readSent \in [Page -> Nat] /\ pendingRead \in [Page -> Nat]
      BY DEF ConversationTypes
    <3> QED
      BY <1>3, <1>8, <2>1, <3>1 DEF Receive, CountsAsRead
  <2>3. ReadTimer(page, n) =
          IF n > readSent[page]
          THEN {[page |-> page, kind |-> "read", chat |-> c, upTo |-> n]} ELSE {}
    BY <1>1 DEF ReadTimer, IsAt
  <2>4. readSent[page] \in Nat /\ pendingRead[page] \in Nat
    BY <2>1, ConversationTypeFacts
  <2>5. /\ Max({readSent[page], n}) = IF n > readSent[page] THEN n ELSE readSent[page]
        /\ Max({pendingRead[page], n}) = IF n > pendingRead[page] THEN n ELSE pendingRead[page]
    <3>1. \A m, k \in Nat : (IF m > k THEN m ELSE k) = (IF k > m THEN k ELSE m)
      OBVIOUS
    <3> HIDE DEF n, page
    <3> QED
      BY <1>2, <2>4, <3>1, MaxOfTwo
  <2>6. /\ readSent' \in [Page -> Nat] /\ pendingRead' \in [Page -> Nat]
        /\ \A q \in Page : q # page =>
             readSent'[q] = readSent[q] /\ pendingRead'[q] = pendingRead[q]
        /\ readSent'[page] = IF focused /\ n > readSent[page] THEN n ELSE readSent[page]
        /\ pendingRead'[page] =
             IF ~focused /\ n > pendingRead[page] THEN n ELSE pendingRead[page]
    <3> HIDE DEF n, page
    <3>1. readSent \in [Page -> Nat] /\ pendingRead \in [Page -> Nat]
      BY DEF ConversationTypes
    <3> QED
      BY <1>2, <2>1, <2>2, <2>4, <2>5, <3>1
  <2>7. /\ decrypted' \in [Chat -> [Side -> SUBSET Nat]]
        /\ seen' \in [Chat -> [Side -> SUBSET Nat]]
        /\ \A d \in Chat, r \in Side : ~(d = c /\ r = s) =>
             decrypted'[d][r] = decrypted[d][r] /\ seen'[d][r] = seen[d][r]
        /\ decrypted'[c][s] = decrypted[c][s] \cup {n}
        /\ seen'[c][s] = IF focused THEN decrypted'[c][s] ELSE seen[c][s]
    <3> HIDE DEF n
    <3>1. /\ decrypted \in [Chat -> [Side -> SUBSET Nat]]
          /\ seen \in [Chat -> [Side -> SUBSET Nat]]
      BY DEF ConversationTypes
    <3>2. decrypted[c][s] \cup {n} \in SUBSET Nat
      BY <3>1, <1>2
    <3> QED
      BY <2>2, <3>1, <3>2
  <2>8. /\ items' \in [Chat -> [Side -> [Id -> Item \cup {Nothing}]]]
        /\ \A d \in Chat, r \in Side, j \in Id :
             ~(d = c /\ r = s /\ j = p.target) => items'[d][r][j] = items[d][r][j]
        /\ items'[c][s][p.target] = Effect(items[c][s][p.target], s, Other(s), p)
    <3> DEFINE i == p.target
               e == Effect(items[c][s][i], s, Other(s), p)
               list == [items[c][s] EXCEPT ![i] = e]
    <3>1. items \in [Chat -> [Side -> [Id -> Item \cup {Nothing}]]]
      BY DEF ConversationTypes
    <3>2. i \in Id
      BY <1>3 DEF Payload
    <3>3. items[c][s][i] \in Item \cup {Nothing}
      BY <3>1, <3>2
    <3>4. e \in Item \cup {Nothing}
      BY <1>3, <3>3, Sides, EffectFields, SMTT(30)
    <3>5. items' = [items EXCEPT ![c][s] = list]
      BY <2>2, <3>1, <3>2 DEF Applied
    <3> HIDE DEF e, i
    <3>6. /\ list \in [Id -> Item \cup {Nothing}] /\ list[i] = e
          /\ \A j \in Id : j # i => list[j] = items[c][s][j]
      BY <3>1, <3>2, <3>4
    <3> HIDE DEF list
    <3>7. /\ items' \in [Chat -> [Side -> [Id -> Item \cup {Nothing}]]]
          /\ items'[c][s] = list
          /\ \A d \in Chat, r \in Side : ~(d = c /\ r = s) => items'[d][r] = items[d][r]
      BY <3>1, <3>5, <3>6
    <3> QED
      BY <3>6, <3>7 DEF e, i
  <2>9. Opened(c, s, focused)
    <3>1. (IF focused THEN ReadTimer(page, n) ELSE {}) =
            (IF focused /\ n > readSent[page]
             THEN {[page |-> page, kind |-> "read", chat |-> c, upTo |-> n]} ELSE {})
      BY <2>3
    <3> QED
      BY <2>2, <2>3, <2>6, <2>7, <2>8 DEF Opened
  <2> QED
    BY <1>1, <1>2, <1>3, <1>5, <1>6, <2>9
<1> QED
  BY <1>7, <1>8

\* A receipt changes the status of what it covers, and nothing else.
Reported(k) ==
  /\ items' \in [Chat -> [Side -> [Id -> Item \cup {Nothing}]]]
  /\ \A d \in Chat, r \in Side : ~(d = k.chat /\ r = k.to) => items'[d][r] = items[d][r]
  /\ \A i \in Id :
       LET m == items[k.chat][k.to][i]
           n == items'[k.chat][k.to][i]
       IN  /\ StatusOnly(m, n)
           /\ m # Nothing =>
                /\ n.outSeq = m.outSeq
                /\ \/ /\ m.own /\ m.outSeq # Nothing /\ m.outSeq <= k.upTo
                      /\ m.status # "read" /\ n.status = k.kind
                   \/ /\ ~(m.own /\ m.outSeq # Nothing /\ m.outSeq <= k.upTo /\ m.status # "read")
                      /\ n = m
           /\ m # Nothing /\ m.status = "sending" => i \in late'
  /\ late \subseteq late' /\ late' \subseteq Id

LEMMA ReceiptFacts ==
  ASSUME ConversationTypes, NEW k \in Cursor, Receipt(k)
  PROVE  Reported(k)
<1> DEFINE c == k.chat
           s == k.to
           list == [i \in Id |-> Marked(items[c][s][i], k)]
<1>1. c \in Chat /\ s \in Side /\ k.kind \in {"delivered", "read"} /\ k.upTo \in Nat
  BY DEF Cursor
<1>2. items \in [Chat -> [Side -> [Id -> Item \cup {Nothing}]]]
  BY DEF ConversationTypes
<1>3. ASSUME NEW i \in Id
      PROVE  LET m == items[c][s][i]
                 n == Marked(m, k)
             IN  /\ n \in Item \cup {Nothing} /\ StatusOnly(m, n)
                 /\ m # Nothing =>
                      /\ n.outSeq = m.outSeq
                      /\ \/ /\ m.own /\ m.outSeq # Nothing /\ m.outSeq <= k.upTo
                            /\ m.status # "read" /\ n.status = k.kind
                         \/ /\ ~(m.own /\ m.outSeq # Nothing /\ m.outSeq <= k.upTo
                                   /\ m.status # "read")
                            /\ n = m
  <2> DEFINE m == items[c][s][i]
             n == Marked(m, k)
             covered == m.own /\ m.outSeq # Nothing /\ m.outSeq <= k.upTo /\ m.status # "read"
  <2>1. m \in Item \cup {Nothing}
    BY <1>1, <1>2
  <2>2. CASE m = Nothing
    <3>1. n = Nothing
      BY <2>2 DEF Marked
    <3> QED
      BY <2>2, <3>1 DEF StatusOnly
  <2>3. CASE m # Nothing /\ ~covered
    <3>1. n = m
      BY <2>3 DEF Marked, Covers
    <3> QED
      BY <2>1, <2>3, <3>1 DEF StatusOnly
  <2>4. CASE m # Nothing /\ covered
    <3>1. n = [m EXCEPT !.status = k.kind] /\ m \in Item
      BY <2>1, <2>4 DEF Marked, Covers
    <3>2. n \in Item /\ n.own = m.own /\ n.text = m.text /\ n.reacted = m.reacted
          /\ n.outSeq = m.outSeq /\ n.status = k.kind
      <4> HIDE DEF m, n
      <4> QED
        BY <1>1, <3>1 DEF Item, Status
    <3>3. n # Nothing
      BY <3>2, NothingElse
    <3> QED
      BY <2>4, <3>2, <3>3 DEF StatusOnly
  <2> QED
    BY <2>2, <2>3, <2>4
<1>4. items' = [items EXCEPT ![c][s] = list]
  BY <1>1, <1>2 DEF Receipt
<1>5. /\ list \in [Id -> Item \cup {Nothing}]
      /\ \A i \in Id : list[i] = Marked(items[c][s][i], k)
  BY <1>3
<1>6. /\ late \subseteq late' /\ late' \subseteq Id
      /\ \A i \in Id : items[c][s][i] # Nothing /\ items[c][s][i].status = "sending" => i \in late'
  BY DEF Receipt, ConversationTypes
<1> HIDE DEF list, c, s
<1>7. /\ items' \in [Chat -> [Side -> [Id -> Item \cup {Nothing}]]]
      /\ items'[c][s] = list
      /\ \A d \in Chat, r \in Side : ~(d = c /\ r = s) => items'[d][r] = items[d][r]
  BY <1>1, <1>2, <1>4, <1>5
<1>8. \A i \in Id : items'[c][s][i] = Marked(items[c][s][i], k)
  BY <1>5, <1>7
<1> QED
  BY <1>3, <1>6, <1>7, <1>8 DEF Reported, c, s

LEMMA SenderBack ==
  ASSUME NEW c \in Chat, NEW s \in Side
  PROVE  SenderTo(PageOf(c, Other(s))) = s
BY NothingElse DEF SenderTo, PageOf, Other, Side

LEMMA CursorOfType ==
  ASSUME NEW t \in Timer, NEW c \in Chat
  PROVE  CursorOf(t, c) \in Cursor
BY DEF CursorOf, Cursor, SenderTo, Side, Timer

LEMMA FireFacts ==
  ASSUME ConversationTypes, NEW t \in timers, Fire(t)
  PROVE  LET k == CursorOf(t, At(t.page))
             drop == t.kind = "delivered" /\ t.chat # At(t.page)
         IN  /\ t \in Timer /\ k \in Cursor /\ At(t.page) \in Chat
             /\ t.page = PageOf(k.chat, Other(k.to))
             /\ timers' = timers \ {t}
             /\ UNCHANGED <<active, written, sessions, pushes, queue, taken, pendingRead,
                            readSent, decrypted, seen, disturbed, payloads, switches, faults>>
             /\ forgone' = IF drop THEN forgone \cup {CursorOf(t, t.chat)} ELSE forgone
             /\ \/ drop /\ UNCHANGED <<items, late, cursors>>
                \/ ~drop /\ UNCHANGED <<items, late>> /\ cursors' = cursors \cup {k}
                \/ ~drop /\ Reported(k) /\ UNCHANGED cursors
<1> DEFINE k == CursorOf(t, At(t.page))
           drop == t.kind = "delivered" /\ t.chat # At(t.page)
<1>1. t \in Timer /\ t.page \in Page /\ t.kind \in {"delivered", "read"} /\ t.upTo \in Nat
  BY DEF ConversationTypes, Timer
<1>2. At(t.page) \in Chat
  BY <1>1, NothingElse DEF ConversationTypes, At, Page
<1>3. k \in Cursor
  BY <1>1, <1>2, CursorOfType
<1>4. t.page = PageOf(k.chat, Other(k.to))
  BY <1>1 DEF CursorOf, SenderTo, PageOf, Other, At, Page
<1>5. /\ timers' = timers \ {t}
      /\ UNCHANGED <<active, written, sessions, pushes, queue, taken, pendingRead,
                     readSent, decrypted, seen, disturbed, payloads, switches, faults>>
      /\ forgone' = IF drop THEN forgone \cup {CursorOf(t, t.chat)} ELSE forgone
  BY DEF Fire, transport, CursorOf
<1>6. /\ IF drop \/ ~IsAt(At(t.page), SenderTo(t.page)) THEN UNCHANGED <<items, late>>
         ELSE Receipt(k)
      /\ cursors' = IF drop \/ IsAt(At(t.page), SenderTo(t.page)) THEN cursors
                    ELSE cursors \cup {k}
  BY DEF Fire, CursorOf, SenderTo
<1>7. CASE drop
  BY <1>1, <1>2, <1>3, <1>4, <1>5, <1>6, <1>7
<1>8. CASE ~drop /\ ~IsAt(At(t.page), SenderTo(t.page))
  BY <1>1, <1>2, <1>3, <1>4, <1>5, <1>6, <1>8
<1>9. CASE ~drop /\ IsAt(At(t.page), SenderTo(t.page))
  <2>1. Reported(k)
    BY <1>3, <1>6, <1>9, ReceiptFacts
  <2> QED
    BY <1>1, <1>2, <1>3, <1>4, <1>5, <1>6, <1>9, <2>1
<1> QED
  BY <1>7, <1>8, <1>9

\* A receipt is lost.
LosesReceipt ==
  \/ \E t \in timers : FireFails(t)
  \/ \E k \in cursors : Expires(k)

LEMMA LosesFacts ==
  ASSUME ConversationTypes, LosesReceipt
  PROVE  /\ timers' \subseteq timers /\ cursors' \subseteq cursors
         /\ \A t \in timers : t \in timers' \/ CursorOf(t, t.chat) \in forgone'
         /\ \A k \in cursors : k \in cursors' \/ k \in forgone'
         /\ forgone \subseteq forgone' /\ forgone' \in SUBSET Cursor
         /\ faults' \in Nat
         /\ UNCHANGED <<active, items, written, sessions, pushes, queue, taken,
                        pendingRead, readSent, decrypted, seen, late, disturbed,
                        payloads, switches>>
<1>1. ASSUME NEW t \in timers, FireFails(t)
      PROVE  /\ timers' = timers \ {t} /\ cursors' = cursors
             /\ forgone' = forgone \cup {CursorOf(t, t.chat)}
             /\ faults' = faults + 1
             /\ UNCHANGED <<active, items, written, sessions, pushes, queue, taken,
                            pendingRead, readSent, decrypted, seen, late, disturbed,
                            payloads, switches>>
  BY <1>1 DEF FireFails, lists, transport
<1>2. ASSUME NEW k \in cursors, Expires(k)
      PROVE  /\ timers' = timers /\ cursors' = cursors \ {k}
             /\ forgone' = forgone \cup {k}
             /\ faults' = faults + 1
             /\ UNCHANGED <<active, items, written, sessions, pushes, queue, taken,
                            pendingRead, readSent, decrypted, seen, late, disturbed,
                            payloads, switches>>
  BY <1>2 DEF Expires, lists, transport
<1>3. \A t \in timers : CursorOf(t, t.chat) \in Cursor
  <2> SUFFICES ASSUME NEW t \in timers PROVE CursorOf(t, t.chat) \in Cursor
    OBVIOUS
  <2>1. t \in Timer /\ t.chat \in Chat
    BY DEF ConversationTypes, Timer
  <2> QED
    BY <2>1, CursorOfType
<1>4. /\ cursors \subseteq Cursor /\ forgone \subseteq Cursor /\ faults \in Nat
  BY DEF ConversationTypes
<1>5. CASE \E t \in timers : FireFails(t)
  BY <1>1, <1>3, <1>4, <1>5
<1>6. CASE \E k \in cursors : Expires(k)
  BY <1>2, <1>4, <1>6
<1> QED
  BY <1>5, <1>6 DEF LosesReceipt

LEMMA CollectFacts ==
  ASSUME ConversationTypes, NEW k \in cursors, Collect(k)
  PROVE  /\ k \in Cursor /\ cursors' = cursors \ {k} /\ Reported(k)
         /\ UNCHANGED <<active, written, sessions, pushes, queue, taken, timers, pendingRead,
                        readSent, decrypted, seen, forgone, disturbed, payloads, switches, faults>>
<1>1. k \in Cursor
  BY DEF ConversationTypes
<1> QED
  BY <1>1, ReceiptFacts DEF Collect, transport

LEMMA FocusFacts ==
  ASSUME ConversationTypes, NEW p \in Page, Focus(p)
  PROVE  /\ At(p) \in Chat
         /\ pendingRead[p] \in Nat /\ pendingRead[p] > readSent[p]
         /\ timers' = timers \cup
              {[page |-> p, kind |-> "read", chat |-> At(p), upTo |-> pendingRead[p]]}
         /\ readSent' \in [Page -> Nat] /\ readSent'[p] = pendingRead[p]
         /\ \A q \in Page : q # p => readSent'[q] = readSent[q]
         /\ seen' \in [Chat -> [Side -> SUBSET Nat]]
         /\ \A c \in Chat, s \in Side :
              seen'[c][s] = IF PageOf(c, s) = p /\ IsAt(c, s) THEN decrypted[c][s] ELSE seen[c][s]
         /\ UNCHANGED <<active, items, written, sessions, pushes, queue, taken, cursors,
                        pendingRead, decrypted, late, forgone, disturbed, payloads,
                        switches, faults>>
<1>1. /\ pendingRead[p] > readSent[p]
      /\ UNCHANGED <<active, items, written, sessions, pushes, queue, taken, cursors,
                     pendingRead, decrypted, late, forgone, disturbed, payloads,
                     switches, faults>>
  BY DEF Focus, lists, transport
<1>2. pendingRead[p] \in Nat /\ readSent[p] \in Nat
  BY ConversationTypeFacts
<1>3. At(p) \in Chat
  <2>1. CASE p = "here"
    <3>1. active # Nothing
      BY <1>1, <1>2, <2>1 DEF ConversationTypes
    <3> QED
      BY <2>1, <3>1 DEF At, ConversationTypes
  <2>2. CASE p # "here"
    BY <2>2 DEF At, Page
  <2> QED
    BY <2>1, <2>2
<1>4. timers' = timers \cup
        {[page |-> p, kind |-> "read", chat |-> At(p), upTo |-> pendingRead[p]]}
  BY <1>1 DEF Focus, ReadTimer
<1>5. /\ readSent' \in [Page -> Nat] /\ readSent'[p] = pendingRead[p]
      /\ \A q \in Page : q # p => readSent'[q] = readSent[q]
  BY <1>2 DEF Focus, ConversationTypes
<1>6. /\ \A c \in Chat, s \in Side :
           seen'[c][s] = IF PageOf(c, s) = p /\ IsAt(c, s) THEN decrypted[c][s] ELSE seen[c][s]
      /\ seen' \in [Chat -> [Side -> SUBSET Nat]]
  <2>1. seen' = [c \in Chat |-> [s \in Side |->
          IF PageOf(c, s) = p /\ IsAt(c, s) THEN decrypted[c][s] ELSE seen[c][s]]]
    BY DEF Focus
  <2> QED
    BY <2>1, ConversationTypeFacts
<1> QED
  BY <1>1, <1>2, <1>3, <1>4, <1>5, <1>6

LEMMA AnsweredFacts ==
  ASSUME ConversationTypes, FrameInv, StatusInv, NEW p \in pushes, PushAnswered(p)
  PROVE  /\ p \in Payload /\ p.at = "answer" /\ p.seq \in Nat
         /\ pushes' = pushes \ {p}
         /\ SetStatus(p.chat, p.from, p.target, "sent", p.seq)
         /\ UNCHANGED <<active, written, sessions, queue, taken, timers, cursors, pendingRead,
                        readSent, decrypted, seen, late, forgone, disturbed, payloads,
                        switches, faults>>
  BY ConversationTypeFacts DEF PushAnswered, receipts, history, StatusInv, Answers

LEMMA FailsFacts ==
  ASSUME ConversationTypes, NEW p \in pushes, PushFails(p)
  PROVE  /\ p \in Payload
         /\ pushes' = pushes \ {p} /\ faults' = faults + 1
         /\ p.kind = "text" => SetStatus(p.chat, p.from, p.target, "failed", Nothing)
         /\ p.kind # "text" => UNCHANGED items
         /\ disturbed' = IF p.at = "push" THEN disturbed \cup {p.chat} ELSE disturbed
         /\ UNCHANGED <<active, written, sessions, queue, taken, timers, cursors, pendingRead,
                        readSent, decrypted, seen, late, forgone, payloads, switches>>
  BY ConversationTypeFacts DEF PushFails, receipts

LEMMA SelectFacts ==
  ASSUME ConversationTypes, NEW c \in Chat, Select(c)
  PROVE  /\ active # c /\ active' = c /\ switches' = switches + 1
         /\ sessions' \in [Chat -> [Side -> Nat]]
         /\ UNCHANGED <<items, written, pushes, queue, taken, timers, cursors, pendingRead,
                        readSent, decrypted, seen, late, forgone, disturbed, payloads, faults>>
<1>1. sessions' \in [Chat -> [Side -> Nat]]
  BY DEF Select, ConversationTypes, Side
<1> QED
  BY <1>1 DEF Select, lists, receipts

LEMMA HandshakeFacts ==
  ASSUME ConversationTypes, NEW c \in Chat, Handshake(c)
  PROVE  /\ sessions' \in [Chat -> [Side -> Nat]]
         /\ UNCHANGED <<active, items, written, pushes, queue, taken, timers, cursors,
                        pendingRead, readSent, decrypted, seen, late, forgone, disturbed,
                        payloads, switches, faults>>
<1>1. sessions' \in [Chat -> [Side -> Nat]]
  BY DEF Handshake, ConversationTypes
<1> QED
  BY <1>1 DEF Handshake, lists, receipts, history

LEMMA TypesInit == ConversationInit => ConversationTypes
<1> SUFFICES ASSUME ConversationInit PROVE ConversationTypes
  OBVIOUS
<1>1. items \in [Chat -> [Side -> [Id -> Item \cup {Nothing}]]]
  BY DEF ConversationInit, PerEnd
<1>2. queue \in [Chat -> [Side -> Seq(Payload \cup {Nothing})]]
  BY DEF ConversationInit, PerEnd
<1>3. /\ sessions \in [Chat -> [Side -> Nat]] /\ taken \in [Chat -> [Side -> Nat]]
      /\ decrypted \in [Chat -> [Side -> SUBSET Nat]]
      /\ seen \in [Chat -> [Side -> SUBSET Nat]]
  BY DEF ConversationInit, PerEnd
<1>4. pendingRead \in [Page -> Nat] /\ readSent \in [Page -> Nat] /\ pendingRead["here"] = 0
  BY DEF ConversationInit, Page
<1> QED
  BY <1>1, <1>2, <1>3, <1>4 DEF ConversationInit, ConversationTypes

LEMMA FramesInit == ConversationInit => FrameInv
<1> SUFFICES ASSUME ConversationInit PROVE FrameInv
  OBVIOUS
<1>1. \A c \in Chat, s \in Side :
        /\ queue[c][s] = <<>> /\ taken[c][s] = 0 /\ decrypted[c][s] = {}
        /\ \A i \in Id : items[c][s][i] = Nothing
  BY DEF ConversationInit, PerEnd
<1>2. \A c \in Chat, s \in Side : Len(queue[c][s]) = 0 /\ Coming(c, s) = {}
  BY <1>1 DEF Coming
<1> QED
  BY <1>1, <1>2 DEF FrameInv, ConversationInit

LEMMA SendTypes ==
  ASSUME ConversationTypes, FrameInv, NEW c \in Chat, NEW s \in Side, NEW kind \in Kind,
         NEW i \in Id, Send(c, s, kind, i)
  PROVE  ConversationTypes' /\ FrameInv'
<1> DEFINE p == SentFrame(c, s, kind, i)
<1>0. p.target = i
  BY DEF SentFrame
<1>1. /\ p \in Payload
      /\ UNCHANGED <<active, sessions, queue, taken, timers, cursors, pendingRead,
                     readSent, decrypted, seen, late, forgone, switches, faults>>
      /\ written' = written \cup {i} /\ payloads' = payloads + 1
      /\ items' \in [Chat -> [Side -> [Id -> Item \cup {Nothing}]]]
      /\ \A d \in Chat, r \in Side, j \in Id :
           ~(d = c /\ r = s /\ j = i) => items'[d][r][j] = items[d][r][j]
      /\ disturbed' \subseteq disturbed \cup {c}
      /\ pushes' = pushes \cup {p} \/ pushes' = pushes
  BY SendFacts
<1> HIDE DEF p
<1>2. ConversationTypes'
  <2>1. /\ written' \in SUBSET Id /\ pushes' \in SUBSET Payload
        /\ disturbed' \in SUBSET Chat /\ payloads' \in Nat
    BY <1>1 DEF ConversationTypes
  <2> QED
    BY <1>1, <2>1 DEF ConversationTypes
<1>3. \A d \in Chat, r \in Side : Coming(d, r)' = Coming(d, r)
  BY <1>1 DEF Coming
<1>4. \A q \in pushes' : q.target \in written'
  BY <1>0, <1>1 DEF FrameInv
<1>5. ASSUME NEW d \in Chat, NEW r \in Side, NEW j \in Id, items'[d][r][j] # Nothing
      PROVE  j \in written'
  <2>1. CASE d = c /\ r = s /\ j = i
    BY <1>1, <2>1
  <2>2. CASE ~(d = c /\ r = s /\ j = i)
    <3>1. items[d][r][j] # Nothing => j \in written
      BY DEF FrameInv
    <3>2. items'[d][r][j] = items[d][r][j] /\ written \subseteq written'
      BY <1>1, <2>2
    <3> QED
      BY <1>5, <3>1, <3>2
  <2> QED
    BY <2>1, <2>2
<1> QED
  BY <1>1, <1>2, <1>3, <1>4, <1>5 DEF FrameInv

LEMMA PushTypes ==
  ASSUME ConversationTypes, FrameInv, NEW p \in pushes, Push(p)
  PROVE  ConversationTypes' /\ FrameInv'
<1> DEFINE c == p.chat
           t == Other(p.from)
           n == Len(queue[c][t]) + 1
           a == [p EXCEPT !.at = "answer", !.seq = n]
<1>1. /\ p \in Payload /\ p.at = "push"
      /\ UNCHANGED <<active, items, written, sessions, taken, timers, cursors,
                     pendingRead, readSent, decrypted, seen, late, forgone,
                     disturbed, payloads, switches, faults>>
      /\ queue' \in [Chat -> [Side -> Seq(Payload \cup {Nothing})]]
      /\ \A d \in Chat, r \in Side : ~(d = c /\ r = t) => queue'[d][r] = queue[d][r]
      /\ Len(queue'[c][t]) = n /\ queue'[c][t][n] = p
      /\ \A k \in 1 .. Len(queue[c][t]) : queue'[c][t][k] = queue[c][t][k]
      /\ a \in Payload /\ a.target = p.target
      /\ pushes' = (pushes \ {p}) \cup IF p.kind = "text" THEN {a} ELSE {}
  BY PushFacts
<1>2. c \in Chat /\ p.from \in Side /\ t \in Side /\ p.from = Other(t)
  BY <1>1, Sides DEF Payload
<1>3. Len(queue[c][t]) \in Nat /\ taken[c][t] \in Nat
  BY <1>2, ConversationTypeFacts
<1> HIDE DEF a, c, t
<1>4. ConversationTypes'
  <2>1. pushes' \in SUBSET Payload
    BY <1>1 DEF ConversationTypes
  <2> QED
    BY <1>1, <2>1 DEF ConversationTypes
<1>5. \A q \in pushes' : q.target \in written'
  BY <1>1 DEF FrameInv
<1>6. ASSUME NEW d \in Chat, NEW r \in Side
      PROVE  /\ taken'[d][r] <= Len(queue'[d][r])
             /\ decrypted'[d][r] \subseteq 1 .. taken'[d][r]
             /\ \A k \in Coming(d, r)' :
                  /\ queue'[d][r][k] \in Payload
                  /\ queue'[d][r][k].chat = d /\ queue'[d][r][k].from = Other(r)
                  /\ queue'[d][r][k].target \in written'
  <2>1. /\ taken[d][r] <= Len(queue[d][r]) /\ decrypted[d][r] \subseteq 1 .. taken[d][r]
        /\ \A k \in Coming(d, r) :
             /\ queue[d][r][k] \in Payload
             /\ queue[d][r][k].chat = d /\ queue[d][r][k].from = Other(r)
             /\ queue[d][r][k].target \in written
    BY DEF FrameInv
  <2>2. CASE d = c /\ r = t
    <3>1. taken'[d][r] = taken[d][r] /\ decrypted'[d][r] = decrypted[d][r] /\ written' = written
      BY <1>1
    <3>2. Coming(d, r)' = Coming(d, r) \cup {n}
      BY <1>1, <1>3, <2>1, <2>2, <3>1 DEF Coming
    <3>3. \A k \in Coming(d, r) : k \in 1 .. Len(queue[c][t])
      BY <1>3, <2>2 DEF Coming
    <3>4. p.chat = d /\ p.from = Other(r) /\ p.target \in written
      BY <1>2, <2>2 DEF FrameInv, c
    <3>5. taken[d][r] <= n
      BY <1>3, <2>1, <2>2
    <3>6. queue'[d][r][n] = p /\ Len(queue'[d][r]) = n /\ p \in Payload
      BY <1>1, <2>2
    <3>7. \A k \in Coming(d, r) : queue'[d][r][k] = queue[d][r][k]
      BY <1>1, <2>2, <3>3
    <3> HIDE DEF n
    <3> QED
      BY <2>1, <3>1, <3>2, <3>4, <3>5, <3>6, <3>7
  <2>3. CASE ~(d = c /\ r = t)
    <3>1. /\ taken'[d][r] = taken[d][r] /\ decrypted'[d][r] = decrypted[d][r]
          /\ written' = written /\ queue'[d][r] = queue[d][r]
      BY <1>1, <2>3
    <3>2. Coming(d, r)' = Coming(d, r)
      BY <3>1 DEF Coming
    <3> QED
      BY <2>1, <3>1, <3>2
  <2> QED
    BY <2>2, <2>3
<1>7. \A d \in Chat, r \in Side, j \in Id : items'[d][r][j] # Nothing => j \in written'
  BY <1>1 DEF FrameInv
<1> QED
  BY <1>4, <1>5, <1>6, <1>7 DEF FrameInv

LEMMA ReceiveTypes ==
  ASSUME ConversationTypes, FrameInv, NEW c \in Chat, NEW s \in Side,
         NEW focused \in BOOLEAN, Receive(c, s, focused)
  PROVE  ConversationTypes' /\ FrameInv'
<1> DEFINE n == taken[c][s] + 1
           p == queue[c][s][n]
<1>1. /\ IsAt(c, s) /\ n \in Coming(c, s)
      /\ p \in Payload /\ p.chat = c /\ p.from = Other(s) /\ p.target \in written
      /\ UNCHANGED <<active, written, sessions, pushes, cursors, late, forgone,
                     payloads, switches, faults>>
      /\ taken' \in [Chat -> [Side -> Nat]] /\ taken'[c][s] = n
      /\ \A d \in Chat, r \in Side : ~(d = c /\ r = s) => taken'[d][r] = taken[d][r]
      /\ queue' \in [Chat -> [Side -> Seq(Payload \cup {Nothing})]]
      /\ \A d \in Chat, r \in Side :
           /\ Len(queue'[d][r]) = Len(queue[d][r])
           /\ \A k \in 1 .. Len(queue[d][r]) :
                ~(d = c /\ r = s /\ k = n) => queue'[d][r][k] = queue[d][r][k]
      /\ Dropped(c) \/ Opened(c, s, focused)
  BY ReceiveFacts
<1>2. taken[c][s] \in Nat /\ n \in Nat /\ Len(queue[c][s]) \in Nat
  BY ConversationTypeFacts
<1>3. PageOf(c, s) = "here" => active # Nothing
  BY <1>1, NothingElse DEF IsAt, At
<1>4. /\ items' \in [Chat -> [Side -> [Id -> Item \cup {Nothing}]]]
      /\ timers' \in SUBSET Timer
      /\ readSent' \in [Page -> Nat] /\ pendingRead' \in [Page -> Nat]
      /\ decrypted' \in [Chat -> [Side -> SUBSET Nat]]
      /\ seen' \in [Chat -> [Side -> SUBSET Nat]]
      /\ disturbed' \in SUBSET Chat
      /\ active = Nothing =>
           pendingRead'["here"] = pendingRead["here"]
           /\ \A t \in timers' : t \in timers \/ t.page # "here"
  <2>1. CASE Dropped(c)
    BY <2>1 DEF Dropped, ConversationTypes
  <2>2. CASE Opened(c, s, focused)
    <3>1. PageOf(c, s) \in Page
      BY Sides
    <3>2. timers' \in SUBSET Timer
      <4> HIDE DEF n
      <4>1. /\ [page |-> PageOf(c, s), kind |-> "delivered", chat |-> c, upTo |-> n] \in Timer
            /\ [page |-> PageOf(c, s), kind |-> "read", chat |-> c, upTo |-> n] \in Timer
        BY <1>2, <3>1 DEF Timer
      <4> QED
        BY <2>2, <4>1 DEF Opened, ConversationTypes, n
    <3>3. /\ items' \in [Chat -> [Side -> [Id -> Item \cup {Nothing}]]]
          /\ readSent' \in [Page -> Nat] /\ pendingRead' \in [Page -> Nat]
          /\ decrypted' \in [Chat -> [Side -> SUBSET Nat]]
          /\ seen' \in [Chat -> [Side -> SUBSET Nat]]
          /\ disturbed' \in SUBSET Chat
      BY <2>2 DEF Opened, ConversationTypes
    <3>4. ASSUME active = Nothing
          PROVE  pendingRead'["here"] = pendingRead["here"]
                 /\ \A t \in timers' : t \in timers \/ t.page # "here"
      <4>1. PageOf(c, s) # "here" /\ "here" \in Page
        BY <1>3, <3>4 DEF Page
      <4>2. pendingRead'["here"] = pendingRead["here"]
        BY <2>2, <4>1 DEF Opened
      <4>3. timers' = timers
              \cup {[page |-> PageOf(c, s), kind |-> "delivered", chat |-> c, upTo |-> n]}
              \cup IF focused /\ n > readSent[PageOf(c, s)]
                   THEN {[page |-> PageOf(c, s), kind |-> "read", chat |-> c, upTo |-> n]} ELSE {}
        BY <2>2 DEF Opened
      <4>4. \A t \in timers' : t \in timers \/ t.page = PageOf(c, s)
        BY <4>3
      <4> QED
        BY <4>1, <4>2, <4>4 DEF ConversationTypes
    <3> QED
      BY <3>2, <3>3, <3>4
  <2> QED
    BY <1>1, <2>1, <2>2
<1>5. ConversationTypes'
  BY <1>1, <1>4 DEF ConversationTypes
<1>6. ASSUME NEW d \in Chat, NEW r \in Side
      PROVE  /\ taken'[d][r] <= Len(queue'[d][r])
             /\ decrypted'[d][r] \subseteq 1 .. taken'[d][r]
             /\ \A k \in Coming(d, r)' :
                  /\ queue'[d][r][k] \in Payload
                  /\ queue'[d][r][k].chat = d /\ queue'[d][r][k].from = Other(r)
                  /\ queue'[d][r][k].target \in written'
  <2>1. /\ taken[d][r] <= Len(queue[d][r]) /\ decrypted[d][r] \subseteq 1 .. taken[d][r]
        /\ \A k \in Coming(d, r) :
             /\ queue[d][r][k] \in Payload
             /\ queue[d][r][k].chat = d /\ queue[d][r][k].from = Other(r)
             /\ queue[d][r][k].target \in written
    BY DEF FrameInv
  <2>2. taken[d][r] \in Nat /\ Len(queue[d][r]) \in Nat
    BY ConversationTypeFacts
  <2>3. /\ taken'[d][r] = IF d = c /\ r = s THEN n ELSE taken[d][r]
        /\ Len(queue'[d][r]) = Len(queue[d][r]) /\ written' = written
    BY <1>1
  <2>4. n <= Len(queue[c][s])
    BY <1>1, <1>2 DEF Coming
  <2>5. \A k \in Coming(d, r)' : /\ k \in Coming(d, r) /\ k \in 1 .. Len(queue[d][r])
                                 /\ ~(d = c /\ r = s /\ k = n)
    BY <2>2, <2>3, <1>2 DEF Coming
  <2>6. decrypted'[d][r] \subseteq IF d = c /\ r = s THEN decrypted[d][r] \cup {n}
                                                      ELSE decrypted[d][r]
    <3>1. CASE Dropped(c)
      BY <3>1 DEF Dropped
    <3>2. CASE Opened(c, s, focused)
      BY <3>2 DEF Opened
    <3> QED
      BY <1>1, <3>1, <3>2
  <2>7. decrypted'[d][r] \subseteq 1 .. taken'[d][r]
    BY <1>2, <2>1, <2>2, <2>3, <2>6
  <2>8. \A k \in Coming(d, r)' : queue'[d][r][k] = queue[d][r][k]
    BY <1>1, <2>5
  <2> QED
    BY <2>1, <2>2, <2>3, <2>4, <2>5, <2>7, <2>8
<1>7. \A d \in Chat, r \in Side, j \in Id : items'[d][r][j] # Nothing => j \in written'
  <2>1. CASE Dropped(c)
    BY <1>1, <2>1 DEF Dropped, FrameInv
  <2>2. CASE Opened(c, s, focused)
    <3>1. \A d \in Chat, r \in Side, j \in Id :
            ~(d = c /\ r = s /\ j = p.target) => items'[d][r][j] = items[d][r][j]
      BY <2>2 DEF Opened
    <3>2. \A d \in Chat, r \in Side, j \in Id : items[d][r][j] # Nothing => j \in written
      BY DEF FrameInv
    <3>3. p.target \in written /\ written' = written
      BY <1>1
    <3> HIDE DEF p
    <3> QED
      BY <3>1, <3>2, <3>3
  <2> QED
    BY <1>1, <2>1, <2>2
<1>8. \A q \in pushes' : q.target \in written'
  BY <1>1 DEF FrameInv
<1> QED
  BY <1>5, <1>6, <1>7, <1>8 DEF FrameInv

\* Steps that leave the queues alone, and add nothing to what is shown.
LEMMA FramesStay ==
  ASSUME ConversationTypes, FrameInv,
         UNCHANGED <<written, queue, taken, decrypted>>, pushes' \subseteq pushes,
         \A c \in Chat, s \in Side, i \in Id : items'[c][s][i] # Nothing => items[c][s][i] # Nothing
  PROVE  FrameInv'
<1>1. \A d \in Chat, r \in Side : Coming(d, r)' = Coming(d, r)
  BY DEF Coming
<1> QED
  BY <1>1 DEF FrameInv

LEMMA ReportedTypes ==
  ASSUME ConversationTypes, NEW k \in Cursor, Reported(k)
  PROVE  /\ \A c \in Chat, s \in Side, i \in Id : StatusOnly(items[c][s][i], items'[c][s][i])
         /\ items' \in [Chat -> [Side -> [Id -> Item \cup {Nothing}]]]
         /\ late \subseteq late' /\ late' \in SUBSET Id
<1>1. /\ items' \in [Chat -> [Side -> [Id -> Item \cup {Nothing}]]]
      /\ \A d \in Chat, r \in Side : ~(d = k.chat /\ r = k.to) => items'[d][r] = items[d][r]
      /\ \A i \in Id : StatusOnly(items[k.chat][k.to][i], items'[k.chat][k.to][i])
      /\ late \subseteq late' /\ late' \in SUBSET Id
  BY DEF Reported
<1>2. \A c \in Chat, s \in Side, i \in Id : StatusOnly(items[c][s][i], items[c][s][i])
  BY ConversationTypeFacts DEF StatusOnly
<1> QED
  BY <1>1, <1>2

LEMMA FireTypes ==
  ASSUME ConversationTypes, FrameInv, NEW t \in timers, Fire(t)
  PROVE  ConversationTypes' /\ FrameInv'
<1> DEFINE k == CursorOf(t, At(t.page))
           drop == t.kind = "delivered" /\ t.chat # At(t.page)
<1>1. /\ t \in Timer /\ k \in Cursor
      /\ timers' = timers \ {t}
      /\ UNCHANGED <<active, written, sessions, pushes, queue, taken, pendingRead,
                     readSent, decrypted, seen, disturbed, payloads, switches, faults>>
      /\ forgone' = IF drop THEN forgone \cup {CursorOf(t, t.chat)} ELSE forgone
      /\ \/ UNCHANGED <<items, late, cursors>>
         \/ UNCHANGED <<items, late>> /\ cursors' = cursors \cup {k}
         \/ Reported(k) /\ UNCHANGED cursors
  BY FireFacts
<1> HIDE DEF k, drop
<1>2. /\ \A c \in Chat, s \in Side, i \in Id : items'[c][s][i] # Nothing => items[c][s][i] # Nothing
      /\ items' \in [Chat -> [Side -> [Id -> Item \cup {Nothing}]]]
      /\ late' \in SUBSET Id /\ cursors' \in SUBSET Cursor
  <2>1. CASE UNCHANGED <<items, late>> /\ (UNCHANGED cursors \/ cursors' = cursors \cup {k})
    BY <1>1, <2>1 DEF ConversationTypes
  <2>2. CASE Reported(k) /\ UNCHANGED cursors
    BY <1>1, <2>2, ReportedTypes DEF ConversationTypes, StatusOnly
  <2> QED
    BY <1>1, <2>1, <2>2
<1>3. forgone' \in SUBSET Cursor
  <2>1. t.chat \in Chat
    BY <1>1 DEF Timer
  <2>2. CursorOf(t, t.chat) \in Cursor
    BY <1>1, <2>1, CursorOfType
  <2> QED
    BY <1>1, <2>2 DEF ConversationTypes
<1>4. ConversationTypes'
  BY <1>1, <1>2, <1>3 DEF ConversationTypes
<1> QED
  BY <1>1, <1>2, <1>4, FramesStay

LEMMA LosesTypes ==
  ASSUME ConversationTypes, FrameInv, LosesReceipt
  PROVE  ConversationTypes' /\ FrameInv'
<1>1. timers' \in SUBSET Timer /\ cursors' \in SUBSET Cursor
      /\ \A t \in timers' : t \in timers
  BY LosesFacts DEF ConversationTypes
<1>2. ConversationTypes'
  BY <1>1, LosesFacts DEF ConversationTypes
<1> QED
  BY <1>2, LosesFacts, FramesStay

LEMMA CollectTypes ==
  ASSUME ConversationTypes, FrameInv, NEW k \in cursors, Collect(k)
  PROVE  ConversationTypes' /\ FrameInv'
<1>1. /\ k \in Cursor /\ cursors' = cursors \ {k} /\ Reported(k)
      /\ UNCHANGED <<active, written, sessions, pushes, queue, taken, timers, pendingRead,
                     readSent, decrypted, seen, forgone, disturbed, payloads, switches, faults>>
  BY CollectFacts
<1>2. /\ \A c \in Chat, s \in Side, i \in Id : items'[c][s][i] # Nothing => items[c][s][i] # Nothing
      /\ items' \in [Chat -> [Side -> [Id -> Item \cup {Nothing}]]]
      /\ late' \in SUBSET Id
  BY <1>1, ReportedTypes DEF StatusOnly
<1>3. ConversationTypes'
  BY <1>1, <1>2 DEF ConversationTypes
<1> QED
  BY <1>1, <1>2, <1>3, FramesStay

LEMMA FocusTypes ==
  ASSUME ConversationTypes, FrameInv, NEW p \in Page, Focus(p)
  PROVE  ConversationTypes' /\ FrameInv'
<1>1. /\ At(p) \in Chat
      /\ pendingRead[p] \in Nat /\ pendingRead[p] > readSent[p]
      /\ timers' = timers \cup
           {[page |-> p, kind |-> "read", chat |-> At(p), upTo |-> pendingRead[p]]}
      /\ readSent' \in [Page -> Nat]
      /\ seen' \in [Chat -> [Side -> SUBSET Nat]]
      /\ UNCHANGED <<active, items, written, sessions, pushes, queue, taken, cursors,
                     pendingRead, decrypted, late, forgone, disturbed, payloads,
                     switches, faults>>
  BY FocusFacts
<1>2. timers' \in SUBSET Timer
  BY <1>1 DEF ConversationTypes, Timer
<1>3. active = Nothing => \A t \in timers' : t.page # "here"
  <2>1. active = Nothing => p # "here"
    BY <1>1, NothingElse DEF At
  <2>2. \A t \in timers' : t \in timers \/ t.page = p
    BY <1>1
  <2> QED
    BY <2>1, <2>2 DEF ConversationTypes
<1>4. ConversationTypes'
  BY <1>1, <1>2, <1>3 DEF ConversationTypes
<1> QED
  BY <1>1, <1>4, FramesStay

LEMMA StatusStepTypes ==
  ASSUME ConversationTypes, FrameInv, NEW p \in Payload, p \in pushes, NEW status \in Status,
         NEW seq \in Nat \cup {Nothing}, SetStatus(p.chat, p.from, p.target, status, seq)
  PROVE  /\ items' \in [Chat -> [Side -> [Id -> Item \cup {Nothing}]]]
         /\ \A c \in Chat, s \in Side, i \in Id : StatusOnly(items[c][s][i], items'[c][s][i])
<1>1. p.chat \in Chat /\ p.from \in Side /\ p.target \in Id
  BY DEF Payload
<1>2. /\ items' \in [Chat -> [Side -> [Id -> Item \cup {Nothing}]]]
      /\ \A d \in Chat, r \in Side, j \in Id :
           ~(d = p.chat /\ r = p.from /\ j = p.target) => items'[d][r][j] = items[d][r][j]
      /\ StatusOnly(items[p.chat][p.from][p.target], items'[p.chat][p.from][p.target])
  BY <1>1, StatusSet
<1>3. \A c \in Chat, s \in Side, i \in Id : StatusOnly(items[c][s][i], items[c][s][i])
  BY ConversationTypeFacts DEF StatusOnly
<1> QED
  BY <1>2, <1>3

LEMMA AnsweredTypes ==
  ASSUME ConversationTypes, FrameInv, StatusInv, NEW p \in pushes, PushAnswered(p)
  PROVE  ConversationTypes' /\ FrameInv'
<1>1. /\ p \in Payload /\ p.seq \in Nat
      /\ pushes' = pushes \ {p}
      /\ SetStatus(p.chat, p.from, p.target, "sent", p.seq)
      /\ UNCHANGED <<active, written, sessions, queue, taken, timers, cursors, pendingRead,
                     readSent, decrypted, seen, late, forgone, disturbed, payloads,
                     switches, faults>>
  BY AnsweredFacts
<1>2. /\ items' \in [Chat -> [Side -> [Id -> Item \cup {Nothing}]]]
      /\ \A c \in Chat, s \in Side, i \in Id : StatusOnly(items[c][s][i], items'[c][s][i])
  BY <1>1, StatusStepTypes DEF Status
<1>3. ConversationTypes'
  BY <1>1, <1>2 DEF ConversationTypes
<1> QED
  BY <1>1, <1>2, <1>3, FramesStay DEF StatusOnly

LEMMA FailsTypes ==
  ASSUME ConversationTypes, FrameInv, NEW p \in pushes, PushFails(p)
  PROVE  /\ ConversationTypes' /\ FrameInv'
         /\ \A c \in Chat, s \in Side, i \in Id : StatusOnly(items[c][s][i], items'[c][s][i])
<1>1. /\ p \in Payload
      /\ pushes' = pushes \ {p} /\ faults' = faults + 1
      /\ p.kind = "text" => SetStatus(p.chat, p.from, p.target, "failed", Nothing)
      /\ p.kind # "text" => UNCHANGED items
      /\ disturbed' = IF p.at = "push" THEN disturbed \cup {p.chat} ELSE disturbed
      /\ UNCHANGED <<active, written, sessions, queue, taken, timers, cursors, pendingRead,
                     readSent, decrypted, seen, late, forgone, payloads, switches>>
  BY FailsFacts
<1>2. /\ items' \in [Chat -> [Side -> [Id -> Item \cup {Nothing}]]]
      /\ \A c \in Chat, s \in Side, i \in Id : StatusOnly(items[c][s][i], items'[c][s][i])
  <2>1. CASE p.kind = "text"
    BY <1>1, <2>1, StatusStepTypes DEF Status
  <2>2. CASE p.kind # "text"
    BY <1>1, <2>2, ConversationTypeFacts DEF ConversationTypes, StatusOnly
  <2> QED
    BY <2>1, <2>2
<1>3. disturbed' \in SUBSET Chat /\ pushes' \in SUBSET Payload /\ faults' \in Nat
  BY <1>1 DEF Payload, ConversationTypes
<1>4. ConversationTypes'
  BY <1>1, <1>2, <1>3 DEF ConversationTypes
<1> QED
  BY <1>1, <1>2, <1>4, FramesStay DEF StatusOnly

LEMMA SelectTypes ==
  ASSUME ConversationTypes, FrameInv, NEW c \in Chat, Select(c) \/ Handshake(c)
  PROVE  ConversationTypes' /\ FrameInv'
<1>1. /\ sessions' \in [Chat -> [Side -> Nat]]
      /\ \/ active' = c /\ switches' = switches + 1
         \/ UNCHANGED <<active, switches>>
      /\ UNCHANGED <<items, written, pushes, queue, taken, timers, cursors,
                     pendingRead, readSent, decrypted, seen, late, forgone, disturbed,
                     payloads, faults>>
  BY SelectFacts, HandshakeFacts
<1>2. ConversationTypes'
  BY <1>1, NothingElse, SMTT(30) DEF ConversationTypes
<1> QED
  BY <1>1, <1>2, FramesStay

\* The cases of a step.
LEMMA ConversationSteps ==
  ASSUME ConversationNext
  PROVE  \/ \E c \in Chat : Select(c) \/ Handshake(c)
         \/ \E c \in Chat, s \in Side, k \in Kind, i \in Id : Send(c, s, k, i)
         \/ \E c \in Chat, s \in Side, focused \in BOOLEAN : Receive(c, s, focused)
         \/ \E p \in pushes : Push(p)
         \/ \E p \in pushes : PushAnswered(p)
         \/ \E p \in pushes : PushFails(p)
         \/ \E p \in Page : Focus(p)
         \/ \E t \in timers : Fire(t)
         \/ \E k \in cursors : Collect(k)
         \/ LosesReceipt
  BY DEF ConversationNext, LosesReceipt

LEMMA TypesStep ==
  ASSUME ConversationTypes, FrameInv, StatusInv, [ConversationNext]_conversationVars
  PROVE  ConversationTypes' /\ FrameInv'
<1>1. CASE UNCHANGED conversationVars
  <2>1. UNCHANGED <<active, items, written, sessions, pushes, queue, taken, timers, cursors,
                    pendingRead, readSent, decrypted, seen, late, forgone, disturbed,
                    payloads, switches, faults>>
    BY <1>1 DEF conversationVars, lists, transport, receipts, history
  <2>2. ConversationTypes'
    BY <2>1 DEF ConversationTypes
  <2> QED
    BY <2>1, <2>2, FramesStay
<1>2. CASE ConversationNext
  BY <1>2, ConversationSteps, SelectTypes, SendTypes, ReceiveTypes, PushTypes, AnsweredTypes,
     FailsTypes, FocusTypes, FireTypes, CollectTypes, LosesTypes
<1> QED
  BY <1>1, <1>2

-----------------------------------------------------------------------------
(* Conversation: the status of a message, step by step                     *)

\* A message of one's own is as it was, apart from its text and reactions.
Kept(d, r, j) ==
  Mine(d, r, j)' => /\ Mine(d, r, j)
                    /\ items'[d][r][j].status = items[d][r][j].status
                    /\ items'[d][r][j].outSeq = items[d][r][j].outSeq

LEMMA SendKeeps ==
  ASSUME ConversationTypes, FrameInv, NEW c \in Chat, NEW s \in Side, NEW kind \in Kind,
         NEW i \in Id, Send(c, s, kind, i)
  PROVE  /\ \A d \in Chat, r \in Side, j \in Id :
              ~(kind = "text" /\ d = c /\ r = s /\ j = i) => Kept(d, r, j)
         /\ kind = "text" => /\ items'[c][s][i].outSeq = Nothing
                             /\ items'[c][s][i].status \in {"sending", "failed"}
                             /\ pushes' # pushes => items'[c][s][i].status = "sending"
<1> DEFINE p == SentFrame(c, s, kind, i)
           m == items[c][s][i]
           e == Effect(m, s, s, p)
<1>1. /\ p \in Payload
      /\ \A d \in Chat, r \in Side, j \in Id :
           ~(d = c /\ r = s /\ j = i) => items'[d][r][j] = items[d][r][j]
      /\ SendOutcome(c, s, kind, i)
      /\ kind = "text" => i \notin written
  BY SendFacts
<1>2. p.kind = kind /\ p.number \in Nat
  BY <1>1 DEF SentFrame, Payload
<1>3. m \in Item \cup {Nothing}
  BY ConversationTypeFacts
<1>4. /\ e # Nothing /\ m # Nothing =>
           e.own = m.own /\ e.status = m.status /\ e.outSeq = m.outSeq
      /\ m = Nothing /\ kind # "text" => e = Nothing
      /\ m = Nothing /\ kind = "text" => e = Message(s = s, p.number)
  BY <1>1, <1>2, <1>3, EffectFields
<1> HIDE DEF p, e
<1>5. CASE kind # "text"
  <2>1. items'[c][s][i] = e
    BY <1>1, <1>5 DEF SendOutcome, e, p
  <2>2. Kept(c, s, i)
    BY <1>4, <1>5, <2>1 DEF Kept, Mine
  <2>3. \A d \in Chat, r \in Side, j \in Id : Kept(d, r, j)
    BY <1>1, <2>2 DEF Kept, Mine
  <2> QED
    BY <1>5, <2>3
<1>6. CASE kind = "text"
  <2>1. m = Nothing
    BY <1>1, <1>6 DEF FrameInv
  <2>2. (s = s) = TRUE
    OBVIOUS
  <2>3. e = Message(TRUE, p.number)
    BY <1>4, <1>6, <2>1, <2>2
  <2>4. e \in Item /\ e.status = "sending" /\ e.outSeq = Nothing
    BY <1>2, <2>3, MessageFields
  <2>5. [e EXCEPT !.status = "failed"].status = "failed"
        /\ [e EXCEPT !.status = "failed"].outSeq = Nothing
    BY <2>4 DEF Item
  <2>6. \/ items'[c][s][i] = e
        \/ pushes' = pushes /\ items'[c][s][i] = [e EXCEPT !.status = "failed"]
    BY <1>1, <1>6 DEF SendOutcome, e, p
  <2>7. \A d \in Chat, r \in Side, j \in Id :
          ~(kind = "text" /\ d = c /\ r = s /\ j = i) => Kept(d, r, j)
    BY <1>1, <1>6 DEF Kept, Mine
  <2> QED
    BY <2>4, <2>5, <2>6, <2>7
<1> QED
  BY <1>5, <1>6

\* A message of one's own is there before a payload of the other end.
LEMMA OwnBefore ==
  ASSUME NEW m \in Item \cup {Nothing}, NEW s \in Side, NEW p \in Payload,
         NEW from \in Side, from # s
  PROVE  LET e == Effect(m, s, from, p)
         IN  e # Nothing /\ e.own =>
               m # Nothing /\ m.own /\ e.status = m.status /\ e.outSeq = m.outSeq
<1> DEFINE e == Effect(m, s, from, p)
<1>0. p.number \in Nat
  BY DEF Payload
<1>1. /\ e # Nothing /\ m # Nothing =>
           e.own = m.own /\ e.status = m.status /\ e.outSeq = m.outSeq
      /\ m = Nothing /\ p.kind # "text" => e = Nothing
      /\ m = Nothing /\ p.kind = "text" => e = Message(s = from, p.number)
  BY EffectFields
<1> HIDE DEF e
<1>2. (s = from) = FALSE
  OBVIOUS
<1>3. Message(FALSE, p.number).own = FALSE
  BY <1>0, MessageFields
<1>4. m = Nothing /\ p.kind = "text" => e = Message(FALSE, p.number)
  BY <1>1, <1>2
<1>5. e # Nothing /\ e.own => m # Nothing
  BY <1>1, <1>3, <1>4
<1>6. e # Nothing /\ e.own =>
        m # Nothing /\ m.own /\ e.status = m.status /\ e.outSeq = m.outSeq
  BY <1>1, <1>5
<1> QED
  BY <1>6 DEF e

LEMMA ReceiveKeeps ==
  ASSUME ConversationTypes, FrameInv, NEW c \in Chat, NEW s \in Side,
         NEW focused \in BOOLEAN, Receive(c, s, focused)
  PROVE  \A d \in Chat, r \in Side, j \in Id : Kept(d, r, j)
<1> DEFINE p == queue[c][s][taken[c][s] + 1]
<1>1. /\ p \in Payload
      /\ Dropped(c) \/ Opened(c, s, focused)
  BY ReceiveFacts
<1>2. CASE Dropped(c)
  BY <1>2 DEF Dropped, Kept, Mine
<1>3. CASE Opened(c, s, focused)
  <2>1. /\ \A d \in Chat, r \in Side, j \in Id :
             ~(d = c /\ r = s /\ j = p.target) => items'[d][r][j] = items[d][r][j]
        /\ items'[c][s][p.target] = Effect(items[c][s][p.target], s, Other(s), p)
    BY <1>3 DEF Opened
  <2> HIDE DEF p
  <2>2. PICK i \in Id : i = p.target
    BY <1>1 DEF Payload
  <2> DEFINE m == items[c][s][i]
             e == Effect(m, s, Other(s), p)
  <2>3. items'[c][s][i] = e /\ m \in Item \cup {Nothing}
    BY <2>1, <2>2, ConversationTypeFacts
  <2>4. e # Nothing /\ e.own =>
          m # Nothing /\ m.own /\ e.status = m.status /\ e.outSeq = m.outSeq
    BY <1>1, <2>3, Sides, OwnBefore
  <2> HIDE DEF e
  <2>5. Kept(c, s, i)
    BY <2>3, <2>4 DEF Kept, Mine
  <2>6. ASSUME NEW d \in Chat, NEW r \in Side, NEW j \in Id
        PROVE  Kept(d, r, j)
    <3>1. CASE d = c /\ r = s /\ j = i
      BY <2>5, <3>1
    <3>2. CASE ~(d = c /\ r = s /\ j = i)
      BY <2>1, <2>2, <3>2 DEF Kept, Mine
    <3> QED
      BY <3>1, <3>2
  <2> QED
    BY <2>6
<1> QED
  BY <1>1, <1>2, <1>3

LEMMA ReportedKeeps ==
  ASSUME ConversationTypes, NEW k \in Cursor, Reported(k)
  PROVE  \A d \in Chat, r \in Side, j \in Id : Mine(d, r, j)' =>
           /\ Mine(d, r, j)
           /\ items'[d][r][j].outSeq = items[d][r][j].outSeq
           /\ \/ items'[d][r][j].status = items[d][r][j].status
              \/ /\ items'[d][r][j].status = k.kind
                 /\ items[d][r][j].outSeq # Nothing /\ items[d][r][j].outSeq <= k.upTo
                 /\ d = k.chat /\ r = k.to
<1> SUFFICES ASSUME NEW d \in Chat, NEW r \in Side, NEW j \in Id, Mine(d, r, j)'
             PROVE  /\ Mine(d, r, j)
                    /\ items'[d][r][j].outSeq = items[d][r][j].outSeq
                    /\ \/ items'[d][r][j].status = items[d][r][j].status
                       \/ /\ items'[d][r][j].status = k.kind
                          /\ items[d][r][j].outSeq # Nothing
                          /\ items[d][r][j].outSeq <= k.upTo
                          /\ d = k.chat /\ r = k.to
  OBVIOUS
<1>1. CASE d = k.chat /\ r = k.to
  <2> DEFINE m == items[d][r][j]
             n == items'[d][r][j]
  <2>1. /\ StatusOnly(m, n)
        /\ m # Nothing =>
             /\ n.outSeq = m.outSeq
             /\ \/ /\ m.own /\ m.outSeq # Nothing /\ m.outSeq <= k.upTo
                   /\ m.status # "read" /\ n.status = k.kind
                \/ n = m
    BY <1>1 DEF Reported
  <2>2. n # Nothing /\ n.own
    BY DEF Mine
  <2> QED
    BY <1>1, <2>1, <2>2 DEF Mine, StatusOnly
<1>2. CASE ~(d = k.chat /\ r = k.to)
  BY <1>2 DEF Reported, Mine
<1> QED
  BY <1>1, <1>2

LEMMA StatusInit == ConversationInit => StatusInv /\ OwedInv
<1> SUFFICES ASSUME ConversationInit PROVE StatusInv /\ OwedInv
  OBVIOUS
<1>1. \A c \in Chat, s \in Side, i \in Id : ~Mine(c, s, i)
  BY DEF ConversationInit, PerEnd, Mine
<1>2. Texts = {} /\ Answers = {}
  BY DEF ConversationInit, Texts, Answers
<1> QED
  BY <1>1, <1>2 DEF StatusInv, OwedInv

\* Steps that keep messages as they are but for the status, and no longer queues.
LEMMA StatusStays ==
  ASSUME ConversationTypes, StatusInv, pushes' \subseteq pushes,
         \A c \in Chat, s \in Side : Len(queue'[c][s]) = Len(queue[c][s]),
         \A d \in Chat, r \in Side, j \in Id : Mine(d, r, j)' =>
           /\ Mine(d, r, j)
           /\ items'[d][r][j].outSeq = items[d][r][j].outSeq
           /\ \/ items'[d][r][j].status = items[d][r][j].status
              \/ items[d][r][j].outSeq # Nothing
  PROVE  StatusInv'
<1>1. Texts' \subseteq Texts /\ Answers' \subseteq Answers
  BY DEF Texts, Answers
<1>2. \A p \in pushes : p.chat \in Chat /\ p.from \in Side /\ p.target \in Id
                        /\ Other(p.from) \in Side
  BY ConversationTypeFacts, Sides DEF Payload
<1>3. \A p, q \in Texts' : p.target = q.target => p = q
  BY <1>1 DEF StatusInv
<1>4. \A p \in Answers' : p.kind = "text" /\ p.seq \in 1 .. Len(queue[p.chat][Other(p.from)])'
  BY <1>1, <1>2 DEF StatusInv, Answers
<1>5. ASSUME NEW p \in Texts', Mine(p.chat, p.from, p.target)'
      PROVE  /\ items'[p.chat][p.from][p.target].status = "sending"
             /\ items'[p.chat][p.from][p.target].outSeq = Nothing
  <2>1. p \in Texts /\ p.chat \in Chat /\ p.from \in Side /\ p.target \in Id
    BY <1>1, <1>2 DEF Texts
  <2>2. Mine(p.chat, p.from, p.target)
    BY <1>5, <2>1
  <2>3. /\ items[p.chat][p.from][p.target].status = "sending"
        /\ items[p.chat][p.from][p.target].outSeq = Nothing
    BY <2>1, <2>2 DEF StatusInv
  <2> QED
    BY <1>5, <2>1, <2>3
<1>6. ASSUME NEW c \in Chat, NEW s \in Side, NEW i \in Id, Mine(c, s, i)'
      PROVE  LET m == items'[c][s][i]
             IN  /\ m.outSeq # Nothing => m.outSeq \in 1 .. Len(queue'[c][Other(s)])
                 /\ m.status \in {"sent", "delivered", "read"} => m.outSeq # Nothing
  <2>1. LET m == items[c][s][i]
        IN  /\ Mine(c, s, i)
            /\ m.outSeq # Nothing => m.outSeq \in 1 .. Len(queue[c][Other(s)])
            /\ m.status \in {"sent", "delivered", "read"} => m.outSeq # Nothing
    BY <1>6 DEF StatusInv
  <2>2. Len(queue'[c][Other(s)]) = Len(queue[c][Other(s)])
    BY Sides
  <2> QED
    BY <1>6, <2>1, <2>2
<1> QED
  BY <1>3, <1>4, <1>5, <1>6 DEF StatusInv

LEMMA SendStatus ==
  ASSUME ConversationTypes, FrameInv, StatusInv, NEW c \in Chat, NEW s \in Side,
         NEW kind \in Kind, NEW i \in Id, Send(c, s, kind, i)
  PROVE  StatusInv'
<1> DEFINE p == SentFrame(c, s, kind, i)
<1>1. /\ p \in Payload /\ queue' = queue
      /\ pushes' = pushes \cup {p} \/ pushes' = pushes
      /\ kind = "text" => i \notin written
  BY SendFacts
<1>2. p.chat = c /\ p.from = s /\ p.target = i /\ p.kind = kind /\ p.at = "push"
  BY DEF SentFrame
<1> HIDE DEF p
<1>3. /\ \A d \in Chat, r \in Side, j \in Id :
           ~(kind = "text" /\ d = c /\ r = s /\ j = i) => Kept(d, r, j)
      /\ kind = "text" => /\ items'[c][s][i].outSeq = Nothing
                          /\ items'[c][s][i].status \in {"sending", "failed"}
                          /\ pushes' # pushes => items'[c][s][i].status = "sending"
  BY SendKeeps
<1>4. \A q \in pushes : q.target \in written /\ q.chat \in Chat /\ q.from \in Side /\ q.target \in Id
  BY ConversationTypeFacts DEF FrameInv, Payload
<1>5. \A q \in Texts' : q \in Texts \/ (q = p /\ kind = "text" /\ pushes' # pushes)
  BY <1>1, <1>2 DEF Texts
<1>6. \A q \in Texts : kind = "text" => q.target # i
  BY <1>1, <1>4 DEF Texts
<1>7. Answers' = Answers
  BY <1>1, <1>2 DEF Answers
<1>8. \A q, r \in Texts' : q.target = r.target => q = r
  BY <1>2, <1>5, <1>6 DEF StatusInv
<1>9. \A q \in Answers' : q.kind = "text" /\ q.seq \in 1 .. Len(queue[q.chat][Other(q.from)])'
  BY <1>1, <1>7 DEF StatusInv
<1>10. ASSUME NEW q \in Texts', Mine(q.chat, q.from, q.target)'
       PROVE  /\ items'[q.chat][q.from][q.target].status = "sending"
              /\ items'[q.chat][q.from][q.target].outSeq = Nothing
  <2>1. CASE q \in Texts
    <3>1. q.chat \in Chat /\ q.from \in Side /\ q.target \in Id
      BY <1>4, <2>1 DEF Texts
    <3>2. Kept(q.chat, q.from, q.target)
      BY <1>3, <1>6, <2>1, <3>1
    <3> QED
      BY <1>10, <2>1, <3>2 DEF StatusInv, Kept
  <2>2. CASE q = p /\ kind = "text" /\ pushes' # pushes
    BY <1>2, <1>3, <2>2
  <2> QED
    BY <1>5, <2>1, <2>2
<1>11. ASSUME NEW d \in Chat, NEW r \in Side, NEW j \in Id, Mine(d, r, j)'
       PROVE  LET m == items'[d][r][j]
              IN  /\ m.outSeq # Nothing => m.outSeq \in 1 .. Len(queue'[d][Other(r)])
                  /\ m.status \in {"sent", "delivered", "read"} => m.outSeq # Nothing
  <2>1. CASE kind = "text" /\ d = c /\ r = s /\ j = i
    BY <1>3, <2>1
  <2>2. CASE ~(kind = "text" /\ d = c /\ r = s /\ j = i)
    <3>1. Kept(d, r, j)
      BY <1>3, <2>2
    <3> QED
      BY <1>1, <1>11, <3>1 DEF StatusInv, Kept
  <2> QED
    BY <2>1, <2>2
<1> QED
  BY <1>8, <1>9, <1>10, <1>11 DEF StatusInv

LEMMA PushStatus ==
  ASSUME ConversationTypes, FrameInv, StatusInv, NEW p \in pushes, Push(p)
  PROVE  StatusInv'
<1> DEFINE c == p.chat
           t == Other(p.from)
           n == Len(queue[c][t]) + 1
           a == [p EXCEPT !.at = "answer", !.seq = n]
<1>1. /\ p \in Payload /\ p.at = "push" /\ items' = items
      /\ \A d \in Chat, r \in Side : ~(d = c /\ r = t) => queue'[d][r] = queue[d][r]
      /\ Len(queue'[c][t]) = n
      /\ a \in Payload /\ a.at = "answer" /\ a.seq = n /\ a.kind = p.kind
      /\ a.chat = c /\ a.from = p.from /\ a.target = p.target
      /\ pushes' = (pushes \ {p}) \cup IF p.kind = "text" THEN {a} ELSE {}
  BY PushFacts
<1>2. c \in Chat /\ p.from \in Side /\ t \in Side
  BY <1>1, Sides DEF Payload
<1>3. Len(queue[c][t]) \in Nat
  BY <1>2, ConversationTypeFacts
<1> HIDE DEF a
<1>4. \A d \in Chat, r \in Side : \A k \in 1 .. Len(queue[d][r]) : k \in 1 .. Len(queue'[d][r])
  <2> SUFFICES ASSUME NEW d \in Chat, NEW r \in Side, NEW k \in 1 .. Len(queue[d][r])
               PROVE  k \in 1 .. Len(queue'[d][r])
    OBVIOUS
  <2>1. CASE d = c /\ r = t
    BY <1>1, <1>3, <2>1
  <2>2. CASE ~(d = c /\ r = t)
    BY <1>1, <2>2
  <2> QED
    BY <2>1, <2>2
<1>5. \A q \in Texts' : q \in Texts \ {p} \/ (q = a /\ p \in Texts)
  BY <1>1 DEF Texts
<1>6. \A q \in Answers' : q \in Answers \/ (q = a /\ p.kind = "text")
  BY <1>1 DEF Answers
<1>7. \A q, r \in Texts' : q.target = r.target => q = r
  BY <1>1, <1>5 DEF StatusInv
<1>8. ASSUME NEW q \in Answers'
      PROVE  q.kind = "text" /\ q.seq \in 1 .. Len(queue'[q.chat][Other(q.from)])
  <2>1. CASE q \in Answers
    <3>1. q.chat \in Chat /\ Other(q.from) \in Side
      BY <2>1, ConversationTypeFacts, Sides DEF Answers, Payload
    <3> QED
      BY <1>4, <2>1, <3>1 DEF StatusInv
  <2>2. CASE q = a /\ p.kind = "text"
    BY <1>1, <1>3, <2>2
  <2> QED
    BY <1>6, <2>1, <2>2
<1>9. ASSUME NEW q \in Texts', Mine(q.chat, q.from, q.target)'
      PROVE  /\ items'[q.chat][q.from][q.target].status = "sending"
             /\ items'[q.chat][q.from][q.target].outSeq = Nothing
  <2>1. PICK r \in Texts : q.chat = r.chat /\ q.from = r.from /\ q.target = r.target
    BY <1>1, <1>5
  <2>2. Mine(r.chat, r.from, r.target)
    BY <1>1, <1>9, <2>1 DEF Mine
  <2> QED
    BY <1>1, <2>1, <2>2 DEF StatusInv
<1>10. ASSUME NEW d \in Chat, NEW r \in Side, NEW j \in Id, Mine(d, r, j)'
       PROVE  LET m == items'[d][r][j]
              IN  /\ m.outSeq # Nothing => m.outSeq \in 1 .. Len(queue'[d][Other(r)])
                  /\ m.status \in {"sent", "delivered", "read"} => m.outSeq # Nothing
  <2>1. Mine(d, r, j) /\ Other(r) \in Side
    BY <1>1, <1>10, Sides DEF Mine
  <2>2. LET m == items[d][r][j]
        IN  /\ m.outSeq # Nothing => m.outSeq \in 1 .. Len(queue[d][Other(r)])
            /\ m.status \in {"sent", "delivered", "read"} => m.outSeq # Nothing
    BY <2>1 DEF StatusInv
  <2> QED
    BY <1>1, <1>4, <2>1, <2>2
<1> QED
  BY <1>7, <1>8, <1>9, <1>10 DEF StatusInv

\* The answer to a text, or the failure of its push, reaches its message.
LEMMA SettledStatus ==
  ASSUME ConversationTypes, StatusInv, NEW p \in pushes, p \in Payload, p.kind = "text",
         NEW status \in Status, NEW seq \in Nat \cup {Nothing},
         SetStatus(p.chat, p.from, p.target, status, seq),
         pushes' = pushes \ {p}, queue' = queue,
         seq # Nothing => seq \in 1 .. Len(queue[p.chat][Other(p.from)]),
         seq = Nothing => status \notin {"sent", "delivered", "read"}
  PROVE  /\ StatusInv'
         /\ \A d \in Chat, r \in Side, j \in Id :
              ~(d = p.chat /\ r = p.from /\ j = p.target) => items'[d][r][j] = items[d][r][j]
         /\ Mine(p.chat, p.from, p.target)' =>
              /\ Mine(p.chat, p.from, p.target)
              /\ items'[p.chat][p.from][p.target].status = status
              /\ items'[p.chat][p.from][p.target].outSeq = seq
<1> DEFINE c == p.chat
           s == p.from
           i == p.target
<1>1. c \in Chat /\ s \in Side /\ i \in Id
  BY DEF Payload
<1>2. /\ \A d \in Chat, r \in Side, j \in Id :
           ~(d = c /\ r = s /\ j = i) => items'[d][r][j] = items[d][r][j]
      /\ StatusOnly(items[c][s][i], items'[c][s][i])
      /\ items[c][s][i] # Nothing =>
           items'[c][s][i].status = status /\ items'[c][s][i].outSeq = seq
  <2>1. SetStatus(c, s, i, status, seq)
    OBVIOUS
  <2> HIDE DEF c, s, i
  <2> QED
    BY <1>1, <2>1, StatusSet
<1>3. Mine(c, s, i)' => /\ Mine(c, s, i)
                        /\ items'[c][s][i].status = status /\ items'[c][s][i].outSeq = seq
  BY <1>2 DEF Mine, StatusOnly
<1> HIDE DEF c, s, i
<1>4. Texts' \subseteq Texts /\ Answers' \subseteq Answers /\ p \in Texts /\ p \notin Texts'
  BY DEF Texts, Answers
<1>5. \A q, r \in Texts' : q.target = r.target => q = r
  BY <1>4 DEF StatusInv
<1>6. \A q \in Answers' : q.kind = "text" /\ q.seq \in 1 .. Len(queue[q.chat][Other(q.from)])'
  BY <1>4 DEF StatusInv
<1>7. ASSUME NEW q \in Texts', Mine(q.chat, q.from, q.target)'
      PROVE  /\ items'[q.chat][q.from][q.target].status = "sending"
             /\ items'[q.chat][q.from][q.target].outSeq = Nothing
  <2>1. q \in Texts /\ q # p
    BY <1>4
  <2>2. q.target # i
    BY <1>4, <2>1 DEF StatusInv, i
  <2>3. q.chat \in Chat /\ q.from \in Side /\ q.target \in Id
    BY <2>1, ConversationTypeFacts DEF Texts, Payload
  <2>4. items'[q.chat][q.from][q.target] = items[q.chat][q.from][q.target]
    BY <1>2, <2>2, <2>3
  <2> QED
    BY <1>7, <2>1, <2>4 DEF StatusInv, Mine
<1>8. ASSUME NEW d \in Chat, NEW r \in Side, NEW j \in Id, Mine(d, r, j)'
      PROVE  LET m == items'[d][r][j]
             IN  /\ m.outSeq # Nothing => m.outSeq \in 1 .. Len(queue'[d][Other(r)])
                 /\ m.status \in {"sent", "delivered", "read"} => m.outSeq # Nothing
  <2>1. CASE d = c /\ r = s /\ j = i
    BY <1>3, <1>8, <2>1 DEF c, s, i
  <2>2. CASE ~(d = c /\ r = s /\ j = i)
    <3>1. items'[d][r][j] = items[d][r][j]
      BY <1>2, <2>2
    <3>2. Mine(d, r, j)
      BY <1>8, <3>1 DEF Mine
    <3> QED
      BY <3>1, <3>2 DEF StatusInv
  <2> QED
    BY <2>1, <2>2
<1> QED
  BY <1>2, <1>3, <1>5, <1>6, <1>7, <1>8 DEF StatusInv, c, s, i

LEMMA StatusStep ==
  ASSUME ConversationTypes, FrameInv, StatusInv, [ConversationNext]_conversationVars
  PROVE  StatusInv'
<1>1. ASSUME UNCHANGED <<items, pushes, queue>>
      PROVE  StatusInv'
  <2>1. \A d \in Chat, r \in Side, j \in Id : Mine(d, r, j)' =>
           /\ Mine(d, r, j)
           /\ items'[d][r][j].outSeq = items[d][r][j].outSeq
           /\ items'[d][r][j].status = items[d][r][j].status
    BY <1>1 DEF Mine
  <2> QED
    BY <1>1, <2>1, StatusStays
<1>2. CASE UNCHANGED conversationVars
  BY <1>1, <1>2 DEF conversationVars, lists, transport
<1>3. ASSUME NEW c \in Chat, Select(c) \/ Handshake(c)
      PROVE  StatusInv'
  BY <1>1, <1>3, SelectFacts, HandshakeFacts
<1>4. ASSUME NEW c \in Chat, NEW s \in Side, NEW focused \in BOOLEAN, Receive(c, s, focused)
      PROVE  StatusInv'
  <2>1. /\ pushes' = pushes
        /\ \A d \in Chat, r \in Side : Len(queue'[d][r]) = Len(queue[d][r])
    BY <1>4, ReceiveFacts
  <2>2. \A d \in Chat, r \in Side, j \in Id : Kept(d, r, j)
    BY <1>4, ReceiveKeeps
  <2> QED
    BY <2>1, <2>2, StatusStays DEF Kept
<1>5. ASSUME NEW k \in Cursor, Reported(k), UNCHANGED <<pushes, queue>>
      PROVE  StatusInv'
  BY <1>5, ReportedKeeps, StatusStays
<1>6. ASSUME NEW p \in pushes, PushAnswered(p)
      PROVE  StatusInv'
  <2>1. /\ p \in Payload /\ p.seq \in Nat /\ p.at = "answer"
        /\ pushes' = pushes \ {p} /\ queue' = queue
        /\ SetStatus(p.chat, p.from, p.target, "sent", p.seq)
    BY <1>6, AnsweredFacts
  <2>2. p \in Answers
    BY <2>1 DEF Answers
  <2>3. p.kind = "text" /\ p.seq \in 1 .. Len(queue[p.chat][Other(p.from)])
    BY <2>2 DEF StatusInv
  <2>4. "sent" \in Status /\ p.seq # Nothing
    BY <2>1, NothingElse DEF Status
  <2> QED
    BY <2>1, <2>3, <2>4, SettledStatus
<1>7. ASSUME NEW p \in pushes, PushFails(p)
      PROVE  StatusInv'
  <2>1. /\ p \in Payload /\ pushes' = pushes \ {p} /\ queue' = queue
        /\ p.kind = "text" => SetStatus(p.chat, p.from, p.target, "failed", Nothing)
        /\ p.kind # "text" => UNCHANGED items
    BY <1>7, FailsFacts
  <2>2. CASE p.kind = "text"
    <3>1. "failed" \in Status
      BY DEF Status
    <3> QED
      BY <2>1, <2>2, <3>1, SettledStatus
  <2>3. CASE p.kind # "text"
    <3>1. \A d \in Chat, r \in Side, j \in Id : Mine(d, r, j)' =>
             /\ Mine(d, r, j)
             /\ items'[d][r][j].outSeq = items[d][r][j].outSeq
             /\ items'[d][r][j].status = items[d][r][j].status
      BY <2>1, <2>3 DEF Mine
    <3> QED
      BY <2>1, <3>1, StatusStays
  <2> QED
    BY <2>2, <2>3
<1>8. ASSUME NEW p \in Page, Focus(p)
      PROVE  StatusInv'
  BY <1>1, <1>8, FocusFacts
<1>9. ASSUME NEW t \in timers, Fire(t)
      PROVE  StatusInv'
  <2>1. /\ CursorOf(t, At(t.page)) \in Cursor /\ UNCHANGED <<pushes, queue>>
        /\ UNCHANGED items \/ Reported(CursorOf(t, At(t.page)))
    BY <1>9, FireFacts
  <2> QED
    BY <1>1, <1>5, <2>1
<1>10. ASSUME NEW k \in cursors, Collect(k)
       PROVE  StatusInv'
  BY <1>5, <1>10, CollectFacts
<1>11. CASE LosesReceipt
  BY <1>1, <1>11, LosesFacts
<1> QED
  BY <1>2, <1>3, <1>4, <1>6, <1>7, <1>8, <1>9, <1>10, <1>11, SendStatus, PushStatus,
     ConversationSteps

-----------------------------------------------------------------------------
(* Conversation: the receipts owed, step by step                           *)

LEMMA OwedStays ==
  ASSUME ConversationTypes, ConversationTypes', OwedInv, late \subseteq late',
         \A c \in Chat, s \in Side, i \in Id : Mine(c, s, i)' /\ items'[c][s][i].status = "sent" =>
           /\ Mine(c, s, i) /\ items[c][s][i].status = "sent"
           /\ items'[c][s][i].outSeq = items[c][s][i].outSeq,
         \A p \in Answers' : p \in Answers /\ (Mine(p.chat, p.from, p.target)' =>
                                               Mine(p.chat, p.from, p.target)),
         \A c \in Chat, s \in Side, n \in Nat : Owed(c, s, n) => Owed(c, s, n)',
         \A c \in Chat, s \in Side, n \in Nat :
           n \in decrypted'[c][Other(s)] => n \in decrypted[c][Other(s)] \/ Owed(c, s, n)'
  PROVE  OwedInv'
<1>1. ASSUME NEW c \in Chat, NEW s \in Side, NEW i \in Id, NEW n \in Nat,
             Mine(c, s, i)', items'[c][s][i].status = "sent",
             items'[c][s][i].outSeq = n, n \in decrypted'[c][Other(s)]
      PROVE  Owed(c, s, n)' \/ i \in late'
  <2>1. /\ Mine(c, s, i) /\ items[c][s][i].status = "sent"
        /\ items[c][s][i].outSeq = n
    BY <1>1
  <2>2. n \in decrypted[c][Other(s)] => Owed(c, s, n) \/ i \in late
    BY <2>1 DEF OwedInv
  <2>3. n \in decrypted[c][Other(s)] \/ Owed(c, s, n)'
    BY <1>1
  <2>4. Owed(c, s, n) => Owed(c, s, n)'
    OBVIOUS
  <2> QED
    BY <2>2, <2>3, <2>4
<1>2. ASSUME NEW p \in Answers', Mine(p.chat, p.from, p.target)', p.seq \in Nat,
             p.seq \in decrypted'[p.chat][Other(p.from)]
      PROVE  Owed(p.chat, p.from, p.seq)' \/ p.target \in late'
  <2>1. /\ p \in Answers /\ Mine(p.chat, p.from, p.target)
        /\ p.chat \in Chat /\ p.from \in Side
    BY <1>2, ConversationTypeFacts DEF Answers, Payload
  <2>2. p.seq \in decrypted[p.chat][Other(p.from)] =>
          Owed(p.chat, p.from, p.seq) \/ p.target \in late
    BY <2>1 DEF OwedInv
  <2>3. p.seq \in decrypted[p.chat][Other(p.from)] \/ Owed(p.chat, p.from, p.seq)'
    BY <1>2, <2>1
  <2>4. Owed(p.chat, p.from, p.seq) => Owed(p.chat, p.from, p.seq)'
    BY <1>2, <2>1
  <2> QED
    BY <2>2, <2>3, <2>4
<1>3. \A c \in Chat, s \in Side : decrypted'[c][Other(s)] \subseteq Nat
  <2>1. decrypted' \in [Chat -> [Side -> SUBSET Nat]]
    BY DEF ConversationTypes
  <2> QED
    BY <2>1, Sides
<1>4. ASSUME NEW c \in Chat, NEW s \in Side, NEW i \in Id,
             Mine(c, s, i)', items'[c][s][i].status = "sent",
             items'[c][s][i].outSeq \in decrypted'[c][Other(s)]
      PROVE  Owed(c, s, items[c][s][i].outSeq)' \/ i \in late'
  BY <1>1, <1>3, <1>4
<1>5. \A p \in Answers' : Mine(p.chat, p.from, p.target)' /\ p.seq \in decrypted'[p.chat][Other(p.from)]
         => Owed(p.chat, p.from, p.seq)' \/ p.target \in late'
  <2>1. \A p \in Answers' : p.chat \in Chat /\ p.from \in Side
    BY ConversationTypeFacts DEF Answers, Payload
  <2> QED
    BY <1>2, <1>3, <2>1
<1> QED
  BY <1>4, <1>5 DEF OwedInv

\* A delivered receipt for frame n of end s that reaches it.
LEMMA OwedReported ==
  ASSUME ConversationTypes, ConversationTypes', StatusInv, OwedInv, NEW k \in Cursor, Reported(k),
         UNCHANGED <<pushes, decrypted>>,
         \A c \in Chat, s \in Side, n \in Nat : Owed(c, s, n) =>
           Owed(c, s, n)' \/ (c = k.chat /\ s = k.to /\ n = k.upTo)
  PROVE  OwedInv'
<1>1. /\ \A d \in Chat, r \in Side, j \in Id : Mine(d, r, j)' =>
           /\ Mine(d, r, j)
           /\ items'[d][r][j].outSeq = items[d][r][j].outSeq
           /\ \/ items'[d][r][j].status = items[d][r][j].status
              \/ items'[d][r][j].status = k.kind
      /\ late \subseteq late'
  BY ReportedKeeps, SMTT(30) DEF Reported
<1>2. k.chat \in Chat /\ k.to \in Side /\ k.kind \in {"delivered", "read"} /\ k.upTo \in Nat
  BY DEF Cursor
<1>3. ASSUME NEW i \in Id, Mine(k.chat, k.to, i)
      PROVE  /\ items[k.chat][k.to][i].status = "sending" => i \in late'
             /\ items[k.chat][k.to][i].status = "sent" /\ items[k.chat][k.to][i].outSeq = k.upTo =>
                  items'[k.chat][k.to][i].status # "sent"
  <2> DEFINE m == items[k.chat][k.to][i]
             n == items'[k.chat][k.to][i]
  <2>1. m # Nothing /\ m.own
    BY <1>3 DEF Mine
  <2>2. /\ \/ /\ m.own /\ m.outSeq # Nothing /\ m.outSeq <= k.upTo
              /\ m.status # "read" /\ n.status = k.kind
           \/ ~(m.own /\ m.outSeq # Nothing /\ m.outSeq <= k.upTo /\ m.status # "read")
        /\ m.status = "sending" => i \in late'
    BY <2>1 DEF Reported
  <2> HIDE DEF m, n
  <2>3. m.status = "sent" /\ m.outSeq = k.upTo => n.status = k.kind
    BY <1>2, <2>1, <2>2, NothingElse
  <2>4. m.status = "sent" /\ m.outSeq = k.upTo => n.status # "sent"
    BY <1>2, <2>3
  <2> QED
    BY <2>2, <2>4 DEF m, n
<1>4. \A c \in Chat, s \in Side : decrypted[c][Other(s)] \subseteq Nat
  BY ConversationTypeFacts, Sides
<1>5. ASSUME NEW c \in Chat, NEW s \in Side, NEW i \in Id, NEW n \in Nat,
             Mine(c, s, i)', items'[c][s][i].status = "sent",
             items'[c][s][i].outSeq = n, n \in decrypted[c][Other(s)]
      PROVE  Owed(c, s, n)' \/ i \in late'
  <2>1. Mine(c, s, i) /\ items[c][s][i].outSeq = n /\ items[c][s][i].status = "sent"
    BY <1>1, <1>2, <1>5
  <2>2. Owed(c, s, n) \/ i \in late
    BY <1>5, <2>1 DEF OwedInv
  <2>3. ~(c = k.chat /\ s = k.to /\ n = k.upTo)
    BY <1>3, <1>5, <2>1
  <2>4. Owed(c, s, n) => Owed(c, s, n)'
    BY <2>3
  <2> QED
    BY <1>1, <2>2, <2>4
<1>6. ASSUME NEW p \in Answers, Mine(p.chat, p.from, p.target)',
             p.seq \in decrypted[p.chat][Other(p.from)]
      PROVE  Owed(p.chat, p.from, p.seq)' \/ p.target \in late'
  <2>1. p.chat \in Chat /\ p.from \in Side /\ p.target \in Id
    BY ConversationTypeFacts DEF Answers, Payload
  <2>2. p.seq \in Nat /\ Mine(p.chat, p.from, p.target)
    BY <1>1, <1>4, <1>6, <2>1
  <2>3. Owed(p.chat, p.from, p.seq) \/ p.target \in late
    BY <1>6, <2>2 DEF OwedInv
  <2>4. p \in Texts
    BY DEF StatusInv, Answers, Texts
  <2>5. items[p.chat][p.from][p.target].status = "sending"
    BY <2>2, <2>4 DEF StatusInv
  <2>6. p.chat = k.chat /\ p.from = k.to => p.target \in late'
    BY <1>3, <2>1, <2>2, <2>5
  <2>7. Owed(p.chat, p.from, p.seq) =>
          Owed(p.chat, p.from, p.seq)' \/ (p.chat = k.chat /\ p.from = k.to)
    BY <2>1, <2>2
  <2> QED
    BY <1>1, <2>3, <2>6, <2>7
<1>7. Answers' = Answers
  BY DEF Answers
<1>8. ASSUME NEW c \in Chat, NEW s \in Side, NEW i \in Id,
             Mine(c, s, i)', items'[c][s][i].status = "sent",
             items'[c][s][i].outSeq \in decrypted[c][Other(s)]
      PROVE  Owed(c, s, items[c][s][i].outSeq)' \/ i \in late'
  BY <1>4, <1>5, <1>8
<1> QED
  BY <1>6, <1>7, <1>8 DEF OwedInv

LEMMA FireOwed ==
  ASSUME ConversationTypes, ConversationTypes', StatusInv, OwedInv, NEW t \in timers, Fire(t)
  PROVE  OwedInv'
<1> DEFINE k == CursorOf(t, At(t.page))
           drop == t.kind = "delivered" /\ t.chat # At(t.page)
<1>1. /\ t \in Timer /\ k \in Cursor /\ t.page = PageOf(k.chat, Other(k.to))
      /\ timers' = timers \ {t} /\ UNCHANGED <<pushes, decrypted>>
      /\ forgone' = IF drop THEN forgone \cup {CursorOf(t, t.chat)} ELSE forgone
      /\ \/ drop /\ UNCHANGED <<items, late, cursors>>
         \/ ~drop /\ UNCHANGED <<items, late>> /\ cursors' = cursors \cup {k}
         \/ ~drop /\ Reported(k) /\ UNCHANGED cursors
  BY FireFacts
<1>2. k.chat = At(t.page) /\ k.to = SenderTo(t.page) /\ k.kind = t.kind /\ k.upTo = t.upTo
  BY DEF CursorOf
<1>3. ASSUME NEW c \in Chat, NEW s \in Side, NEW n \in Nat, Owed(c, s, n), ~Owed(c, s, n)'
      PROVE  c = k.chat /\ s = k.to /\ n = k.upTo /\ k \notin cursors' /\ t.kind = "delivered"
  <2>1. cursors \subseteq cursors' /\ forgone \subseteq forgone'
    BY <1>1
  <2>2. t = [page |-> PageOf(c, Other(s)), kind |-> "delivered", chat |-> c, upTo |-> n]
    BY <1>1, <1>3, <2>1 DEF Owed
  <2>3. t.page = PageOf(c, Other(s)) /\ t.kind = "delivered" /\ t.chat = c /\ t.upTo = n
    BY <2>2
  <2>4. k.chat = c
    <3>1. CASE drop
      <4>1. CursorOf(t, c) = [chat |-> c, to |-> s, kind |-> "delivered", upTo |-> n]
        BY <2>3, SenderBack DEF CursorOf
      <4> QED
        BY <1>1, <1>3, <2>3, <3>1, <4>1 DEF Owed
    <3>2. CASE ~drop
      BY <1>2, <2>3, <3>2
    <3> QED
      BY <3>1, <3>2
  <2>5. k.to = s
    BY <1>2, <2>3, SenderBack
  <2>6. k = [chat |-> c, to |-> s, kind |-> "delivered", upTo |-> n]
    BY <1>2, <2>3, <2>4, <2>5 DEF CursorOf
  <2>7. k \notin cursors'
    BY <1>3, <2>6 DEF Owed
  <2> QED
    BY <1>2, <2>3, <2>4, <2>5, <2>7
<1>4. CASE Reported(k)
  BY <1>1, <1>3, <1>4, OwedReported
<1>5. CASE UNCHANGED <<items, late>> /\ (drop \/ cursors' = cursors \cup {k})
  <2>1. \A c \in Chat, s \in Side, n \in Nat : Owed(c, s, n) => Owed(c, s, n)'
    <3>1. ASSUME NEW c \in Chat, NEW s \in Side, NEW n \in Nat, Owed(c, s, n), ~Owed(c, s, n)',
                 drop
          PROVE  FALSE
      <4>1. \/ [page |-> PageOf(c, Other(s)), kind |-> "delivered", chat |-> c, upTo |-> n] = t
            \/ Owed(c, s, n)'
        BY <1>1, <3>1 DEF Owed
      <4>2. /\ t.chat = c /\ t.upTo = n /\ t.kind = "delivered"
            /\ t.page = PageOf(c, Other(s))
        BY <3>1, <4>1
      <4>3. CursorOf(t, c) = [chat |-> c, to |-> s, kind |-> "delivered", upTo |-> n]
        BY <4>2, SenderBack DEF CursorOf
      <4> QED
        BY <1>1, <3>1, <4>2, <4>3 DEF Owed
    <3> QED
      BY <1>3, <1>5, <3>1
  <2>2. Answers' = Answers
    BY <1>1 DEF Answers
  <2>3. \A c \in Chat, s \in Side, i \in Id : Mine(c, s, i)' <=> Mine(c, s, i)
    BY <1>5 DEF Mine
  <2>4. \A p \in Answers : p.chat \in Chat /\ p.from \in Side /\ p.target \in Id
    BY ConversationTypeFacts DEF Answers, Payload
  <2> QED
    BY <1>1, <1>5, <2>1, <2>2, <2>3, <2>4, OwedStays
<1> QED
  BY <1>1, <1>4, <1>5

\* A receipt that is lost was given up.
LEMMA LosesOwed ==
  ASSUME ConversationTypes, ConversationTypes', OwedInv, LosesReceipt
  PROVE  OwedInv'
<1>1. ASSUME NEW c \in Chat, NEW s \in Side, NEW n \in Nat, Owed(c, s, n)
      PROVE  Owed(c, s, n)'
  <2> DEFINE t == [page |-> PageOf(c, Other(s)), kind |-> "delivered", chat |-> c, upTo |-> n]
             k == [chat |-> c, to |-> s, kind |-> "delivered", upTo |-> n]
  <2>1. CursorOf(t, t.chat) = k
    BY SenderBack DEF CursorOf
  <2>2. t \in timers \/ k \in cursors \/ k \in forgone
    BY <1>1 DEF Owed
  <2> HIDE DEF t, k
  <2>3. t \in timers' \/ k \in cursors' \/ k \in forgone'
    BY <2>1, <2>2, LosesFacts
  <2> QED
    BY <2>3 DEF Owed, t, k
<1>2. UNCHANGED <<items, pushes, decrypted, late>>
  BY LosesFacts
<1>3. Answers' = Answers
  BY <1>2 DEF Answers
<1>4. \A c \in Chat, s \in Side, i \in Id : Mine(c, s, i)' <=> Mine(c, s, i)
  BY <1>2 DEF Mine
<1>5. \A p \in Answers : p.chat \in Chat /\ p.from \in Side /\ p.target \in Id
  BY ConversationTypeFacts DEF Answers, Payload
<1> QED
  BY <1>1, <1>2, <1>3, <1>4, <1>5, OwedStays

\* The new seq has not been opened yet.
LEMMA PushOwed ==
  ASSUME ConversationTypes, ConversationTypes', FrameInv, StatusInv, OwedInv,
         NEW p \in pushes, Push(p)
  PROVE  OwedInv'
<1> DEFINE c == p.chat
           t == Other(p.from)
           n == Len(queue[c][t]) + 1
           a == [p EXCEPT !.at = "answer", !.seq = n]
<1>1. /\ p \in Payload /\ p.at = "push"
      /\ UNCHANGED <<items, timers, cursors, decrypted, late, forgone>>
      /\ a \in Payload /\ a.at = "answer" /\ a.seq = n
      /\ a.chat = c /\ a.from = p.from /\ a.target = p.target
      /\ pushes' = (pushes \ {p}) \cup IF p.kind = "text" THEN {a} ELSE {}
  BY PushFacts
<1>2. c \in Chat /\ t \in Side /\ p.from \in Side
  BY <1>1, Sides DEF Payload
<1>3. n \notin decrypted[c][t]
  <2>1. /\ taken[c][t] <= Len(queue[c][t]) /\ decrypted[c][t] \subseteq 1 .. taken[c][t]
    BY <1>2 DEF FrameInv
  <2>2. taken[c][t] \in Nat /\ Len(queue[c][t]) \in Nat
    BY <1>2, ConversationTypeFacts
  <2> QED
    BY <2>1, <2>2
<1> HIDE DEF a, n
<1>4. \A q \in Answers' : q \in Answers \/ q = a
  BY <1>1 DEF Answers
<1>5. \A d \in Chat, r \in Side, k \in Nat : Owed(d, r, k)' <=> Owed(d, r, k)
  BY <1>1 DEF Owed
<1>6. \A d \in Chat, r \in Side, j \in Id : Mine(d, r, j)' <=> Mine(d, r, j)
  BY <1>1 DEF Mine
<1>7. \A d \in Chat, r \in Side : decrypted[d][Other(r)] \subseteq Nat
  BY ConversationTypeFacts, Sides
<1>8. \A q \in Answers : q.chat \in Chat /\ q.from \in Side /\ q.target \in Id
  BY ConversationTypeFacts DEF Answers, Payload
<1>9. ASSUME NEW d \in Chat, NEW s \in Side, NEW i \in Id,
             Mine(d, s, i)', items'[d][s][i].status = "sent",
             items'[d][s][i].outSeq \in decrypted'[d][Other(s)]
      PROVE  Owed(d, s, items[d][s][i].outSeq)' \/ i \in late'
  <2>1. items' = items /\ decrypted' = decrypted /\ late' = late /\ UNCHANGED <<timers, cursors, forgone>>
    BY <1>1
  <2>2. Owed(d, s, items[d][s][i].outSeq) \/ i \in late
    BY <1>6, <1>9, <2>1 DEF OwedInv
  <2> QED
    BY <2>1, <2>2 DEF Owed
<1>10. ASSUME NEW q \in Answers', Mine(q.chat, q.from, q.target)',
              q.seq \in decrypted'[q.chat][Other(q.from)]
       PROVE  Owed(q.chat, q.from, q.seq)' \/ q.target \in late'
  <2>1. q \in Answers
    BY <1>1, <1>3, <1>4, <1>10
  <2>2. Owed(q.chat, q.from, q.seq) \/ q.target \in late
    BY <1>1, <1>6, <1>8, <1>10, <2>1 DEF OwedInv
  <2> QED
    BY <1>1, <2>2 DEF Owed
<1> QED
  BY <1>9, <1>10 DEF OwedInv

LEMMA SettledOwed ==
  ASSUME ConversationTypes, ConversationTypes', FrameInv, StatusInv, OwedInv,
         NEW p \in pushes, PushAnswered(p) \/ PushFails(p)
  PROVE  OwedInv'
<1>1. /\ p \in Payload /\ pushes' = pushes \ {p}
      /\ UNCHANGED <<timers, cursors, decrypted, late, forgone, queue>>
  BY AnsweredFacts, FailsFacts
<1>2. p.chat \in Chat /\ p.from \in Side /\ p.target \in Id
  BY <1>1 DEF Payload
<1>3. \A d \in Chat, r \in Side, k \in Nat : Owed(d, r, k)' <=> Owed(d, r, k)
  BY <1>1 DEF Owed
<1>4. Answers' \subseteq Answers
  BY <1>1 DEF Answers
<1>5. \A q \in Answers : q.chat \in Chat /\ q.from \in Side /\ q.target \in Id
  BY ConversationTypeFacts DEF Answers, Payload
<1>6. CASE PushAnswered(p)
  <2>1. p.at = "answer" /\ p.seq \in Nat /\ SetStatus(p.chat, p.from, p.target, "sent", p.seq)
    BY <1>6, AnsweredFacts
  <2>2. p \in Answers
    BY <2>1 DEF Answers
  <2>3. p.kind = "text" /\ p.seq \in 1 .. Len(queue[p.chat][Other(p.from)])
    BY <2>2 DEF StatusInv
  <2>4. "sent" \in Status /\ p.seq # Nothing
    BY <2>1, NothingElse DEF Status
  <2>5. /\ \A d \in Chat, r \in Side, j \in Id :
             ~(d = p.chat /\ r = p.from /\ j = p.target) => items'[d][r][j] = items[d][r][j]
        /\ Mine(p.chat, p.from, p.target)' =>
             /\ Mine(p.chat, p.from, p.target)
             /\ items'[p.chat][p.from][p.target].outSeq = p.seq
    BY <1>1, <2>1, <2>3, <2>4, SettledStatus
  <2>6. \A d \in Chat, r \in Side, j \in Id : Mine(d, r, j)' => Mine(d, r, j)
    BY <2>5 DEF Mine
  <2>7. ASSUME NEW d \in Chat, NEW s \in Side, NEW i \in Id, NEW n \in Nat,
               Mine(d, s, i)', items'[d][s][i].status = "sent",
               items'[d][s][i].outSeq = n, n \in decrypted[d][Other(s)]
        PROVE  Owed(d, s, n) \/ i \in late
    <3>1. CASE d = p.chat /\ s = p.from /\ i = p.target
      BY <2>2, <2>5, <2>7, <3>1 DEF OwedInv
    <3>2. CASE ~(d = p.chat /\ s = p.from /\ i = p.target)
      BY <2>5, <2>6, <2>7, <3>2 DEF OwedInv
    <3> QED
      BY <3>1, <3>2
  <2>8. \A d \in Chat, s \in Side : decrypted[d][Other(s)] \subseteq Nat
    BY ConversationTypeFacts, Sides
  <2>9. ASSUME NEW d \in Chat, NEW s \in Side, NEW i \in Id,
               Mine(d, s, i)', items'[d][s][i].status = "sent",
               items'[d][s][i].outSeq \in decrypted'[d][Other(s)]
        PROVE  Owed(d, s, items[d][s][i].outSeq)' \/ i \in late'
    BY <1>1, <1>3, <2>7, <2>8, <2>9
  <2>10. ASSUME NEW q \in Answers', Mine(q.chat, q.from, q.target)',
                q.seq \in decrypted'[q.chat][Other(q.from)]
         PROVE  Owed(q.chat, q.from, q.seq)' \/ q.target \in late'
    <3>1. Mine(q.chat, q.from, q.target) /\ q.seq \in Nat
      BY <1>1, <1>4, <1>5, <2>6, <2>8, <2>10
    <3>2. Owed(q.chat, q.from, q.seq) \/ q.target \in late
      BY <1>1, <1>4, <2>10, <3>1 DEF OwedInv
    <3> QED
      BY <1>1, <1>3, <1>4, <1>5, <3>1, <3>2
  <2> QED
    BY <2>9, <2>10 DEF OwedInv
<1>7. CASE PushFails(p)
  <2>1. /\ p.kind = "text" => SetStatus(p.chat, p.from, p.target, "failed", Nothing)
        /\ p.kind # "text" => UNCHANGED items
    BY <1>7, FailsFacts
  <2>2. \A d \in Chat, r \in Side, j \in Id : Mine(d, r, j)' =>
          /\ Mine(d, r, j)
          /\ items'[d][r][j].status = "sent" => items'[d][r][j] = items[d][r][j]
    <3>1. CASE p.kind = "text"
      <4>1. "failed" \in Status
        BY DEF Status
      <4>2. /\ \A d \in Chat, r \in Side, j \in Id :
                 ~(d = p.chat /\ r = p.from /\ j = p.target) => items'[d][r][j] = items[d][r][j]
            /\ Mine(p.chat, p.from, p.target)' =>
                 /\ Mine(p.chat, p.from, p.target)
                 /\ items'[p.chat][p.from][p.target].status = "failed"
        BY <1>1, <2>1, <3>1, <4>1, SettledStatus
      <4> QED
        BY <4>2 DEF Mine
    <3> QED
      BY <2>1, <3>1 DEF Mine
  <2>3. \A d \in Chat, r \in Side, j \in Id : Mine(d, r, j)' /\ items'[d][r][j].status = "sent" =>
           /\ Mine(d, r, j) /\ items[d][r][j].status = "sent"
           /\ items'[d][r][j].outSeq = items[d][r][j].outSeq
    BY <2>2
  <2>4. \A q \in Answers' : q \in Answers /\ (Mine(q.chat, q.from, q.target)' =>
                                               Mine(q.chat, q.from, q.target))
    BY <1>4, <1>5, <2>2
  <2> QED
    BY <1>1, <1>3, <2>3, <2>4, OwedStays
<1> QED
  BY <1>6, <1>7

LEMMA OwedStep ==
  ASSUME ConversationTypes, ConversationTypes', FrameInv, StatusInv, OwedInv,
         [ConversationNext]_conversationVars
  PROVE  OwedInv'
<1>0. \A p \in Answers : p.chat \in Chat /\ p.from \in Side /\ p.target \in Id
  BY ConversationTypeFacts DEF Answers, Payload
<1>1. ASSUME UNCHANGED <<items, pushes, cursors, decrypted, late, forgone>>, timers \subseteq timers'
      PROVE  OwedInv'
  <2>1. \A c \in Chat, s \in Side, n \in Nat : Owed(c, s, n) => Owed(c, s, n)'
    BY <1>1 DEF Owed
  <2>2. Answers' = Answers
    BY <1>1 DEF Answers
  <2>3. \A c \in Chat, s \in Side, i \in Id : Mine(c, s, i)' <=> Mine(c, s, i)
    BY <1>1 DEF Mine
  <2> QED
    BY <1>0, <1>1, <2>1, <2>2, <2>3, OwedStays
<1>2. CASE UNCHANGED conversationVars
  BY <1>1, <1>2 DEF conversationVars, lists, transport, receipts, history
<1>3. ASSUME NEW c \in Chat, Select(c) \/ Handshake(c)
      PROVE  OwedInv'
  BY <1>1, <1>3, SelectFacts, HandshakeFacts
<1>4. ASSUME NEW p \in Page, Focus(p)
      PROVE  OwedInv'
  BY <1>1, <1>4, FocusFacts
<1>5. ASSUME NEW c \in Chat, NEW s \in Side, NEW kind \in Kind, NEW i \in Id, Send(c, s, kind, i)
      PROVE  OwedInv'
  <2>1. /\ UNCHANGED <<timers, cursors, late, forgone, decrypted>>
        /\ pushes' = pushes \cup {SentFrame(c, s, kind, i)} \/ pushes' = pushes
        /\ kind = "text" => i \notin written
    BY <1>5, SendFacts
  <2>2. /\ \A d \in Chat, r \in Side, j \in Id :
             ~(kind = "text" /\ d = c /\ r = s /\ j = i) => Kept(d, r, j)
        /\ kind = "text" => items'[c][s][i].status \in {"sending", "failed"}
    BY <1>5, SendKeeps
  <2>3. Answers' = Answers
    <3>1. SentFrame(c, s, kind, i).at = "push"
      BY DEF SentFrame
    <3> QED
      BY <2>1, <3>1 DEF Answers
  <2>4. \A d \in Chat, r \in Side, j \in Id : Mine(d, r, j)' /\ items'[d][r][j].status = "sent" =>
           /\ Mine(d, r, j) /\ items[d][r][j].status = "sent"
           /\ items'[d][r][j].outSeq = items[d][r][j].outSeq
    BY <2>2 DEF Kept
  <2>5. \A p \in Answers' : p \in Answers /\ (Mine(p.chat, p.from, p.target)' =>
                                               Mine(p.chat, p.from, p.target))
    <3>1. \A p \in Answers : p.target \in written
      BY DEF Answers, FrameInv
    <3>2. \A p \in Answers : Kept(p.chat, p.from, p.target)
      BY <1>0, <2>1, <2>2, <3>1
    <3> QED
      BY <2>3, <3>2 DEF Kept
  <2>6. \A d \in Chat, r \in Side, n \in Nat : Owed(d, r, n) => Owed(d, r, n)'
    BY <2>1 DEF Owed
  <2> QED
    BY <2>1, <2>4, <2>5, <2>6, OwedStays
<1>6. ASSUME NEW c \in Chat, NEW s \in Side, NEW focused \in BOOLEAN, Receive(c, s, focused)
      PROVE  OwedInv'
  <2> DEFINE n == taken[c][s] + 1
  <2>1. /\ UNCHANGED <<pushes, cursors, late, forgone>>
        /\ Dropped(c) \/ Opened(c, s, focused)
    BY <1>6, ReceiveFacts
  <2>2. \A d \in Chat, r \in Side, j \in Id : Kept(d, r, j)
    BY <1>6, ReceiveKeeps
  <2>3. Answers' = Answers
    BY <2>1 DEF Answers
  <2>4. timers \subseteq timers'
    BY <2>1 DEF Dropped, Opened
  <2>5. \A d \in Chat, r \in Side, k \in Nat : Owed(d, r, k) => Owed(d, r, k)'
    BY <2>1, <2>4 DEF Owed
  <2>6. ASSUME NEW d \in Chat, NEW r \in Side, NEW k \in Nat, k \in decrypted'[d][Other(r)]
        PROVE  k \in decrypted[d][Other(r)] \/ Owed(d, r, k)'
    <3>1. CASE Dropped(c)
      BY <2>6, <3>1 DEF Dropped
    <3>2. CASE Opened(c, s, focused)
      <4>1. /\ \A e \in Chat, q \in Side : ~(e = c /\ q = s) => decrypted'[e][q] = decrypted[e][q]
            /\ decrypted'[c][s] = decrypted[c][s] \cup {n}
            /\ [page |-> PageOf(c, s), kind |-> "delivered", chat |-> c, upTo |-> n] \in timers'
        BY <3>2 DEF Opened
      <4> HIDE DEF n
      <4>2. Other(r) \in Side
        BY Sides
      <4>3. k \in decrypted[d][Other(r)] \/ (d = c /\ Other(r) = s /\ k = n)
        BY <2>6, <4>1, <4>2
      <4> QED
        BY <4>1, <4>3 DEF Owed
    <3> QED
      BY <2>1, <3>1, <3>2
  <2>7. \A d \in Chat, r \in Side, j \in Id : Mine(d, r, j)' /\ items'[d][r][j].status = "sent" =>
           /\ Mine(d, r, j) /\ items[d][r][j].status = "sent"
           /\ items'[d][r][j].outSeq = items[d][r][j].outSeq
    BY <2>2 DEF Kept
  <2>8. \A p \in Answers' : p \in Answers /\ (Mine(p.chat, p.from, p.target)' =>
                                               Mine(p.chat, p.from, p.target))
    BY <1>0, <2>2, <2>3 DEF Kept
  <2> QED
    BY <2>1, <2>5, <2>6, <2>7, <2>8, OwedStays
<1>7. ASSUME NEW p \in pushes, Push(p)
      PROVE  OwedInv'
  BY <1>7, PushOwed
<1>8. ASSUME NEW p \in pushes, PushAnswered(p) \/ PushFails(p)
      PROVE  OwedInv'
  BY <1>8, SettledOwed
<1>9. ASSUME NEW t \in timers, Fire(t)
      PROVE  OwedInv'
  BY <1>9, FireOwed
<1>10. ASSUME NEW k \in cursors, Collect(k)
       PROVE  OwedInv'
  <2>1. /\ k \in Cursor /\ cursors' = cursors \ {k} /\ Reported(k)
        /\ UNCHANGED <<pushes, timers, decrypted, forgone>>
    BY <1>10, CollectFacts
  <2>2. \A c \in Chat, s \in Side, n \in Nat : Owed(c, s, n) =>
           Owed(c, s, n)' \/ (c = k.chat /\ s = k.to /\ n = k.upTo)
    BY <2>1 DEF Owed
  <2> QED
    BY <2>1, <2>2, OwedReported
<1> QED
  BY <1>2, <1>3, <1>4, <1>5, <1>6, <1>7, <1>8, <1>9, <1>10, LosesOwed, ConversationSteps

-----------------------------------------------------------------------------
(* Conversation: how far the cursors go                                    *)

\* All that page p has received, when it has been at one chat only.
EndOf(p) == IF p = "here" THEN "here" ELSE "there"
Reach(p) == IF At(p) = Nothing THEN 0 ELSE taken[At(p)][EndOf(p)]

\* No receipt goes beyond what its page has received, nor a read one beyond what
\* the page has taken for read, which was seen.
ReachInv ==
  /\ \A c \in Chat : c # active => taken[c]["here"] = 0
  /\ \A p \in Page : pendingRead[p] <= Reach(p) /\ readSent[p] <= Reach(p)
TimerInv ==
  \A t \in timers :
    /\ t.chat = At(t.page) /\ t.upTo <= Reach(t.page)
    /\ t.kind = "read" => t.upTo <= readSent[t.page]
Due(k) ==
  /\ k.upTo <= taken[k.chat][Other(k.to)]
  /\ k.kind = "read" => k.upTo <= readSent[PageOf(k.chat, Other(k.to))]
ShownInv ==
  \A c \in Chat, s \in Side, i \in Id : Mine(c, s, i) =>
    LET m == items[c][s][i]
    IN  /\ m.status \in {"delivered", "read"} => m.outSeq \in 1 .. taken[c][Other(s)]
        /\ m.status = "read" => m.outSeq <= readSent[PageOf(c, Other(s))]
SeenInv ==
  \A c \in Chat, s \in Side : \A n \in decrypted[c][s] :
    n <= readSent[PageOf(c, s)] => n \in seen[c][s]
CursorInv == ReachInv /\ TimerInv /\ (\A k \in cursors : Due(k)) /\ ShownInv /\ SeenInv

OneChatInv == switches < 2 => CursorInv

\* Every frame of an undisturbed chat opens.
OpenedInv == \A c \in Chat \ disturbed, s \in Side : decrypted[c][s] = 1 .. taken[c][s]

-----------------------------------------------------------------------------
(* Conversation: the cursors, step by step                                 *)

LEMMA ReachOf ==
  ASSUME ConversationTypes
  PROVE  /\ \A c \in Chat, s \in Side : IsAt(c, s) => Reach(PageOf(c, s)) = taken[c][s]
         /\ \A c \in Chat, s \in Side : ~IsAt(c, s) => s = "here" /\ c # active
         /\ \A p \in Page : Reach(p) \in Nat
<1>1. "here" \notin Chat /\ Nothing \notin Chat
  BY NothingElse
<1>2. ASSUME NEW c \in Chat, NEW s \in Side, IsAt(c, s)
      PROVE  Reach(PageOf(c, s)) = taken[c][s]
  BY <1>1, <1>2 DEF Side, IsAt, At, PageOf, EndOf, Reach
<1>3. ASSUME NEW c \in Chat, NEW s \in Side, ~IsAt(c, s)
      PROVE  s = "here" /\ c # active
  BY <1>1, <1>3 DEF Side, IsAt, At, PageOf
<1>4. ASSUME NEW p \in Page
      PROVE  Reach(p) \in Nat
  <2>1. At(p) \in Chat \cup {Nothing}
    BY DEF At, Page, ConversationTypes
  <2>2. EndOf(p) \in Side
    BY DEF EndOf, Side
  <2> QED
    BY <2>1, <2>2, ConversationTypeFacts DEF Reach
<1> QED
  BY <1>2, <1>3, <1>4

LEMMA OneChatInit == ConversationInit => CursorInv /\ OpenedInv
<1> SUFFICES ASSUME ConversationInit PROVE CursorInv /\ OpenedInv
  OBVIOUS
<1>1. \A c \in Chat, s \in Side :
        /\ taken[c][s] = 0 /\ decrypted[c][s] = {}
        /\ \A i \in Id : items[c][s][i] = Nothing
  BY DEF ConversationInit, PerEnd
<1>2. \A p \in Page : pendingRead[p] = 0 /\ readSent[p] = 0 /\ Reach(p) = 0
  <2>1. ASSUME NEW p \in Page PROVE Reach(p) = 0
    <3>1. At(p) = Nothing \/ At(p) \in Chat
      BY DEF At, Page, ConversationInit
    <3>2. EndOf(p) \in Side
      BY DEF EndOf, Side
    <3> QED
      BY <1>1, <3>1, <3>2 DEF Reach
  <2> QED
    BY <2>1 DEF ConversationInit
<1>3. ReachInv
  BY <1>1, <1>2 DEF ReachInv, Side
<1>4. TimerInv /\ \A k \in cursors : Due(k)
  BY DEF ConversationInit, TimerInv
<1>5. ShownInv /\ SeenInv
  BY <1>1 DEF ShownInv, SeenInv, Mine
<1>6. OpenedInv
  <2>1. 1 .. 0 = {}
    OBVIOUS
  <2> QED
    BY <1>1, <2>1 DEF OpenedInv
<1> QED
  BY <1>3, <1>4, <1>5, <1>6 DEF CursorInv

\* Messages that come to be delivered or read do so by a receipt.
LEMMA CursorsStay ==
  ASSUME CursorInv,
         UNCHANGED <<active, taken, timers, cursors, pendingRead, readSent, decrypted, seen>>,
         \A c \in Chat, s \in Side, i \in Id :
           Mine(c, s, i)' /\ items'[c][s][i].status \in {"delivered", "read"} =>
             /\ Mine(c, s, i) /\ items'[c][s][i].status = items[c][s][i].status
             /\ items'[c][s][i].outSeq = items[c][s][i].outSeq
  PROVE  CursorInv'
<1>1. ReachInv' /\ TimerInv' /\ SeenInv'
  BY DEF CursorInv, ReachInv, TimerInv, SeenInv, Reach, At
<1>2. \A k \in cursors' : Due(k)'
  BY DEF CursorInv, Due
<1>3. ASSUME NEW c \in Chat, NEW s \in Side, NEW i \in Id, Mine(c, s, i)',
             items'[c][s][i].status \in {"delivered", "read"}
      PROVE  /\ items'[c][s][i].outSeq \in 1 .. taken'[c][Other(s)]
             /\ items'[c][s][i].status = "read" =>
                  items'[c][s][i].outSeq <= readSent'[PageOf(c, Other(s))]
  BY <1>3 DEF CursorInv, ShownInv
<1>4. ShownInv'
  BY <1>3 DEF ShownInv
<1> QED
  BY <1>1, <1>2, <1>4 DEF CursorInv

\* A receipt that is due arrives.
LEMMA ReportedShown ==
  ASSUME ConversationTypes, StatusInv, ShownInv, NEW k \in Cursor, Reported(k), Due(k),
         UNCHANGED <<taken, readSent>>
  PROVE  ShownInv'
<1>1. k.chat \in Chat /\ k.to \in Side /\ k.kind \in {"delivered", "read"} /\ k.upTo \in Nat
  BY DEF Cursor
<1>2. ASSUME NEW c \in Chat, NEW s \in Side, NEW i \in Id, Mine(c, s, i)',
             items'[c][s][i].status \in {"delivered", "read"}
      PROVE  /\ items'[c][s][i].outSeq \in 1 .. taken'[c][Other(s)]
             /\ items'[c][s][i].status = "read" =>
                  items'[c][s][i].outSeq <= readSent'[PageOf(c, Other(s))]
  <2> DEFINE m == items[c][s][i]
             n == items'[c][s][i]
  <2>1. /\ Mine(c, s, i) /\ n.outSeq = m.outSeq
        /\ \/ n.status = m.status
           \/ /\ n.status = k.kind /\ m.outSeq # Nothing /\ m.outSeq <= k.upTo
              /\ c = k.chat /\ s = k.to
    BY <1>2, ReportedKeeps
  <2>2. m.outSeq # Nothing => m.outSeq \in 1 .. Len(queue[c][Other(s)])
    BY <2>1 DEF StatusInv
  <2>3. /\ m.status \in {"delivered", "read"} => m.outSeq \in 1 .. taken[c][Other(s)]
        /\ m.status = "read" => m.outSeq <= readSent[PageOf(c, Other(s))]
    BY <2>1 DEF ShownInv
  <2>4. taken[c][Other(s)] \in Nat /\ Len(queue[c][Other(s)]) \in Nat
        /\ readSent[PageOf(c, Other(s))] \in Nat
    BY ConversationTypeFacts, Sides
  <2> HIDE DEF m, n
  <2>5. CASE n.status = m.status
    BY <1>2, <2>1, <2>3, <2>5 DEF n
  <2>6. CASE /\ n.status = k.kind /\ m.outSeq # Nothing /\ m.outSeq <= k.upTo
             /\ c = k.chat /\ s = k.to
    <3>1. m.outSeq \in 1 .. taken[c][Other(s)]
      BY <1>1, <2>2, <2>4, <2>6 DEF Due
    <3>2. n.status = "read" => m.outSeq <= readSent[PageOf(c, Other(s))]
      BY <1>1, <2>2, <2>4, <2>6 DEF Due
    <3> QED
      BY <2>1, <3>1, <3>2 DEF n
  <2> QED
    BY <2>1, <2>5, <2>6
<1> QED
  BY <1>2 DEF ShownInv

LEMMA FireCursors ==
  ASSUME ConversationTypes, StatusInv, CursorInv, NEW t \in timers, Fire(t)
  PROVE  CursorInv'
<1> DEFINE k == CursorOf(t, At(t.page))
<1>1. /\ t \in Timer /\ k \in Cursor /\ At(t.page) \in Chat
      /\ t.page = PageOf(k.chat, Other(k.to))
      /\ timers' = timers \ {t}
      /\ UNCHANGED <<active, taken, pendingRead, readSent, decrypted, seen>>
      /\ \/ UNCHANGED <<items, cursors>>
         \/ UNCHANGED items /\ cursors' = cursors \cup {k}
         \/ Reported(k) /\ UNCHANGED cursors
  BY FireFacts
<1>2. k.chat = At(t.page) /\ k.kind = t.kind /\ k.upTo = t.upTo
  BY DEF CursorOf
<1> HIDE DEF k
<1>3. k.chat \in Chat /\ k.to \in Side /\ Other(k.to) \in Side
  BY <1>1, Sides DEF Cursor
<1>4. Reach(t.page) = taken[k.chat][Other(k.to)]
  <2>1. IsAt(k.chat, Other(k.to))
    BY <1>1, <1>2 DEF IsAt
  <2> QED
    BY <1>1, <1>3, <2>1, ReachOf
<1>5. Due(k)
  <2>1. t.upTo <= Reach(t.page) /\ (t.kind = "read" => t.upTo <= readSent[t.page])
    BY DEF CursorInv, TimerInv
  <2> QED
    BY <1>1, <1>2, <1>4, <2>1 DEF Due
<1>6. ReachInv' /\ TimerInv' /\ SeenInv'
  BY <1>1 DEF CursorInv, ReachInv, TimerInv, SeenInv, Reach, At
<1>7. \A l \in cursors' : Due(l)'
  <2>1. \A l \in cursors' : Due(l)
    BY <1>1, <1>5 DEF CursorInv
  <2> QED
    BY <1>1, <2>1 DEF Due
<1>8. ShownInv'
  <2>1. CASE UNCHANGED items
    BY <1>1, <2>1 DEF CursorInv, ShownInv, Mine
  <2>2. CASE Reported(k)
    BY <1>1, <1>5, <2>2, ReportedShown DEF CursorInv
  <2> QED
    BY <1>1, <2>1, <2>2
<1> QED
  BY <1>6, <1>7, <1>8 DEF CursorInv

LEMMA CollectCursors ==
  ASSUME ConversationTypes, StatusInv, CursorInv, NEW k \in cursors, Collect(k)
  PROVE  CursorInv'
<1>1. /\ k \in Cursor /\ cursors' = cursors \ {k} /\ Reported(k)
      /\ UNCHANGED <<active, taken, timers, pendingRead, readSent, decrypted, seen>>
  BY CollectFacts
<1>2. ReachInv' /\ TimerInv' /\ SeenInv'
  BY <1>1 DEF CursorInv, ReachInv, TimerInv, SeenInv, Reach, At
<1>3. \A l \in cursors' : Due(l)'
  BY <1>1 DEF CursorInv, Due
<1>4. Due(k)
  BY DEF CursorInv
<1>5. ShownInv'
  BY <1>1, <1>4, ReportedShown DEF CursorInv
<1> QED
  BY <1>2, <1>3, <1>5 DEF CursorInv

LEMMA LosesCursors ==
  ASSUME ConversationTypes, CursorInv, LosesReceipt
  PROVE  CursorInv'
<1>1. /\ timers' \subseteq timers /\ cursors' \subseteq cursors
      /\ UNCHANGED <<active, items, taken, pendingRead, readSent, decrypted, seen>>
  BY LosesFacts
<1>2. ReachInv' /\ TimerInv' /\ SeenInv'
  BY <1>1 DEF CursorInv, ReachInv, TimerInv, SeenInv, Reach, At
<1>3. \A l \in cursors' : Due(l)'
  BY <1>1 DEF CursorInv, Due
<1>4. ShownInv'
  BY <1>1 DEF CursorInv, ShownInv, Mine
<1> QED
  BY <1>2, <1>3, <1>4 DEF CursorInv

LEMMA FocusCursors ==
  ASSUME ConversationTypes, FrameInv, CursorInv, NEW p \in Page, Focus(p)
  PROVE  CursorInv'
<1>0. PICK r : r = [page |-> p, kind |-> "read", chat |-> At(p), upTo |-> pendingRead[p]]
  OBVIOUS
<1>1. /\ pendingRead[p] \in Nat /\ pendingRead[p] > readSent[p]
      /\ timers' = timers \cup {r}
      /\ readSent'[p] = pendingRead[p]
      /\ \A q \in Page : q # p => readSent'[q] = readSent[q]
      /\ \A c \in Chat, s \in Side :
           seen'[c][s] = IF PageOf(c, s) = p /\ IsAt(c, s) THEN decrypted[c][s] ELSE seen[c][s]
      /\ UNCHANGED <<active, items, taken, cursors, pendingRead, decrypted>>
  BY <1>0, FocusFacts
<1>2. \A q \in Page : /\ Reach(q)' = Reach(q) /\ At(q)' = At(q) /\ readSent[q] \in Nat
                      /\ readSent[q] <= readSent'[q]
  BY <1>1, ConversationTypeFacts DEF Reach, At
<1>3. ReachInv'
  BY <1>1, <1>2 DEF CursorInv, ReachInv
<1>4. TimerInv'
  <2>1. /\ r.page = p /\ r.chat = At(p) /\ r.upTo = pendingRead[p]
    BY <1>0
  <2>2. r.upTo <= Reach(r.page) /\ r.upTo <= readSent'[r.page]
    BY <1>1, <2>1 DEF CursorInv, ReachInv
  <2>3. ASSUME NEW t \in timers
        PROVE  /\ t.chat = At(t.page)' /\ t.upTo <= Reach(t.page)'
               /\ t.kind = "read" => t.upTo <= readSent'[t.page]
    <3>1. t.page \in Page /\ t.upTo \in Nat
      BY DEF ConversationTypes, Timer
    <3>2. readSent'[t.page] \in Nat /\ readSent[t.page] \in Nat /\ readSent[t.page] <= readSent'[t.page]
      BY <1>1, <1>2, <3>1, FocusFacts
    <3>3. /\ t.chat = At(t.page) /\ t.upTo <= Reach(t.page)
          /\ t.kind = "read" => t.upTo <= readSent[t.page]
      BY DEF CursorInv, TimerInv
    <3> QED
      BY <1>2, <3>1, <3>2, <3>3
  <2>4. r.chat = At(r.page)' /\ r.upTo <= Reach(r.page)'
    BY <1>2, <2>1, <2>2
  <2> QED
    BY <1>1, <2>2, <2>3, <2>4 DEF TimerInv
<1>5. ASSUME NEW c \in Chat, NEW s \in Side
      PROVE  /\ readSent[PageOf(c, s)] \in Nat /\ readSent'[PageOf(c, s)] \in Nat
             /\ readSent[PageOf(c, s)] <= readSent'[PageOf(c, s)]
  BY <1>1, <1>2, Sides, FocusFacts
<1>6. \A k \in cursors' : Due(k)'
  <2> SUFFICES ASSUME NEW k \in cursors PROVE Due(k)'
    BY <1>1
  <2>1. k.chat \in Chat /\ Other(k.to) \in Side /\ k.upTo \in Nat
    BY Sides DEF ConversationTypes, Cursor
  <2>2. Due(k)
    BY DEF CursorInv
  <2> QED
    BY <1>1, <1>5, <2>1, <2>2 DEF Due
<1>7. ShownInv'
  <2> SUFFICES ASSUME NEW c \in Chat, NEW s \in Side, NEW i \in Id, Mine(c, s, i),
                      items[c][s][i].status \in {"delivered", "read"}
               PROVE  /\ items[c][s][i].outSeq \in 1 .. taken[c][Other(s)]
                      /\ items[c][s][i].status = "read" =>
                           items[c][s][i].outSeq <= readSent'[PageOf(c, Other(s))]
    BY <1>1 DEF ShownInv, Mine
  <2>1. /\ items[c][s][i].outSeq \in 1 .. taken[c][Other(s)]
        /\ items[c][s][i].status = "read" =>
             items[c][s][i].outSeq <= readSent[PageOf(c, Other(s))]
    BY DEF CursorInv, ShownInv
  <2>2. taken[c][Other(s)] \in Nat /\ Other(s) \in Side
    BY ConversationTypeFacts, Sides
  <2> QED
    BY <1>5, <2>1, <2>2
<1>8. ASSUME NEW c \in Chat, NEW s \in Side, NEW n \in decrypted[c][s],
             n <= readSent'[PageOf(c, s)]
      PROVE  n \in seen'[c][s]
  <2>1. CASE PageOf(c, s) = p /\ IsAt(c, s)
    BY <1>1, <2>1
  <2>2. CASE PageOf(c, s) = p /\ ~IsAt(c, s)
    <3>1. s = "here" /\ c # active
      BY <2>2, ReachOf
    <3>2. taken[c][s] = 0
      BY <3>1 DEF CursorInv, ReachInv
    <3>3. decrypted[c][s] \subseteq 1 .. taken[c][s]
      BY DEF FrameInv
    <3> QED
      BY <3>2, <3>3
  <2>3. CASE PageOf(c, s) # p
    <3>1. PageOf(c, s) \in Page
      BY Sides
    <3> QED
      BY <1>1, <1>8, <2>3, <3>1 DEF CursorInv, SeenInv
  <2> QED
    BY <2>1, <2>2, <2>3
<1>9. SeenInv'
  BY <1>1, <1>8 DEF SeenInv
<1> QED
  BY <1>3, <1>4, <1>6, <1>7, <1>9 DEF CursorInv

LEMMA SelectCursors ==
  ASSUME ConversationTypes, FrameInv, CursorInv, NEW c \in Chat, Select(c), switches' < 2
  PROVE  CursorInv'
<1>1. /\ active # c /\ active' = c /\ switches' = switches + 1
      /\ UNCHANGED <<items, taken, timers, cursors, pendingRead, readSent, decrypted, seen>>
  BY SelectFacts
<1>2. active = Nothing
  BY <1>1 DEF ConversationTypes
<1>3. pendingRead["here"] = 0 /\ \A t \in timers : t.page # "here"
  BY <1>2 DEF ConversationTypes
<1>4. c # Nothing
  BY NothingElse
<1>5. \A d \in Chat : taken[d]["here"] = 0
  BY <1>2, NothingElse DEF CursorInv, ReachInv
<1>6. \A p \in Page : p # "here" => At(p)' = At(p) /\ Reach(p)' = Reach(p)
  BY <1>1 DEF At, Reach
<1>7. Reach("here") = 0 /\ Reach("here")' = 0
  BY <1>1, <1>2, <1>4, <1>5 DEF Reach, At, EndOf
<1>8. ReachInv'
  BY <1>1, <1>5, <1>6, <1>7 DEF CursorInv, ReachInv
<1>9. TimerInv'
  <2>1. \A t \in timers : t.page \in Page
    BY DEF ConversationTypes, Timer
  <2> QED
    BY <1>1, <1>3, <1>6, <2>1 DEF CursorInv, TimerInv
<1>10. (\A k \in cursors' : Due(k)') /\ ShownInv' /\ SeenInv'
  BY <1>1 DEF CursorInv, ShownInv, SeenInv, Due, Mine
<1> QED
  BY <1>8, <1>9, <1>10 DEF CursorInv

LEMMA ReceiveCursors ==
  ASSUME ConversationTypes, FrameInv, CursorInv, NEW c \in Chat, NEW s \in Side,
         NEW focused \in BOOLEAN, Receive(c, s, focused)
  PROVE  CursorInv'
<1>0. PICK n : n = taken[c][s] + 1
  OBVIOUS
<1>1. /\ IsAt(c, s) /\ UNCHANGED <<active, cursors>>
      /\ taken'[c][s] = n
      /\ \A d \in Chat, r \in Side : ~(d = c /\ r = s) => taken'[d][r] = taken[d][r]
      /\ Dropped(c) \/ Opened(c, s, focused)
  BY <1>0, ReceiveFacts
<1> DEFINE page == PageOf(c, s)
           dt == [page |-> page, kind |-> "delivered", chat |-> c, upTo |-> n]
           rt == [page |-> page, kind |-> "read", chat |-> c, upTo |-> n]
<1>2. /\ taken[c][s] \in Nat /\ n \in Nat /\ page \in Page
      /\ readSent[page] \in Nat /\ pendingRead[page] \in Nat
  BY <1>0, ConversationTypeFacts, Sides
<1>3. readSent[page] <= taken[c][s] /\ pendingRead[page] <= taken[c][s] /\ At(page) = c
  BY <1>1, <1>2, ReachOf DEF CursorInv, ReachInv, IsAt
<1> HIDE DEF page
<1>4. /\ UNCHANGED <<timers, readSent, pendingRead, decrypted, seen>>
      \/ /\ timers \subseteq timers'
         /\ \A t \in timers' : t \in timers \/ t = dt \/ (t = rt /\ n <= readSent'[page])
         /\ \A q \in Page : q # page =>
              readSent'[q] = readSent[q] /\ pendingRead'[q] = pendingRead[q]
         /\ readSent'[page] = IF focused /\ n > readSent[page] THEN n ELSE readSent[page]
         /\ pendingRead'[page] =
              IF ~focused /\ n > pendingRead[page] THEN n ELSE pendingRead[page]
         /\ \A d \in Chat, r \in Side : ~(d = c /\ r = s) =>
              decrypted'[d][r] = decrypted[d][r] /\ seen'[d][r] = seen[d][r]
         /\ decrypted'[c][s] = decrypted[c][s] \cup {n}
         /\ seen'[c][s] = IF focused THEN decrypted'[c][s] ELSE seen[c][s]
  <2>1. CASE Dropped(c)
    BY <2>1 DEF Dropped
  <2>2. CASE Opened(c, s, focused)
    <3>1. /\ timers' = timers \cup {dt} \cup IF focused /\ n > readSent[page] THEN {rt} ELSE {}
          /\ readSent'[page] = IF focused /\ n > readSent[page] THEN n ELSE readSent[page]
      BY <1>0, <2>2 DEF Opened, page
    <3> HIDE DEF dt, rt
    <3>2. \A t \in timers' : t \in timers \/ t = dt \/ (t = rt /\ n <= readSent'[page])
      BY <1>2, <3>1
    <3>3. timers \subseteq timers'
      BY <3>1
    <3> QED
      BY <1>0, <2>2, <3>1, <3>2, <3>3 DEF Opened, page
  <2> QED
    BY <1>1, <2>1, <2>2
<1>5. /\ readSent'[page] \in Nat /\ readSent[page] <= readSent'[page] /\ readSent'[page] <= n
      /\ pendingRead'[page] \in Nat /\ pendingRead'[page] <= n
      /\ \A q \in Page : q # page => readSent'[q] = readSent[q] /\ pendingRead'[q] = pendingRead[q]
  BY <1>0, <1>2, <1>3, <1>4
<1>6. \A q \in Page : /\ readSent[q] \in Nat /\ readSent'[q] \in Nat
                      /\ readSent[q] <= readSent'[q]
  BY <1>5, ConversationTypeFacts
<1>7. \A d \in Chat, r \in Side : /\ taken[d][r] \in Nat /\ taken'[d][r] \in Nat
                                  /\ taken[d][r] <= taken'[d][r]
  BY <1>0, <1>1, <1>2, ConversationTypeFacts
<1>8. /\ \A q \in Page : At(q)' = At(q) /\ (q # page => Reach(q)' = Reach(q))
      /\ Reach(page)' = n /\ Reach(page) = taken[c][s]
  <2>1. \A q \in Page : At(q)' = At(q)
    BY <1>1 DEF At
  <2>2. Reach(page)' = n /\ Reach(page) = taken[c][s]
    <3>1. EndOf(page) = s
      BY NothingElse DEF page, PageOf, EndOf, Side
    <3>2. c # Nothing
      BY NothingElse
    <3> QED
      BY <1>1, <1>2, <1>3, <2>1, <3>1, <3>2 DEF Reach
  <2>3. ASSUME NEW q \in Page, q # page, At(q) # Nothing
        PROVE  Reach(q)' = Reach(q)
    <3>1. At(q) \in Chat /\ EndOf(q) \in Side
      BY <2>3 DEF At, Page, EndOf, Side, ConversationTypes
    <3>2. ~(At(q) = c /\ EndOf(q) = s)
      BY <2>3, NothingElse DEF At, Page, EndOf, Side, page, PageOf
    <3> QED
      BY <1>1, <2>1, <3>1, <3>2 DEF Reach
  <2>4. \A q \in Page : q # page => Reach(q)' = Reach(q)
    BY <2>1, <2>3 DEF Reach
  <2> QED
    BY <2>1, <2>2, <2>4
<1>9. ReachInv'
  <2>1. ASSUME NEW d \in Chat, d # active
        PROVE  taken'[d]["here"] = 0
    <3>1. "here" \in Side /\ ~(d = c /\ "here" = s)
      BY <1>1, <2>1 DEF Side, IsAt, At, PageOf
    <3> QED
      BY <1>1, <2>1, <3>1 DEF CursorInv, ReachInv
  <2>2. \A q \in Page : pendingRead'[q] <= Reach(q)' /\ readSent'[q] <= Reach(q)'
    BY <1>5, <1>8 DEF CursorInv, ReachInv
  <2> QED
    BY <1>1, <2>1, <2>2 DEF ReachInv
<1>10. TimerInv'
  <2>1. ASSUME NEW t \in timers
        PROVE  /\ t.chat = At(t.page)' /\ t.upTo <= Reach(t.page)'
               /\ t.kind = "read" => t.upTo <= readSent'[t.page]
    <3>1. t.page \in Page /\ t.upTo \in Nat
      BY DEF ConversationTypes, Timer
    <3>2. /\ t.chat = At(t.page) /\ t.upTo <= Reach(t.page)
          /\ t.kind = "read" => t.upTo <= readSent[t.page]
      BY DEF CursorInv, TimerInv
    <3>3. Reach(t.page) \in Nat /\ Reach(t.page) <= Reach(t.page)'
      BY <1>0, <1>2, <1>8, <3>1, ReachOf
    <3>4. t.upTo <= Reach(t.page)'
      <4>1. Reach(t.page)' \in Nat
        BY <1>2, <1>8, <3>1, <3>3
      <4> QED
        BY <3>1, <3>2, <3>3, <4>1
    <3>5. t.kind = "read" => t.upTo <= readSent'[t.page]
      BY <1>6, <3>1, <3>2
    <3> QED
      BY <1>8, <3>1, <3>2, <3>4, <3>5
  <2>2. /\ dt.page = page /\ dt.chat = c /\ dt.upTo = n /\ dt.kind # "read"
        /\ rt.page = page /\ rt.chat = c /\ rt.upTo = n
    OBVIOUS
  <2> HIDE DEF dt, rt
  <2>3. At(page)' = c /\ n <= Reach(page)'
    BY <1>2, <1>3, <1>8
  <2>4. ASSUME NEW t \in timers'
        PROVE  /\ t.chat = At(t.page)' /\ t.upTo <= Reach(t.page)'
               /\ t.kind = "read" => t.upTo <= readSent'[t.page]
    <3>1. t \in timers \/ (t.page = page /\ t.chat = c /\ t.upTo = n
                            /\ (t.kind = "read" => n <= readSent'[page]))
      BY <1>4, <2>2
    <3> QED
      BY <2>1, <2>3, <3>1
  <2> QED
    BY <2>4 DEF TimerInv
<1>11. \A k \in cursors' : Due(k)'
  <2> SUFFICES ASSUME NEW k \in cursors PROVE Due(k)'
    BY <1>1
  <2>1. /\ k.chat \in Chat /\ Other(k.to) \in Side /\ k.upTo \in Nat
        /\ PageOf(k.chat, Other(k.to)) \in Page
    BY Sides DEF ConversationTypes, Cursor
  <2>2. Due(k)
    BY DEF CursorInv
  <2> QED
    BY <1>6, <1>7, <2>1, <2>2 DEF Due
<1>12. ShownInv'
  <2>1. ASSUME NEW d \in Chat, NEW r \in Side, NEW i \in Id, Mine(d, r, i)',
               items'[d][r][i].status \in {"delivered", "read"}
        PROVE  /\ items'[d][r][i].outSeq \in 1 .. taken'[d][Other(r)]
               /\ items'[d][r][i].status = "read" =>
                    items'[d][r][i].outSeq <= readSent'[PageOf(d, Other(r))]
    <3>1. Kept(d, r, i)
      BY ReceiveKeeps
    <3>2. /\ Mine(d, r, i) /\ items'[d][r][i].status = items[d][r][i].status
          /\ items'[d][r][i].outSeq = items[d][r][i].outSeq
      BY <2>1, <3>1 DEF Kept
    <3>3. /\ items[d][r][i].outSeq \in 1 .. taken[d][Other(r)]
          /\ items[d][r][i].status = "read" =>
               items[d][r][i].outSeq <= readSent[PageOf(d, Other(r))]
      BY <2>1, <3>2 DEF CursorInv, ShownInv
    <3>4. Other(r) \in Side /\ PageOf(d, Other(r)) \in Page
      BY Sides
    <3> QED
      BY <1>6, <1>7, <3>2, <3>3, <3>4
  <2> QED
    BY <2>1 DEF ShownInv
<1>13. ASSUME NEW d \in Chat, NEW r \in Side, NEW k \in decrypted'[d][r],
              k <= readSent'[PageOf(d, r)]
       PROVE  k \in seen'[d][r]
  <2>1. ASSUME UNCHANGED <<readSent, decrypted, seen>>
        PROVE  k \in seen'[d][r]
    BY <1>13, <2>1 DEF CursorInv, SeenInv
  <2>2. CASE d = c /\ r = s /\ UNCHANGED <<readSent, decrypted, seen>>
    BY <2>1, <2>2
  <2>3. CASE d = c /\ r = s /\ ~UNCHANGED <<readSent, decrypted, seen>>
    <3>1. CASE focused
      BY <1>4, <2>3, <3>1
    <3>2. CASE ~focused
      <4>1. readSent'[page] = readSent[page] /\ seen'[c][s] = seen[c][s]
            /\ decrypted'[c][s] = decrypted[c][s] \cup {n}
        BY <1>4, <2>3, <3>2
      <4>2. k # n
        BY <1>0, <1>2, <1>3, <1>13, <2>3, <4>1 DEF page
      <4> QED
        BY <1>13, <2>3, <4>1, <4>2 DEF CursorInv, SeenInv, page
    <3> QED
      BY <3>1, <3>2
  <2>4. CASE ~(d = c /\ r = s)
    <3>1. decrypted'[d][r] = decrypted[d][r] /\ seen'[d][r] = seen[d][r]
      BY <1>4, <2>4
    <3>2. CASE PageOf(d, r) = page
      <4>1. d # active /\ r = "here"
        BY <1>1, <2>4, <3>2, NothingElse DEF page, PageOf, Side, IsAt, At
      <4>2. taken[d][r] = 0 /\ decrypted[d][r] \subseteq 1 .. taken[d][r]
        BY <4>1 DEF CursorInv, ReachInv, FrameInv
      <4> QED
        BY <1>13, <3>1, <4>2
    <3>3. CASE PageOf(d, r) # page
      <4>1. PageOf(d, r) \in Page
        BY Sides
      <4>2. readSent'[PageOf(d, r)] = readSent[PageOf(d, r)]
        BY <1>5, <3>3, <4>1
      <4> QED
        BY <1>13, <3>1, <4>2 DEF CursorInv, SeenInv
    <3> QED
      BY <3>2, <3>3
  <2> QED
    BY <2>2, <2>3, <2>4
<1>14. SeenInv'
  BY <1>13 DEF SeenInv
<1> QED
  BY <1>9, <1>10, <1>11, <1>12, <1>14 DEF CursorInv

LEMMA CursorStep ==
  ASSUME ConversationTypes, FrameInv, StatusInv, CursorInv, [ConversationNext]_conversationVars,
         switches' < 2
  PROVE  CursorInv'
<1>1. CASE UNCHANGED conversationVars
  <2>1. UNCHANGED <<active, items, taken, timers, cursors, pendingRead, readSent, decrypted, seen>>
    BY <1>1 DEF conversationVars, lists, transport, receipts, history
  <2> QED
    BY <2>1, CursorsStay DEF Mine
<1>2. ASSUME NEW c \in Chat, Select(c)
      PROVE  CursorInv'
  BY <1>2, SelectCursors
<1>3. ASSUME NEW c \in Chat, Handshake(c)
      PROVE  CursorInv'
  <2>1. UNCHANGED <<active, items, taken, timers, cursors, pendingRead, readSent, decrypted, seen>>
    BY <1>3, HandshakeFacts DEF Handshake
  <2> QED
    BY <2>1, CursorsStay DEF Mine
<1>4. ASSUME NEW c \in Chat, NEW s \in Side, NEW kind \in Kind, NEW i \in Id, Send(c, s, kind, i)
      PROVE  CursorInv'
  <2>1. UNCHANGED <<active, taken, timers, cursors, pendingRead, readSent, decrypted, seen>>
    BY <1>4, SendFacts
  <2>2. /\ \A d \in Chat, r \in Side, j \in Id :
             ~(kind = "text" /\ d = c /\ r = s /\ j = i) => Kept(d, r, j)
        /\ kind = "text" => items'[c][s][i].status \in {"sending", "failed"}
    BY <1>4, SendKeeps
  <2>3. \A d \in Chat, r \in Side, j \in Id :
           Mine(d, r, j)' /\ items'[d][r][j].status \in {"delivered", "read"} =>
             /\ Mine(d, r, j) /\ items'[d][r][j].status = items[d][r][j].status
             /\ items'[d][r][j].outSeq = items[d][r][j].outSeq
    BY <2>2 DEF Kept
  <2> QED
    BY <2>1, <2>3, CursorsStay
<1>5. ASSUME NEW p \in pushes, Push(p)
      PROVE  CursorInv'
  <2>1. UNCHANGED <<active, items, taken, timers, cursors, pendingRead, readSent, decrypted, seen>>
    BY <1>5, PushFacts
  <2> QED
    BY <2>1, CursorsStay DEF Mine
<1>6. ASSUME NEW p \in pushes, PushAnswered(p)
      PROVE  CursorInv'
  <2>1. /\ p \in Payload /\ p.at = "answer" /\ p.seq \in Nat
        /\ SetStatus(p.chat, p.from, p.target, "sent", p.seq)
        /\ UNCHANGED <<active, taken, timers, cursors, pendingRead, readSent, decrypted, seen>>
    BY <1>6, AnsweredFacts
  <2>2. "sent" \in Status
    BY DEF Status
  <2>3. p.chat \in Chat /\ p.from \in Side /\ p.target \in Id
    BY <2>1 DEF Payload
  <2>4. /\ \A d \in Chat, r \in Side, j \in Id :
             ~(d = p.chat /\ r = p.from /\ j = p.target) => items'[d][r][j] = items[d][r][j]
        /\ StatusOnly(items[p.chat][p.from][p.target], items'[p.chat][p.from][p.target])
        /\ items[p.chat][p.from][p.target] # Nothing =>
             items'[p.chat][p.from][p.target].status = "sent"
    BY <2>1, <2>2, <2>3, StatusSet
  <2>5. \A d \in Chat, r \in Side, j \in Id :
           Mine(d, r, j)' /\ items'[d][r][j].status \in {"delivered", "read"} =>
             items'[d][r][j] = items[d][r][j]
    BY <2>4 DEF Mine, StatusOnly
  <2> QED
    BY <2>1, <2>5, CursorsStay DEF Mine
<1>7. ASSUME NEW p \in pushes, PushFails(p)
      PROVE  CursorInv'
  <2>1. /\ p \in Payload
        /\ p.kind = "text" => SetStatus(p.chat, p.from, p.target, "failed", Nothing)
        /\ p.kind # "text" => UNCHANGED items
        /\ UNCHANGED <<active, taken, timers, cursors, pendingRead, readSent, decrypted, seen>>
    BY <1>7, FailsFacts
  <2>2. "failed" \in Status
    BY DEF Status
  <2>3. p.chat \in Chat /\ p.from \in Side /\ p.target \in Id
    BY <2>1 DEF Payload
  <2>4. CASE p.kind = "text"
    <3>1. /\ \A d \in Chat, r \in Side, j \in Id :
               ~(d = p.chat /\ r = p.from /\ j = p.target) => items'[d][r][j] = items[d][r][j]
          /\ StatusOnly(items[p.chat][p.from][p.target], items'[p.chat][p.from][p.target])
          /\ items[p.chat][p.from][p.target] # Nothing =>
               items'[p.chat][p.from][p.target].status = "failed"
      BY <2>1, <2>2, <2>3, <2>4, StatusSet
    <3>2. \A d \in Chat, r \in Side, j \in Id :
             Mine(d, r, j)' /\ items'[d][r][j].status \in {"delivered", "read"} =>
               items'[d][r][j] = items[d][r][j]
      BY <3>1 DEF Mine, StatusOnly
    <3> QED
      BY <2>1, <3>2, CursorsStay DEF Mine
  <2>5. CASE p.kind # "text"
    BY <2>1, <2>5, CursorsStay DEF Mine
  <2> QED
    BY <2>4, <2>5
<1> QED
  BY <1>1, <1>2, <1>3, <1>4, <1>5, <1>6, <1>7, ReceiveCursors, FocusCursors, FireCursors,
     CollectCursors, LosesCursors, ConversationSteps

LEMMA SwitchesGrow ==
  ASSUME ConversationTypes, FrameInv, StatusInv, [ConversationNext]_conversationVars
  PROVE  switches' = switches \/ switches' = switches + 1
<1>1. CASE UNCHANGED conversationVars
  BY <1>1 DEF conversationVars, history
<1>2. \A c \in Chat : Select(c) => switches' = switches + 1
  BY SelectFacts
<1>3. \A c \in Chat : Handshake(c) => switches' = switches
  BY HandshakeFacts
<1>4. \A c \in Chat, s \in Side, k \in Kind, i \in Id : Send(c, s, k, i) => switches' = switches
  BY SendFacts
<1>5. \A c \in Chat, s \in Side, f \in BOOLEAN : Receive(c, s, f) => switches' = switches
  BY ReceiveFacts
<1>6. \A p \in pushes : Push(p) => switches' = switches
  BY PushFacts
<1>7. \A p \in pushes : PushAnswered(p) \/ PushFails(p) => switches' = switches
  BY AnsweredFacts, FailsFacts
<1>8. \A p \in Page : Focus(p) => switches' = switches
  BY FocusFacts
<1>9. \A t \in timers : Fire(t) => switches' = switches
  BY FireFacts
<1>10. \A k \in cursors : Collect(k) => switches' = switches
  BY CollectFacts
<1> QED
  BY <1>1, <1>2, <1>3, <1>4, <1>5, <1>6, <1>7, <1>8, <1>9, <1>10, LosesFacts, ConversationSteps

LEMMA OneChatStep ==
  ASSUME ConversationTypes, FrameInv, StatusInv, OneChatInv, [ConversationNext]_conversationVars
  PROVE  OneChatInv'
<1>1. switches' < 2 => switches < 2
  BY SwitchesGrow DEF ConversationTypes
<1> QED
  BY <1>1, CursorStep DEF OneChatInv

LEMMA OpenedStep ==
  ASSUME ConversationTypes, FrameInv, OpenedInv, [ConversationNext]_conversationVars
  PROVE  OpenedInv'
<1>1. ASSUME UNCHANGED <<taken, decrypted>>, disturbed \subseteq disturbed'
      PROVE  OpenedInv'
  BY <1>1 DEF OpenedInv
<1>2. CASE UNCHANGED conversationVars
  BY <1>1, <1>2 DEF conversationVars, transport, history
<1>3. ASSUME NEW c \in Chat, NEW s \in Side, NEW focused \in BOOLEAN, Receive(c, s, focused)
      PROVE  OpenedInv'
  <2>1. PICK n : n = taken[c][s] + 1
    OBVIOUS
  <2>2. /\ taken'[c][s] = n
        /\ \A d \in Chat, r \in Side : ~(d = c /\ r = s) => taken'[d][r] = taken[d][r]
        /\ Dropped(c) \/ Opened(c, s, focused)
    BY <1>3, <2>1, ReceiveFacts
  <2>3. CASE Dropped(c)
    <3>1. c \in disturbed' /\ disturbed \subseteq disturbed' /\ decrypted' = decrypted
      BY <2>3 DEF Dropped
    <3> QED
      BY <2>2, <3>1 DEF OpenedInv
  <2>4. CASE Opened(c, s, focused)
    <3>1. /\ disturbed' = disturbed
          /\ \A d \in Chat, r \in Side : ~(d = c /\ r = s) => decrypted'[d][r] = decrypted[d][r]
          /\ decrypted'[c][s] = decrypted[c][s] \cup {n}
      BY <2>1, <2>4 DEF Opened
    <3>2. taken[c][s] \in Nat
      BY ConversationTypeFacts
    <3>3. 1 .. n = (1 .. taken[c][s]) \cup {n}
      BY <2>1, <3>2
    <3>4. ASSUME NEW d \in Chat \ disturbed', NEW r \in Side
          PROVE  decrypted'[d][r] = 1 .. taken'[d][r]
      <4>1. d \in Chat \ disturbed /\ decrypted[d][r] = 1 .. taken[d][r]
        BY <3>1 DEF OpenedInv
      <4>2. CASE d = c /\ r = s
        BY <2>2, <3>1, <3>3, <4>1, <4>2
      <4>3. CASE ~(d = c /\ r = s)
        BY <2>2, <3>1, <4>1, <4>3
      <4> QED
        BY <4>2, <4>3
    <3> QED
      BY <3>4 DEF OpenedInv
  <2> QED
    BY <2>2, <2>3, <2>4
<1>4. ASSUME NEW c \in Chat, NEW s \in Side, NEW kind \in Kind, NEW i \in Id, Send(c, s, kind, i)
      PROVE  OpenedInv'
  BY <1>1, <1>4, SendFacts
<1>5. ASSUME NEW p \in pushes, PushFails(p)
      PROVE  OpenedInv'
  BY <1>1, <1>5, FailsFacts
<1>6. ASSUME NEW p \in pushes, Push(p)
      PROVE  OpenedInv'
  BY <1>1, <1>6, PushFacts
<1>7. ASSUME NEW p \in pushes, PushAnswered(p)
      PROVE  OpenedInv'
  BY <1>1, <1>7 DEF PushAnswered, receipts, history
<1>8. ASSUME NEW c \in Chat, Select(c) \/ Handshake(c)
      PROVE  OpenedInv'
  BY <1>1, <1>8, SelectFacts, HandshakeFacts
<1>9. ASSUME NEW p \in Page, Focus(p)
      PROVE  OpenedInv'
  BY <1>1, <1>9, FocusFacts
<1>10. ASSUME NEW t \in timers, Fire(t)
       PROVE  OpenedInv'
  BY <1>1, <1>10, FireFacts
<1>11. ASSUME NEW k \in cursors, Collect(k)
       PROVE  OpenedInv'
  BY <1>1, <1>11, CollectFacts
<1>12. CASE LosesReceipt
  BY <1>1, <1>12, LosesFacts
<1> QED
  BY <1>2, <1>3, <1>4, <1>5, <1>6, <1>7, <1>8, <1>9, <1>10, <1>11, <1>12, ConversationSteps

LEMMA ConversationSafe ==
  ConversationSpec =>
    [](ConversationTypes /\ FrameInv /\ StatusInv /\ OwedInv /\ OneChatInv /\ OpenedInv)
<1> DEFINE Inv == /\ ConversationTypes /\ FrameInv /\ StatusInv /\ OwedInv
                  /\ OneChatInv /\ OpenedInv
<1>1. ConversationInit => Inv
  BY TypesInit, FramesInit, StatusInit, OneChatInit DEF OneChatInv
<1>2. Inv /\ [ConversationNext]_conversationVars => Inv'
  <2> SUFFICES ASSUME Inv, [ConversationNext]_conversationVars PROVE Inv'
    OBVIOUS
  <2>1. ConversationTypes' /\ FrameInv'
    BY TypesStep
  <2> QED
    BY <2>1, StatusStep, OwedStep, OneChatStep, OpenedStep
<1> QED
  BY <1>1, <1>2, PTL DEF ConversationSpec

-----------------------------------------------------------------------------
(* Conversation: the properties                                            *)

\* useQueueTransport.ts:619, Chats.tsx:229.  In every behaviour of the pages, a
\* message that the other end has opened stays at sent only while its own receipt
\* is under way, or when one came before its answer, or its own was given up.
THEOREM SentHasReason == ConversationSpec => []SentForAReason
<1>1. OwedInv => SentForAReason
  <2> SUFFICES ASSUME OwedInv, NEW c \in Chat, NEW s \in Side, NEW i \in Id,
                      items[c][s][i] # Nothing, items[c][s][i].own,
                      items[c][s][i].status = "sent",
                      items[c][s][i].outSeq \in decrypted[c][Other(s)]
               PROVE  LET k == [chat |-> c, to |-> s, kind |-> "delivered",
                                upTo |-> items[c][s][i].outSeq]
                      IN  \/ \E t \in timers : CursorOf(t, t.chat) = k
                          \/ k \in cursors \cup forgone
                          \/ i \in late
    BY DEF SentForAReason
  <2>1. PICK n : n = items[c][s][i].outSeq
    OBVIOUS
  <2>2. Owed(c, s, n) \/ i \in late
    BY <2>1 DEF OwedInv, Mine
  <2> DEFINE t == [page |-> PageOf(c, Other(s)), kind |-> "delivered", chat |-> c, upTo |-> n]
  <2>3. CursorOf(t, t.chat) = [chat |-> c, to |-> s, kind |-> "delivered", upTo |-> n]
    BY SenderBack DEF CursorOf
  <2> QED
    BY <2>1, <2>2, <2>3 DEF Owed
<1> QED
  BY <1>1, ConversationSafe, PTL

\* Chats.tsx:220-238, useQueueTransport.ts:619.  While the user has been at one
\* chat only, a message shown as delivered or read in a chat of which nothing was
\* lost has been opened at the other end.
THEOREM DeliveredWasOpened == ConversationSpec => []DeliveredUnlessDisturbed
<1>1. OneChatInv /\ OpenedInv => DeliveredUnlessDisturbed
  <2> SUFFICES ASSUME OneChatInv, OpenedInv, NEW c \in Chat \ disturbed, NEW s \in Side,
                      NEW m \in Own(c, s), m.status \in {"delivered", "read"}, switches < 2
               PROVE  m.outSeq \in decrypted[c][Other(s)]
    BY DEF DeliveredUnlessDisturbed
  <2>1. PICK i \in Id : m = items[c][s][i] /\ Mine(c, s, i)
    BY DEF Own, Mine
  <2>2. m.outSeq \in 1 .. taken[c][Other(s)]
    BY <2>1 DEF OneChatInv, CursorInv, ShownInv
  <2> QED
    BY <2>2, Sides DEF OpenedInv
<1> QED
  BY <1>1, ConversationSafe, PTL

\* useQueueTransport.ts:615-618.  While the reader has been at one chat only, a
\* message shown as read was there when its window was focused on the chat.
THEOREM ReadWasSeen == ConversationSpec => []ReadMeansSeenUnlessSwitched
<1>1. OneChatInv => ReadMeansSeenUnlessSwitched
  <2> SUFFICES ASSUME OneChatInv, switches < 2, NEW c \in Chat, NEW s \in Side,
                      NEW m \in Own(c, s), m.status = "read",
                      m.outSeq \in decrypted[c][Other(s)]
               PROVE  m.outSeq \in seen[c][Other(s)]
    BY DEF ReadMeansSeenUnlessSwitched, ReadMeansSeen
  <2>1. PICK i \in Id : m = items[c][s][i] /\ Mine(c, s, i)
    BY DEF Own, Mine
  <2>2. m.outSeq <= readSent[PageOf(c, Other(s))]
    BY <2>1 DEF OneChatInv, CursorInv, ShownInv
  <2> QED
    BY <2>2, Sides DEF OneChatInv, CursorInv, SeenInv
<1> QED
  BY <1>1, ConversationSafe, PTL

-----------------------------------------------------------------------------
(* Conversation: what is on its way about a message                        *)

\* The frames from end s about message i, with their places; a push under way
\* has place 0 and comes last.
Line(c, s, i) ==
  {<<n, queue[c][Other(s)][n]>> :
     n \in {n \in Coming(c, Other(s)) : queue[c][Other(s)][n].target = i}} \cup
  {<<0, p>> : p \in {p \in pushes : /\ p.at = "push" /\ p.chat = c
                                    /\ p.from = s /\ p.target = i}}

Sooner(x, y) == x[1] # 0 /\ (y[1] = 0 \/ x[1] < y[1])
OfKind(L, K) == {x \in L : x[2].kind \in K}
IsLast(L, x) == x \in L /\ \A y \in L \ {x} : Sooner(y, x)
Owners == {"text", "edit", "delete"}

\* How message a of end s, message b of the other end, and what is on its way
\* from s (L) and to s (R), fit together.
Ordered(L) == \A x, y \in L : x # y => Sooner(x, y) \/ Sooner(y, x)
OneOwner(a, b, L, R) ==
  /\ a # Nothing /\ a.own => b = Nothing \/ ~b.own
  /\ (a # Nothing /\ a.own) \/ OfKind(L, Owners) # {} =>
       (b = Nothing \/ ~b.own) /\ OfKind(R, Owners) = {}
TextFirst(a, b, L, R) ==
  \A x \in OfKind(L, {"text"}) :
    b = Nothing /\ R = {} /\ \A y \in L \ {x} : Sooner(x, y)
DeleteLast(a, L) == \A x \in OfKind(L, {"delete"}) : a = Nothing /\ IsLast(L, x)
Targets(b, L) ==
  OfKind(L, {"edit", "delete"}) # {} => b # Nothing \/ OfKind(L, {"text"}) # {}
TextAgrees(a, b, L, R) ==
  /\ OfKind(L, Owners) = {} /\ OfKind(R, Owners) = {} =>
       (a = Nothing <=> b = Nothing) /\ (a # Nothing => a.text = b.text)
  /\ \A x \in OfKind(L, Owners) : IsLast(OfKind(L, Owners), x) /\ x[2].kind # "delete" =>
       a # Nothing /\ a.own /\ a.text = x[2].number
ReactionAgrees(s, a, b, L) ==
  /\ a # Nothing /\ (b # Nothing \/ OfKind(L, {"text"}) # {}) =>
       /\ \A x \in OfKind(L, Reactions) :
            IsLast(OfKind(L, Reactions), x) => (s \in a.reacted <=> x[2].kind = "react")
       /\ OfKind(L, Reactions) = {} => (s \in a.reacted <=> b # Nothing /\ s \in b.reacted)
  /\ a # Nothing /\ OfKind(L, {"text"}) # {} => Other(s) \notin a.reacted

Half(s, a, b, L, R) ==
  /\ Ordered(L) /\ OneOwner(a, b, L, R) /\ TextFirst(a, b, L, R) /\ DeleteLast(a, L)
  /\ Targets(b, L) /\ TextAgrees(a, b, L, R) /\ ReactionAgrees(s, a, b, L)
AgreeInv ==
  \A c \in Chat \ disturbed, s \in Side, i \in Id :
    Half(s, items[c][s][i], items[c][Other(s)][i], Line(c, s, i), Line(c, Other(s), i))

-----------------------------------------------------------------------------
(* Conversation: what is on its way, whatever the message                  *)

Placed(L) == \A x \in L : x[1] \in Nat /\ x[2] \in Payload

LEMMA SoonerOneWay ==
  ASSUME NEW L, Placed(L), NEW x \in L, NEW y \in L, Sooner(x, y)
  PROVE  ~Sooner(y, x) /\ x # y
  BY DEF Placed, Sooner

LEMMA OfKindIn ==
  ASSUME NEW L, NEW K
  PROVE  /\ OfKind(L, K) \subseteq L
         /\ \A x \in L : x \in OfKind(L, K) <=> x[2].kind \in K
  BY DEF OfKind

\* A push begins: its frame is the last of the line.
LEMMA LineGrows ==
  ASSUME NEW L, Placed(L), Ordered(L), \A y \in L : y[1] # 0, NEW z, z[1] = 0, z[2] \in Payload
  PROVE  LET M == L \cup {z}
         IN  /\ z \notin L /\ Ordered(M) /\ \A y \in L : Sooner(y, z)
             /\ \A K : /\ z[2].kind \in K => OfKind(M, K) = OfKind(L, K) \cup {z}
                       /\ z[2].kind \notin K => OfKind(M, K) = OfKind(L, K)
                       /\ z[2].kind \in K => \A x : IsLast(OfKind(M, K), x) => x = z
<1> DEFINE M == L \cup {z}
<1>1. z \notin L
  OBVIOUS
<1>2. \A y \in L : Sooner(y, z) /\ ~Sooner(z, y)
  BY DEF Sooner
<1>3. Ordered(M)
  BY <1>2 DEF Ordered
<1>4. ASSUME NEW K
      PROVE  /\ z[2].kind \in K => OfKind(M, K) = OfKind(L, K) \cup {z}
             /\ z[2].kind \notin K => OfKind(M, K) = OfKind(L, K)
  BY DEF OfKind
<1>5. ASSUME NEW K, z[2].kind \in K, NEW x, IsLast(OfKind(M, K), x)
      PROVE  x = z
  <2>1. x \in M /\ z \in OfKind(M, K)
    BY <1>4, <1>5 DEF IsLast, OfKind
  <2>2. x # z => Sooner(z, x)
    BY <1>5, <2>1 DEF IsLast
  <2> QED
    BY <1>2, <2>1, <2>2
<1> QED
  BY <1>1, <1>2, <1>3, <1>4, <1>5

\* The first frame of the line arrives.
LEMMA LineShrinks ==
  ASSUME NEW L, Placed(L), Ordered(L), NEW x \in L, \A y \in L \ {x} : Sooner(x, y)
  PROVE  LET M == L \ {x}
         IN  /\ Ordered(M)
             /\ \A K : /\ x[2].kind \in K => OfKind(L, K) = OfKind(M, K) \cup {x}
                       /\ x[2].kind \notin K => OfKind(M, K) = OfKind(L, K)
                       /\ \A y : IsLast(OfKind(M, K), y) => IsLast(OfKind(L, K), y)
                       /\ x[2].kind \in K /\ OfKind(M, K) = {} => IsLast(OfKind(L, K), x)
                       /\ OfKind(M, K) \subseteq OfKind(L, K)
<1> DEFINE M == L \ {x}
<1>1. Ordered(M)
  BY DEF Ordered
<1>2. ASSUME NEW K
      PROVE  /\ x[2].kind \in K => OfKind(L, K) = OfKind(M, K) \cup {x}
             /\ x[2].kind \notin K => OfKind(M, K) = OfKind(L, K)
             /\ OfKind(M, K) \subseteq OfKind(L, K) /\ OfKind(M, K) \subseteq M
  BY DEF OfKind
<1>3. ASSUME NEW K, NEW y, IsLast(OfKind(M, K), y)
      PROVE  IsLast(OfKind(L, K), y)
  <2>1. y \in OfKind(M, K) /\ y \in OfKind(L, K) /\ Sooner(x, y)
    BY <1>2, <1>3 DEF IsLast
  <2>2. \A w \in OfKind(L, K) : w \in OfKind(M, K) \/ w = x
    BY DEF OfKind
  <2> QED
    BY <1>3, <2>1, <2>2 DEF IsLast
<1>4. ASSUME NEW K, x[2].kind \in K, OfKind(M, K) = {}
      PROVE  IsLast(OfKind(L, K), x)
  BY <1>2, <1>4, ZenonT(30) DEF IsLast
<1> QED
  BY <1>1, <1>2, <1>3, <1>4

\* A frame is pushed, and is still the last of the line.
Moved(L, M, z, w) ==
  /\ Ordered(M) /\ Placed(M) /\ w \notin L
  /\ \A y \in L \ {z} : Sooner(y, z) /\ Sooner(y, w) /\ ~Sooner(w, y) /\ ~Sooner(z, y)
  /\ \A K : /\ z[2].kind \in K => OfKind(M, K) = (OfKind(L, K) \ {z}) \cup {w}
            /\ z[2].kind \notin K => OfKind(M, K) = OfKind(L, K)
            /\ OfKind(M, K) = {} <=> OfKind(L, K) = {}
            /\ z[2].kind \in K => \A x : IsLast(OfKind(M, K), x) => x = w
            /\ z[2].kind \in K => IsLast(OfKind(L, K), z)

LEMMA LineMoves ==
  ASSUME NEW L, Placed(L), Ordered(L), NEW z \in L, z[1] = 0,
         NEW w, w[1] \in Nat, w[2] = z[2], \A y \in L : y[1] < w[1]
  PROVE  Moved(L, (L \ {z}) \cup {w}, z, w)
<1> DEFINE M == (L \ {z}) \cup {w}
<1>1. w \notin L /\ w[1] # 0
  BY DEF Placed
<1>2. ASSUME NEW y \in L \ {z}
      PROVE  Sooner(y, z) /\ Sooner(y, w) /\ ~Sooner(w, y) /\ ~Sooner(z, y)
  <2>1. y[1] \in Nat /\ y[1] < w[1]
    BY DEF Placed
  <2>2. ~Sooner(z, y)
    BY DEF Sooner
  <2>3. Sooner(y, z)
    BY <2>2 DEF Ordered
  <2>4. y[1] # 0
    BY <2>3 DEF Sooner
  <2> QED
    BY <1>1, <2>1, <2>2, <2>3, <2>4 DEF Sooner
<1>3. Ordered(M)
  BY <1>2 DEF Ordered
<1>4. Placed(M)
  BY DEF Placed
<1>5. ASSUME NEW K
      PROVE  /\ z[2].kind \in K => OfKind(M, K) = (OfKind(L, K) \ {z}) \cup {w}
             /\ z[2].kind \notin K => OfKind(M, K) = OfKind(L, K)
             /\ z[2].kind \in K => z \in OfKind(L, K)
  BY DEF OfKind
<1>6. ASSUME NEW K
      PROVE  OfKind(M, K) = {} <=> OfKind(L, K) = {}
  BY <1>5
<1>7. ASSUME NEW K, z[2].kind \in K, NEW x, IsLast(OfKind(M, K), x)
      PROVE  x = w
  <2>1. x \in M /\ w \in OfKind(M, K)
    BY <1>5, <1>7 DEF IsLast, OfKind
  <2>2. x # w => Sooner(w, x)
    BY <1>7, <2>1 DEF IsLast
  <2> QED
    BY <1>2, <2>1, <2>2
<1>8. ASSUME NEW K, z[2].kind \in K
      PROVE  IsLast(OfKind(L, K), z)
  BY <1>2, <1>5, <1>8, OfKindIn DEF IsLast
<1> QED
  BY <1>1, <1>2, <1>3, <1>4, <1>5, <1>6, <1>7, <1>8 DEF Moved

-----------------------------------------------------------------------------
(* Conversation: the two halves, frame by frame                            *)

LEMMA TextSent ==
  ASSUME NEW s \in Side, NEW a \in Item, a.own, a.reacted = {}, NEW z, z[1] = 0, z[2] \in Payload,
         z[2].kind = "text", a.text = z[2].number
  PROVE  Half(s, a, Nothing, {z}, {}) /\ Half(Other(s), Nothing, a, {}, {z})
<1>1. /\ OfKind({z}, Owners) = {z} /\ OfKind({z}, {"text"}) = {z} /\ OfKind({z}, {"delete"}) = {}
      /\ OfKind({z}, Reactions) = {} /\ OfKind({z}, {"edit", "delete"}) = {}
      /\ \A K : OfKind({}, K) = {}
  BY DEF OfKind, Owners, Reactions
<1>2. a # Nothing
  BY NothingElse
<1>3. Ordered({z}) /\ Ordered({})
  BY DEF Ordered
<1>4. OneOwner(a, Nothing, {z}, {}) /\ OneOwner(Nothing, a, {}, {z})
  BY <1>1 DEF OneOwner
<1>5. TextFirst(a, Nothing, {z}, {}) /\ TextFirst(Nothing, a, {}, {z})
  BY <1>1 DEF TextFirst
<1>6. /\ DeleteLast(a, {z}) /\ DeleteLast(Nothing, {})
      /\ Targets(Nothing, {z}) /\ Targets(a, {})
  BY <1>1 DEF DeleteLast, Targets
<1>7. TextAgrees(a, Nothing, {z}, {}) /\ TextAgrees(Nothing, a, {}, {z})
  BY <1>1, <1>2 DEF TextAgrees
<1>8. ReactionAgrees(s, a, Nothing, {z}) /\ ReactionAgrees(Other(s), Nothing, a, {})
  BY <1>1, <1>2, Sides DEF ReactionAgrees
<1> QED
  BY <1>3, <1>4, <1>5, <1>6, <1>7, <1>8 DEF Half

\* What the halves say of one's own message, or one that is there.
LEMMA OwnHalf ==
  ASSUME NEW s \in Side, NEW a \in Item, NEW b, NEW L, NEW R, Placed(L),
         Half(s, a, b, L, R), Half(Other(s), b, a, R, L)
  PROVE  /\ OfKind(L, {"delete"}) = {} /\ OfKind(R, {"text"}) = {}
         /\ a.own => /\ b = Nothing \/ ~b.own
                     /\ OfKind(R, Owners) = {} /\ OfKind(R, {"edit", "delete"}) = {}
                     /\ OfKind(R, {"delete"}) = {}
                     /\ b # Nothing \/ OfKind(L, {"text"}) # {}
<1>1. a # Nothing
  BY NothingElse
<1>2. OfKind(L, {"delete"}) = {}
  BY <1>1 DEF Half, DeleteLast
<1>3. OfKind(R, {"text"}) = {}
  BY <1>1 DEF Half, TextFirst
<1>4. ASSUME a.own
      PROVE  /\ b = Nothing \/ ~b.own
             /\ OfKind(R, Owners) = {}
  BY <1>1, <1>4 DEF Half, OneOwner
<1>5. ASSUME a.own
      PROVE  b # Nothing \/ OfKind(L, {"text"}) # {}
  <2>1. CASE OfKind(L, Owners) = {}
    BY <1>1, <1>4, <1>5, <2>1 DEF Half, TextAgrees
  <2>2. CASE OfKind(L, {"text"}) = {} /\ OfKind(L, Owners) # {}
    <3>1. OfKind(L, {"edit", "delete"}) # {}
      BY <2>2 DEF OfKind, Owners
    <3> QED
      BY <3>1 DEF Half, Targets
  <2> QED
    BY <2>1, <2>2
<1>6. a.own => OfKind(R, {"edit", "delete"}) = {} /\ OfKind(R, {"delete"}) = {}
  BY <1>4 DEF OfKind, Owners
<1> QED
  BY <1>2, <1>3, <1>4, <1>5, <1>6

LEMMA EditSent ==
  ASSUME NEW s \in Side, NEW a \in Item, a.own, NEW e \in Item, NEW b, NEW L, NEW R,
         Placed(L), Half(s, a, b, L, R), Half(Other(s), b, a, R, L),
         \A y \in L : y[1] # 0, NEW z, z[1] = 0, z[2] \in Payload, z[2].kind = "edit",
         e.own = a.own, e.text = z[2].number, e.reacted = a.reacted
  PROVE  Half(s, e, b, L \cup {z}, R) /\ Half(Other(s), b, e, R, L \cup {z})
<1> DEFINE M == L \cup {z}
<1>0. a # Nothing /\ e # Nothing
  BY NothingElse
<1>1. Ordered(L) /\ Ordered(R)
  BY DEF Half
<1>2. /\ Ordered(M) /\ \A y \in L : Sooner(y, z)
      /\ OfKind(M, Owners) = OfKind(L, Owners) \cup {z}
      /\ OfKind(M, {"text"}) = OfKind(L, {"text"}) /\ OfKind(M, {"delete"}) = OfKind(L, {"delete"})
      /\ OfKind(M, Reactions) = OfKind(L, Reactions)
      /\ \A x : IsLast(OfKind(M, Owners), x) => x = z
  <2>1. /\ z[2].kind \in Owners /\ z[2].kind \notin {"text"} /\ z[2].kind \notin {"delete"}
        /\ z[2].kind \notin Reactions
    BY DEF Owners, Reactions
  <2>2. /\ Ordered(M) /\ \A y \in L : Sooner(y, z)
        /\ \A K : /\ z[2].kind \in K => OfKind(M, K) = OfKind(L, K) \cup {z}
                  /\ z[2].kind \notin K => OfKind(M, K) = OfKind(L, K)
                  /\ z[2].kind \in K => \A x : IsLast(OfKind(M, K), x) => x = z
    BY <1>1, LineGrows
  <2> HIDE DEF M
  <2> QED
    BY <2>1, <2>2
<1>3. /\ OfKind(L, {"delete"}) = {} /\ OfKind(R, {"text"}) = {}
      /\ b = Nothing \/ ~b.own
      /\ OfKind(R, Owners) = {} /\ OfKind(R, {"edit", "delete"}) = {} /\ OfKind(R, {"delete"}) = {}
      /\ b # Nothing \/ OfKind(L, {"text"}) # {}
  BY OwnHalf
<1> HIDE DEF M
<1>4. OneOwner(e, b, M, R) /\ OneOwner(b, e, R, M)
  BY <1>3 DEF OneOwner
<1>5. TextFirst(e, b, M, R) /\ TextFirst(b, e, R, M)
  <2>1. \A x \in OfKind(L, {"text"}) : b = Nothing /\ R = {} /\ \A y \in L \ {x} : Sooner(x, y)
    BY DEF Half, TextFirst
  <2>2. OfKind(L, {"text"}) \subseteq L
    BY DEF OfKind
  <2> QED
    BY <1>2, <1>3, <2>1, <2>2 DEF TextFirst, M
<1>6. DeleteLast(e, M) /\ DeleteLast(b, R) /\ Targets(b, M) /\ Targets(e, R)
  BY <1>0, <1>2, <1>3 DEF DeleteLast, Targets
<1>7. TextAgrees(e, b, M, R) /\ TextAgrees(b, e, R, M)
  BY <1>0, <1>2, <1>3 DEF TextAgrees
<1>8. ReactionAgrees(s, e, b, M)
  BY <1>0, <1>2 DEF ReactionAgrees, Half
<1>9. ReactionAgrees(Other(s), b, e, R)
  BY <1>0, <1>3 DEF ReactionAgrees, Half
<1> QED
  BY <1>1, <1>2, <1>4, <1>5, <1>6, <1>7, <1>8, <1>9 DEF Half, M

LEMMA DeleteSent ==
  ASSUME NEW s \in Side, NEW a \in Item, a.own, NEW b, NEW L, NEW R,
         Placed(L), Half(s, a, b, L, R), Half(Other(s), b, a, R, L),
         \A y \in L : y[1] # 0, NEW z, z[1] = 0, z[2] \in Payload, z[2].kind = "delete"
  PROVE  Half(s, Nothing, b, L \cup {z}, R) /\ Half(Other(s), b, Nothing, R, L \cup {z})
<1> DEFINE M == L \cup {z}
<1>1. Ordered(L) /\ Ordered(R)
  BY DEF Half
<1>2. /\ Ordered(M) /\ \A y \in L : Sooner(y, z)
      /\ OfKind(M, Owners) = OfKind(L, Owners) \cup {z}
      /\ OfKind(M, {"text"}) = OfKind(L, {"text"})
      /\ OfKind(M, {"delete"}) = OfKind(L, {"delete"}) \cup {z}
      /\ \A x : IsLast(OfKind(M, Owners), x) => x = z
  <2>1. z[2].kind \in Owners /\ z[2].kind \notin {"text"} /\ z[2].kind \in {"delete"}
    BY DEF Owners
  <2>2. /\ Ordered(M) /\ \A y \in L : Sooner(y, z)
        /\ \A K : /\ z[2].kind \in K => OfKind(M, K) = OfKind(L, K) \cup {z}
                  /\ z[2].kind \notin K => OfKind(M, K) = OfKind(L, K)
                  /\ z[2].kind \in K => \A x : IsLast(OfKind(M, K), x) => x = z
    BY <1>1, LineGrows
  <2> HIDE DEF M
  <2> QED
    BY <2>1, <2>2
<1>3. /\ OfKind(L, {"delete"}) = {} /\ OfKind(R, {"text"}) = {}
      /\ b = Nothing \/ ~b.own
      /\ OfKind(R, Owners) = {} /\ OfKind(R, {"edit", "delete"}) = {} /\ OfKind(R, {"delete"}) = {}
      /\ b # Nothing \/ OfKind(L, {"text"}) # {}
  BY OwnHalf
<1> HIDE DEF M
<1>4. OneOwner(Nothing, b, M, R) /\ OneOwner(b, Nothing, R, M)
  BY <1>3 DEF OneOwner
<1>5. TextFirst(Nothing, b, M, R) /\ TextFirst(b, Nothing, R, M)
  <2>1. \A x \in OfKind(L, {"text"}) : b = Nothing /\ R = {} /\ \A y \in L \ {x} : Sooner(x, y)
    BY DEF Half, TextFirst
  <2>2. OfKind(L, {"text"}) \subseteq L
    BY DEF OfKind
  <2> QED
    BY <1>2, <1>3, <2>1, <2>2 DEF TextFirst, M
<1>6. DeleteLast(Nothing, M) /\ DeleteLast(b, R)
  BY <1>2, <1>3, ZenonT(30) DEF DeleteLast, IsLast, M
<1>7. Targets(b, M) /\ Targets(Nothing, R)
  BY <1>2, <1>3 DEF Targets
<1>8. TextAgrees(Nothing, b, M, R) /\ TextAgrees(b, Nothing, R, M)
  BY <1>2, <1>3 DEF TextAgrees
<1>9. ReactionAgrees(s, Nothing, b, M) /\ ReactionAgrees(Other(s), b, Nothing, R)
  BY <1>3 DEF ReactionAgrees
<1> QED
  BY <1>1, <1>2, <1>4, <1>5, <1>6, <1>7, <1>8, <1>9 DEF Half, M

LEMMA ReactionSent ==
  ASSUME NEW s \in Side, NEW a \in Item, NEW e \in Item, NEW b, NEW L, NEW R,
         Placed(L), Half(s, a, b, L, R), Half(Other(s), b, a, R, L),
         \A y \in L : y[1] # 0, NEW z, z[1] = 0, z[2] \in Payload, z[2].kind \in Reactions,
         e.own = a.own, e.text = a.text,
         \A r \in Side : r # s => (r \in e.reacted <=> r \in a.reacted),
         s \in e.reacted <=> z[2].kind = "react"
  PROVE  Half(s, e, b, L \cup {z}, R) /\ Half(Other(s), b, e, R, L \cup {z})
<1> DEFINE M == L \cup {z}
<1>0. a # Nothing /\ e # Nothing /\ Other(s) \in Side /\ Other(s) # s
  BY NothingElse, Sides
<1>1. Ordered(L) /\ Ordered(R)
  BY DEF Half
<1>2. /\ Ordered(M) /\ \A y \in L : Sooner(y, z)
      /\ OfKind(M, Owners) = OfKind(L, Owners) /\ OfKind(M, {"text"}) = OfKind(L, {"text"})
      /\ OfKind(M, {"delete"}) = OfKind(L, {"delete"})
      /\ OfKind(M, {"edit", "delete"}) = OfKind(L, {"edit", "delete"})
      /\ OfKind(M, Reactions) = OfKind(L, Reactions) \cup {z}
      /\ \A x : IsLast(OfKind(M, Reactions), x) => x = z
  <2>1. /\ z[2].kind \notin Owners /\ z[2].kind \notin {"text"} /\ z[2].kind \notin {"delete"}
        /\ z[2].kind \notin {"edit", "delete"} /\ z[2].kind \in Reactions
    BY DEF Owners, Reactions
  <2>2. /\ Ordered(M) /\ \A y \in L : Sooner(y, z)
        /\ \A K : /\ z[2].kind \in K => OfKind(M, K) = OfKind(L, K) \cup {z}
                  /\ z[2].kind \notin K => OfKind(M, K) = OfKind(L, K)
                  /\ z[2].kind \in K => \A x : IsLast(OfKind(M, K), x) => x = z
    BY <1>1, LineGrows
  <2> HIDE DEF M
  <2> QED
    BY <2>1, <2>2
<1>3. OfKind(L, {"delete"}) = {} /\ OfKind(R, {"text"}) = {}
  BY OwnHalf
<1> HIDE DEF M
<1>4. OneOwner(e, b, M, R) /\ OneOwner(b, e, R, M)
  BY <1>0, <1>2 DEF OneOwner, Half
<1>5. TextFirst(e, b, M, R) /\ TextFirst(b, e, R, M)
  <2>1. \A x \in OfKind(L, {"text"}) : b = Nothing /\ R = {} /\ \A y \in L \ {x} : Sooner(x, y)
    BY DEF Half, TextFirst
  <2>2. OfKind(L, {"text"}) \subseteq L
    BY DEF OfKind
  <2> QED
    BY <1>2, <1>3, <2>1, <2>2 DEF TextFirst, M
<1>6. DeleteLast(e, M) /\ DeleteLast(b, R) /\ Targets(b, M) /\ Targets(e, R)
  BY <1>0, <1>2, <1>3 DEF DeleteLast, Targets, Half
<1>7. TextAgrees(e, b, M, R) /\ TextAgrees(b, e, R, M)
  BY <1>0, <1>2 DEF TextAgrees, Half
<1>8. ReactionAgrees(s, e, b, M)
  BY <1>0, <1>2 DEF ReactionAgrees, Half
<1>9. ReactionAgrees(Other(s), b, e, R)
  BY <1>0, <1>3 DEF ReactionAgrees, Half
<1> QED
  BY <1>1, <1>2, <1>4, <1>5, <1>6, <1>7, <1>8, <1>9 DEF Half, M

\* The frame that arrives is the first: behind no text.
LEMMA FirstOfLine ==
  ASSUME NEW s \in Side, NEW a, NEW b, NEW L, NEW R, Placed(L),
         Half(s, a, b, L, R), Half(Other(s), b, a, R, L),
         NEW x \in L, \A y \in L \ {x} : Sooner(x, y)
  PROVE  /\ OfKind(L \ {x}, {"text"}) = {}
         /\ x[2].kind # "text" => OfKind(L, {"text"}) = {}
         /\ x[2].kind \in Owners => (b = Nothing \/ ~b.own) /\ OfKind(R, Owners) = {}
         /\ OfKind(R, {"text"}) = {}
<1>1. ASSUME NEW y \in OfKind(L, {"text"}), y # x
      PROVE  FALSE
  <2>1. y \in L /\ Sooner(y, x)
    BY <1>1 DEF Half, TextFirst, OfKind
  <2>2. Sooner(x, y)
    BY <1>1, <2>1
  <2> QED
    BY <2>1, <2>2, SoonerOneWay
<1>2. OfKind(L \ {x}, {"text"}) = {}
  BY <1>1 DEF OfKind
<1>3. x[2].kind # "text" => OfKind(L, {"text"}) = {}
  BY <1>1 DEF OfKind
<1>4. ASSUME x[2].kind \in Owners
      PROVE  (b = Nothing \/ ~b.own) /\ OfKind(R, Owners) = {}
  <2>1. OfKind(L, Owners) # {}
    BY <1>4 DEF OfKind
  <2> QED
    BY <2>1 DEF Half, OneOwner
<1>5. OfKind(R, {"text"}) = {}
  BY DEF Half, TextFirst
<1> QED
  BY <1>2, <1>3, <1>4, <1>5

LEMMA TextArrived ==
  ASSUME NEW s \in Side, NEW a, NEW b, NEW e \in Item, NEW L, NEW R, Placed(L),
         Half(s, a, b, L, R), Half(Other(s), b, a, R, L),
         NEW x \in L, \A y \in L \ {x} : Sooner(x, y),
         x[2].kind = "text", ~e.own, e.text = x[2].number, e.reacted = {}
  PROVE  Half(s, a, e, L \ {x}, R) /\ Half(Other(s), e, a, R, L \ {x})
<1> DEFINE M == L \ {x}
<1>0. e # Nothing
  BY NothingElse
<1>1. Ordered(L) /\ Ordered(R)
  BY DEF Half
<1>2. /\ Ordered(M)
      /\ OfKind(L, Owners) = OfKind(M, Owners) \cup {x}
      /\ OfKind(M, {"delete"}) = OfKind(L, {"delete"})
      /\ OfKind(M, Reactions) = OfKind(L, Reactions)
      /\ \A y : IsLast(OfKind(M, Owners), y) => IsLast(OfKind(L, Owners), y)
      /\ OfKind(M, Owners) = {} => IsLast(OfKind(L, Owners), x)
  <2>1. /\ x[2].kind \in Owners /\ x[2].kind \notin {"delete"} /\ x[2].kind \notin Reactions
    BY DEF Owners, Reactions
  <2>2. /\ Ordered(M)
        /\ \A K : /\ x[2].kind \in K => OfKind(L, K) = OfKind(M, K) \cup {x}
                  /\ x[2].kind \notin K => OfKind(M, K) = OfKind(L, K)
                  /\ \A y : IsLast(OfKind(M, K), y) => IsLast(OfKind(L, K), y)
                  /\ x[2].kind \in K /\ OfKind(M, K) = {} => IsLast(OfKind(L, K), x)
    BY <1>1, LineShrinks
  <2> HIDE DEF M
  <2> QED
    BY <2>1, <2>2
<1>3. /\ OfKind(M, {"text"}) = {}
      /\ (b = Nothing \/ ~b.own) /\ OfKind(R, Owners) = {}
      /\ x \in OfKind(L, {"text"}) /\ x \in OfKind(L, Owners)
  BY FirstOfLine DEF OfKind, Owners
<1>4. b = Nothing /\ R = {}
  BY <1>3 DEF Half, TextFirst
<1>5. \A K : OfKind({}, K) = {}
  BY DEF OfKind
<1> HIDE DEF M
<1>6. OneOwner(a, e, M, R) /\ OneOwner(e, a, R, M)
  BY <1>3 DEF OneOwner
<1>7. TextFirst(a, e, M, R) /\ TextFirst(e, a, R, M)
  BY <1>3, <1>4, <1>5 DEF TextFirst
<1>8. DeleteLast(a, M)
  <2>1. \A y \in OfKind(L, {"delete"}) : a = Nothing /\ IsLast(L, y)
    BY DEF Half, DeleteLast
  <2> QED
    BY <1>2, <2>1 DEF DeleteLast, IsLast, OfKind, M
<1>9. DeleteLast(e, R) /\ Targets(e, M) /\ Targets(a, R)
  BY <1>0, <1>4, <1>5 DEF DeleteLast, Targets
<1>10. OfKind(M, Owners) = {} => a # Nothing /\ a.own /\ a.text = x[2].number
  BY <1>2, <1>3 DEF Half, TextAgrees
<1>11. TextAgrees(a, e, M, R)
  <2>1. ASSUME NEW y \in OfKind(M, Owners), IsLast(OfKind(M, Owners), y), y[2].kind # "delete"
        PROVE  a # Nothing /\ a.own /\ a.text = y[2].number
    BY <1>2, <2>1 DEF Half, TextAgrees
  <2> QED
    BY <1>0, <1>10, <2>1 DEF TextAgrees
<1>12. TextAgrees(e, a, R, M)
  BY <1>0, <1>3, <1>10 DEF TextAgrees
<1>13. a # Nothing =>
         /\ \A y \in OfKind(L, Reactions) :
              IsLast(OfKind(L, Reactions), y) => (s \in a.reacted <=> y[2].kind = "react")
         /\ OfKind(L, Reactions) = {} => s \notin a.reacted
         /\ Other(s) \notin a.reacted
  BY <1>3, <1>4 DEF Half, ReactionAgrees
<1>14. ReactionAgrees(s, a, e, M)
  BY <1>0, <1>2, <1>3, <1>13 DEF ReactionAgrees
<1>15. ReactionAgrees(Other(s), e, a, R)
  BY <1>0, <1>4, <1>5, <1>13 DEF ReactionAgrees
<1> QED
  BY <1>1, <1>2, <1>6, <1>7, <1>8, <1>9, <1>11, <1>12, <1>14, <1>15 DEF Half, M

LEMMA EditArrived ==
  ASSUME NEW s \in Side, NEW a, NEW b, NEW L, NEW R, Placed(L),
         Half(s, a, b, L, R), Half(Other(s), b, a, R, L),
         NEW x \in L, \A y \in L \ {x} : Sooner(x, y), x[2].kind = "edit"
  PROVE  /\ b # Nothing
         /\ \A e \in Item : e.own = b.own /\ e.text = x[2].number /\ e.reacted = b.reacted =>
              Half(s, a, e, L \ {x}, R) /\ Half(Other(s), e, a, R, L \ {x})
<1> DEFINE M == L \ {x}
<1>1. Ordered(L) /\ Ordered(R)
  BY DEF Half
<1>2. /\ Ordered(M)
      /\ OfKind(L, Owners) = OfKind(M, Owners) \cup {x}
      /\ OfKind(M, {"delete"}) = OfKind(L, {"delete"})
      /\ OfKind(M, Reactions) = OfKind(L, Reactions)
      /\ \A y : IsLast(OfKind(M, Owners), y) => IsLast(OfKind(L, Owners), y)
      /\ OfKind(M, Owners) = {} => IsLast(OfKind(L, Owners), x)
  <2>1. /\ x[2].kind \in Owners /\ x[2].kind \notin {"delete"} /\ x[2].kind \notin Reactions
    BY DEF Owners, Reactions
  <2>2. /\ Ordered(M)
        /\ \A K : /\ x[2].kind \in K => OfKind(L, K) = OfKind(M, K) \cup {x}
                  /\ x[2].kind \notin K => OfKind(M, K) = OfKind(L, K)
                  /\ \A y : IsLast(OfKind(M, K), y) => IsLast(OfKind(L, K), y)
                  /\ x[2].kind \in K /\ OfKind(M, K) = {} => IsLast(OfKind(L, K), x)
    BY <1>1, LineShrinks
  <2> HIDE DEF M
  <2> QED
    BY <2>1, <2>2
<1>3. /\ OfKind(M, {"text"}) = {} /\ OfKind(L, {"text"}) = {}
      /\ (b = Nothing \/ ~b.own) /\ OfKind(R, Owners) = {} /\ OfKind(R, {"text"}) = {}
      /\ x \in OfKind(L, {"edit", "delete"}) /\ x \in OfKind(L, Owners)
  BY FirstOfLine DEF OfKind, Owners
<1>4. b # Nothing
  BY <1>3 DEF Half, Targets
<1>5. OfKind(R, {"delete"}) = {} /\ OfKind(R, {"edit", "delete"}) = {}
  BY <1>3 DEF OfKind, Owners
<1> HIDE DEF M
<1>6. SUFFICES ASSUME NEW e \in Item, e.own = b.own, e.text = x[2].number, e.reacted = b.reacted
               PROVE  Half(s, a, e, M, R) /\ Half(Other(s), e, a, R, M)
  BY <1>4 DEF M
<1>7. e # Nothing /\ ~e.own
  BY <1>3, <1>4, <1>6, NothingElse
<1>8. OneOwner(a, e, M, R) /\ OneOwner(e, a, R, M)
  BY <1>3, <1>7 DEF OneOwner
<1>9. TextFirst(a, e, M, R) /\ TextFirst(e, a, R, M)
  BY <1>3 DEF TextFirst
<1>10. DeleteLast(a, M)
  <2>1. \A y \in OfKind(L, {"delete"}) : a = Nothing /\ IsLast(L, y)
    BY DEF Half, DeleteLast
  <2> QED
    BY <1>2, <2>1 DEF DeleteLast, IsLast, OfKind, M
<1>11. DeleteLast(e, R) /\ Targets(e, M) /\ Targets(a, R)
  BY <1>5, <1>7 DEF DeleteLast, Targets
<1>12. OfKind(M, Owners) = {} => a # Nothing /\ a.own /\ a.text = x[2].number
  BY <1>2, <1>3 DEF Half, TextAgrees
<1>13. TextAgrees(a, e, M, R)
  <2>1. ASSUME NEW y \in OfKind(M, Owners), IsLast(OfKind(M, Owners), y), y[2].kind # "delete"
        PROVE  a # Nothing /\ a.own /\ a.text = y[2].number
    BY <1>2, <2>1 DEF Half, TextAgrees
  <2> QED
    BY <1>6, <1>7, <1>12, <2>1 DEF TextAgrees
<1>14. TextAgrees(e, a, R, M)
  BY <1>3, <1>6, <1>7, <1>12 DEF TextAgrees
<1>15. ReactionAgrees(s, a, e, M)
  BY <1>2, <1>3, <1>4, <1>6, <1>7 DEF ReactionAgrees, Half
<1>16. ReactionAgrees(Other(s), e, a, R)
  BY <1>3, <1>4, <1>6, <1>7 DEF ReactionAgrees, Half
<1> QED
  BY <1>1, <1>2, <1>8, <1>9, <1>10, <1>11, <1>13, <1>14, <1>15, <1>16 DEF Half

LEMMA DeleteArrived ==
  ASSUME NEW s \in Side, NEW a, NEW b, NEW L, NEW R, Placed(L),
         Half(s, a, b, L, R), Half(Other(s), b, a, R, L),
         NEW x \in L, \A y \in L \ {x} : Sooner(x, y), x[2].kind = "delete"
  PROVE  Half(s, a, Nothing, L \ {x}, R) /\ Half(Other(s), Nothing, a, R, L \ {x})
<1>1. x \in OfKind(L, {"delete"})
  BY DEF OfKind
<1>2. a = Nothing /\ IsLast(L, x)
  BY <1>1 DEF Half, DeleteLast
<1>3. L \ {x} = {}
  <2>1. ASSUME NEW y \in L \ {x} PROVE FALSE
    <3>1. Sooner(x, y) /\ Sooner(y, x)
      BY <1>2, <2>1 DEF IsLast
    <3> QED
      BY <3>1, SoonerOneWay
  <2> QED
    BY <2>1
<1>4. OfKind(R, Owners) = {} /\ OfKind(R, {"text"}) = {}
  <2>1. x[2].kind \in Owners
    BY DEF Owners
  <2> QED
    BY <2>1, FirstOfLine
<1>5. OfKind(R, {"delete"}) = {} /\ OfKind(R, {"edit", "delete"}) = {}
  BY <1>4 DEF OfKind, Owners
<1>6. \A K : OfKind({}, K) = {}
  BY DEF OfKind
<1>7. Half(s, Nothing, Nothing, {}, R)
  BY <1>4, <1>6 DEF Half, Ordered, OneOwner, TextFirst, DeleteLast, Targets, TextAgrees, ReactionAgrees
<1>8. Ordered(R)
  BY DEF Half
<1>9. Half(Other(s), Nothing, Nothing, R, {})
  BY <1>4, <1>5, <1>6, <1>8 DEF Half, OneOwner, TextFirst, DeleteLast, Targets, TextAgrees, ReactionAgrees
<1> QED
  BY <1>2, <1>3, <1>7, <1>9

\* A reaction arrives where the message is, or is not any more.
LEMMA ReactionArrived ==
  ASSUME NEW s \in Side, NEW a, NEW b, NEW L, NEW R, Placed(L),
         Half(s, a, b, L, R), Half(Other(s), b, a, R, L),
         NEW x \in L, \A y \in L \ {x} : Sooner(x, y), x[2].kind \in Reactions,
         NEW e, e = Nothing <=> b = Nothing,
         b # Nothing => /\ e.own = b.own /\ e.text = b.text
                        /\ \A r \in Side : r # s => (r \in e.reacted <=> r \in b.reacted)
                        /\ s \in e.reacted <=> x[2].kind = "react"
  PROVE  Half(s, a, e, L \ {x}, R) /\ Half(Other(s), e, a, R, L \ {x})
<1> DEFINE M == L \ {x}
<1>0. Other(s) \in Side /\ Other(s) # s
  BY Sides
<1>1. Ordered(L) /\ Ordered(R)
  BY DEF Half
<1>2. /\ Ordered(M)
      /\ OfKind(M, Owners) = OfKind(L, Owners)
      /\ OfKind(M, {"delete"}) = OfKind(L, {"delete"})
      /\ OfKind(M, {"edit", "delete"}) = OfKind(L, {"edit", "delete"})
      /\ OfKind(L, Reactions) = OfKind(M, Reactions) \cup {x}
      /\ \A y : IsLast(OfKind(M, Reactions), y) => IsLast(OfKind(L, Reactions), y)
      /\ OfKind(M, Reactions) = {} => IsLast(OfKind(L, Reactions), x)
  <2>1. /\ x[2].kind \notin Owners /\ x[2].kind \notin {"delete"}
        /\ x[2].kind \notin {"edit", "delete"} /\ x[2].kind \in Reactions
    BY DEF Owners, Reactions
  <2>2. /\ Ordered(M)
        /\ \A K : /\ x[2].kind \in K => OfKind(L, K) = OfKind(M, K) \cup {x}
                  /\ x[2].kind \notin K => OfKind(M, K) = OfKind(L, K)
                  /\ \A y : IsLast(OfKind(M, K), y) => IsLast(OfKind(L, K), y)
                  /\ x[2].kind \in K /\ OfKind(M, K) = {} => IsLast(OfKind(L, K), x)
    BY <1>1, LineShrinks
  <2> HIDE DEF M
  <2> QED
    BY <2>1, <2>2
<1>3. /\ OfKind(M, {"text"}) = {} /\ OfKind(L, {"text"}) = {} /\ OfKind(R, {"text"}) = {}
      /\ x \in OfKind(L, Reactions)
  BY FirstOfLine DEF OfKind, Reactions
<1> HIDE DEF M
<1>4. OneOwner(a, e, M, R) /\ OneOwner(e, a, R, M)
  BY <1>2 DEF OneOwner, Half
<1>5. TextFirst(a, e, M, R) /\ TextFirst(e, a, R, M)
  BY <1>3 DEF TextFirst
<1>6. DeleteLast(a, M)
  <2>1. \A y \in OfKind(L, {"delete"}) : a = Nothing /\ IsLast(L, y)
    BY DEF Half, DeleteLast
  <2> QED
    BY <1>2, <2>1 DEF DeleteLast, IsLast, OfKind, M
<1>7. DeleteLast(e, R) /\ Targets(e, M) /\ Targets(a, R)
  BY <1>2, <1>3 DEF DeleteLast, Targets, Half
<1>8. TextAgrees(a, e, M, R) /\ TextAgrees(e, a, R, M)
  BY <1>2 DEF TextAgrees, Half
<1>9. ReactionAgrees(s, a, e, M)
  <2>1. ASSUME a # Nothing, e # Nothing
        PROVE  \A y \in OfKind(L, Reactions) :
                 IsLast(OfKind(L, Reactions), y) => (s \in a.reacted <=> y[2].kind = "react")
    BY <2>1 DEF Half, ReactionAgrees
  <2> QED
    BY <1>2, <1>3, <2>1 DEF ReactionAgrees
<1>10. ReactionAgrees(Other(s), e, a, R)
  BY <1>0, <1>3 DEF ReactionAgrees, Half
<1> QED
  BY <1>1, <1>2, <1>4, <1>5, <1>6, <1>7, <1>8, <1>9, <1>10 DEF Half, M

LEMMA FrameMoved ==
  ASSUME NEW s \in Side, NEW a, NEW b, NEW L, NEW R, Placed(L),
         Half(s, a, b, L, R), Half(Other(s), b, a, R, L),
         NEW z \in L, z[1] = 0,
         NEW w, w[1] \in Nat, w[2] = z[2], \A y \in L : y[1] < w[1]
  PROVE  Half(s, a, b, (L \ {z}) \cup {w}, R) /\ Half(Other(s), b, a, R, (L \ {z}) \cup {w})
<1> DEFINE M == (L \ {z}) \cup {w}
<1>1. Ordered(L) /\ Ordered(R)
  BY DEF Half
<1>0. Moved(L, M, z, w)
  BY <1>1, LineMoves
<1>2. /\ Ordered(M) /\ Placed(M) /\ w \notin L
      /\ \A y \in L \ {z} : Sooner(y, z) /\ Sooner(y, w) /\ ~Sooner(w, y) /\ ~Sooner(z, y)
      /\ \A K : /\ z[2].kind \in K => OfKind(M, K) = (OfKind(L, K) \ {z}) \cup {w}
                /\ z[2].kind \notin K => OfKind(M, K) = OfKind(L, K)
                /\ OfKind(M, K) = {} <=> OfKind(L, K) = {}
                /\ z[2].kind \in K => \A x : IsLast(OfKind(M, K), x) => x = w
                /\ z[2].kind \in K => IsLast(OfKind(L, K), z)
  BY <1>0 DEF Moved
<1>3. M # {} /\ L # {}
  OBVIOUS
<1>4. \A K : OfKind(L, K) \subseteq L
  BY DEF OfKind
<1> HIDE DEF M
<1>5. OfKind(M, Owners) = {} <=> OfKind(L, Owners) = {}
  BY <1>2
<1>6. OneOwner(a, b, M, R) /\ OneOwner(b, a, R, M)
  BY <1>5 DEF OneOwner, Half
<1>7. TextFirst(a, b, M, R)
  <2>1. \A x \in OfKind(L, {"text"}) : b = Nothing /\ R = {} /\ \A y \in L \ {x} : Sooner(x, y)
    BY DEF Half, TextFirst
  <2>2. CASE z[2].kind = "text"
    <3>1. OfKind(M, {"text"}) = (OfKind(L, {"text"}) \ {z}) \cup {w} /\ z \in OfKind(L, {"text"})
      BY <1>2, <2>2 DEF OfKind
    <3>2. L = {z}
      BY <1>2, <2>1, <3>1
    <3>3. M = {w}
      BY <3>2 DEF M
    <3> QED
      BY <1>4, <2>1, <3>1, <3>2, <3>3 DEF TextFirst
  <2>3. CASE z[2].kind # "text"
    <3>1. OfKind(M, {"text"}) = OfKind(L, {"text"}) /\ z \notin OfKind(L, {"text"})
      BY <1>2, <2>3 DEF OfKind
    <3> QED
      BY <1>2, <1>4, <2>1, <3>1 DEF TextFirst, M
  <2> QED
    BY <2>2, <2>3
<1>8. TextFirst(b, a, R, M)
  BY <1>3 DEF Half, TextFirst
<1>9. DeleteLast(a, M)
  <2>1. \A x \in OfKind(L, {"delete"}) : a = Nothing /\ IsLast(L, x)
    BY DEF Half, DeleteLast
  <2>2. \A x \in OfKind(L, {"delete"}) : x = z
    <3> SUFFICES ASSUME NEW x \in OfKind(L, {"delete"}), x # z PROVE FALSE
      OBVIOUS
    <3>1. x \in L \ {z} /\ Sooner(z, x)
      BY <1>4, <2>1 DEF IsLast
    <3> QED
      BY <1>2, <3>1
  <2>3. IsLast(M, w)
    BY <1>2 DEF IsLast, M
  <2>4. CASE z[2].kind = "delete"
    <3>1. OfKind(M, {"delete"}) = (OfKind(L, {"delete"}) \ {z}) \cup {w} /\ z \in OfKind(L, {"delete"})
      BY <1>2, <2>4 DEF OfKind
    <3> QED
      BY <2>1, <2>2, <2>3, <3>1 DEF DeleteLast
  <2>5. CASE z[2].kind # "delete"
    <3>1. OfKind(M, {"delete"}) = OfKind(L, {"delete"}) /\ z \notin OfKind(L, {"delete"})
      BY <1>2, <2>5 DEF OfKind
    <3> QED
      BY <2>2, <3>1 DEF DeleteLast
  <2> QED
    BY <2>4, <2>5
<1>10. /\ OfKind(M, {"text"}) = {} <=> OfKind(L, {"text"}) = {}
       /\ OfKind(M, {"edit", "delete"}) = {} <=> OfKind(L, {"edit", "delete"}) = {}
       /\ OfKind(M, Reactions) = {} <=> OfKind(L, Reactions) = {}
  BY <1>2
<1>11. Targets(b, M)
  BY <1>10 DEF Targets, Half
<1>12. \A K : \A x \in OfKind(M, K) : IsLast(OfKind(M, K), x) =>
         \E y \in OfKind(L, K) : IsLast(OfKind(L, K), y) /\ y[2] = x[2]
  <2> SUFFICES ASSUME NEW K, NEW x \in OfKind(M, K), IsLast(OfKind(M, K), x)
               PROVE  \E y \in OfKind(L, K) : IsLast(OfKind(L, K), y) /\ y[2] = x[2]
    OBVIOUS
  <2>1. CASE z[2].kind \in K
    <3>1. x = w /\ IsLast(OfKind(L, K), z)
      BY <1>2, <2>1
    <3> QED
      BY <3>1 DEF IsLast
  <2>2. CASE z[2].kind \notin K
    BY <1>2, <2>2
  <2> QED
    BY <2>1, <2>2
<1>13. TextAgrees(a, b, M, R) /\ TextAgrees(b, a, R, M)
  <2>1. ASSUME NEW x \in OfKind(M, Owners), IsLast(OfKind(M, Owners), x), x[2].kind # "delete"
        PROVE  a # Nothing /\ a.own /\ a.text = x[2].number
    <3>1. PICK y \in OfKind(L, Owners) : IsLast(OfKind(L, Owners), y) /\ y[2] = x[2]
      BY <1>12, <2>1
    <3> QED
      BY <2>1, <3>1 DEF Half, TextAgrees
  <2> QED
    BY <1>5, <2>1 DEF Half, TextAgrees
<1>14. ReactionAgrees(s, a, b, M)
  <2>1. ASSUME NEW x \in OfKind(M, Reactions), IsLast(OfKind(M, Reactions), x),
               a # Nothing, b # Nothing \/ OfKind(L, {"text"}) # {}
        PROVE  s \in a.reacted <=> x[2].kind = "react"
    <3>1. PICK y \in OfKind(L, Reactions) : IsLast(OfKind(L, Reactions), y) /\ y[2] = x[2]
      BY <1>12, <2>1
    <3> QED
      BY <2>1, <3>1 DEF Half, ReactionAgrees
  <2> QED
    BY <1>10, <2>1 DEF Half, ReactionAgrees
<1>15. DeleteLast(b, R) /\ Targets(a, R) /\ ReactionAgrees(Other(s), b, a, R)
  BY DEF Half
<1>16. Half(s, a, b, M, R)
  BY <1>2, <1>6, <1>7, <1>9, <1>11, <1>13, <1>14 DEF Half
<1>17. Half(Other(s), b, a, R, M)
  BY <1>1, <1>6, <1>8, <1>13, <1>15 DEF Half
<1> QED
  BY <1>16, <1>17 DEF M

LEMMA StatusMoved ==
  ASSUME NEW s \in Side, NEW a, NEW b, NEW L, NEW R, Half(s, a, b, L, R),
         NEW e, NEW f, StatusOnly(a, e), StatusOnly(b, f)
  PROVE  Half(s, e, f, L, R)
<1>1. /\ e = Nothing <=> a = Nothing
      /\ f = Nothing <=> b = Nothing
      /\ a # Nothing => e.own = a.own /\ e.text = a.text /\ e.reacted = a.reacted
      /\ b # Nothing => f.own = b.own /\ f.text = b.text /\ f.reacted = b.reacted
  BY DEF StatusOnly
<1>2. OneOwner(e, f, L, R) /\ TextFirst(e, f, L, R) /\ DeleteLast(e, L) /\ Targets(f, L)
  BY <1>1 DEF Half, OneOwner, TextFirst, DeleteLast, Targets
<1>3. TextAgrees(e, f, L, R)
  BY <1>1 DEF Half, TextAgrees
<1>4. ReactionAgrees(s, e, f, L)
  BY <1>1 DEF Half, ReactionAgrees
<1>5. Ordered(L)
  BY DEF Half
<1> QED
  BY <1>2, <1>3, <1>4, <1>5 DEF Half

-----------------------------------------------------------------------------
(* Conversation: the two halves, step by step                              *)

\* A frame from end s and its place.
LEMMA InLine ==
  ASSUME ConversationTypes, FrameInv, NEW c \in Chat, NEW s \in Side, NEW i \in Id
  PROVE  /\ Placed(Line(c, s, i))
         /\ \A x \in Line(c, s, i) :
              /\ x = <<x[1], x[2]>>
              /\ \/ /\ x[1] \in Coming(c, Other(s)) /\ x[1] # 0
                    /\ x[2] = queue[c][Other(s)][x[1]] /\ x[2].target = i
                 \/ /\ x[1] = 0 /\ x[2] \in pushes /\ x[2].at = "push" /\ x[2].chat = c
                    /\ x[2].from = s /\ x[2].target = i
         /\ \A n \in Coming(c, Other(s)) :
              queue[c][Other(s)][n].target = i => <<n, queue[c][Other(s)][n]>> \in Line(c, s, i)
         /\ \A p \in pushes : p.at = "push" /\ p.chat = c /\ p.from = s /\ p.target = i =>
              <<0, p>> \in Line(c, s, i)
<1>1. taken[c][Other(s)] \in Nat /\ Len(queue[c][Other(s)]) \in Nat /\ Other(s) \in Side
  BY ConversationTypeFacts, Sides
<1>2. \A n \in Coming(c, Other(s)) : n \in Nat /\ n # 0 /\ queue[c][Other(s)][n] \in Payload
  BY <1>1 DEF Coming, FrameInv
<1>3. \A p \in pushes : p \in Payload
  BY ConversationTypeFacts
<1>4. ASSUME NEW x \in Line(c, s, i)
      PROVE  /\ x = <<x[1], x[2]>>
             /\ \/ /\ x[1] \in Coming(c, Other(s)) /\ x[1] # 0
                   /\ x[2] = queue[c][Other(s)][x[1]] /\ x[2].target = i
                \/ /\ x[1] = 0 /\ x[2] \in pushes /\ x[2].at = "push" /\ x[2].chat = c
                   /\ x[2].from = s /\ x[2].target = i
  <2>1. CASE \E n \in Coming(c, Other(s)) :
               x = <<n, queue[c][Other(s)][n]>> /\ queue[c][Other(s)][n].target = i
    BY <1>2, <2>1
  <2>2. CASE \E p \in pushes : /\ x = <<0, p>> /\ p.at = "push" /\ p.chat = c /\ p.from = s
                               /\ p.target = i
    BY <2>2
  <2> QED
    BY <1>4, <2>1, <2>2 DEF Line
<1>5. Placed(Line(c, s, i))
  BY <1>2, <1>3, <1>4 DEF Placed
<1>6. \A n \in Coming(c, Other(s)) :
        queue[c][Other(s)][n].target = i => <<n, queue[c][Other(s)][n]>> \in Line(c, s, i)
  BY DEF Line
<1>7. \A p \in pushes : p.at = "push" /\ p.chat = c /\ p.from = s /\ p.target = i =>
        <<0, p>> \in Line(c, s, i)
  BY DEF Line
<1> QED
  BY <1>4, <1>5, <1>6, <1>7

\* Both halves of message i.
Halves(c, s, i) ==
  /\ Half(s, items[c][s][i], items[c][Other(s)][i], Line(c, s, i), Line(c, Other(s), i))
  /\ Half(Other(s), items[c][Other(s)][i], items[c][s][i], Line(c, Other(s), i), Line(c, s, i))

LEMMA AgreeHalves ==
  AgreeInv <=> \A c \in Chat \ disturbed, s \in Side, i \in Id : Halves(c, s, i)
  BY Sides DEF AgreeInv, Halves

\* The lines of the messages that a step is not about.
LEMMA SameLine ==
  ASSUME NEW c \in Chat, NEW s \in Side, NEW i \in Id,
         queue'[c][Other(s)] = queue[c][Other(s)], taken'[c][Other(s)] = taken[c][Other(s)],
         \A p : p.at = "push" /\ p.chat = c /\ p.from = s /\ p.target = i =>
           (p \in pushes' <=> p \in pushes)
  PROVE  Line(c, s, i)' = Line(c, s, i)
<1>1. Coming(c, Other(s))' = Coming(c, Other(s))
  BY DEF Coming
<1>2. {p \in pushes' : p.at = "push" /\ p.chat = c /\ p.from = s /\ p.target = i}
        = {p \in pushes : p.at = "push" /\ p.chat = c /\ p.from = s /\ p.target = i}
  OBVIOUS
<1> QED
  BY <1>1, <1>2 DEF Line

\* A step that changes the status of messages at most.
LEMMA AgreeStays ==
  ASSUME ConversationTypes, AgreeInv, UNCHANGED <<queue, taken>>, disturbed \subseteq disturbed',
         \A c \in Chat, s \in Side, i \in Id : StatusOnly(items[c][s][i], items'[c][s][i]),
         \A p : p.at = "push" => (p \in pushes' <=> p \in pushes) \/ p.chat \in disturbed'
  PROVE  AgreeInv'
<1>1. ASSUME NEW c \in Chat \ disturbed', NEW s \in Side, NEW i \in Id
      PROVE  Halves(c, s, i)'
  <2>1. Halves(c, s, i) /\ Other(s) \in Side
    BY AgreeHalves, Sides
  <2>2. Line(c, s, i)' = Line(c, s, i) /\ Line(c, Other(s), i)' = Line(c, Other(s), i)
    BY <2>1, SameLine
  <2>3. /\ StatusOnly(items[c][s][i], items'[c][s][i])
        /\ StatusOnly(items[c][Other(s)][i], items'[c][Other(s)][i])
    BY <2>1
  <2> QED
    BY <2>1, <2>2, <2>3, StatusMoved DEF Halves
<1>2. \A c \in Chat \ disturbed', s \in Side, i \in Id : Halves(c, s, i)'
  BY <1>1
<1> QED
  BY <1>2, Sides DEF AgreeInv, Halves

\* The other messages of a step that is about one message.
LEMMA OtherHalves ==
  ASSUME ConversationTypes, AgreeInv, NEW c \in Chat, NEW s \in Side, NEW i \in Id,
         disturbed \subseteq disturbed',
         \A d \in Chat, r \in Side, j \in Id :
           ~(d = c /\ j = i) => /\ items'[d][r][j] = items[d][r][j]
                                /\ Line(d, r, j)' = Line(d, r, j),
         c \in disturbed' \/ Halves(c, s, i)'
  PROVE  AgreeInv'
<1>1. ASSUME NEW d \in Chat \ disturbed', NEW r \in Side, NEW j \in Id
      PROVE  Half(r, items[d][r][j], items[d][Other(r)][j], Line(d, r, j), Line(d, Other(r), j))'
  <2>1. Halves(d, r, j) /\ Other(r) \in Side
    BY AgreeHalves, Sides
  <2>2. CASE d = c /\ j = i
    <3>1. Halves(c, s, i)' /\ Other(s) \in Side /\ Other(Other(s)) = s
      BY <2>2, Sides
    <3>2. r = s \/ r = Other(s)
      BY Sides
    <3> QED
      BY <2>2, <3>1, <3>2 DEF Halves
  <2>3. CASE ~(d = c /\ j = i)
    <3>1. /\ items'[d][r][j] = items[d][r][j] /\ items'[d][Other(r)][j] = items[d][Other(r)][j]
          /\ Line(d, r, j)' = Line(d, r, j) /\ Line(d, Other(r), j)' = Line(d, Other(r), j)
      BY <2>1, <2>3
    <3> QED
      BY <2>1, <3>1 DEF Halves
  <2> QED
    BY <2>2, <2>3
<1> QED
  BY <1>1 DEF AgreeInv

LEMMA SendAgree ==
  ASSUME ConversationTypes, FrameInv, AgreeInv, NEW c \in Chat, NEW s \in Side,
         NEW kind \in Kind, NEW i \in Id, Send(c, s, kind, i)
  PROVE  AgreeInv'
<1> DEFINE m == items[c][s][i]
           b == items[c][Other(s)][i]
           L == Line(c, s, i)
           R == Line(c, Other(s), i)
<1>0. PICK p : p = SentFrame(c, s, kind, i)
  OBVIOUS
<1>1. /\ p \in Payload /\ queue' = queue /\ taken' = taken
      /\ \A d \in Chat, r \in Side, j \in Id :
           ~(d = c /\ r = s /\ j = i) => items'[d][r][j] = items[d][r][j]
      /\ disturbed \subseteq disturbed'
      /\ pushes' = pushes \cup {p} \/ pushes' = pushes
      /\ \/ /\ items'[c][s][i] = Effect(m, s, s, p) /\ pushes' = pushes \cup {p}
            /\ c \notin disturbed' => \A q \in pushes :
                 ~(q.chat = c /\ q.from = s /\ q.target = i /\ q.at = "push")
         \/ c \in disturbed'
      /\ kind = "text" => i \notin written
      /\ kind \in {"edit", "delete"} => m # Nothing /\ m.own
      /\ kind \in Reactions => m # Nothing
  <2> DEFINE q == SentFrame(c, s, kind, i)
  <2>1. /\ q \in Payload /\ queue' = queue /\ taken' = taken
        /\ \A d \in Chat, r \in Side, j \in Id :
             ~(d = c /\ r = s /\ j = i) => items'[d][r][j] = items[d][r][j]
        /\ disturbed \subseteq disturbed'
        /\ pushes' = pushes \cup {q} \/ pushes' = pushes
        /\ SendOutcome(c, s, kind, i)
        /\ kind = "text" => i \notin written
        /\ kind \in {"edit", "delete"} => m # Nothing /\ m.own
        /\ kind \in Reactions => m # Nothing
    BY SendFacts
  <2>2. \/ /\ items'[c][s][i] = Effect(m, s, s, q) /\ pushes' = pushes \cup {q}
           /\ c \notin disturbed' => \A o \in pushes :
                ~(o.chat = c /\ o.from = s /\ o.target = i /\ o.at = "push")
        \/ c \in disturbed'
    BY <2>1 DEF SendOutcome
  <2> HIDE DEF q, m
  <2>3. p = q
    BY <1>0 DEF q
  <2> QED
    BY <2>1, <2>2, <2>3
<1>2. p.chat = c /\ p.from = s /\ p.target = i /\ p.kind = kind /\ p.at = "push"
  BY <1>0 DEF SentFrame
<1>3. Other(s) \in Side /\ Other(s) # s /\ Other(Other(s)) = s
  BY Sides
<1>4. ASSUME NEW d \in Chat, NEW r \in Side, NEW j \in Id, ~(d = c /\ r = s /\ j = i)
      PROVE  Line(d, r, j)' = Line(d, r, j)
  <2>1. \A q : q.at = "push" /\ q.chat = d /\ q.from = r /\ q.target = j =>
          (q \in pushes' <=> q \in pushes)
    BY <1>1, <1>2, <1>4
  <2> QED
    BY <1>1, <2>1, SameLine
<1>5. ASSUME c \notin disturbed'
      PROVE  Halves(c, s, i)'
  <2>1. PICK z : z = <<0, p>>
    OBVIOUS
  <2>2. z[1] = 0 /\ z[2] = p
    BY <2>1
  <2>3. Line(c, s, i)' = L \cup {z} /\ Line(c, Other(s), i)' = R
    <3>1. Coming(c, Other(s))' = Coming(c, Other(s))
      BY <1>1 DEF Coming
    <3>2. {q \in pushes' : q.at = "push" /\ q.chat = c /\ q.from = s /\ q.target = i}
            = {q \in pushes : q.at = "push" /\ q.chat = c /\ q.from = s /\ q.target = i} \cup {p}
      BY <1>1, <1>2, <1>5
    <3>3. Line(c, s, i)' = L \cup {z}
      BY <1>1, <2>1, <3>1, <3>2 DEF Line
    <3> QED
      BY <1>3, <1>4, <3>3
  <2>4. \A y \in L : y[1] # 0
    BY <1>1, <1>5, InLine
  <2>5. Placed(L)
    BY InLine
  <2>6. c \in Chat \ disturbed
    BY <1>1, <1>5
  <2>7. Half(s, m, b, L, R) /\ Half(Other(s), b, m, R, L)
    BY <2>6, AgreeHalves DEF Halves
  <2>8. PICK e : e = Effect(m, s, s, p)
    OBVIOUS
  <2>9. items'[c][s][i] = e /\ items'[c][Other(s)][i] = b
    BY <1>1, <1>3, <1>5, <2>8
  <2>10. m \in Item \cup {Nothing} /\ p.number \in Nat
    BY <1>1, ConversationTypeFacts DEF Payload
  <2>11. /\ e \in Item \cup {Nothing}
         /\ e # Nothing /\ m # Nothing =>
              /\ e.own = m.own
              /\ e.text = IF p.kind = "edit" THEN p.number ELSE m.text
              /\ \A r \in Side : r # s => (r \in e.reacted <=> r \in m.reacted)
              /\ p.kind = "react" => s \in e.reacted
              /\ p.kind = "unreact" => s \notin e.reacted
              /\ p.kind \notin Reactions => e.reacted = m.reacted
         /\ m = Nothing /\ p.kind = "text" => e = Message(s = s, p.number)
         /\ e = Nothing => m = Nothing \/ p.kind = "delete"
         /\ p.kind = "delete" => e = Nothing
    <3> DEFINE f == Effect(m, s, s, p)
    <3>1. /\ f \in Item \cup {Nothing}
          /\ f # Nothing /\ m # Nothing =>
               /\ f.own = m.own
               /\ f.text = IF p.kind = "edit" THEN p.number ELSE m.text
               /\ \A r \in Side : r # s => (r \in f.reacted <=> r \in m.reacted)
               /\ p.kind = "react" => s \in f.reacted
               /\ p.kind = "unreact" => s \notin f.reacted
               /\ p.kind \notin Reactions => f.reacted = m.reacted
          /\ m = Nothing /\ p.kind = "text" => f = Message(s = s, p.number)
          /\ f = Nothing => m = Nothing \/ p.kind = "delete"
          /\ p.kind = "delete" => f = Nothing
      BY <1>1, <2>10, EffectFields, SMTT(30)
    <3> HIDE DEF f, m
    <3>2. e = f
      BY <2>8 DEF f
    <3> QED
      BY <3>1, <3>2
  <2> SUFFICES Half(s, e, b, L \cup {z}, R) /\ Half(Other(s), b, e, R, L \cup {z})
    BY <2>3, <2>9 DEF Halves
  <2> HIDE DEF m, b, L, R
  <2>12. CASE kind = "text"
    <3>1. m = Nothing /\ b = Nothing
      BY <1>1, <1>3, <2>12 DEF FrameInv, m, b
    <3>2. L = {} /\ R = {}
      <4>1. \A r \in Side, n \in Nat : n \in Coming(c, r) => queue[c][r][n].target \in written
        BY DEF FrameInv
      <4>2. \A q \in pushes : q.target \in written
        BY DEF FrameInv
      <4>3. \A r \in Side : \A n \in Coming(c, r) : n \in Nat
        BY ConversationTypeFacts DEF Coming
      <4>4. \A r \in Side : Line(c, r, i) = {}
        BY <1>1, <2>12, <4>1, <4>2, <4>3, Sides DEF Line
      <4> QED
        BY <1>3, <4>4 DEF L, R
    <3>3. (s = s) = TRUE
      OBVIOUS
    <3>4. e = Message(TRUE, p.number)
      BY <1>2, <2>11, <2>12, <3>1, <3>3
    <3>5. e \in Item /\ e.own /\ e.reacted = {} /\ e.text = p.number
      BY <2>10, <3>4, MessageFields
    <3>6. L \cup {z} = {z}
      BY <3>2
    <3>7. Half(s, e, Nothing, {z}, {}) /\ Half(Other(s), Nothing, e, {}, {z})
      BY <1>1, <1>2, <2>2, <2>12, <3>5, TextSent
    <3> QED
      BY <3>1, <3>2, <3>6, <3>7
  <2>13. CASE kind = "edit"
    <3>1. m \in Item /\ m # Nothing /\ m.own
      BY <1>1, <2>10, <2>13 DEF m
    <3>2. e \in Item /\ e # Nothing
      BY <1>2, <2>11, <2>13, <3>1
    <3>3. e.own = m.own /\ e.text = p.number /\ e.reacted = m.reacted
      BY <1>2, <2>11, <2>13, <3>1, <3>2 DEF Reactions
    <3> QED
      BY <1>1, <1>2, <2>2, <2>4, <2>5, <2>7, <2>13, <3>1, <3>2, <3>3, EditSent, ZenonT(30)
  <2>14. CASE kind = "delete"
    <3>1. m \in Item /\ m.own
      BY <1>1, <2>10, <2>14 DEF m
    <3>2. e = Nothing
      BY <1>2, <2>11, <2>14
    <3> QED
      BY <1>1, <1>2, <2>2, <2>4, <2>5, <2>7, <2>14, <3>1, <3>2, DeleteSent
  <2>15. CASE kind \in Reactions
    <3>1. m \in Item /\ m # Nothing
      BY <1>1, <2>10, <2>15 DEF m
    <3>2. kind # "edit" /\ kind # "delete" /\ (kind = "react" \/ kind = "unreact")
      BY <2>15 DEF Reactions
    <3>3. e \in Item /\ e # Nothing
      BY <1>2, <2>11, <3>1, <3>2
    <3>4. /\ e.own = m.own /\ e.text = m.text
          /\ \A r \in Side : r # s => (r \in e.reacted <=> r \in m.reacted)
          /\ s \in e.reacted <=> p.kind = "react"
      BY <1>2, <2>11, <3>1, <3>2, <3>3
    <3> QED
      BY <1>1, <1>2, <2>2, <2>4, <2>5, <2>7, <2>15, <3>1, <3>3, <3>4, ReactionSent
  <2> QED
    BY <2>12, <2>13, <2>14, <2>15 DEF Kind, Reactions
<1> HIDE DEF m, b, L, R
<1>6. \A d \in Chat, r \in Side, j \in Id :
        ~(d = c /\ j = i) => items'[d][r][j] = items[d][r][j] /\ Line(d, r, j)' = Line(d, r, j)
  BY <1>1, <1>4
<1> QED
  BY <1>1, <1>5, <1>6, OtherHalves

LEMMA PushAgree ==
  ASSUME ConversationTypes, FrameInv, AgreeInv, NEW p \in pushes, Push(p)
  PROVE  AgreeInv'
<1>0. PICK c, s, i, t : c = p.chat /\ s = p.from /\ i = p.target /\ t = Other(s)
  OBVIOUS
<1>a. PICK n : n = Len(queue[c][t]) + 1
  OBVIOUS
<1>1. /\ p \in Payload /\ p.at = "push"
      /\ UNCHANGED <<items, taken, disturbed>>
      /\ \A d \in Chat, r \in Side : ~(d = c /\ r = t) => queue'[d][r] = queue[d][r]
      /\ Len(queue'[c][t]) = n /\ queue'[c][t][n] = p
      /\ \A k \in 1 .. Len(queue[c][t]) : queue'[c][t][k] = queue[c][t][k]
      /\ \A q : q.at = "push" => (q \in pushes' <=> q \in pushes /\ q # p)
  <2> DEFINE C == p.chat
             T == Other(p.from)
             N == Len(queue[C][T]) + 1
             a == [p EXCEPT !.at = "answer", !.seq = N]
  <2>1. /\ p \in Payload /\ p.at = "push"
        /\ UNCHANGED <<items, taken, disturbed>>
        /\ \A d \in Chat, r \in Side : ~(d = C /\ r = T) => queue'[d][r] = queue[d][r]
        /\ Len(queue'[C][T]) = N /\ queue'[C][T][N] = p
        /\ \A k \in 1 .. Len(queue[C][T]) : queue'[C][T][k] = queue[C][T][k]
        /\ a.at = "answer"
        /\ pushes' = (pushes \ {p}) \cup IF p.kind = "text" THEN {a} ELSE {}
    BY PushFacts
  <2>2. C = c /\ T = t /\ N = n
    BY <1>0, <1>a
  <2> HIDE DEF a, C, T, N
  <2>3. \A q : q.at = "push" => (q \in pushes' <=> q \in pushes /\ q # p)
    BY <2>1
  <2> QED
    BY <2>1, <2>2, <2>3
<1>2. c \in Chat /\ s \in Side /\ i \in Id /\ t \in Side /\ t # s /\ Other(t) = s
  BY <1>0, <1>1, Sides DEF Payload
<1>3. taken[c][t] \in Nat /\ Len(queue[c][t]) \in Nat /\ taken[c][t] <= Len(queue[c][t])
  BY <1>2, ConversationTypeFacts DEF FrameInv
<1>4. /\ Coming(c, t)' = Coming(c, t) \cup {n}
      /\ n \notin Coming(c, t) /\ n \in Nat /\ \A k \in Coming(c, t) : k < n /\ k # 0
      /\ \A k \in Coming(c, t) : queue'[c][t][k] = queue[c][t][k]
  <2>1. /\ Coming(c, t) = taken[c][t] + 1 .. Len(queue[c][t])
        /\ Coming(c, t)' = taken[c][t] + 1 .. n
    BY <1>1 DEF Coming
  <2>2. \A k \in Coming(c, t) : k \in 1 .. Len(queue[c][t])
    BY <1>3, <2>1
  <2>3. /\ Coming(c, t)' = Coming(c, t) \cup {n}
        /\ n \notin Coming(c, t) /\ n \in Nat /\ \A k \in Coming(c, t) : k < n /\ k # 0
    BY <1>a, <1>3, <2>1
  <2> QED
    BY <1>1, <2>2, <2>3
<1>5. ASSUME NEW d \in Chat, NEW r \in Side, NEW j \in Id, ~(d = c /\ r = s /\ j = i)
      PROVE  Line(d, r, j)' = Line(d, r, j)
  <2>1. \A q : q.at = "push" /\ q.chat = d /\ q.from = r /\ q.target = j =>
          (q \in pushes' <=> q \in pushes)
    BY <1>0, <1>1, <1>5
  <2>2. CASE ~(d = c /\ Other(r) = t)
    <3>1. Other(r) \in Side
      BY Sides
    <3> QED
      BY <1>1, <2>1, <2>2, <3>1, SameLine
  <2>3. CASE d = c /\ Other(r) = t
    <3>1. r = s /\ j # i
      BY <1>2, <1>5, <2>3, Sides
    <3>2. {q \in pushes' : q.at = "push" /\ q.chat = d /\ q.from = r /\ q.target = j}
            = {q \in pushes : q.at = "push" /\ q.chat = d /\ q.from = r /\ q.target = j}
      BY <2>1
    <3>3. {k \in Coming(c, t)' : queue'[c][t][k].target = j}
            = {k \in Coming(c, t) : queue[c][t][k].target = j}
      BY <1>0, <1>1, <1>4, <3>1
    <3>4. {<<k, queue'[c][t][k]>> : k \in {k \in Coming(c, t)' : queue'[c][t][k].target = j}}
            = {<<k, queue[c][t][k]>> : k \in {k \in Coming(c, t) : queue[c][t][k].target = j}}
      BY <1>4, <3>3
    <3> QED
      BY <2>3, <3>2, <3>4 DEF Line
  <2> QED
    BY <2>2, <2>3
<1>6. PICK z, w : z = <<0, p>> /\ w = <<n, p>>
  OBVIOUS
<1>7. z[1] = 0 /\ z[2] = p /\ w[1] = n /\ w[2] = p
  BY <1>6
<1> DEFINE L == Line(c, s, i)
           R == Line(c, t, i)
<1>8. z \in L
  BY <1>0, <1>1, <1>2, <1>6 DEF Line
<1>9. /\ Placed(L)
      /\ \A y \in L : /\ y = <<y[1], y[2]>>
                      /\ y[1] \in Coming(c, t) \/ y[1] = 0
  BY <1>0, <1>2, InLine
<1>10. Line(c, s, i)' = (L \ {z}) \cup {w}
  <2>1. {<<0, q>> : q \in {q \in pushes' : q.at = "push" /\ q.chat = c /\ q.from = s /\ q.target = i}}
          = {<<0, q>> : q \in {q \in pushes : q.at = "push" /\ q.chat = c /\ q.from = s
                                              /\ q.target = i}} \ {z}
    BY <1>1, <1>6
  <2>2. {k \in Coming(c, t)' : queue'[c][t][k].target = i}
          = {k \in Coming(c, t) : queue[c][t][k].target = i} \cup {n}
    BY <1>0, <1>1, <1>4
  <2>3. {<<k, queue'[c][t][k]>> : k \in {k \in Coming(c, t)' : queue'[c][t][k].target = i}}
          = {<<k, queue[c][t][k]>> : k \in {k \in Coming(c, t) : queue[c][t][k].target = i}} \cup {w}
    BY <1>1, <1>4, <1>6, <2>2
  <2>4. z \notin {<<k, queue[c][t][k]>> : k \in {k \in Coming(c, t) : queue[c][t][k].target = i}}
    BY <1>4, <1>6
  <2> QED
    BY <1>0, <2>1, <2>3, <2>4, SMTT(30) DEF Line
<1>11. \A y \in L : y[1] < w[1]
  BY <1>3, <1>4, <1>7, <1>9, <1>a
<1>12. Line(c, t, i)' = R
  BY <1>2, <1>5
<1> HIDE DEF L, R
<1>13. ASSUME c \notin disturbed'
       PROVE  Halves(c, s, i)'
  <2>1. Halves(c, s, i)
    BY <1>1, <1>2, <1>13, AgreeHalves
  <2>2. /\ Half(s, items[c][s][i], items[c][t][i], L, R)
        /\ Half(Other(s), items[c][t][i], items[c][s][i], R, L)
    BY <1>0, <2>1 DEF Halves, L, R
  <2>3. /\ Half(s, items[c][s][i], items[c][t][i], (L \ {z}) \cup {w}, R)
        /\ Half(Other(s), items[c][t][i], items[c][s][i], R, (L \ {z}) \cup {w})
    BY <1>2, <1>4, <1>7, <1>8, <1>9, <1>11, <2>2, FrameMoved
  <2> QED
    BY <1>0, <1>1, <1>10, <1>12, <2>3 DEF Halves
<1>14. \A d \in Chat, r \in Side, j \in Id :
         ~(d = c /\ j = i) => items'[d][r][j] = items[d][r][j] /\ Line(d, r, j)' = Line(d, r, j)
  BY <1>1, <1>5
<1>15. disturbed \subseteq disturbed'
  BY <1>1
<1> QED
  BY <1>2, <1>13, <1>14, <1>15, OtherHalves

LEMMA ReceiveAgree ==
  ASSUME ConversationTypes, FrameInv, AgreeInv, NEW c \in Chat, NEW t \in Side,
         NEW focused \in BOOLEAN, Receive(c, t, focused)
  PROVE  AgreeInv'
<1>0. PICK n, p, i, s : /\ n = taken[c][t] + 1 /\ p = queue[c][t][n] /\ i = p.target
                        /\ s = Other(t)
  OBVIOUS
<1>1. /\ n \in Coming(c, t) /\ p \in Payload
      /\ taken'[c][t] = n
      /\ \A d \in Chat, r \in Side : ~(d = c /\ r = t) => taken'[d][r] = taken[d][r]
      /\ \A d \in Chat, r \in Side :
           /\ Len(queue'[d][r]) = Len(queue[d][r])
           /\ \A k \in 1 .. Len(queue[d][r]) :
                ~(d = c /\ r = t /\ k = n) => queue'[d][r][k] = queue[d][r][k]
      /\ Dropped(c) \/ Opened(c, t, focused)
      /\ pushes' = pushes
  <2> DEFINE N == taken[c][t] + 1
  <2>1. /\ N \in Coming(c, t) /\ queue[c][t][N] \in Payload
        /\ taken'[c][t] = N
        /\ \A d \in Chat, r \in Side : ~(d = c /\ r = t) => taken'[d][r] = taken[d][r]
        /\ \A d \in Chat, r \in Side :
             /\ Len(queue'[d][r]) = Len(queue[d][r])
             /\ \A k \in 1 .. Len(queue[d][r]) :
                  ~(d = c /\ r = t /\ k = N) => queue'[d][r][k] = queue[d][r][k]
        /\ Dropped(c) \/ Opened(c, t, focused)
        /\ pushes' = pushes
    BY ReceiveFacts
  <2>2. N = n /\ queue[c][t][N] = p
    BY <1>0
  <2> HIDE DEF N
  <2> QED
    BY <2>1, <2>2
<1>2. s \in Side /\ i \in Id /\ t # s /\ Other(s) = t
  BY <1>0, <1>1, Sides DEF Payload
<1>3. \A d \in Chat, r \in Side :
        /\ taken[d][r] \in Nat /\ Len(queue[d][r]) \in Nat /\ taken[d][r] <= Len(queue[d][r])
  BY ConversationTypeFacts DEF FrameInv
<1>4. /\ Coming(c, t)' = Coming(c, t) \ {n}
      /\ \A k \in Coming(c, t) : k \in Nat /\ k # 0 /\ (k # n => n < k)
  <2>1. /\ Coming(c, t) = taken[c][t] + 1 .. Len(queue[c][t])
        /\ Coming(c, t)' = n + 1 .. Len(queue[c][t])
    BY <1>1 DEF Coming
  <2> QED
    BY <1>0, <1>3, <2>1
<1>5. ASSUME NEW d \in Chat, NEW r \in Side, ~(d = c /\ r = t)
      PROVE  /\ Coming(d, r)' = Coming(d, r)
             /\ \A k \in Coming(d, r) : queue'[d][r][k] = queue[d][r][k]
  <2>1. taken'[d][r] = taken[d][r] /\ Len(queue'[d][r]) = Len(queue[d][r])
    BY <1>1, <1>5
  <2>2. \A k \in Coming(d, r) : k \in 1 .. Len(queue[d][r])
    BY <1>3 DEF Coming
  <2> QED
    BY <1>1, <1>5, <2>1, <2>2 DEF Coming
<1>6. \A k \in Coming(c, t) : k # n => queue'[c][t][k] = queue[c][t][k]
  <2>1. \A k \in Coming(c, t) : k \in 1 .. Len(queue[c][t])
    BY <1>3 DEF Coming
  <2> QED
    BY <1>1, <2>1
<1>7. ASSUME NEW d \in Chat, NEW r \in Side, NEW j \in Id, ~(d = c /\ r = s /\ j = i)
      PROVE  Line(d, r, j)' = Line(d, r, j)
  <2>1. Other(r) \in Side
    BY Sides
  <2>2. CASE ~(d = c /\ Other(r) = t)
    <3>1. /\ Coming(d, Other(r))' = Coming(d, Other(r))
          /\ \A k \in Coming(d, Other(r)) : queue'[d][Other(r)][k] = queue[d][Other(r)][k]
      BY <1>5, <2>1, <2>2
    <3>2. {k \in Coming(d, Other(r))' : queue'[d][Other(r)][k].target = j}
            = {k \in Coming(d, Other(r)) : queue[d][Other(r)][k].target = j}
      BY <3>1
    <3>3. {<<k, queue'[d][Other(r)][k]>> :
             k \in {k \in Coming(d, Other(r))' : queue'[d][Other(r)][k].target = j}}
            = {<<k, queue[d][Other(r)][k]>> :
                 k \in {k \in Coming(d, Other(r)) : queue[d][Other(r)][k].target = j}}
      BY <3>1, <3>2
    <3> QED
      BY <1>1, <3>3 DEF Line
  <2>3. CASE d = c /\ Other(r) = t
    <3>1. r = s /\ j # i
      BY <1>2, <1>7, <2>3, Sides
    <3>2. {k \in Coming(c, t)' : queue'[c][t][k].target = j}
            = {k \in Coming(c, t) : queue[c][t][k].target = j}
      BY <1>0, <1>4, <1>6, <3>1
    <3>3. {<<k, queue'[c][t][k]>> : k \in {k \in Coming(c, t)' : queue'[c][t][k].target = j}}
            = {<<k, queue[c][t][k]>> : k \in {k \in Coming(c, t) : queue[c][t][k].target = j}}
      BY <1>4, <1>6, <3>2
    <3> QED
      BY <1>1, <2>3, <3>3 DEF Line
  <2> QED
    BY <2>2, <2>3
<1>8. PICK x : x = <<n, p>>
  OBVIOUS
<1>9. x[1] = n /\ x[2] = p
  BY <1>8
<1> DEFINE L == Line(c, s, i)
           R == Line(c, t, i)
<1>10. x \in L
  BY <1>0, <1>1, <1>2, <1>8 DEF Line
<1>11. /\ Placed(L)
       /\ \A y \in L : /\ y = <<y[1], y[2]>>
                       /\ \/ y[1] \in Coming(c, t) /\ y[2] = queue[c][t][y[1]]
                          \/ y[1] = 0
  BY <1>2, InLine
<1>12. Line(c, s, i)' = L \ {x}
  <2>1. {k \in Coming(c, t)' : queue'[c][t][k].target = i}
          = {k \in Coming(c, t) : queue[c][t][k].target = i} \ {n}
    BY <1>4, <1>6
  <2>2. {<<k, queue'[c][t][k]>> : k \in {k \in Coming(c, t)' : queue'[c][t][k].target = i}}
          = {<<k, queue[c][t][k]>> : k \in {k \in Coming(c, t) : queue[c][t][k].target = i}} \ {x}
    BY <1>0, <1>4, <1>6, <1>8, <2>1
  <2>3. x \notin {<<0, q>> : q \in {q \in pushes : q.at = "push" /\ q.chat = c /\ q.from = s
                                                   /\ q.target = i}}
    BY <1>1, <1>4, <1>8
  <2> QED
    BY <1>1, <1>2, <2>2, <2>3 DEF Line
<1>13. ASSUME NEW y \in L \ {x}
       PROVE  Sooner(x, y)
  <2>1. y[1] = 0 \/ (y[1] \in Coming(c, t) /\ y[1] # n)
    BY <1>0, <1>8, <1>11
  <2>2. n # 0
    BY <1>1, <1>4
  <2> QED
    BY <1>4, <1>9, <2>1, <2>2 DEF Sooner
<1>14. Line(c, t, i)' = R
  BY <1>2, <1>7
<1> HIDE DEF L, R
<1>15. CASE Dropped(c)
  <2>1. /\ c \in disturbed' /\ disturbed \subseteq disturbed'
        /\ \A d \in Chat, r \in Side, j \in Id : items'[d][r][j] = items[d][r][j]
    BY <1>15 DEF Dropped
  <2>2. \A d \in Chat, r \in Side, j \in Id : ~(d = c /\ j = i) => Line(d, r, j)' = Line(d, r, j)
    BY <1>7
  <2> QED
    BY <1>2, <2>1, <2>2, OtherHalves
<1>16. CASE Opened(c, t, focused)
  <2> DEFINE a == items[c][s][i]
             b == items[c][t][i]
  <2>1. /\ disturbed' = disturbed
        /\ \A d \in Chat, r \in Side, j \in Id :
             ~(d = c /\ r = t /\ j = i) => items'[d][r][j] = items[d][r][j]
        /\ items'[c][t][i] = Effect(b, t, s, p)
    <3> DEFINE N == taken[c][t] + 1
               P == queue[c][t][N]
    <3>1. /\ disturbed' = disturbed
          /\ \A d \in Chat, r \in Side, j \in Id :
               ~(d = c /\ r = t /\ j = P.target) => items'[d][r][j] = items[d][r][j]
          /\ items'[c][t][P.target] = Effect(items[c][t][P.target], t, Other(t), P)
      BY <1>16 DEF Opened
    <3>2. P = p
      BY <1>0
    <3> HIDE DEF P
    <3> QED
      BY <1>0, <3>1, <3>2
  <2>2. PICK e : e = Effect(b, t, s, p)
    OBVIOUS
  <2>3. b \in Item \cup {Nothing} /\ p.number \in Nat /\ p.kind \in Kind
    BY <1>1, <1>2, ConversationTypeFacts DEF Payload
  <2>4. /\ e \in Item \cup {Nothing}
        /\ e # Nothing /\ b # Nothing =>
             /\ e.own = b.own
             /\ e.text = IF p.kind = "edit" THEN p.number ELSE b.text
             /\ \A r \in Side : r # s => (r \in e.reacted <=> r \in b.reacted)
             /\ p.kind = "react" => s \in e.reacted
             /\ p.kind = "unreact" => s \notin e.reacted
             /\ p.kind \notin Reactions => e.reacted = b.reacted
        /\ b = Nothing /\ p.kind # "text" => e = Nothing
        /\ b = Nothing /\ p.kind = "text" => e = Message(t = s, p.number)
        /\ e = Nothing => b = Nothing \/ p.kind = "delete"
        /\ p.kind = "delete" => e = Nothing
    <3> HIDE DEF b
    <3> DEFINE f == Effect(b, t, s, p)
    <3>1. /\ f \in Item \cup {Nothing}
          /\ f # Nothing /\ b # Nothing =>
               /\ f.own = b.own
               /\ f.text = IF p.kind = "edit" THEN p.number ELSE b.text
               /\ \A r \in Side : r # s => (r \in f.reacted <=> r \in b.reacted)
               /\ p.kind = "react" => s \in f.reacted
               /\ p.kind = "unreact" => s \notin f.reacted
               /\ p.kind \notin Reactions => f.reacted = b.reacted
          /\ b = Nothing /\ p.kind # "text" => f = Nothing
          /\ b = Nothing /\ p.kind = "text" => f = Message(t = s, p.number)
          /\ f = Nothing => b = Nothing \/ p.kind = "delete"
          /\ p.kind = "delete" => f = Nothing
      <4>1. b \in Item \cup {Nothing} /\ t \in Side /\ s \in Side /\ p \in Payload
        BY <1>1, <1>2, <2>3
      <4> QED
        BY <4>1, EffectFields
    <3> HIDE DEF f
    <3>2. e = f
      BY <2>2 DEF f
    <3> QED
      BY <3>1, <3>2
  <2>5. items'[c][s][i] = a /\ items'[c][t][i] = e
    BY <1>2, <2>1, <2>2
  <2>6. ASSUME c \notin disturbed'
        PROVE  Half(s, a, b, L, R) /\ Half(Other(s), b, a, R, L)
    <3>1. Halves(c, s, i)
      BY <1>2, <2>1, <2>6, AgreeHalves
    <3> QED
      BY <1>2, <3>1 DEF Halves, L, R
  <2>7. ASSUME Half(s, a, b, L, R), Half(Other(s), b, a, R, L)
        PROVE  Half(s, a, e, L \ {x}, R) /\ Half(Other(s), e, a, R, L \ {x})
    <3> HIDE DEF a, b
    <3>1. CASE p.kind = "text"
      <4>1. b = Nothing
        <5>1. x \in OfKind(L, {"text"})
          BY <1>9, <1>10, <3>1 DEF OfKind
        <5> QED
          BY <2>7, <5>1 DEF Half, TextFirst
      <4>2. (t = s) = FALSE
        BY <1>2
      <4>3. e = Message(FALSE, p.number)
        BY <2>4, <3>1, <4>1, <4>2
      <4>4. e \in Item /\ ~e.own /\ e.reacted = {} /\ e.text = p.number
        BY <2>3, <4>3, MessageFields
      <4> QED
        BY <1>2, <1>9, <1>10, <1>11, <1>13, <2>7, <3>1, <4>4, TextArrived
    <3>2. CASE p.kind = "edit"
      <4>1. /\ b # Nothing
            /\ \A f \in Item : f.own = b.own /\ f.text = x[2].number /\ f.reacted = b.reacted =>
                 Half(s, a, f, L \ {x}, R) /\ Half(Other(s), f, a, R, L \ {x})
        BY <1>2, <1>9, <1>10, <1>11, <1>13, <2>7, <3>2, EditArrived
      <4>2. e # Nothing /\ e \in Item
        BY <2>4, <3>2, <4>1
      <4>3. e.own = b.own /\ e.text = p.number /\ e.reacted = b.reacted
        BY <2>4, <3>2, <4>1, <4>2 DEF Reactions
      <4> QED
        BY <1>9, <4>1, <4>2, <4>3
    <3>3. CASE p.kind = "delete"
      <4>1. e = Nothing
        BY <2>4, <3>3
      <4> QED
        BY <1>2, <1>9, <1>10, <1>11, <1>13, <2>7, <3>3, <4>1, DeleteArrived
    <3>4. CASE p.kind \in Reactions
      <4>1. p.kind # "edit" /\ p.kind # "delete" /\ p.kind # "text"
            /\ (p.kind = "react" \/ p.kind = "unreact")
        BY <3>4 DEF Reactions
      <4>2. e = Nothing <=> b = Nothing
        BY <2>4, <4>1
      <4>3. b # Nothing => /\ e.own = b.own /\ e.text = b.text
                           /\ \A r \in Side : r # s => (r \in e.reacted <=> r \in b.reacted)
                           /\ s \in e.reacted <=> p.kind = "react"
        BY <2>4, <4>1, <4>2
      <4> QED
        BY <1>2, <1>9, <1>10, <1>11, <1>13, <2>7, <3>4, <4>2, <4>3, ReactionArrived
    <3> QED
      BY <2>3, <3>1, <3>2, <3>3, <3>4 DEF Kind, Reactions
  <2>8. c \in disturbed' \/ Halves(c, s, i)'
    BY <1>2, <1>12, <1>14, <2>5, <2>6, <2>7 DEF Halves
  <2>9. \A d \in Chat, r \in Side, j \in Id :
          ~(d = c /\ j = i) => items'[d][r][j] = items[d][r][j] /\ Line(d, r, j)' = Line(d, r, j)
    BY <1>7, <2>1
  <2>10. disturbed \subseteq disturbed'
    BY <2>1
  <2> HIDE DEF a, b
  <2> QED
    BY <1>2, <2>8, <2>9, <2>10, OtherHalves
<1> QED
  BY <1>1, <1>15, <1>16

LEMMA AgreeInit ==
  ASSUME ConversationInit
  PROVE  AgreeInv
<1>1. /\ \A c \in Chat, s \in Side, i \in Id : items[c][s][i] = Nothing
      /\ \A c \in Chat, s \in Side : queue[c][s] = <<>> /\ taken[c][s] = 0
      /\ pushes = {}
  BY DEF ConversationInit, PerEnd
<1>2. ASSUME NEW c \in Chat, NEW s \in Side, NEW i \in Id
      PROVE  Line(c, s, i) = {}
  <2>1. Len(queue[c][Other(s)]) = 0 /\ taken[c][Other(s)] = 0
    BY <1>1, Sides
  <2>2. Coming(c, Other(s)) = {}
    BY <2>1 DEF Coming
  <2> QED
    BY <1>1, <2>2 DEF Line
<1>3. ASSUME NEW s \in Side
      PROVE  Half(s, Nothing, Nothing, {}, {})
  <2>1. \A K : OfKind({}, K) = {}
    BY DEF OfKind
  <2> QED
    BY <2>1 DEF Half, Ordered, OneOwner, TextFirst, DeleteLast, Targets, TextAgrees,
                ReactionAgrees
<1> QED
  BY <1>1, <1>2, <1>3, Sides DEF AgreeInv

LEMMA AgreeStep ==
  ASSUME ConversationTypes, FrameInv, StatusInv, AgreeInv,
         [ConversationNext]_conversationVars
  PROVE  AgreeInv'
<1>1. \A c \in Chat, s \in Side, i \in Id : StatusOnly(items[c][s][i], items[c][s][i])
  BY ConversationTypeFacts DEF StatusOnly
<1>2. ASSUME UNCHANGED <<items, pushes, queue, taken, disturbed>>
      PROVE  AgreeInv'
  BY <1>1, <1>2, AgreeStays
<1>3. ASSUME NEW k \in Cursor, Reported(k), UNCHANGED <<pushes, queue, taken, disturbed>>
      PROVE  AgreeInv'
  <2>1. \A c \in Chat, s \in Side, i \in Id : StatusOnly(items[c][s][i], items'[c][s][i])
    BY <1>3, ReportedTypes
  <2> QED
    BY <1>3, <2>1, AgreeStays
<1>4. CASE UNCHANGED conversationVars
  BY <1>2, <1>4 DEF conversationVars, lists, transport, history
<1>5. ASSUME NEW c \in Chat, Select(c) \/ Handshake(c)
      PROVE  AgreeInv'
  BY <1>2, <1>5, SelectFacts, HandshakeFacts
<1>6. ASSUME NEW c \in Chat, NEW s \in Side, NEW k \in Kind, NEW i \in Id, Send(c, s, k, i)
      PROVE  AgreeInv'
  BY <1>6, SendAgree
<1>7. ASSUME NEW c \in Chat, NEW s \in Side, NEW focused \in BOOLEAN, Receive(c, s, focused)
      PROVE  AgreeInv'
  BY <1>7, ReceiveAgree
<1>8. ASSUME NEW p \in pushes, Push(p)
      PROVE  AgreeInv'
  BY <1>8, PushAgree
<1>9. ASSUME NEW p \in pushes, PushAnswered(p)
      PROVE  AgreeInv'
  <2>1. /\ p \in Payload /\ p.at = "answer" /\ p.seq \in Nat
        /\ pushes' = pushes \ {p}
        /\ SetStatus(p.chat, p.from, p.target, "sent", p.seq)
        /\ UNCHANGED <<queue, taken, disturbed>>
    BY <1>9, AnsweredFacts
  <2>2. \A c \in Chat, s \in Side, i \in Id : StatusOnly(items[c][s][i], items'[c][s][i])
    BY <2>1, StatusStepTypes DEF Status
  <2>3. \A q : q.at = "push" => (q \in pushes' <=> q \in pushes)
    BY <2>1
  <2> QED
    BY <2>1, <2>2, <2>3, AgreeStays
<1>10. ASSUME NEW p \in pushes, PushFails(p)
       PROVE  AgreeInv'
  <2>1. /\ pushes' = pushes \ {p}
        /\ disturbed' = IF p.at = "push" THEN disturbed \cup {p.chat} ELSE disturbed
        /\ UNCHANGED <<queue, taken>>
    BY <1>10, FailsFacts
  <2>2. \A c \in Chat, s \in Side, i \in Id : StatusOnly(items[c][s][i], items'[c][s][i])
    BY <1>10, FailsTypes
  <2>3. disturbed \subseteq disturbed'
    BY <2>1
  <2>4. \A q : q.at = "push" => (q \in pushes' <=> q \in pushes) \/ q.chat \in disturbed'
    BY <2>1
  <2> QED
    BY <2>1, <2>2, <2>3, <2>4, AgreeStays
<1>11. ASSUME NEW p \in Page, Focus(p)
       PROVE  AgreeInv'
  BY <1>2, <1>11, FocusFacts
<1>12. ASSUME NEW t \in timers, Fire(t)
       PROVE  AgreeInv'
  <2>1. PICK k : k = CursorOf(t, At(t.page))
    OBVIOUS
  <2>2. /\ k \in Cursor
        /\ UNCHANGED <<pushes, queue, taken, disturbed>>
        /\ UNCHANGED items \/ Reported(k)
    BY <1>12, <2>1, FireFacts
  <2> QED
    BY <1>2, <1>3, <2>2
<1>13. ASSUME NEW k \in cursors, Collect(k)
       PROVE  AgreeInv'
  BY <1>3, <1>13, CollectFacts
<1>14. CASE LosesReceipt
  BY <1>2, <1>14, LosesFacts
<1> QED
  BY <1>4, <1>5, <1>6, <1>7, <1>8, <1>9, <1>10, <1>11, <1>12, <1>13, <1>14, ConversationSteps

LEMMA ConversationAgrees == ConversationSpec => [](ConversationTypes /\ FrameInv /\ AgreeInv)
<1>1. ConversationInit => AgreeInv
  BY AgreeInit
<1>2. /\ ConversationTypes /\ FrameInv /\ StatusInv /\ AgreeInv
      /\ [ConversationNext]_conversationVars
      => AgreeInv'
  BY AgreeStep
<1> QED
  BY <1>1, <1>2, ConversationSafe, PTL DEF ConversationSpec

\* Chats.tsx:497-517, chatReducer.ts:8.  In every behaviour of the pages, once
\* nothing of a chat is under way, its two ends show the same messages with the
\* same texts and reactions, whatever crossed, provided that nothing of it was
\* lost or pushed while another payload about the same message was.
THEOREM EndsAgree == ConversationSpec => []EndsAgreeUnlessDisturbed
<1>1. ASSUME ConversationTypes, AgreeInv, NEW c \in Chat \ disturbed, Settled(c), NEW i \in Id
      PROVE  Common(items[c]["here"][i]) = Common(items[c]["there"][i])
  <2>1. PICK a, b : a = items[c]["here"][i] /\ b = items[c]["there"][i]
    OBVIOUS
  <2>2. "here" \in Side /\ "there" \in Side /\ Other("here") = "there" /\ Other("there") = "here"
    BY DEF Side, Other
  <2>3. ASSUME NEW s \in Side
        PROVE  Line(c, s, i) = {}
    <3>1. Other(s) \in Side
      BY Sides
    <3>2. Coming(c, Other(s)) = {}
      BY <1>1, <3>1, ConversationTypeFacts DEF Settled, Coming
    <3>3. {p \in pushes : p.at = "push" /\ p.chat = c /\ p.from = s /\ p.target = i} = {}
      BY <1>1 DEF Settled
    <3> QED
      BY <3>2, <3>3 DEF Line
  <2>4. Half("here", a, b, {}, {}) /\ Half("there", b, a, {}, {})
    BY <1>1, <2>1, <2>2, <2>3 DEF AgreeInv
  <2>5. \A K : OfKind({}, K) = {}
    BY DEF OfKind
  <2>6. /\ a = Nothing <=> b = Nothing
        /\ a # Nothing => a.text = b.text
    BY <2>4, <2>5 DEF Half, TextAgrees
  <2>7. a # Nothing /\ b # Nothing =>
          /\ "here" \in a.reacted <=> "here" \in b.reacted
          /\ "there" \in b.reacted <=> "there" \in a.reacted
    BY <2>4, <2>5 DEF Half, ReactionAgrees
  <2>8. a \in Item \cup {Nothing} /\ b \in Item \cup {Nothing}
    BY <1>1, <2>1, <2>2, ConversationTypeFacts
  <2>9. CASE a = Nothing
    BY <2>1, <2>6, <2>9 DEF Common
  <2>10. CASE a # Nothing
    <3>1. a.reacted \in SUBSET Side /\ b.reacted \in SUBSET Side /\ b # Nothing
      BY <2>6, <2>8, <2>10 DEF Item
    <3>2. a.reacted = b.reacted
      BY <2>7, <2>10, <3>1 DEF Side
    <3> QED
      BY <2>1, <2>6, <2>10, <3>1, <3>2 DEF Common
  <2> QED
    BY <2>9, <2>10
<1>2. ConversationTypes /\ AgreeInv => EndsAgreeUnlessDisturbed
  BY <1>1 DEF EndsAgreeUnlessDisturbed
<1> QED
  BY <1>2, ConversationAgrees, PTL

=============================================================================
