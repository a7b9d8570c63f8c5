----------------------------- MODULE DeviceLease -----------------------------
(***************************************************************************)
(* The live-session lease of one chat role: DeviceLeaseDO                  *)
(* (workers/messaging/src/durable-objects/DeviceLeaseDO.ts), and the lease *)
(* effect of useQueueTransport.ts on each of the linked devices that       *)
(* contend for it.                                                         *)
(*                                                                         *)
(* Calls are HTTP requests: each is in flight on its own, served in any    *)
(* order, and may fail before or after it was served.  Time passes in      *)
(* ticks; a lease that was granted counts down on the server.  A tick is   *)
(* the unit of HEARTBEAT, LEASE_TTL and MaxDelay.                          *)
(***************************************************************************)
EXTENDS Integers

CONSTANTS
  None,       \* no lease row; no call in a slot
  Device,     \* the linked devices
  LEASE_TTL,  \* LEASE_TTL_MS
  HEARTBEAT,  \* the interval of setInterval(tryAcquire)
  MaxDelay,   \* a live device's call is decided within this many ticks
  MaxCalls,   \* bound of the model: calls in flight
  MaxFails    \* bound of the model: calls that fail

Slot == 1 .. MaxCalls

\* A cancelled call is one whose effect was cleaned up.  An "acquire" goes
\* from sent to granted or refused, and, if there is no session to keep, to
\* hydrating; the answer to a "release" is ignored.
Call ==
  [dev : Device, kind : {"acquire", "release"}, cancelled : BOOLEAN,
   phase : {"sent", "granted", "refused", "hydrating"}, age : 0 .. MaxDelay]

\* The only row of the table, and the time until its expires_at.
Row == [holder : Device, left : 0 .. LEASE_TTL]

ASSUME LeaseAssumption ==
  /\ LEASE_TTL \in Nat \ {0}
  /\ HEARTBEAT \in Nat \ {0}
  /\ MaxDelay \in Nat
  /\ MaxCalls \in Nat
  /\ MaxFails \in Nat
  /\ None \notin Call \cup Row

VARIABLES
  lease,     \* the row of the object: its holder and the time it has left
  open,      \* open[d]: the lease effect is mounted on device d, for this chat
  elsewhere, \* elsewhere[d]: a hydration of another chat of d is under way
  hasLease,  \* hasLease[d]: the state variable of that name, one for all chats
  session,   \* session[d]: ratchetSessionRef is set
  timer,     \* timer[d]: time to the next heartbeat
  calls,     \* calls[i]: the call in slot i
  fails,     \* how many calls have failed
  raced      \* history: a device returned while calls of its past, its own
             \* release among them, were still in flight, or the hydration of
             \* another chat ended while it was at this one

vars == <<lease, open, elsewhere, hasLease, session, timer, calls, fails, raced>>

NewCall(d, kind) ==
  [dev |-> d, kind |-> kind, cancelled |-> FALSE, phase |-> "sent", age |-> 0]

Of(i, d) == calls[i] # None /\ calls[i].dev = d

\* The effect of device d waits for this call.
Awaited(i, d) == Of(i, d) /\ calls[i].kind = "acquire" /\ ~calls[i].cancelled

Init ==
  /\ lease = None
  /\ open = [d \in Device |-> FALSE]
  /\ elsewhere = [d \in Device |-> FALSE]
  /\ hasLease = [d \in Device |-> FALSE]
  /\ session = [d \in Device |-> FALSE]
  /\ timer = [d \in Device |-> 0]
  /\ calls = [i \in Slot |-> None]
  /\ fails = 0
  /\ raced = FALSE

-----------------------------------------------------------------------------
(* DeviceLeaseDO.                                                          *)

\* currentLease: an expired row counts as none.
HeldBy(d) == lease # None /\ lease.left > 0 /\ lease.holder = d
Held == lease # None /\ lease.left > 0

\* handleRelease: only the current holder's call deletes the row.
Releases(d) == HeldBy(d)

StealsLease(d) == TRUE
NeverTakesOver(d) == lease = None \/ lease.holder = d

\* handleAcquire: no live lease, or the caller's own.
Grants(d) == ~Held \/ HeldBy(d)

\* The row a grant writes, new or renewed.
NotExtended(d) == IF HeldBy(d) THEN lease ELSE [holder |-> d, left |-> LEASE_TTL]
Granted(d) == [holder |-> d, left |-> LEASE_TTL]

\* Nobody waits for the answer to a cancelled call.
Answered(i, phase) ==
  calls' = [calls EXCEPT ![i] = IF @.cancelled THEN None ELSE [@ EXCEPT !.phase = phase]]

ServeAcquire(i) ==
  /\ calls[i] # None /\ calls[i].kind = "acquire" /\ calls[i].phase = "sent"
  /\ LET d == calls[i].dev
     IN IF Grants(d)
        THEN lease' = Granted(d) /\ Answered(i, "granted")
        ELSE lease' = lease /\ Answered(i, "refused")
  /\ UNCHANGED <<open, elsewhere, hasLease, session, timer, fails, raced>>

ServeRelease(i) ==
  /\ calls[i] # None /\ calls[i].kind = "release"
  /\ lease' = IF Releases(calls[i].dev) THEN None ELSE lease
  /\ calls' = [calls EXCEPT ![i] = None]
  /\ UNCHANGED <<open, elsewhere, hasLease, session, timer, fails, raced>>

\* alarm: each grant sets it to the new expiry, so it finds the row expired,
\* or finds no row (released meanwhile) and does nothing.
Alarm ==
  /\ lease # None /\ lease.left = 0
  /\ lease' = None
  /\ UNCHANGED <<open, elsewhere, hasLease, session, timer, calls, fails, raced>>

-----------------------------------------------------------------------------
(* The lease effect of a device.                                           *)

Free == {i \in Slot : calls[i] = None}
NextSlot == {i \in Free : \A j \in Free : i <= j}

Quiet(d) == \A i \in Slot : ~Of(i, d)

\* What a clean-up does to the calls in flight: their answers are ignored,
\* but a request still reaches the object and a hydration still ends.
Cancel(c) ==
  IF c.phase \in {"granted", "refused"} THEN None
  ELSE [c EXCEPT !.cancelled = TRUE, !.age = 0]
Cancelled(d) ==
  [i \in Slot |-> IF Awaited(i, d) THEN Cancel(calls[i]) ELSE calls[i]]

\* What the death of the page does: only the requests survive it.
Orphaned(d) ==
  [i \in Slot |-> IF ~Of(i, d) THEN calls[i]
                  ELSE IF calls[i].phase # "sent" THEN None
                  ELSE IF Awaited(i, d) THEN Cancel(calls[i])
                  ELSE calls[i]]

\* The chat is opened: the effect runs tryAcquire and starts the interval.
Open(d) ==
  /\ ~open[d]
  /\ raced' = (raced \/ ~Quiet(d))
  /\ \E i \in NextSlot : calls' = [calls EXCEPT ![i] = NewCall(d, "acquire")]
  /\ open' = [open EXCEPT ![d] = TRUE]
  /\ hasLease' = [hasLease EXCEPT ![d] = FALSE]
  /\ timer' = [timer EXCEPT ![d] = HEARTBEAT]
  /\ UNCHANGED <<lease, elsewhere, session, fails>>

\* The chat is closed or changed: clean-up, a best-effort release, and the
\* reset of the session.
Close(d) ==
  /\ open[d]
  /\ \E i \in NextSlot : calls' = [Cancelled(d) EXCEPT ![i] = NewCall(d, "release")]
  /\ open' = [open EXCEPT ![d] = FALSE]
  /\ hasLease' = [hasLease EXCEPT ![d] = FALSE]
  /\ session' = [session EXCEPT ![d] = FALSE]
  /\ timer' = [timer EXCEPT ![d] = 0]
  /\ UNCHANGED <<lease, elsewhere, fails, raced>>

\* Only the capability changes: the effect is cleaned up and run again, the
\* session stays.
Rerun(d) ==
  /\ open[d]
  /\ raced' = TRUE
  /\ \E i \in NextSlot, j \in Free :
       /\ i # j
       /\ calls' = [Cancelled(d) EXCEPT ![i] = NewCall(d, "release"),
                                        ![j] = NewCall(d, "acquire")]
  /\ hasLease' = [hasLease EXCEPT ![d] = FALSE]
  /\ timer' = [timer EXCEPT ![d] = HEARTBEAT]
  /\ UNCHANGED <<lease, open, elsewhere, session, fails>>

\* The tab is closed or the device dies without a release.
Crash(d) ==
  /\ open[d] \/ elsewhere[d]
  /\ elsewhere' = [elsewhere EXCEPT ![d] = FALSE]
  /\ calls' = Orphaned(d)
  /\ open' = [open EXCEPT ![d] = FALSE]
  /\ hasLease' = [hasLease EXCEPT ![d] = FALSE]
  /\ session' = [session EXCEPT ![d] = FALSE]
  /\ timer' = [timer EXCEPT ![d] = 0]
  /\ UNCHANGED <<lease, fails, raced>>

\* The interval fires whether or not an earlier call was answered.
Heartbeat(d) ==
  /\ open[d]
  /\ timer[d] = 0
  /\ \E i \in NextSlot : calls' = [calls EXCEPT ![i] = NewCall(d, "acquire")]
  /\ timer' = [timer EXCEPT ![d] = HEARTBEAT]
  /\ UNCHANGED <<lease, open, elsewhere, hasLease, session, fails, raced>>

\* setHasLease(result.granted)
Decided(c) == [hasLease EXCEPT ![c.dev] = (c.phase = "granted")]

\* tryAcquire has its answer.
Answer(i) ==
  /\ calls[i] # None /\ calls[i].phase \in {"granted", "refused"}
  /\ LET c == calls[i]
     IN IF c.phase = "granted" /\ ~session[c.dev]
        THEN /\ calls' = [calls EXCEPT ![i].phase = "hydrating"]
             /\ UNCHANGED hasLease
        ELSE /\ calls' = [calls EXCEPT ![i] = None]
             /\ hasLease' = Decided(c)
  /\ UNCHANGED <<lease, open, elsewhere, session, timer, fails, raced>>

\* unsealFromStore is over: an imported session, if there is one, is taken
\* unless the effect was cleaned up meanwhile; hasLease is set regardless.
Hydrated(i) ==
  /\ calls[i] # None /\ calls[i].phase = "hydrating"
  /\ LET c == calls[i]
     IN /\ hasLease' = [hasLease EXCEPT ![c.dev] = TRUE]
        /\ \E imported \in BOOLEAN :
             session' = [session EXCEPT ![c.dev] = @ \/ (imported /\ ~c.cancelled)]
  /\ calls' = [calls EXCEPT ![i] = None]
  /\ UNCHANGED <<lease, open, elsewhere, timer, fails, raced>>

\* The page is at another chat, has its lease, and looks for its session.
HydrateElsewhere(d) ==
  /\ ~open[d] /\ ~elsewhere[d]
  /\ elsewhere' = [elsewhere EXCEPT ![d] = TRUE]
  /\ UNCHANGED <<lease, open, hasLease, session, timer, calls, fails, raced>>

\* It has looked.  Nothing asks, after this await, which chat the user has
\* gone to in the meantime: hasLease is set all the same, and if that chat is
\* this one, the device is live on it whatever becomes of its own acquire.
HydratedElsewhere(d) ==
  /\ elsewhere[d]
  /\ elsewhere' = [elsewhere EXCEPT ![d] = FALSE]
  /\ hasLease' = [hasLease EXCEPT ![d] = TRUE]
  /\ raced' = (raced \/ open[d])
  /\ UNCHANGED <<lease, open, session, timer, calls, fails>>

\* A request or its answer is lost.  tryAcquire then fails closed.
Fail(i) ==
  /\ fails < MaxFails
  /\ fails' = fails + 1
  /\ calls[i] # None /\ calls[i].phase # "hydrating"
  /\ calls' = [calls EXCEPT ![i] = None]
  /\ LET c == calls[i]
     IN hasLease' = IF c.kind = "acquire" /\ ~c.cancelled
                    THEN [hasLease EXCEPT ![c.dev] = FALSE] ELSE hasLease
  /\ UNCHANGED <<lease, open, elsewhere, session, timer, raced>>

\* A handshake gives the device a session; it runs only under the lease.
Establish(d) ==
  /\ open[d] /\ hasLease[d] /\ ~session[d]
  /\ session' = [session EXCEPT ![d] = TRUE]
  /\ UNCHANGED <<lease, open, elsewhere, hasLease, timer, calls, fails, raced>>

-----------------------------------------------------------------------------

\* Time passes when no heartbeat is due and no awaited call is overdue: the
\* devices that have the chat open are awake and their calls are prompt.
Tick ==
  /\ \A d \in Device : open[d] => timer[d] > 0
  /\ \A i \in Slot : \A d \in Device : Awaited(i, d) => calls[i].age < MaxDelay
  /\ lease' = IF Held THEN [lease EXCEPT !.left = @ - 1] ELSE lease
  /\ timer' = [d \in Device |-> IF open[d] THEN timer[d] - 1 ELSE timer[d]]
  /\ calls' = [i \in Slot |-> IF \E d \in Device : Awaited(i, d)
                              THEN [calls[i] EXCEPT !.age = @ + 1] ELSE calls[i]]
  /\ UNCHANGED <<open, elsewhere, hasLease, session, fails, raced>>

Next ==
  \/ \E d \in Device :
       \/ Open(d) \/ Close(d) \/ Rerun(d) \/ Crash(d)
       \/ Heartbeat(d) \/ HydrateElsewhere(d) \/ HydratedElsewhere(d) \/ Establish(d)
  \/ \E i \in Slot :
       ServeAcquire(i) \/ ServeRelease(i) \/ Answer(i) \/ Hydrated(i) \/ Fail(i)
  \/ Alarm
  \/ Tick

Spec == Init /\ [][Next]_vars

\* The interval fires, calls are served and answered, time passes.
Fairness ==
  /\ \A d \in Device : WF_vars(Heartbeat(d))
  /\ \A i \in Slot : /\ WF_vars(ServeAcquire(i) \/ ServeRelease(i))
                     /\ WF_vars(Answer(i) \/ Hydrated(i))
  /\ WF_vars(Tick)

LiveSpec == Spec /\ Fairness

-----------------------------------------------------------------------------

TypeOK ==
  /\ lease \in Row \cup {None}
  /\ open \in [Device -> BOOLEAN]
  /\ elsewhere \in [Device -> BOOLEAN]
  /\ hasLease \in [Device -> BOOLEAN]
  /\ session \in [Device -> BOOLEAN]
  /\ timer \in [Device -> 0 .. HEARTBEAT]
  /\ calls \in [Slot -> Call \cup {None}]
  /\ fails \in 0 .. MaxFails
  /\ raced \in BOOLEAN

\* idsRef is set: the device subscribes, decrypts and sends.
Live(d) == open[d] /\ hasLease[d]

(* At most one device runs the ratchet of a chat role at a time: the       *)
(* desynchronisation DeviceLeaseDO exists to prevent (DeviceLeaseDO.ts,    *)
(* "WHAT THIS IS"; useQueueTransport.ts, "a second linked device that lost *)
(* the race stays read-only instead of racing the ratchet state").         *)
MutualExclusion == \A d, e \in Device : Live(d) /\ Live(e) => d = e

(* That does hold as long as no device returned too early, to a chat that  *)
(* it had calls of or from one that it was still hydrating, whatever else  *)
(* is lost, late or answered out of order.                                 *)
ExclusiveUnlessRaced == ~raced => MutualExclusion

(* Under the same condition a device that runs the ratchet still has the   *)
(* lease on the server: its belief never outlives what it was granted      *)
(* (useQueueTransport.ts, "Fail CLOSED").                                  *)
LiveHoldsLease == ~raced => \A d \in Device : Live(d) => HeldBy(d)

(* What one device was granted no other device's call takes away: the      *)
(* holder changes only when the lease has run out or a release of the      *)
(* holder's own is served (handleAcquire, handleRelease).                  *)
NoTheft ==
  [][\A d \in Device :
       HeldBy(d) /\ ~HeldBy(d)' =>
         \/ lease.left = 1 /\ lease' = [lease EXCEPT !.left = 0]
         \/ \E i \in Slot : Of(i, d) /\ calls[i].kind = "release" /\ calls'[i] = None]_vars

(* A lease is always reclaimable: once the other devices are gone, closed  *)
(* or crashed with or without a release, a device that keeps the chat open *)
(* (and whose capability stays) gets the lease and keeps it                *)
(* (DeviceLeaseDO.ts, "EXPIRY IS THE SAFETY NET").                         *)
Reclaimable ==
  \A d \in Device :
    (/\ <>[](open[d] /\ \A e \in Device \ {d} : ~open[e])
     /\ <>[][~Rerun(d)]_vars)
    => <>[]hasLease[d]

\* The margin under which the timing of the heartbeat protects the lease.
Margin == HEARTBEAT + 2 * MaxDelay < LEASE_TTL
=============================================================================
