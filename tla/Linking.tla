------------------------------ MODULE Linking -------------------------------
(***************************************************************************)
(* Moving a chat to another device of the same user: lib/deviceLink.ts,    *)
(* DeviceLinkDO, the redeeming of a code in apps/web/src/pages/Chats.tsx,  *)
(* the lease effect of hooks/useQueueTransport.ts as far as it hydrates an *)
(* imported session, and the deletion of a chat.                           *)
(*                                                                         *)
(* The devices are one party of one chat.  The lease is taken to be        *)
(* exclusive (DeviceLease says when it is).  A session is the handshake it *)
(* comes from and the number of the next key that it seals with; a frame   *)
(* sealed with a key that was used is one that the peer drops.             *)
(***************************************************************************)
EXTENDS Integers, FiniteSets

CONSTANTS
  None,
  Device,
  MaxCodes,    \* bound of the model: the codes that are made
  MaxEvents    \* bound of the model: handshakes, messages, deletions, pages
               \* left, leases lapsed and effects that generate keys, together

\* A session, and the payload of a code.
Session == [root : Nat, next : Nat]
Payload == [code : Nat, session : Session \cup {None}, records : BOOLEAN]

ASSUME LinkingAssumption ==
  /\ None \notin Device \cup Session \cup Payload \cup {"reading", "clearing"}
  /\ MaxCodes \in Nat /\ MaxEvents \in Nat

Code == 1 .. MaxCodes

VARIABLES
  listed,     \* the devices that have the chat in their list
  at,         \* the devices that have it open
  lease,      \* who has the lease of the chat
  holding,    \* hasLease of each device
  session,    \* ratchetSessionRef of each device
  hydrating,  \* tryAcquire: "reading" or "clearing" the imported state
  minting,    \* the devices whose responder effect is under way
  consuming,  \* the devices that are taking a one-time key from the pool
  records,    \* records[d]: the identity, prekeys and pool are in d's store
  staged,     \* staged[d]: ratchet-imported-state in d's store
  link,       \* link[c]: table link of the DeviceLinkDO of code c
  codes,      \* number of codes
  taken,      \* taken[d]: a payload that d has fetched and not yet applied
  written,    \* the devices that have written it to their store
  roots,      \* number of handshakes
  sealed,     \* history: <<handshake, key, message>> of each frame
  forked,     \* history: the handshakes of which a device used its session
              \* while a copy was elsewhere, or came back to an older state
  applied,    \* history: applied[c]: the devices that took the payload of c
  lost,       \* history: the codes that expired, or were fetched in vain
  deleted,    \* history: the devices on which the chat was deleted last
  raced,      \* history: the devices on which keys of it, or the payload of a
              \* code, could still be written then
  events      \* history: number of events

writers == <<minting, consuming>>
device == <<listed, at, lease, holding, session, hydrating, writers>>
store == <<records, staged>>
transfer == <<link, codes, taken, written>>
history == <<forked, applied, lost, deleted, raced, events>>
vars == <<device, store, transfer, roots, sealed, history>>

Init ==
  /\ \E d \in Device : listed = {d}
  /\ at = {} /\ lease = None /\ holding = {}
  /\ session = [d \in Device |-> None]
  /\ hydrating = [d \in Device |-> None]
  /\ minting = {} /\ consuming = {} /\ records = {}
  /\ staged = [d \in Device |-> None]
  /\ link = [c \in Code |-> None] /\ codes = 0
  /\ taken = [d \in Device |-> None] /\ written = {}
  /\ roots = 0 /\ sealed = {} /\ forked = {}
  /\ applied = [c \in Code |-> {}] /\ lost = {}
  /\ deleted = {} /\ raced = {} /\ events = 0

Event == events < MaxEvents /\ events' = events + 1

-----------------------------------------------------------------------------
(* The chat on a device *)

Open(d) ==
  /\ d \in listed \ at
  /\ at' = at \cup {d}
  /\ UNCHANGED <<listed, lease, holding, session, hydrating, writers, store,
                 transfer, roots, sealed, history>>

\* What leaving the chat, closing the page and deleting the chat have in common:
\* the session is dropped and the lease released.  A hydration that has yet to
\* read is cancelled, one that has read goes on to clear what it read, and what
\* writes keys goes on to write them, unless the page is gone.
Gone(d) ==
  /\ at' = at \ {d}
  /\ holding' = holding \ {d}
  /\ session' = [session EXCEPT ![d] = None]
  /\ lease' = IF lease = d THEN None ELSE lease

Leave(d) ==
  /\ d \in at /\ Event
  /\ Gone(d)
  /\ hydrating' = [hydrating EXCEPT ![d] = IF @ = "reading" THEN None ELSE @]
  /\ UNCHANGED <<listed, writers, store, transfer, roots, sealed, forked,
                 applied, lost, deleted, raced>>

\* The page is closed: a payload that was fetched is lost with it.
Close(d) ==
  /\ \/ d \in at \cup minting \cup consuming
     \/ hydrating[d] # None \/ taken[d] # None
  /\ Event
  /\ Gone(d)
  /\ hydrating' = [hydrating EXCEPT ![d] = None]
  /\ minting' = minting \ {d} /\ consuming' = consuming \ {d}
  /\ taken' = [taken EXCEPT ![d] = None]
  /\ written' = written \ {d}
  /\ lost' = IF taken[d] = None THEN lost ELSE lost \cup {taken[d].code}
  /\ raced' = IF d \in written THEN raced \cup {d} ELSE raced
  /\ UNCHANGED <<listed, store, link, codes, roots, sealed, forked, applied,
                 deleted>>

\* A device that sleeps loses its lease, and keeps its session.
Lapse(d) ==
  /\ lease = d /\ Event
  /\ lease' = None
  /\ holding' = holding \ {d}
  /\ UNCHANGED <<listed, at, session, hydrating, writers, store, transfer, roots,
                 sealed, forked, applied, lost, deleted, raced>>

\* Its responder effect runs whenever it comes to hold the lease, and may find
\* that it has keys to generate.
Holds(d) ==
  /\ holding' = holding \cup {d}
  /\ \/ UNCHANGED <<minting, events>>
     \/ d \notin holding /\ Event /\ minting' = minting \cup {d}

\* tryAcquire, and its heartbeat: without a session it looks for an imported one.
Acquire(d) ==
  /\ d \in at /\ lease \in {None, d} /\ hydrating[d] = None
  /\ \/ d \notin holding
     \/ session[d] = None /\ staged[d] # None
  /\ lease' = d
  /\ IF session[d] = None
     THEN /\ hydrating' = [hydrating EXCEPT ![d] = "reading"]
          /\ UNCHANGED <<holding, minting, events>>
     ELSE Holds(d) /\ UNCHANGED hydrating
  /\ UNCHANGED <<listed, at, session, consuming, store, transfer, roots, sealed,
                 forked, applied, lost, deleted, raced>>

\* It is read, and put in the place of any session there is by now.
Hydrate(d) ==
  /\ hydrating[d] = "reading"
  /\ IF staged[d] = None
     THEN /\ hydrating' = [hydrating EXCEPT ![d] = None]
          /\ Holds(d)
          /\ UNCHANGED session
     ELSE /\ hydrating' = [hydrating EXCEPT ![d] = "clearing"]
          /\ session' = [session EXCEPT ![d] = staged[d]]
          /\ UNCHANGED <<holding, minting, events>>
  /\ UNCHANGED <<listed, at, lease, consuming, store, transfer, roots, sealed,
                 forked, applied, lost, deleted, raced>>

\* Mutant: the imported state stays in the store.
AfterHydrationKept(d) == staged

AfterHydration(d) == [staged EXCEPT ![d] = None]

\* Only then does it hold the lease, if it is still at the chat.
Clear(d) ==
  /\ hydrating[d] = "clearing"
  /\ hydrating' = [hydrating EXCEPT ![d] = None]
  /\ staged' = AfterHydration(d)
  /\ IF d \in at THEN Holds(d) ELSE UNCHANGED <<holding, minting, events>>
  /\ UNCHANGED <<listed, at, lease, session, consuming, records, transfer, roots,
                 sealed, forked, applied, lost, deleted, raced>>

\* The writers of a device that are left when one ends, or writes for the first
\* time: there may be more, of an earlier visit to the chat.
Left(writing, d) == {writing, writing \ {d}}

\* getOrRotateIdentity and topUpPool: what they generate is stored, be it the
\* first identity, a key pair that takes the place of one too old, or a pool that
\* was read and added to.
Mint(d) ==
  /\ d \in minting
  /\ minting' \in Left(minting, d)
  /\ records' = records \cup {d}
  /\ UNCHANGED <<listed, at, lease, holding, session, hydrating, consuming,
                 staged, transfer, roots, sealed, history>>

\* It comes to nothing: something failed, or the pool lacks the key.
Unwritten(d) ==
  /\ \/ d \in minting /\ minting' = minting \ {d} /\ UNCHANGED consuming
     \/ d \in consuming /\ consuming' = consuming \ {d} /\ UNCHANGED minting
  /\ UNCHANGED <<listed, at, lease, holding, session, hydrating, store, transfer,
                 roots, sealed, history>>

\* A handshake with the peer (see Handshake), over any session there is:
Agreed(d) ==
  /\ roots' = roots + 1
  /\ session' = [session EXCEPT ![d] = [root |-> roots + 1, next |-> 1]]

\* at once,
Handshake(d) ==
  /\ d \in holding /\ Event
  /\ Agreed(d)
  /\ UNCHANGED <<listed, at, lease, holding, hydrating, writers, store, transfer,
                 sealed, forked, applied, lost, deleted, raced>>

\* or with a one-time key: consumeFromPool has read the pool,
Consume(d) ==
  /\ d \in holding \cap records
  /\ consuming' = consuming \cup {d}
  /\ UNCHANGED <<listed, at, lease, holding, session, hydrating, minting, store,
                 transfer, roots, sealed, history>>

\* and saves what is left of it, wherever the user is by then.
Consumed(d) ==
  /\ d \in consuming /\ Event
  /\ consuming' \in Left(consuming, d)
  /\ records' = records \cup {d}
  /\ IF d \in at THEN Agreed(d) ELSE UNCHANGED <<roots, session>>
  /\ UNCHANGED <<listed, at, lease, holding, hydrating, minting, staged, transfer,
                 sealed, forked, applied, lost, deleted, raced>>

\* The copies of sessions that are not in the use of d.
Elsewhere(d) ==
  ({session[e] : e \in Device \ {d}} \cup {staged[e] : e \in Device \ {d}}
   \cup {p.session : p \in ({link[c] : c \in Code} \cup
                            {taken[e] : e \in Device}) \ {None}}) \ {None}

Send(d) ==
  /\ d \in holding /\ session[d] # None /\ Event
  /\ LET s == session[d]
     IN  /\ sealed' = sealed \cup {<<s.root, s.next, events>>}
         /\ session' = [session EXCEPT ![d] = [root |-> s.root, next |-> s.next + 1]]
         /\ forked' = IF \/ \E r \in Elsewhere(d) : r.root = s.root
                         \/ hydrating[d] = "clearing"
                      THEN forked \cup {s.root} ELSE forked
  /\ UNCHANGED <<listed, at, lease, holding, hydrating, writers, store, transfer,
                 roots, applied, lost, deleted, raced>>

-----------------------------------------------------------------------------
(* Linking *)

\* handleLinkDevice: the session as it is goes to the DeviceLinkDO of a new code.
MakeCode(d) ==
  /\ d \in holding /\ codes < MaxCodes
  /\ codes' = codes + 1
  /\ link' = [link EXCEPT ![codes + 1] =
       [code |-> codes + 1, session |-> session[d], records |-> d \in records]]
  /\ UNCHANGED <<device, store, taken, written, roots, sealed, history>>

\* The alarm of the DeviceLinkDO.
Expire(c) ==
  /\ link[c] # None
  /\ link' = [link EXCEPT ![c] = None]
  /\ lost' = lost \cup {c}
  /\ UNCHANGED <<device, store, codes, taken, written, roots, sealed, forked,
                 applied, deleted, raced, events>>

\* Mutant: the payload is left for others.
AfterTakeKept(c) == link

AfterTake(c) == [link EXCEPT ![c] = None]

\* The code is opened on another page: GET /take of the DeviceLinkDO.
Take(d, c) ==
  /\ link[c] # None /\ taken[d] = None
  /\ taken' = [taken EXCEPT ![d] = link[c]]
  /\ link' = AfterTake(c)
  /\ applied' = [applied EXCEPT ![c] = @ \cup {d}]
  /\ UNCHANGED <<device, store, codes, written, roots, sealed, forked, lost,
                 deleted, raced, events>>

\* applyLinkPayload writes what came to the store,
ApplyToStore(d) ==
  /\ taken[d] # None /\ d \notin written
  /\ written' = written \cup {d}
  /\ records' = IF taken[d].records THEN records \cup {d} ELSE records
  /\ staged' = IF taken[d].session = None THEN staged
               ELSE [staged EXCEPT ![d] = taken[d].session]
  /\ forked' = IF session[d] # None /\ taken[d].session # None
                  /\ session[d].root = taken[d].session.root
               THEN forked \cup {session[d].root} ELSE forked
  /\ UNCHANGED <<device, link, codes, taken, roots, sealed, applied, lost,
                 deleted, raced, events>>

\* and then the chat comes into the list.
ApplyToList(d) ==
  /\ d \in written
  /\ listed' = listed \cup {d}
  /\ taken' = [taken EXCEPT ![d] = None]
  /\ written' = written \ {d}
  /\ deleted' = deleted \ {d} /\ raced' = raced \ {d}
  /\ UNCHANGED <<at, lease, holding, session, hydrating, writers, store, link,
                 codes, roots, sealed, forked, applied, lost, events>>

-----------------------------------------------------------------------------
(* Deletion *)

\* Mutant: the imported state is forgotten.
ClearedLess(d) == /\ records' = records \ {d}
                  /\ UNCHANGED staged

Cleared(d) == /\ records' = records \ {d}
              /\ staged' = [staged EXCEPT ![d] = None]

\* handleDeleteChat.
Delete(d) ==
  /\ d \in listed /\ Event
  /\ listed' = listed \ {d}
  /\ Gone(d)
  /\ hydrating' = [hydrating EXCEPT ![d] = IF @ = "reading" THEN None ELSE @]
  /\ Cleared(d)
  /\ deleted' = deleted \cup {d}
  /\ raced' = IF d \in minting \cup consuming \/ taken[d] # None
               THEN raced \cup {d} ELSE raced
  /\ UNCHANGED <<writers, transfer, roots, sealed, forked, applied, lost>>

Next ==
  \/ \E d \in Device :
       \/ Open(d) \/ Leave(d) \/ Close(d) \/ Lapse(d)
       \/ Acquire(d) \/ Hydrate(d) \/ Clear(d) \/ Mint(d) \/ Unwritten(d)
       \/ Handshake(d) \/ Consume(d) \/ Consumed(d) \/ Send(d)
       \/ MakeCode(d) \/ ApplyToStore(d) \/ ApplyToList(d) \/ Delete(d)
       \/ \E c \in Code : Take(d, c)
  \/ \E c \in Code : Expire(c)

Spec == Init /\ [][Next]_vars

-----------------------------------------------------------------------------
(* Properties *)

TypeOK ==
  /\ listed \subseteq Device /\ at \subseteq Device /\ holding \subseteq Device
  /\ minting \subseteq Device /\ consuming \subseteq Device
  /\ records \subseteq Device /\ written \subseteq Device
  /\ deleted \subseteq Device /\ raced \subseteq Device
  /\ lease \in Device \cup {None}
  /\ session \in [Device -> Session \cup {None}]
  /\ hydrating \in [Device -> {None, "reading", "clearing"}]
  /\ staged \in [Device -> Session \cup {None}]
  /\ link \in [Code -> Payload \cup {None}]
  /\ codes \in 0 .. MaxCodes
  /\ taken \in [Device -> Payload \cup {None}]
  /\ roots \in Nat /\ events \in Nat /\ forked \subseteq Nat
  /\ sealed \subseteq Nat \X Nat \X Nat
  /\ applied \in [Code -> SUBSET Device]
  /\ lost \subseteq Nat

\* useQueueTransport.ts:695-716, deviceLink.ts:186.  No key of a session seals
\* two messages, across devices, imports, closed pages and handshakes; unless a
\* device used the session while a copy of it was on its way to another, or
\* there (exporting leaves the session where it is), or before the state it was
\* imported from was cleared (a heartbeat imports while the lease is held).
KeyUsedOnceUnlessForked ==
  \A f, g \in sealed : f[1] = g[1] /\ f[2] = g[2] /\ f # g => f[1] \in forked

\* DeviceLinkDO.ts:74.  The payload of a code is in one place: waiting, with the
\* one device that fetched it, or applied there; or it is lost.
RedeemedOnce ==
  \A c \in 1 .. codes :
    /\ Cardinality(applied[c]) <= 1
    /\ applied[c] = {} => link[c] # None \/ c \in lost

\* "A stale identity/prekey-pool/imported-ratchet-state record left behind after
\* 'deleting' a chat would be a real residual-data leak" (Chats.tsx:304).  There
\* is none, unless the responder effect was under way, a one-time key being taken
\* from the pool or a code being redeemed when the chat was deleted: what is under
\* way is written afterwards.
DeletedLeavesNothingUnlessRaced ==
  \A d \in deleted \ (raced \cup written) :
    d \notin records /\ staged[d] = None
=============================================================================
