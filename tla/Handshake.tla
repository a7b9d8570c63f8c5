------------------------------ MODULE Handshake ------------------------------
(***************************************************************************)
(* How the two ends of a 1:1 chat come to share a ratchet session: the     *)
(* responder (Bob) publishes a signed prekey bundle, through the queue and *)
(* through PrekeyDO; the initiator (Alice) encapsulates to whichever she   *)
(* gets and pushes a session_init (useQueueTransport.ts, lib/prekeys.ts,   *)
(* PrekeyDO.ts).                                                           *)
(*                                                                         *)
(* A session is its number among those Alice created.  A key pair of Bob   *)
(* is its number among his rotations; his identity key never changes, so   *)
(* two bundles are of "the same peer" when their key pairs are the same.   *)
(* A one-time private key and its public half have one number.  Both       *)
(* devices hold their lease while the chat is open (see DeviceLease).      *)
(*                                                                         *)
(* Pushes are independent HTTP requests: those of one device may reach the *)
(* queue in any order.  A queue delivers in order, and again from some     *)
(* point on if the connection drops (see QueueDelivery).                   *)
(*                                                                         *)
(* ChatProofs extends this module beside QueueDelivery, so that the names  *)
(* both would have carry a prefix here.                                    *)
(***************************************************************************)
EXTENDS Integers, Sequences, FiniteSetsExt

CONSTANTS
  None,                         \* an optional value that is absent
  ONETIME_POOL_TARGET_SIZE,     \* one-time keys a top-up aims at
  ONETIME_REPLENISH_THRESHOLD,  \* and below how many it is made
  MaxSessions,                  \* bound of the model: handshakes Alice starts
  MaxMounts,                    \* bound of the model: how often the chat is opened
  MaxRotations,                 \* bound of the model: rotations of Bob's key
  MaxFaults                     \* bound of the model: failed calls, drops

\* A bundle fetched or offered, and where getOrRotateIdentity, the offer and the
\* publication that follow it are.
Bundle == [key : Nat, onetime : Nat \cup {None}]
Step ==
  [step : {"load", "status"}] \cup [step : {"offer"}, key : Nat] \cup
  [step : {"top up"}, pool : SUBSET Nat, need : Nat] \cup
  [step : {"publish"}, key : Nat, fresh : SUBSET Nat]

ASSUME HandshakeAssumption ==
  /\ ONETIME_POOL_TARGET_SIZE \in Nat \ {0}
  /\ ONETIME_REPLENISH_THRESHOLD \in 1 .. ONETIME_POOL_TARGET_SIZE
  /\ {MaxSessions, MaxMounts, MaxRotations, MaxFaults} \subseteq Nat
  /\ None \notin Nat \cup [step : {"asked"}] \cup [step : {"answered"}, bundle : Bundle]
       \cup Step

VARIABLES
  alice,    \* the initiator's device
  bob,      \* the responder's device
  store,    \* Bob's sealed store: his key pair, his pool of one-time keys
  prekeys,  \* PrekeyDO: the bundle's key, the public one-time keys
  posted,   \* the envelopes being pushed, by addressee
  queue,    \* all envelopes that reached each addressee's queue, in order
  made,     \* the bundle each session of Alice was made from
  minted,   \* how many one-time keys Bob has generated
  used,     \* history: the one-time keys of the sessions Bob derived
  spoilt,   \* history: something may have spoilt the latest handshake
  raced,    \* history: a write of the pool has overwritten another
  faults    \* how many calls failed or connections dropped

keys == <<store, prekeys, minted>>
history == <<used, raced>>
handshakeVars == <<alice, bob, keys, posted, queue, made, history, spoilt, faults>>

Offer(key) == [type |-> "prekey_offer", key |-> key]
SessionInit(s) == [type |-> "session_init", session |-> s]

HandshakeInit ==
  /\ alice = [open |-> FALSE, mounts |-> 0, acked |-> 0, next |-> 0,
              ready |-> FALSE, session |-> 0, fetch |-> None, tasks |-> <<>>]
  /\ bob = [open |-> FALSE, mounts |-> 0, acked |-> 0, next |-> 0,
            key |-> 0, session |-> None, publish |-> None, late |-> {}, tasks |-> <<>>]
  /\ store = [key |-> 0, pool |-> {}]
  /\ prekeys = [key |-> 0, onetime |-> {}]
  /\ posted = [alice |-> {}, bob |-> {}]
  /\ queue = [alice |-> <<>>, bob |-> <<>>]
  /\ made = <<>>
  /\ minted = 0
  /\ used = <<>>
  /\ spoilt = FALSE
  /\ raced = FALSE
  /\ faults = 0

-----------------------------------------------------------------------------
(* The network.                                                            *)

Fault ==
  /\ faults < MaxFaults
  /\ faults' = faults + 1
  /\ spoilt' = TRUE

\* A push arrives, or it fails, which the code only logs.
Arrive(to) ==
  /\ \E envelope \in posted[to] :
       /\ posted' = [posted EXCEPT ![to] = @ \ {envelope}]
       /\ \/ queue' = [queue EXCEPT ![to] = Append(@, envelope)]
             /\ UNCHANGED <<spoilt, faults>>
          \/ Fault /\ UNCHANGED queue
  /\ UNCHANGED <<alice, bob, keys, made, history>>

\* A connection drops before the last acknowledgements on it arrive: these
\* envelopes come again.
Rewound(device) ==
  {[device EXCEPT !.acked = k, !.next = k] : k \in device.acked .. device.next - 1}

Redeliver ==
  /\ Fault
  /\ \/ alice' \in Rewound(alice) /\ UNCHANGED bob
     \/ bob' \in Rewound(bob) /\ UNCHANGED alice
  /\ UNCHANGED <<keys, posted, queue, made, history>>

-----------------------------------------------------------------------------
(* The initiator.                                                          *)

\* The chat is opened: the session is reset, the bundle fetched.
AliceMounts ==
  /\ ~alice.open /\ alice.mounts + bob.mounts < MaxMounts
  /\ alice' = [alice EXCEPT !.open = TRUE, !.mounts = @ + 1, !.acked = alice.next,
                            !.session = 0, !.fetch = [step |-> "asked"]]
  /\ UNCHANGED <<bob, keys, posted, queue, made, history, spoilt, faults>>

\* Another chat is opened, or the page is left; then nothing in it goes on.
AliceLeaves ==
  /\ alice.open
  /\ alice' \in {[alice EXCEPT !.open = FALSE, !.session = 0, !.fetch = None],
                 [alice EXCEPT !.open = FALSE, !.session = 0, !.fetch = None,
                               !.ready = FALSE, !.tasks = <<>>]}
  /\ UNCHANGED <<bob, keys, posted, queue, made, history, spoilt, faults>>

\* handleFetchAndPop: the oldest one-time key is handed out and deleted.
HandedOut == IF prekeys.onetime = {} THEN None ELSE Min(prekeys.onetime)
NotDeleted == prekeys
AfterPop == [prekeys EXCEPT !.onetime = @ \ {HandedOut}]

Asked == alice.fetch # None /\ alice.fetch.step = "asked"

ServeFetch ==
  /\ Asked
  /\ IF prekeys.key = 0
     THEN alice' = [alice EXCEPT !.fetch = None] /\ UNCHANGED prekeys
     ELSE /\ alice' = [alice EXCEPT !.fetch =
                         [step |-> "answered",
                          bundle |-> [key |-> prekeys.key, onetime |-> HandedOut]]]
          /\ prekeys' = AfterPop
  /\ UNCHANGED <<bob, store, minted, posted, queue, made, history, spoilt, faults>>

FetchFails ==
  /\ alice.fetch # None
  /\ Fault
  /\ alice' = [alice EXCEPT !.fetch = None]
  /\ UNCHANGED <<bob, keys, posted, queue, made, history>>

IgnoredWhenActive(bundle) == alice.session # 0

\* A bundle with another key than that of the current session is taken for
\* another identity.
Ignored(bundle) == alice.session # 0 /\ made[alice.session].key # bundle.key

\* Nothing else is under way when a session is made from Bob's current key.
Alone(device, bundle) ==
  /\ device.fetch = None /\ device.tasks = <<>> /\ device.next = Len(queue.alice)
  /\ posted.alice = {} /\ posted.bob = {}
  /\ bob.publish = None /\ bob.tasks = <<>> /\ bob.next = Len(queue.bob)
  /\ bundle.key = store.key

\* The second half of initiateHandshakeFromBundle: the session replaces the
\* current one, if the chat is still open, and its session_init is pushed.
Create(device, bundle) ==
  /\ Len(made) < MaxSessions
  /\ made' = Append(made, bundle)
  /\ alice' = [device EXCEPT !.ready = TRUE,
                             !.session = IF device.open THEN Len(made) + 1 ELSE 0]
  /\ posted' = [posted EXCEPT !.bob = @ \cup {SessionInit(Len(made) + 1)}]
  /\ spoilt' = ~Alone(device, bundle)

\* The first half, up to "await initCrypto()", which takes time only while
\* the WebAssembly module is being loaded.
Initiate(device, bundle) ==
  /\ alice.ready => alice.tasks = <<>>
  /\ \/ /\ Ignored(bundle)
        /\ alice' = device
        /\ UNCHANGED <<posted, made, spoilt>>
     \/ /\ ~Ignored(bundle) /\ alice.ready
        /\ Create(device, bundle)
     \/ /\ ~Ignored(bundle) /\ ~alice.ready
        /\ alice' = [device EXCEPT !.tasks = Append(@, bundle)]
        /\ UNCHANGED <<posted, made, spoilt>>
  /\ UNCHANGED <<bob, keys, queue, history, faults>>

\* The fetched bundle, or an offer from the queue, is acted upon.
UseFetched ==
  /\ alice.fetch # None /\ alice.fetch.step = "answered"
  /\ Initiate([alice EXCEPT !.fetch = None], alice.fetch.bundle)

UseOffer ==
  /\ alice.open /\ alice.next < Len(queue.alice)
  /\ Initiate([alice EXCEPT !.next = @ + 1],
              [key |-> queue.alice[alice.next + 1].key, onetime |-> None])

\* The module is loaded: the handshakes that waited for it go on in turn.
Resume ==
  /\ alice.tasks # <<>>
  /\ Create([alice EXCEPT !.tasks = Tail(@)], Head(alice.tasks))
  /\ UNCHANGED <<bob, keys, queue, history, faults>>

-----------------------------------------------------------------------------
(* The responder.                                                          *)

BobMounts ==
  /\ ~bob.open /\ alice.mounts + bob.mounts < MaxMounts
  /\ bob' = [bob EXCEPT !.open = TRUE, !.mounts = @ + 1, !.acked = bob.next,
                        !.key = 0, !.session = None, !.publish = [step |-> "load"]]
  /\ UNCHANGED <<alice, keys, posted, queue, made, history, spoilt, faults>>

At(step) == bob.publish # None /\ bob.publish.step = step
Publishing(task) == bob' = [bob EXCEPT !.publish = task]

\* Another chat is opened, or the page is left.  In the first case what
\* is under way is still done, only what would come after it is cancelled.
BobLeaves ==
  /\ bob.open
  /\ LET closed == [bob EXCEPT !.open = FALSE, !.key = 0, !.session = None, !.publish = None]
         underway == {task \in {bob.publish} : \E step \in {"load", "top up", "publish"} : At(step)}
     IN bob' \in {[closed EXCEPT !.late = @ \cup underway],
                  [closed EXCEPT !.late = {}, !.tasks = <<>>]}
  /\ UNCHANGED <<alice, keys, posted, queue, made, history, spoilt, faults>>

\* getOrRotateIdentity: the stored key pair, or a new one if it is stale.
GetOrRotate ==
  \/ store.key # 0 /\ UNCHANGED <<store, spoilt>>
  \/ /\ store.key <= MaxRotations
     /\ store' = [store EXCEPT !.key = @ + 1]
     /\ spoilt' = (spoilt \/ store.key # 0)

LoadIdentity ==
  /\ \/ At("load") /\ GetOrRotate /\ Publishing([step |-> "offer", key |-> store'.key])
     \/ \E task \in bob.late :
          /\ task.step = "load" /\ GetOrRotate
          /\ bob' = [bob EXCEPT !.late = @ \ {task}]
  /\ UNCHANGED <<alice, prekeys, minted, posted, queue, made, history, faults>>

\* The key pair is put to use, the signed bundle pushed.
PushOffer ==
  /\ At("offer")
  /\ bob' = [bob EXCEPT !.key = bob.publish.key, !.publish = [step |-> "status"]]
  /\ posted' = [posted EXCEPT !.alice = @ \cup {Offer(bob.publish.key)}]
  /\ UNCHANGED <<alice, keys, queue, made, history, spoilt, faults>>

\* fetchStatus, and the first half of topUpPool: it reads the pool.
AskStatus ==
  /\ At("status")
  /\ LET count == Cardinality(prekeys.onetime)
     IN Publishing(IF count < ONETIME_REPLENISH_THRESHOLD
                   THEN [step |-> "top up", pool |-> store.pool,
                         need |-> ONETIME_POOL_TARGET_SIZE - count]
                   ELSE [step |-> "publish", key |-> bob.key, fresh |-> {}])
  /\ UNCHANGED <<alice, keys, posted, queue, made, history, spoilt, faults>>

\* What topUpPool saves: what it read, and the fresh keys.
OnlyFresh(pool, fresh) == fresh
ToppedUp(pool, fresh) == pool \cup fresh

Fresh(task) == minted + 1 .. minted + task.need

\* Its second half.
SavePool(task) ==
  /\ minted' = minted + task.need
  /\ store' = [store EXCEPT !.pool = ToppedUp(task.pool, Fresh(task))]
  /\ raced' = (raced \/ task.pool # store.pool)

TopUp ==
  /\ \/ /\ At("top up") /\ SavePool(bob.publish)
        /\ Publishing([step |-> "publish", key |-> bob.key,
                       fresh |-> Fresh(bob.publish)])
     \/ \E task \in bob.late :
          /\ task.step = "top up" /\ SavePool(task)
          /\ bob' = [bob EXCEPT !.late = @ \ {task}]
  /\ UNCHANGED <<alice, prekeys, posted, queue, made, used, spoilt, faults>>

\* publishBundle and handlePublish: the bundle is replaced, the one-time
\* keys are added.
Published(task) == [key |-> task.key, onetime |-> prekeys.onetime \cup task.fresh]

Publish ==
  /\ \/ At("publish") /\ prekeys' = Published(bob.publish) /\ Publishing(None)
     \/ \E task \in bob.late :
          /\ task.step = "publish" /\ prekeys' = Published(task)
          /\ bob' = [bob EXCEPT !.late = @ \ {task}]
  /\ UNCHANGED <<alice, store, minted, posted, queue, made, history, spoilt, faults>>

PublishFails ==
  /\ At("status") \/ At("publish")
  /\ Fault
  /\ Publishing(None)
  /\ UNCHANGED <<alice, keys, posted, queue, made, history>>

\* The session Bob derives; a key pair of another rotation yields a root key
\* Alice does not have, and no error.
Derived(s, key) == [id |-> s, good |-> made[s].key = key]

\* session_init: dropped as long as the key pair is not loaded; derived at
\* once without a one-time key; else consumeFromPool reads the pool first.
AcceptInit ==
  /\ bob.open /\ bob.next < Len(queue.bob)
  /\ LET s == queue.bob[bob.next + 1].session
         onetime == made[s].onetime
         device == [bob EXCEPT !.next = @ + 1]
     IN bob' = IF bob.key = 0 THEN device
               ELSE IF onetime = None
               THEN [device EXCEPT !.session = Derived(s, bob.key)]
               ELSE [device EXCEPT !.tasks =
                       Append(@, [session |-> s, key |-> bob.key, pool |-> store.pool])]
  /\ UNCHANGED <<alice, keys, posted, queue, made, history, spoilt, faults>>

\* What consumeFromPool saves.
NotConsumed(pool, onetime) == pool
Consumed(pool, onetime) == pool \ {onetime}

\* Its second half, and what follows it; an absent key ends the handshake.
Consume(i) ==
  /\ LET task == bob.tasks[i]
         onetime == made[task.session].onetime
         device == [bob EXCEPT !.tasks = SubSeq(@, 1, i - 1) \o SubSeq(@, i + 1, Len(@))]
     IN IF onetime \in task.pool
        THEN /\ store' = [store EXCEPT !.pool = Consumed(task.pool, onetime)]
             /\ raced' = (raced \/ task.pool # store.pool)
             /\ used' = Append(used, onetime)
             /\ bob' = IF bob.open
                       THEN [device EXCEPT !.session = Derived(task.session, task.key)]
                       ELSE device
        ELSE bob' = device /\ UNCHANGED <<store, raced, used>>
  /\ UNCHANGED <<alice, prekeys, minted, posted, queue, made, spoilt, faults>>

-----------------------------------------------------------------------------

HandshakeNext ==
  \/ \E to \in {"alice", "bob"} : Arrive(to)
  \/ Redeliver
  \/ AliceMounts \/ AliceLeaves
  \/ ServeFetch \/ FetchFails \/ UseFetched \/ UseOffer \/ Resume
  \/ BobMounts \/ BobLeaves
  \/ LoadIdentity \/ PushOffer \/ AskStatus \/ TopUp \/ Publish \/ PublishFails
  \/ AcceptInit
  \/ \E i \in DOMAIN bob.tasks : Consume(i)

HandshakeSpec == HandshakeInit /\ [][HandshakeNext]_handshakeVars

-----------------------------------------------------------------------------

(* A one-time private key serves one session and is gone, although the     *)
(* session_init that names it may be delivered again, as long as no two    *)
(* updates of the sealed pool overlap (lib/prekeys.ts, consumeFromPool).   *)
UsedOnceUnlessRaced ==
  ~raced => \A i, j \in DOMAIN used : used[i] = used[j] => i = j

(* Every public one-time key that is on offer, in PrekeyDO or in a bundle  *)
(* on its way, has its private half in the pool until it is used.          *)
Offered == prekeys.onetime \cup
  (IF alice.fetch # None /\ alice.fetch.step = "answered"
   THEN {alice.fetch.bundle.onetime} \ {None} ELSE {})
OfferedKeysHeld == Offered \subseteq store.pool
HeldUnlessRaced == ~raced => OfferedKeysHeld

Quiet ==
  /\ alice.open /\ alice.fetch = None /\ alice.tasks = <<>>
  /\ alice.next = Len(queue.alice) /\ bob.next = Len(queue.bob)
  /\ posted.alice = {} /\ posted.bob = {}
  /\ bob.open /\ bob.publish = None /\ bob.tasks = <<>>

Agreed == bob.session = [id |-> alice.session, good |-> TRUE]

(* A handshake that had the stage to itself repairs whatever went wrong    *)
(* before: lost session_inits, mismatched sessions, bundles of earlier     *)
(* rotations.  Both ends then hold the same session, once the chat is open *)
(* on both and nothing is under way (useQueueTransport.ts, "RE-HANDSHAKE   *)
(* RECOVERY").                                                             *)
LoneHandshakeRepairs ==
  /\ Quiet /\ alice.session # 0 /\ ~spoilt
  /\ raced => made[alice.session].onetime = None
  => Agreed

=============================================================================
