------------------------------- MODULE Ratchet -------------------------------
(***************************************************************************)
(* The double ratchet with its sparse post-quantum mixing                  *)
(* (packages/vortic-core/src/ratchet.rs): two parties, one session, and    *)
(* the queues between them.                                                *)
(*                                                                         *)
(* Keys are symbolic.  A DH key pair is named <<party, number>>; a DH      *)
(* output is the set of the two names; a root key is the sequence of the   *)
(* DH outputs it was derived from; a chain key is a root key and the       *)
(* post-quantum secret folded into it, if any; a message key is a chain    *)
(* key and a position.  Decryption authenticates exactly when both sides   *)
(* derived the same message key.                                           *)
(*                                                                         *)
(* The queues deliver in order.  The faults of a run may let a message     *)
(* overtake others, lose one (its push fails after encryption, or its time *)
(* to live ends) or deliver again everything from some point on (the       *)
(* connection dropped before the acknowledgements arrived: see             *)
(* QueueDelivery).                                                         *)
(***************************************************************************)
EXTENDS Integers, Sequences, FiniteSets

CONSTANTS
  None,                    \* an Option that holds nothing
  MAX_SKIP,                \* message keys skipped at most in one step
  PQ_REMIX_EVERY_N_TURNS,  \* a new ML-KEM offer every so many turns
  MaxSends,                \* bound of the model: messages per party
  Faults,                  \* the kinds of fault of this run
  MaxFaults                \* bound of the model: how many of them

ASSUME RatchetAssumption ==
  /\ MAX_SKIP \in Nat
  /\ PQ_REMIX_EVERY_N_TURNS \in Nat \ {0}
  /\ MaxSends \in Nat
  /\ Faults \subseteq {"overtake", "lose", "redeliver"}
  /\ MaxFaults \in Nat

VARIABLES
  st,      \* st[p]: the RatchetState of party p
  minted,  \* minted[p]: the number of p's newest DH key pair
  queue,   \* queue[p]: every message sent to p, in order
  gone,    \* gone[p]: positions of queue[p] that were delivered or lost
  tried,   \* history: tried[p], positions that p has tried to decrypt
  opened,  \* history: opened[p][i], how often p decrypted queue[p][i]
  faults   \* history: the faults that have happened, in order

vars == <<st, minted, queue, gone, tried, opened, faults>>

Alice == "A"
Bob == "B"
Party == {Alice, Bob}
Peer(p) == IF p = Alice THEN Bob ELSE Alice

\* Names of DH key pairs, symbolic keys, headers, and RatchetState.
Name == Party \X Nat
Root == Seq(SUBSET Name)
Secret == [ek : Name, by : Name]
Chain == [base : Root, mix : Secret \cup {None}]
Key == [base : Root, mix : Secret \cup {None}, n : Nat]
Message == [dh : Name, pn : Nat, n : Nat, ek : Name \cup {None},
            ct : Secret \cup {None}, key : Key]
State == [dhs : Name, dhr : Name \cup {None}, rk : Root,
          cks : Chain \cup {None}, ckr : Chain \cup {None},
          ns : Nat, nr : Nat, pn : Nat,
          skipped : SUBSET [dh : Name \cup {None}, n : Nat, mk : Key],
          turns : Nat, remixes : Nat,
          pending : Name \cup {None}, offer : Name \cup {None}]

ASSUME NoneAssumption == None \notin Name \cup Chain \cup Secret

-----------------------------------------------------------------------------
(* Key derivation.                                                         *)

DH(mine, theirs) == {mine, theirs}

\* kdf_rk: the next root key; the chain key that comes with it.
NextRoot(rk, dhOut) == Append(rk, dhOut)
ChainOf(root) == [base |-> root, mix |-> None]

\* mix_pq_secret folds a shared secret into a chain key.
Mix(chain, secret) == [chain EXCEPT !.mix = secret]

\* The n-th message key of a chain (kdf_ck applied n + 1 times).
MessageKey(chain, n) == [base |-> chain.base, mix |-> chain.mix, n |-> n]

\* Encapsulating to an offer: the ciphertext, and the secret both sides get.
\* Decapsulating with another key pair yields an unrelated secret.
Encapsulate(offer, by) == [ek |-> offer, by |-> by]
Decapsulate(pending, ct) == IF pending = ct.ek THEN ct ELSE [ct EXCEPT !.ek = pending]

-----------------------------------------------------------------------------
(* RatchetState and the functions on it.                                   *)

\* ratchet_init_alice: she has Bob's prekey and a sending chain.
AliceInit ==
  LET root == NextRoot(<<>>, DH(<<Alice, 1>>, <<Bob, 0>>))
  IN [dhs |-> <<Alice, 1>>, dhr |-> <<Bob, 0>>, rk |-> root,
      cks |-> ChainOf(root), ckr |-> None, ns |-> 0, nr |-> 0, pn |-> 0,
      skipped |-> {}, turns |-> 1, remixes |-> 0, pending |-> None, offer |-> None]

\* ratchet_init_bob: no chain until her first message arrives.
BobInit ==
  [dhs |-> <<Bob, 0>>, dhr |-> None, rk |-> <<>>,
   cks |-> None, ckr |-> None, ns |-> 0, nr |-> 0, pn |-> 0,
   skipped |-> {}, turns |-> 0, remixes |-> 0, pending |-> None, offer |-> None]

\* The skipped-key cache is a map from (dh, n).
Cached(s, dh, n) == {e \in s.skipped : e.dh = dh /\ e.n = n}

\* skip_message_keys_to.
TooFar(s, until) == s.ckr # None /\ until - s.nr > MAX_SKIP

SkipTo(s, until) ==
  IF s.ckr = None \/ until <= s.nr THEN s
  ELSE LET range == s.nr .. until - 1
       IN [s EXCEPT
            !.skipped = {e \in @ : ~(e.dh = s.dhr /\ e.n \in range)}
                        \cup {[dh |-> s.dhr, n |-> k, mk |-> MessageKey(s.ckr, k)] : k \in range},
            !.nr = until]

\* dh_ratchet_step: close the receiving chain, open a sending one.
DhRatchetStep(s, theirs, mine) ==
  LET root1 == NextRoot(s.rk, DH(s.dhs, theirs))
      root2 == NextRoot(root1, DH(mine, theirs))
  IN [s EXCEPT !.pn = s.ns, !.ns = 0, !.nr = 0, !.dhr = theirs,
               !.ckr = ChainOf(root1), !.dhs = mine, !.rk = root2,
               !.cks = ChainOf(root2), !.turns = @ + 1]

-----------------------------------------------------------------------------
(* ratchet_encrypt: what the first message of a chain carries.             *)

OffersLate(s) == s.ns = 0 /\ s.pending = None /\ s.turns > PQ_REMIX_EVERY_N_TURNS

OffersKem(s) ==
  /\ s.ns = 0
  /\ s.pending = None
  /\ s.turns > 0
  /\ s.turns % PQ_REMIX_EVERY_N_TURNS = 0

AnswersKem(s) == s.ns = 0 /\ s.offer # None

SendingChain(s) ==
  IF AnswersKem(s) THEN Mix(s.cks, Encapsulate(s.offer, s.dhs)) ELSE s.cks

Wire(s) ==
  [dh |-> s.dhs, pn |-> s.pn, n |-> s.ns,
   ek |-> IF OffersKem(s) THEN s.dhs ELSE None,
   ct |-> IF AnswersKem(s) THEN Encapsulate(s.offer, s.dhs) ELSE None,
   key |-> MessageKey(SendingChain(s), s.ns)]

Encrypted(s) ==
  [s EXCEPT !.ns = @ + 1,
            !.cks = SendingChain(s),
            !.offer = IF AnswersKem(s) THEN None ELSE @,
            !.remixes = IF AnswersKem(s) THEN @ + 1 ELSE @,
            !.pending = IF OffersKem(s) THEN s.dhs ELSE @]

-----------------------------------------------------------------------------
(* ratchet_decrypt.  The result is the state it leaves and whether the     *)
(* message was decrypted; on an error after the first mutation the state   *)
(* stays mutated, as it does in the code.                                  *)

KeepsCachedKey(s, m) ==
  [st |-> s, ok |-> \E e \in Cached(s, m.dh, m.n) : e.mk = m.key]

FromCache(s, m) ==
  [st |-> [s EXCEPT !.skipped = @ \ Cached(s, m.dh, m.n)],
   ok |-> \E e \in Cached(s, m.dh, m.n) : e.mk = m.key]

\* The chain message m belongs to has been reached; its PQ fields count only
\* on the first message of a chain.
MixesIn(s, m) == m.n = 0 /\ m.ct # None /\ s.pending # None

NeverMixes(s, m) ==
  [st |-> [s EXCEPT !.nr = m.n + 1,
                    !.offer = IF m.n = 0 /\ m.ek # None THEN m.ek ELSE @,
                    !.pending = IF MixesIn(s, m) THEN None ELSE @],
   ok |-> MessageKey(s.ckr, m.n) = m.key]

FromChain(s, m) ==
  LET chain == IF MixesIn(s, m) THEN Mix(s.ckr, Decapsulate(s.pending, m.ct)) ELSE s.ckr
  IN [st |-> [s EXCEPT !.ckr = chain,
                       !.nr = m.n + 1,
                       !.offer = IF m.n = 0 /\ m.ek # None THEN m.ek ELSE @,
                       !.pending = IF MixesIn(s, m) THEN None ELSE @,
                       !.remixes = IF MixesIn(s, m) THEN @ + 1 ELSE @],
      ok |-> MessageKey(chain, m.n) = m.key]

InChain(s, m) ==
  IF TooFar(s, m.n) THEN [st |-> s, ok |-> FALSE] ELSE FromChain(SkipTo(s, m.n), m)

ForgetsOldChain(s, m, mine) == InChain(DhRatchetStep(s, m.dh, mine), m)
InNewChain(s, m, mine) ==
  IF TooFar(s, m.pn) THEN [st |-> s, ok |-> FALSE]
  ELSE InChain(DhRatchetStep(SkipTo(s, m.pn), m.dh, mine), m)

Decrypt(s, m, mine) ==
  IF Cached(s, m.dh, m.n) # {} THEN FromCache(s, m)
  ELSE IF s.dhr # m.dh THEN InNewChain(s, m, mine)
  ELSE IF m.n < s.nr THEN [st |-> s, ok |-> FALSE]
  ELSE InChain(s, m)

-----------------------------------------------------------------------------

Init ==
  /\ st = [p \in Party |-> IF p = Alice THEN AliceInit ELSE BobInit]
  /\ minted = [p \in Party |-> IF p = Alice THEN 1 ELSE 0]
  /\ queue = [p \in Party |-> <<>>]
  /\ gone = [p \in Party |-> {}]
  /\ tried = [p \in Party |-> {}]
  /\ opened = [p \in Party |-> <<>>]
  /\ faults = <<>>

\* Without a sending chain (Bob before his first message) it is an error.
Encrypt(p) ==
  /\ st[p].cks # None
  /\ Len(queue[Peer(p)]) < MaxSends
  /\ queue' = [queue EXCEPT ![Peer(p)] = Append(@, Wire(st[p]))]
  /\ opened' = [opened EXCEPT ![Peer(p)] = Append(@, 0)]
  /\ st' = [st EXCEPT ![p] = Encrypted(@)]
  /\ UNCHANGED <<minted, gone, tried, faults>>

Waiting(p) == DOMAIN queue[p] \ gone[p]
InOrder(p, i) == \A j \in Waiting(p) : i <= j

\* Message i reaches p; a fresh key pair is on hand in case it is needed.
Receive(p, i) ==
  LET mine == <<p, minted[p] + 1>>
      result == Decrypt(st[p], queue[p][i], mine)
  IN /\ i \in Waiting(p)
     /\ st' = [st EXCEPT ![p] = result.st]
     /\ minted' = IF result.st.dhs = mine THEN [minted EXCEPT ![p] = @ + 1] ELSE minted
     /\ gone' = [gone EXCEPT ![p] = @ \cup {i}]
     /\ tried' = [tried EXCEPT ![p] = @ \cup {i}]
     /\ opened' = IF result.ok THEN [opened EXCEPT ![p][i] = @ + 1] ELSE opened
     /\ UNCHANGED queue

Fault(kind) ==
  /\ kind \in Faults
  /\ Len(faults) < MaxFaults
  /\ faults' = Append(faults, kind)

Deliver(p) ==
  \E i \in Waiting(p) : InOrder(p, i) /\ Receive(p, i) /\ UNCHANGED faults

Overtake(p) ==
  \E i \in Waiting(p) : ~InOrder(p, i) /\ Receive(p, i) /\ Fault("overtake")

Lose(p) ==
  /\ Fault("lose")
  /\ \E i \in Waiting(p) : gone' = [gone EXCEPT ![p] = @ \cup {i}]
  /\ UNCHANGED <<st, minted, queue, tried, opened>>

Redeliver(p) ==
  /\ Fault("redeliver")
  /\ \E i \in gone[p] \cap tried[p] :
       gone' = [gone EXCEPT ![p] = {j \in @ : j < i \/ j \notin tried[p]}]
  /\ UNCHANGED <<st, minted, queue, tried, opened>>

Next ==
  \E p \in Party : Encrypt(p) \/ Deliver(p) \/ Overtake(p) \/ Lose(p) \/ Redeliver(p)

Spec == Init /\ [][Next]_vars

-----------------------------------------------------------------------------

\* The types of the variables.
TypeOK ==
  /\ st \in [Party -> State] /\ minted \in [Party -> Nat]
  /\ queue \in [Party -> Seq(Message)]
  /\ gone \in [Party -> SUBSET Nat] /\ tried \in [Party -> SUBSET Nat]
  /\ opened \in [Party -> Seq(Nat)]
  /\ \A p \in Party : DOMAIN opened[p] = DOMAIN queue[p]
  /\ faults \in Seq(Faults)

Orderly == faults = <<>>
Happened(kind) == \E i \in DOMAIN faults : faults[i] = kind

(* A message is decrypted at most once, in whatever order and however      *)
(* often the queue delivers it (ratchet.rs, ratchet_decrypt).              *)
OpenedAtMostOnce == \A p \in Party : \A i \in DOMAIN opened[p] : opened[p][i] <= 1

Derivable(s, key) ==
  \/ \E e \in s.skipped : e.mk = key
  \/ s.ckr # None /\ key.n >= s.nr /\ MessageKey(s.ckr, key.n) = key
  \/ s.cks # None /\ key.n >= s.ns /\ MessageKey(s.cks, key.n) = key

(* Forward secrecy: neither the state that decrypted a message nor the one *)
(* that encrypted it still holds, or can still derive, its key (ratchet.rs,*)
(* "old keys cannot be recovered by design").                              *)
ForwardSecrecy ==
  \A p \in Party : \A i \in DOMAIN queue[p] :
    /\ opened[p][i] > 0 => ~Derivable(st[p], queue[p][i].key)
    /\ ~Derivable(st[Peer(p)], queue[p][i].key)

(* On an orderly network every message decrypts, although both parties     *)
(* send at any moment, their turns cross, and the first message of a chain *)
(* may carry a post-quantum offer, an answer, or both.  Reordering and     *)
(* loss cost nothing but the lost messages, as long as no post-quantum     *)
(* answer was sent and no chain outgrows the skipped-key cache             *)
(* (ratchet.rs:687, skip_message_keys_to, dh_ratchet_step).                *)
ReorderingTolerated ==
  \/ Orderly
  \/ /\ ~Happened("redeliver")
     /\ \A p \in Party : \A i \in DOMAIN queue[p] :
           queue[p][i].ct = None /\ queue[p][i].n < MAX_SKIP
  => \A p \in Party : \A i \in tried[p] : opened[p][i] = 1

(* On an orderly network a session heals against a quantum adversary: a    *)
(* party past the turn that brings an offer has mixed in a secret          *)
(* (ratchet.rs, "PQ_REMIX_EVERY_N_TURNS").                                 *)
RemixedInTime ==
  Orderly =>
    \A p \in Party : st[p].turns > PQ_REMIX_EVERY_N_TURNS => st[p].remixes > 0

=============================================================================
