--------------------------- MODULE RatchetProofs ---------------------------
(***************************************************************************)
(* A key of the ratchet opens one message and is gone, every message that  *)
(* may come opens, and the session heals in time: for any number of        *)
(* messages, any faults of the queues and any number of them, any limit of *)
(* skipped keys and any pace of the post-quantum renewal.                  *)
(*                                                                         *)
(* The first of this does not depend on the other party.  A party's root   *)
(* key grows by two DH outputs in every step, so that the length of the    *)
(* root key that a chain comes from tells the chains of a party apart, and *)
(* its parity those it sends from those it receives.                       *)
(*                                                                         *)
(* The rest is about both: as long as no message is redelivered, the same  *)
(* lengths are the rungs of one ladder that the two climb in turn, each    *)
(* with a key pair of its own (Agreement, in the second half).             *)
(***************************************************************************)
EXTENDS Ratchet, TLAPS, SequenceTheorems

\* Which of the two parties sends on a chain with a root key of n DH outputs.
Side(n) == n % 2
Own(s) == Side(Len(s.rk))

\* The chain key of the sending chain comes with the root key, and that of the
\* receiving chain with the one before.
Chains(s) ==
  /\ s.cks # None => s.cks.base = s.rk
  /\ s.ckr # None => Len(s.ckr.base) + 1 = Len(s.rk)
  /\ s.ckr = None => s.skipped = {} /\ s.dhr \in {None, <<Bob, 0>>}

\* A message key of a chain that s receives, or has received.
Incoming(s, k) == Len(k.base) < Len(s.rk) /\ Side(Len(k.base)) # Own(s)

\* Skipped keys are of such chains, each of one DH key of the peer, and those
\* of the present chain are of positions it has passed.
Cache(s) ==
  /\ \A e \in s.skipped :
       /\ e.n = e.mk.n /\ Incoming(s, e.mk)
       /\ Len(e.mk.base) + 1 = Len(s.rk) => e.dh = s.dhr /\ e.n < s.nr
  /\ \A e, f \in s.skipped : Len(e.mk.base) = Len(f.mk.base) => e.dh = f.dh

\* Past the first message, the own DH key is not the prekey of the handshake.
Started(s) == s.cks # None => s.dhs # <<Bob, 0>>

Good(s) == s \in State /\ Chains(s) /\ Cache(s) /\ Started(s)

\* The key of a message that s has opened, and of one that it has sent.
Spent(s, k) ==
  /\ Incoming(s, k)
  /\ Len(k.base) + 1 = Len(s.rk) => k.n < s.nr
  /\ \A e \in s.skipped : ~(Len(e.mk.base) = Len(k.base) /\ e.n = k.n)
Sent(s, k) ==
  /\ Len(k.base) <= Len(s.rk) /\ Side(Len(k.base)) = Own(s)
  /\ Len(k.base) = Len(s.rk) => k.n < s.ns

Ends(p) == Good(st[p])
Keys(p) ==
  \A i \in DOMAIN queue[p] :
    /\ opened[p][i] > 0 => Spent(st[p], queue[p][i].key)
    /\ Sent(st[Peer(p)], queue[p][i].key)
    /\ queue[p][i].dh # <<Bob, 0>>

IInv == /\ TypeOK
        /\ \A p \in Party : Ends(p) /\ Keys(p)
        /\ OpenedAtMostOnce

\* What one operation on the state of a party may do to it.
Keeps(s, t) ==
  /\ Good(t)
  /\ \A k \in Key : /\ Spent(s, k) => Spent(t, k)
                    /\ Sent(s, k) => Sent(t, k)

-----------------------------------------------------------------------------
(* The operations of the ratchet *)

LEMMA Parity ==
  ASSUME NEW x \in Nat
  PROVE  Side(x + 2) = Side(x) /\ Side(x + 1) # Side(x)
BY DEF Side

LEMMA Fields ==
  ASSUME NEW s \in State
  PROVE  /\ s.dhs \in Name /\ s.dhr \in Name \cup {None} /\ s.rk \in Root
         /\ Len(s.rk) \in Nat
         /\ s.cks \in Chain \cup {None} /\ s.ckr \in Chain \cup {None}
         /\ s.ns \in Nat /\ s.nr \in Nat /\ s.pn \in Nat
         /\ s.skipped \subseteq [dh : Name \cup {None}, n : Nat, mk : Key]
         /\ s.turns \in Nat /\ s.remixes \in Nat
         /\ s.pending \in Name \cup {None} /\ s.offer \in Name \cup {None}
         /\ \A e \in s.skipped : /\ e.n \in Nat /\ e.mk \in Key
                                 /\ e.mk.n \in Nat /\ Len(e.mk.base) \in Nat
<1>1. s.rk \in Root /\ Len(s.rk) \in Nat
  BY DEF State, Root
<1>2. \A k \in Key : k.n \in Nat /\ k.base \in Root /\ Len(k.base) \in Nat
  BY DEF Key, Root
<1>3. s.skipped \subseteq [dh : Name \cup {None}, n : Nat, mk : Key]
  BY DEF State
<1> QED BY <1>1, <1>2, <1>3 DEF State

LEMMA KeyFields ==
  ASSUME NEW k \in Key
  PROVE  k.n \in Nat /\ k.base \in Root /\ Len(k.base) \in Nat
BY DEF Key, Root

LEMMA ChainFields ==
  ASSUME NEW c \in Chain, NEW n \in Nat
  PROVE  /\ c.base \in Root /\ Len(c.base) \in Nat /\ c # None
         /\ MessageKey(c, n) \in Key
         /\ MessageKey(c, n).base = c.base /\ MessageKey(c, n).n = n
BY NoneAssumption DEF Chain, Root, Key, MessageKey

LEMMA Transitive ==
  ASSUME NEW s, NEW t, NEW u, Keeps(s, t), Keeps(t, u)
  PROVE  Keeps(s, u)
BY DEF Keeps

\* skip_message_keys_to caches keys of positions that were not opened.
LEMMA Skipping ==
  ASSUME NEW s, Good(s), NEW until \in Nat
  PROVE  LET t == SkipTo(s, until)
         IN  /\ Keeps(s, t)
             /\ t.dhs = s.dhs /\ t.dhr = s.dhr /\ t.rk = s.rk
             /\ t.cks = s.cks /\ t.ckr = s.ckr /\ t.ns = s.ns
             /\ s.ckr # None /\ s.nr <= until => t.nr = until
<1> DEFINE t == SkipTo(s, until)
           range == s.nr .. until - 1
           new == {[dh |-> s.dhr, n |-> k, mk |-> MessageKey(s.ckr, k)] :
                     k \in range}
<1>1. s \in State /\ Chains(s) /\ Cache(s) /\ Started(s)
  BY DEF Good
<1>2. CASE s.ckr = None \/ until <= s.nr
  <2>1. t = s
    BY <1>2 DEF SkipTo
  <2>2. s.nr \in Nat
    BY <1>1, Fields
  <2> QED BY <1>1, <1>2, <2>1, <2>2 DEF Keeps, Good
<1>3. CASE s.ckr # None /\ until > s.nr
  <2>1. t = [s EXCEPT !.skipped = {e \in @ : ~(e.dh = s.dhr /\ e.n \in range)}
                                  \cup new,
                      !.nr = until]
    <3>1. s.nr \in Nat
      BY <1>1, Fields
    <3> QED BY <1>3, <3>1 DEF SkipTo
  <2>2. /\ s.ckr \in Chain /\ s.nr \in Nat /\ s.dhr \in Name \cup {None}
        /\ Len(s.rk) \in Nat /\ s.rk \in Root
        /\ range \subseteq Nat
        /\ s.skipped \subseteq [dh : Name \cup {None}, n : Nat, mk : Key]
        /\ \A e \in s.skipped : /\ e.n \in Nat /\ e.mk \in Key
                                /\ Len(e.mk.base) \in Nat
    BY <1>1, <1>3, Fields
  <2>3. /\ Len(s.ckr.base) \in Nat /\ Len(s.ckr.base) + 1 = Len(s.rk)
        /\ Side(Len(s.ckr.base)) # Own(s)
    <3>1. Len(s.ckr.base) \in Nat /\ Len(s.ckr.base) + 1 = Len(s.rk)
      BY <1>1, <1>3, <2>2, ChainFields DEF Chains
    <3> QED BY <3>1, Parity DEF Own
  <2>4. \A e \in new : /\ e \in [dh : Name \cup {None}, n : Nat, mk : Key]
                       /\ e.dh = s.dhr /\ e.n \in range /\ e.mk.n = e.n
                       /\ e.mk.base = s.ckr.base
    <3> SUFFICES ASSUME NEW k \in range
                 PROVE  LET e == [dh |-> s.dhr, n |-> k,
                                  mk |-> MessageKey(s.ckr, k)]
                        IN  /\ e \in [dh : Name \cup {None}, n : Nat, mk : Key]
                            /\ e.dh = s.dhr /\ e.n \in range /\ e.mk.n = e.n
                            /\ e.mk.base = s.ckr.base
      OBVIOUS
    <3>1. k \in Nat
      BY <2>2
    <3> QED BY <2>2, <3>1, ChainFields
  <2> HIDE DEF new, range, t
  <2>5. /\ t.dhs = s.dhs /\ t.dhr = s.dhr /\ t.rk = s.rk /\ t.cks = s.cks
        /\ t.ckr = s.ckr /\ t.ns = s.ns /\ t.nr = until
        /\ t.skipped = {e \in s.skipped : ~(e.dh = s.dhr /\ e.n \in range)}
                       \cup new
    BY <1>1, <2>1 DEF State
  <2>6. t \in State
    <3>1. t.skipped \in SUBSET [dh : Name \cup {None}, n : Nat, mk : Key]
      BY <2>2, <2>4, <2>5
    <3> QED BY <1>1, <2>1, <2>5, <3>1 DEF State
  <2>7. \A e \in t.skipped : e \in s.skipped \/ e \in new
    BY <2>5
  <2>8. \A k \in range : s.nr <= k /\ k < until
    BY <2>2 DEF range
  <2>9. Chains(t) /\ Started(t)
    BY <1>1, <1>3, <2>5 DEF Chains, Started
  <2>10. Own(t) = Own(s)
    BY <2>5 DEF Own
  <2>11. Cache(t)
    <3>1. \A e \in new : Incoming(s, e.mk)
      BY <2>2, <2>3, <2>4 DEF Incoming
    <3>2. \A e \in t.skipped :
            /\ e.n = e.mk.n /\ Incoming(t, e.mk)
            /\ Len(e.mk.base) + 1 = Len(t.rk) => e.dh = t.dhr /\ e.n < t.nr
      <4> SUFFICES ASSUME NEW e \in t.skipped
                   PROVE  /\ e.n = e.mk.n /\ Incoming(t, e.mk)
                          /\ Len(e.mk.base) + 1 = Len(t.rk) =>
                               e.dh = t.dhr /\ e.n < t.nr
        OBVIOUS
      <4>1. CASE e \in s.skipped
        BY <1>1, <1>3, <2>2, <2>5, <2>10, <4>1 DEF Cache, Incoming
      <4>2. CASE e \in new
        BY <2>4, <2>5, <2>8, <2>10, <3>1, <4>2 DEF Incoming
      <4> QED BY <2>7, <4>1, <4>2
    <3>3. \A e, f \in t.skipped :
            Len(e.mk.base) = Len(f.mk.base) => e.dh = f.dh
      <4> SUFFICES ASSUME NEW e \in t.skipped, NEW f \in t.skipped,
                          Len(e.mk.base) = Len(f.mk.base)
                   PROVE  e.dh = f.dh
        OBVIOUS
      <4>1. \A g \in s.skipped :
              Len(g.mk.base) = Len(s.ckr.base) => g.dh = s.dhr
        BY <1>1, <2>3 DEF Cache
      <4>2. \A g \in new : g.dh = s.dhr /\ Len(g.mk.base) = Len(s.ckr.base)
        BY <2>4
      <4>3. CASE e \in s.skipped /\ f \in s.skipped
        BY <1>1, <4>3 DEF Cache
      <4> QED BY <2>7, <4>1, <4>2, <4>3
    <3> QED BY <3>2, <3>3 DEF Cache
  <2>12. ASSUME NEW k \in Key, Spent(s, k) PROVE Spent(t, k)
    <3>1. k.n \in Nat /\ Len(k.base) \in Nat
      BY KeyFields
    <3>2. Incoming(t, k) /\ (Len(k.base) + 1 = Len(t.rk) => k.n < t.nr)
      BY <1>3, <2>2, <2>5, <2>10, <2>12, <3>1 DEF Spent, Incoming
    <3>3. \A e \in new : ~(Len(e.mk.base) = Len(k.base) /\ e.n = k.n)
      <4> SUFFICES ASSUME NEW e \in new, Len(e.mk.base) = Len(k.base),
                          e.n = k.n
                   PROVE  FALSE
        OBVIOUS
      <4>1. e.mk.base = s.ckr.base /\ e.n \in range
        BY <2>4
      <4>2. Len(k.base) + 1 = Len(s.rk)
        BY <2>3, <4>1
      <4>3. k.n < s.nr
        BY <2>12, <4>2 DEF Spent
      <4>4. s.nr <= e.n
        BY <2>8, <4>1
      <4> QED BY <2>2, <3>1, <4>3, <4>4
    <3> QED BY <2>7, <2>12, <3>2, <3>3 DEF Spent
  <2>13. ASSUME NEW k \in Key, Sent(s, k) PROVE Sent(t, k)
    BY <2>5, <2>10, <2>13 DEF Sent
  <2> QED BY <2>5, <2>6, <2>9, <2>11, <2>12, <2>13 DEF Keeps, Good, t
<1>4. s.nr \in Nat
  BY <1>1, Fields
<1> QED BY <1>2, <1>3, <1>4

\* dh_ratchet_step opens chains that no key was taken from before.
LEMMA Stepping ==
  ASSUME NEW s, Good(s), NEW theirs \in Name, NEW mine \in Name,
         mine # <<Bob, 0>>
  PROVE  LET t == DhRatchetStep(s, theirs, mine)
         IN  /\ Keeps(s, t)
             /\ t.dhs = mine /\ t.ckr # None /\ t.nr = 0
<1> DEFINE t == DhRatchetStep(s, theirs, mine)
           root1 == NextRoot(s.rk, DH(s.dhs, theirs))
           root2 == NextRoot(root1, DH(mine, theirs))
<1>1. s \in State /\ Chains(s) /\ Cache(s) /\ Started(s)
  BY DEF Good
<1>2. /\ s.rk \in Root /\ Len(s.rk) \in Nat /\ s.dhs \in Name
      /\ s.ns \in Nat /\ s.turns \in Nat
      /\ \A e \in s.skipped : e.mk \in Key /\ Len(e.mk.base) \in Nat
  BY <1>1, Fields
<1>3. root1 \in Root /\ Len(root1) = Len(s.rk) + 1
  BY <1>2 DEF NextRoot, DH, Root
<1>4. root2 \in Root /\ Len(root2) = Len(s.rk) + 2
  <2> HIDE DEF root1
  <2> QED BY <1>2, <1>3 DEF NextRoot, DH, Root
<1>5. t = [s EXCEPT !.pn = s.ns, !.ns = 0, !.nr = 0, !.dhr = theirs,
                    !.ckr = ChainOf(root1), !.dhs = mine, !.rk = root2,
                    !.cks = ChainOf(root2), !.turns = @ + 1]
  BY DEF DhRatchetStep
<1> HIDE DEF t, root1, root2
<1>6. /\ ChainOf(root1) \in Chain /\ ChainOf(root1).base = root1
      /\ ChainOf(root2) \in Chain /\ ChainOf(root2).base = root2
  BY <1>3, <1>4 DEF ChainOf, Chain
<1>7. /\ t.nr = 0 /\ t.ns = 0 /\ t.dhr = theirs /\ t.ckr = ChainOf(root1)
      /\ t.dhs = mine /\ t.rk = root2 /\ t.cks = ChainOf(root2)
      /\ t.skipped = s.skipped
  BY <1>1, <1>5 DEF State
<1>8. t \in State
  <2>1. /\ s.ns \in Nat /\ s.turns + 1 \in Nat /\ 0 \in Nat
        /\ ChainOf(root1) \in Chain \cup {None}
        /\ ChainOf(root2) \in Chain \cup {None}
    BY <1>2, <1>6
  <2> QED BY <1>1, <1>4, <1>5, <2>1 DEF State
<1>9. t.ckr # None
  BY <1>6, <1>7, NoneAssumption
<1>10. Chains(t) /\ Started(t)
  BY <1>3, <1>4, <1>6, <1>7, <1>9 DEF Chains, Started
<1>11. Own(t) = Own(s)
  BY <1>2, <1>4, <1>7, Parity DEF Own
<1>12. Cache(t)
  BY <1>1, <1>2, <1>4, <1>7, <1>11 DEF Cache, Incoming
<1>13. ASSUME NEW k \in Key
       PROVE  /\ Spent(s, k) => Spent(t, k)
              /\ Sent(s, k) => Sent(t, k)
  <2>1. Len(k.base) \in Nat
    BY KeyFields
  <2> QED BY <1>2, <1>4, <1>7, <1>11, <2>1 DEF Spent, Sent, Incoming
<1> QED BY <1>7, <1>8, <1>9, <1>10, <1>12, <1>13 DEF Keeps, Good, t

\* What an attempt to decrypt m may come to.
Reads(s, m, r) ==
  /\ Keeps(s, r.st) /\ r.ok \in BOOLEAN
  /\ r.ok => Spent(r.st, m.key) /\ ~Spent(s, m.key)

LEMMA ReadsAfter ==
  ASSUME NEW s, NEW t, NEW m \in Message, NEW r, Keeps(s, t), Reads(t, m, r)
  PROVE  Reads(s, m, r)
<1>1. m.key \in Key
  BY DEF Message
<1>2. Keeps(s, r.st)
  BY Transitive DEF Reads
<1> QED BY <1>1, <1>2 DEF Reads, Keeps

\* A message of the present chain, at a position that was not passed.
LEMMA ReadingOn ==
  ASSUME NEW s, Good(s), NEW m \in Message, s.ckr # None, s.nr <= m.n
  PROVE  /\ Reads(s, m, FromChain(s, m))
         /\ FromChain(s, m).st.dhs = s.dhs
<1> DEFINE chain == IF MixesIn(s, m)
                    THEN Mix(s.ckr, Decapsulate(s.pending, m.ct)) ELSE s.ckr
           t == FromChain(s, m).st
           offer == IF m.n = 0 /\ m.ek # None THEN m.ek ELSE s.offer
           pending == IF MixesIn(s, m) THEN None ELSE s.pending
           remixes == IF MixesIn(s, m) THEN s.remixes + 1 ELSE s.remixes
<1>1. /\ s \in State /\ Chains(s) /\ Cache(s) /\ Started(s)
      /\ s.ckr \in Chain /\ s.nr \in Nat /\ Len(s.rk) \in Nat
      /\ \A e \in s.skipped : e.n \in Nat /\ Len(e.mk.base) \in Nat
  BY Fields DEF Good
<1>2. /\ m.n \in Nat /\ m.key \in Key /\ m.ek \in Name \cup {None}
      /\ m.ct \in Secret \cup {None}
  BY DEF Message
<1>3. chain \in Chain /\ chain.base = s.ckr.base
  <2>1. CASE ~MixesIn(s, m)
    BY <1>1, <2>1
  <2>2. CASE MixesIn(s, m)
    <3>1. m.ct \in Secret /\ s.pending \in Name
      BY <1>1, <1>2, <2>2, Fields DEF MixesIn
    <3>2. Decapsulate(s.pending, m.ct) \in Secret
      BY <3>1 DEF Decapsulate, Secret
    <3> QED BY <1>1, <2>2, <3>2 DEF Mix, Chain
  <2> QED BY <2>1, <2>2
<1>4. /\ offer \in Name \cup {None} /\ pending \in Name \cup {None}
      /\ remixes \in Nat
  BY <1>1, <1>2, Fields
<1> HIDE DEF chain, offer, pending, remixes
<1>5. /\ t = [s EXCEPT !.ckr = chain, !.nr = m.n + 1, !.offer = offer,
                       !.pending = pending, !.remixes = remixes]
      /\ FromChain(s, m).ok = (MessageKey(chain, m.n) = m.key)
  BY <1>1 DEF FromChain, chain, offer, pending, remixes, State
<1> HIDE DEF t
<1>6. /\ t.ckr = chain /\ t.nr = m.n + 1 /\ t.dhs = s.dhs /\ t.dhr = s.dhr
      /\ t.rk = s.rk /\ t.cks = s.cks /\ t.ns = s.ns /\ t.skipped = s.skipped
  BY <1>1, <1>5 DEF State
<1>7. t \in State
  <2>1. m.n + 1 \in Nat /\ chain \in Chain \cup {None}
    BY <1>2, <1>3
  <2> QED BY <1>1, <1>4, <1>5, <2>1 DEF State
<1>8. chain # None /\ Own(t) = Own(s)
  BY <1>3, <1>6, NoneAssumption DEF Own
<1>9. Chains(t) /\ Started(t)
  BY <1>1, <1>3, <1>6, <1>8 DEF Chains, Started
<1>10. Cache(t)
  BY <1>1, <1>2, <1>6, <1>8 DEF Cache, Incoming
<1>11. ASSUME NEW k \in Key
       PROVE  /\ Spent(s, k) => Spent(t, k)
              /\ Sent(s, k) => Sent(t, k)
  <2>1. k.n \in Nat /\ Len(k.base) \in Nat
    BY KeyFields
  <2> QED BY <1>1, <1>2, <1>6, <1>8, <2>1 DEF Spent, Sent, Incoming
<1>12. Keeps(s, t)
  BY <1>7, <1>9, <1>10, <1>11 DEF Keeps, Good
<1>13. ASSUME FromChain(s, m).ok PROVE Spent(t, m.key) /\ ~Spent(s, m.key)
  <2>1. m.key.base = s.ckr.base /\ m.key.n = m.n
    <3>1. MessageKey(chain, m.n) = m.key
      BY <1>5, <1>13
    <3> QED BY <1>2, <1>3, <3>1, ChainFields
  <2>2. Len(m.key.base) \in Nat /\ Len(m.key.base) + 1 = Len(s.rk)
    BY <1>1, <2>1, ChainFields DEF Chains
  <2>3. Incoming(s, m.key)
    <3>1. Side(Len(m.key.base)) # Own(s)
      BY <2>2, Parity DEF Own
    <3> QED BY <1>1, <2>2, <3>1 DEF Incoming
  <2>4. \A e \in s.skipped : ~(Len(e.mk.base) = Len(m.key.base) /\ e.n = m.n)
    <3> SUFFICES ASSUME NEW e \in s.skipped,
                        Len(e.mk.base) = Len(m.key.base), e.n = m.n
                 PROVE  FALSE
      OBVIOUS
    <3>1. e.n < s.nr
      BY <1>1, <2>2 DEF Cache
    <3> QED BY <1>1, <1>2, <3>1
  <2>5. Spent(t, m.key)
    BY <1>1, <1>2, <1>6, <1>8, <2>1, <2>3, <2>4 DEF Spent, Incoming
  <2>6. ~Spent(s, m.key)
    BY <1>1, <1>2, <2>1, <2>2 DEF Spent
  <2> QED BY <2>5, <2>6
<1>14. FromChain(s, m).ok \in BOOLEAN
  BY <1>5
<1> QED BY <1>6, <1>12, <1>13, <1>14 DEF Reads, t

LEMMA ReadingInChain ==
  ASSUME NEW s, Good(s), NEW m \in Message, s.ckr # None, s.nr <= m.n
  PROVE  /\ Reads(s, m, InChain(s, m))
         /\ InChain(s, m).st.dhs = s.dhs
<1>1. m.n \in Nat
  BY DEF Message
<1>2. CASE TooFar(s, m.n)
  <2>1. InChain(s, m) = [st |-> s, ok |-> FALSE]
    BY <1>2 DEF InChain
  <2> QED BY <2>1 DEF Reads, Keeps
<1>3. CASE ~TooFar(s, m.n)
  <2> DEFINE t == SkipTo(s, m.n)
  <2>1. Keeps(s, t) /\ t.dhs = s.dhs /\ t.ckr = s.ckr /\ t.nr = m.n
    BY <1>1, Skipping
  <2>2. InChain(s, m) = FromChain(t, m)
    BY <1>3 DEF InChain
  <2> HIDE DEF t
  <2>3. Good(t) /\ t.ckr # None /\ t.nr <= m.n
    BY <1>1, <2>1 DEF Keeps
  <2> QED BY <2>1, <2>2, <2>3, ReadingOn, ReadsAfter
<1> QED BY <1>2, <1>3

LEMMA ReadingNewChain ==
  ASSUME NEW s, Good(s), NEW m \in Message, NEW mine \in Name,
         mine # <<Bob, 0>>
  PROVE  /\ Reads(s, m, InNewChain(s, m, mine))
         /\ InNewChain(s, m, mine).st.dhs \in {s.dhs, mine}
<1>1. m.n \in Nat /\ m.pn \in Nat /\ m.dh \in Name
  BY DEF Message
<1>2. CASE TooFar(s, m.pn)
  <2>1. InNewChain(s, m, mine) = [st |-> s, ok |-> FALSE]
    BY <1>2 DEF InNewChain
  <2> QED BY <2>1 DEF Reads, Keeps
<1>3. CASE ~TooFar(s, m.pn)
  <2> DEFINE t == SkipTo(s, m.pn)
             u == DhRatchetStep(t, m.dh, mine)
  <2>1. InNewChain(s, m, mine) = InChain(u, m)
    BY <1>3 DEF InNewChain
  <2>2. Keeps(s, t)
    BY <1>1, Skipping
  <2> HIDE DEF t
  <2>3. Keeps(t, u) /\ u.dhs = mine /\ u.ckr # None /\ u.nr = 0
    BY <1>1, <2>2, Stepping DEF Keeps
  <2> HIDE DEF u
  <2>4. Reads(u, m, InChain(u, m)) /\ InChain(u, m).st.dhs = mine
    BY <1>1, <2>3, ReadingInChain DEF Keeps
  <2> QED BY <2>1, <2>2, <2>3, <2>4, Transitive, ReadsAfter
<1> QED BY <1>2, <1>3

\* A cached key opens its message, and the entry goes.
LEMMA ReadingFromCache ==
  ASSUME NEW s, Good(s), NEW m \in Message
  PROVE  /\ Reads(s, m, FromCache(s, m))
         /\ FromCache(s, m).st.dhs = s.dhs
<1> DEFINE t == FromCache(s, m).st
           rest == s.skipped \ Cached(s, m.dh, m.n)
<1>1. /\ s \in State /\ Chains(s) /\ Cache(s) /\ Started(s)
      /\ s.skipped \subseteq [dh : Name \cup {None}, n : Nat, mk : Key]
  BY Fields DEF Good
<1>2. rest \subseteq s.skipped
  OBVIOUS
<1>3. t = [s EXCEPT !.skipped = rest]
      /\ FromCache(s, m).ok = (\E e \in Cached(s, m.dh, m.n) : e.mk = m.key)
  BY DEF FromCache
<1>4. \A e \in rest : ~(e.dh = m.dh /\ e.n = m.n)
  BY DEF Cached
<1> HIDE DEF t, rest
<1>5. /\ t.ckr = s.ckr /\ t.nr = s.nr /\ t.dhs = s.dhs /\ t.dhr = s.dhr
      /\ t.rk = s.rk /\ t.cks = s.cks /\ t.ns = s.ns /\ t.skipped = rest
  BY <1>1, <1>3 DEF State
<1>6. t \in State
  <2>1. rest \in SUBSET [dh : Name \cup {None}, n : Nat, mk : Key]
    BY <1>1, <1>2
  <2> QED BY <1>1, <1>3, <2>1 DEF State
<1>7. Chains(t) /\ Started(t)
  BY <1>1, <1>2, <1>5 DEF Chains, Started
<1>8. Cache(t)
  BY <1>1, <1>2, <1>5 DEF Cache, Incoming, Own
<1>9. ASSUME NEW k \in Key
      PROVE  /\ Spent(s, k) => Spent(t, k)
             /\ Sent(s, k) => Sent(t, k)
  BY <1>2, <1>5 DEF Spent, Sent, Incoming, Own
<1>10. Keeps(s, t)
  BY <1>6, <1>7, <1>8, <1>9 DEF Keeps, Good
<1>11. ASSUME FromCache(s, m).ok PROVE Spent(t, m.key) /\ ~Spent(s, m.key)
  <2>1. PICK e \in s.skipped : e.dh = m.dh /\ e.n = m.n /\ e.mk = m.key
    BY <1>3, <1>11 DEF Cached
  <2>2. /\ m.key.n = e.n /\ Incoming(s, m.key)
        /\ Len(m.key.base) + 1 = Len(s.rk) => e.n < s.nr
        /\ \A f \in s.skipped :
             Len(f.mk.base) = Len(m.key.base) => f.dh = e.dh
    BY <1>1, <2>1 DEF Cache
  <2>3. \A f \in rest : ~(Len(f.mk.base) = Len(m.key.base) /\ f.n = m.key.n)
    BY <1>2, <1>4, <2>1, <2>2
  <2> QED BY <1>5, <2>1, <2>2, <2>3 DEF Spent, Incoming, Own
<1>12. FromCache(s, m).ok \in BOOLEAN
  BY <1>3
<1> QED BY <1>5, <1>10, <1>11, <1>12 DEF Reads, t

\* ratchet_decrypt.
LEMMA Decrypting ==
  ASSUME NEW s, Good(s), NEW m \in Message, m.dh # <<Bob, 0>>,
         NEW mine \in Name, mine # <<Bob, 0>>
  PROVE  /\ Reads(s, m, Decrypt(s, m, mine))
         /\ Decrypt(s, m, mine).st.dhs \in {s.dhs, mine}
<1>1. m.n \in Nat /\ m.dh \in Name /\ m.dh # None /\ s.nr \in Nat
  BY NoneAssumption, Fields DEF Message, Good
<1>2. CASE Cached(s, m.dh, m.n) # {}
  <2>1. Decrypt(s, m, mine) = FromCache(s, m)
    BY <1>2 DEF Decrypt
  <2> QED BY <2>1, ReadingFromCache
<1>3. CASE Cached(s, m.dh, m.n) = {} /\ s.dhr # m.dh
  <2>1. Decrypt(s, m, mine) = InNewChain(s, m, mine)
    BY <1>3 DEF Decrypt
  <2> QED BY <2>1, ReadingNewChain
<1>4. CASE Cached(s, m.dh, m.n) = {} /\ s.dhr = m.dh /\ m.n < s.nr
  <2>1. Decrypt(s, m, mine) = [st |-> s, ok |-> FALSE]
    BY <1>4 DEF Decrypt
  <2> QED BY <2>1 DEF Reads, Keeps
<1>5. CASE Cached(s, m.dh, m.n) = {} /\ s.dhr = m.dh /\ ~(m.n < s.nr)
  <2>1. Decrypt(s, m, mine) = InChain(s, m)
    BY <1>5 DEF Decrypt
  <2>2. s.ckr # None
    BY <1>1, <1>5 DEF Good, Chains
  <2>3. s.nr <= m.n
    BY <1>1, <1>5
  <2> QED BY <2>1, <2>2, <2>3, ReadingInChain
<1> QED BY <1>2, <1>3, <1>4, <1>5

\* ratchet_encrypt.
LEMMA Encrypting ==
  ASSUME NEW s, Good(s), s.cks # None
  PROVE  /\ Keeps(s, Encrypted(s))
         /\ Wire(s) \in Message /\ Wire(s).dh # <<Bob, 0>>
         /\ Sent(Encrypted(s), Wire(s).key)
<1> DEFINE t == Encrypted(s)
           secret == Encapsulate(s.offer, s.dhs)
<1>1. /\ s \in State /\ Chains(s) /\ Cache(s) /\ Started(s)
      /\ s.cks \in Chain /\ s.ns \in Nat /\ s.pn \in Nat /\ Len(s.rk) \in Nat
      /\ s.dhs \in Name /\ s.remixes \in Nat
      /\ s.pending \in Name \cup {None} /\ s.offer \in Name \cup {None}
  BY Fields DEF Good
<1>2. AnswersKem(s) => secret \in Secret
  BY <1>1 DEF AnswersKem, Encapsulate, Secret
<1>3. SendingChain(s) \in Chain /\ SendingChain(s).base = s.rk
  <2>1. s.cks.base = s.rk
    BY <1>1 DEF Chains
  <2> QED BY <1>1, <1>2, <2>1 DEF SendingChain, Mix, Chain
<1> HIDE DEF secret
<1>4. /\ MessageKey(SendingChain(s), s.ns) \in Key
      /\ MessageKey(SendingChain(s), s.ns).base = s.rk
      /\ MessageKey(SendingChain(s), s.ns).n = s.ns
  BY <1>1, <1>3, ChainFields
<1>5. Wire(s) \in Message /\ Wire(s).key = MessageKey(SendingChain(s), s.ns)
  BY <1>1, <1>2, <1>4 DEF Wire, Message, secret
<1>6. Wire(s).dh # <<Bob, 0>>
  BY <1>1 DEF Wire, Started
<1> DEFINE offer == IF AnswersKem(s) THEN None ELSE s.offer
           remixes == IF AnswersKem(s) THEN s.remixes + 1 ELSE s.remixes
           pending == IF OffersKem(s) THEN s.dhs ELSE s.pending
<1>7. t = [s EXCEPT !.ns = s.ns + 1, !.cks = SendingChain(s), !.offer = offer,
                    !.remixes = remixes, !.pending = pending]
  BY <1>1 DEF Encrypted, State
<1>8. /\ offer \in Name \cup {None} /\ pending \in Name \cup {None}
      /\ remixes \in Nat
  BY <1>1
<1> HIDE DEF t, offer, remixes, pending
<1>9. /\ t.ckr = s.ckr /\ t.nr = s.nr /\ t.dhs = s.dhs /\ t.dhr = s.dhr
      /\ t.rk = s.rk /\ t.cks = SendingChain(s) /\ t.ns = s.ns + 1
      /\ t.skipped = s.skipped
  BY <1>1, <1>7 DEF State
<1>10. t \in State
  <2>1. s.ns + 1 \in Nat /\ SendingChain(s) \in Chain \cup {None}
    BY <1>1, <1>3
  <2> QED BY <1>1, <1>7, <1>8, <2>1 DEF State
<1>11. Chains(t) /\ Started(t) /\ Own(t) = Own(s)
  BY <1>1, <1>3, <1>9 DEF Chains, Started, Own
<1>12. Cache(t)
  BY <1>1, <1>9, <1>11 DEF Cache, Incoming
<1>13. ASSUME NEW k \in Key
       PROVE  /\ Spent(s, k) => Spent(t, k)
              /\ Sent(s, k) => Sent(t, k)
  <2>1. k.n \in Nat
    BY KeyFields
  <2> QED BY <1>1, <1>9, <1>11, <2>1 DEF Spent, Sent, Incoming
<1>14. Sent(t, Wire(s).key)
  BY <1>1, <1>4, <1>5, <1>9, <1>11 DEF Sent, Own
<1> QED BY <1>5, <1>6, <1>10, <1>11, <1>12, <1>13, <1>14 DEF Keeps, Good, t

-----------------------------------------------------------------------------
(* The two parties *)

LEMMA Initially == Init => IInv
<1> SUFFICES ASSUME Init PROVE IInv
  OBVIOUS
<1>1. /\ <<Alice, 1>> \in Name /\ <<Bob, 0>> \in Name
      /\ <<Alice, 1>> # <<Bob, 0>>
  BY DEF Name, Party, Alice, Bob
<1> DEFINE root == NextRoot(<<>>, DH(<<Alice, 1>>, <<Bob, 0>>))
<1>2. root \in Root /\ <<>> \in Root
  BY <1>1 DEF NextRoot, DH, Root
<1>3. AliceInit =
        [dhs |-> <<Alice, 1>>, dhr |-> <<Bob, 0>>, rk |-> root,
         cks |-> ChainOf(root), ckr |-> None, ns |-> 0, nr |-> 0, pn |-> 0,
         skipped |-> {}, turns |-> 1, remixes |-> 0, pending |-> None,
         offer |-> None]
  BY DEF AliceInit
<1> HIDE DEF root
<1>4. ChainOf(root) \in Chain /\ ChainOf(root).base = root
  BY <1>2 DEF ChainOf, Chain
<1>5. Good(AliceInit)
  <2>1. AliceInit \in State
    BY <1>1, <1>2, <1>3, <1>4 DEF State
  <2>2. Chains(AliceInit) /\ Cache(AliceInit) /\ Started(AliceInit)
    BY <1>1, <1>3, <1>4 DEF Chains, Cache, Started
  <2> QED BY <2>1, <2>2 DEF Good
<1>6. Good(BobInit)
  <2>1. BobInit \in State
    BY <1>1, <1>2 DEF State, BobInit
  <2>2. Chains(BobInit) /\ Cache(BobInit) /\ Started(BobInit)
    BY DEF Chains, Cache, Started, BobInit
  <2> QED BY <2>1, <2>2 DEF Good
<1>7. \A p \in Party : Ends(p)
  BY <1>5, <1>6 DEF Init, Ends
<1>8. TypeOK
  <2>1. st \in [Party -> State]
    BY <1>5, <1>6 DEF Good, Init
  <2> QED BY <2>1 DEF Init, TypeOK
<1>9. \A p \in Party : DOMAIN queue[p] = {} /\ DOMAIN opened[p] = {}
  BY DEF Init
<1>10. (\A p \in Party : Keys(p)) /\ OpenedAtMostOnce
  BY <1>9 DEF Keys, OpenedAtMostOnce
<1> QED BY <1>7, <1>8, <1>10 DEF IInv

\* One party moves on, and the other stays as it was.
LEMMA Moving ==
  ASSUME IInv, NEW p \in Party, NEW t, Keeps(st[p], t),
         st' = [st EXCEPT ![p] = t]
  PROVE  /\ st' \in [Party -> State] /\ st'[p] = t
         /\ \A q \in Party : Good(st'[q])
         /\ \A q \in Party, k \in Key :
              /\ Spent(st[q], k) => Spent(st'[q], k)
              /\ Sent(st[q], k) => Sent(st'[q], k)
<1>1. st \in [Party -> State] /\ \A q \in Party : Good(st[q])
  BY DEF IInv, TypeOK, Ends
<1>2. Good(t) /\ t \in State
  BY DEF Keeps, Good
<1>3. st' \in [Party -> State] /\ st'[p] = t
  BY <1>1, <1>2
<1>4. \A q \in Party : q # p => st'[q] = st[q]
  BY <1>1
<1>5. \A k \in Key : /\ Spent(st[p], k) => Spent(t, k)
                     /\ Sent(st[p], k) => Sent(t, k)
  BY DEF Keeps
<1> QED BY <1>1, <1>2, <1>3, <1>4, <1>5

LEMMA MessageKeys ==
  ASSUME TypeOK, NEW p \in Party
  PROVE  /\ DOMAIN queue[p] = 1 .. Len(queue[p]) /\ Len(queue[p]) \in Nat
         /\ DOMAIN opened[p] = DOMAIN queue[p]
         /\ \A i \in DOMAIN queue[p] : /\ queue[p][i] \in Message
                                       /\ queue[p][i].key \in Key
                                       /\ opened[p][i] \in Nat
<1>1. queue[p] \in Seq(Message) /\ opened[p] \in Seq(Nat)
  BY DEF TypeOK
<1>2. DOMAIN opened[p] = DOMAIN queue[p]
  BY DEF TypeOK
<1>3. \A i \in DOMAIN queue[p] : /\ queue[p][i] \in Message
                                 /\ opened[p][i] \in Nat
  BY <1>1, <1>2
<1>4. \A m \in Message : m.key \in Key
  BY DEF Message
<1> QED BY <1>1, <1>2, <1>3, <1>4

LEMMA OtherParty ==
  ASSUME NEW p \in Party
  PROVE  Peer(p) \in Party /\ Peer(p) # p /\ Peer(Peer(p)) = p
BY DEF Party, Peer, Alice, Bob

LEMMA Sending ==
  ASSUME IInv, NEW p \in Party, Encrypt(p)
  PROVE  IInv'
<1> DEFINE q == Peer(p)
           m == Wire(st[p])
           t == Encrypted(st[p])
<1>1. TypeOK /\ q \in Party /\ q # p /\ Peer(q) = p
  BY OtherParty DEF IInv
<1>2. Keeps(st[p], t) /\ m \in Message /\ m.dh # <<Bob, 0>> /\ Sent(t, m.key)
  BY Encrypting DEF IInv, Ends, Encrypt
<1>3. /\ st' = [st EXCEPT ![p] = t]
      /\ queue' = [queue EXCEPT ![q] = Append(queue[q], m)]
      /\ opened' = [opened EXCEPT ![q] = Append(opened[q], 0)]
      /\ UNCHANGED <<minted, gone, tried, faults>>
  <2>1. st' = [st EXCEPT ![p] = t]
    BY DEF Encrypt
  <2> QED BY <1>1, <2>1 DEF Encrypt
<1> HIDE DEF q, m, t
<1>4. /\ st' \in [Party -> State] /\ st'[p] = t
      /\ \A r \in Party : Good(st'[r])
      /\ \A r \in Party, k \in Key :
           /\ Spent(st[r], k) => Spent(st'[r], k)
           /\ Sent(st[r], k) => Sent(st'[r], k)
  BY <1>2, <1>3, Moving
<1>5. queue[q] \in Seq(Message) /\ opened[q] \in Seq(Nat)
      /\ DOMAIN opened[q] = DOMAIN queue[q]
  BY <1>1 DEF TypeOK
<1>6. Len(opened[q]) = Len(queue[q])
  BY <1>5
<1>7. /\ queue'[q] = Append(queue[q], m) /\ opened'[q] = Append(opened[q], 0)
      /\ \A r \in Party :
           r # q => queue'[r] = queue[r] /\ opened'[r] = opened[r]
  BY <1>1, <1>3 DEF TypeOK
<1>8. /\ Append(queue[q], m) \in Seq(Message)
      /\ Append(opened[q], 0) \in Seq(Nat)
      /\ DOMAIN Append(opened[q], 0) = DOMAIN Append(queue[q], m)
      /\ DOMAIN Append(queue[q], m) = DOMAIN queue[q] \cup {Len(queue[q]) + 1}
      /\ \A i \in DOMAIN queue[q] : /\ Append(queue[q], m)[i] = queue[q][i]
                                    /\ Append(opened[q], 0)[i] = opened[q][i]
      /\ Append(queue[q], m)[Len(queue[q]) + 1] = m
      /\ Append(opened[q], 0)[Len(queue[q]) + 1] = 0
  BY <1>2, <1>5, <1>6
<1>9. TypeOK'
  <2>1. queue' \in [Party -> Seq(Message)] /\ opened' \in [Party -> Seq(Nat)]
    BY <1>1, <1>3, <1>8 DEF TypeOK
  <2>2. \A r \in Party : DOMAIN opened'[r] = DOMAIN queue'[r]
    BY <1>1, <1>7, <1>8 DEF TypeOK
  <2> QED BY <1>1, <1>3, <1>4, <2>1, <2>2 DEF TypeOK
<1>10. \A r \in Party : Ends(r)'
  BY <1>4 DEF Ends
<1>11. ASSUME NEW r \in Party, NEW i \in DOMAIN queue'[r],
              i \in DOMAIN queue[r], queue'[r][i] = queue[r][i],
              opened'[r][i] = opened[r][i]
       PROVE  /\ opened'[r][i] > 0 => Spent(st'[r], queue'[r][i].key)
              /\ Sent(st'[Peer(r)], queue'[r][i].key)
              /\ queue'[r][i].dh # <<Bob, 0>>
  <2>1. queue[r][i].key \in Key /\ Peer(r) \in Party
    BY <1>1, <1>11, MessageKeys, OtherParty
  <2>2. /\ opened[r][i] > 0 => Spent(st[r], queue[r][i].key)
        /\ Sent(st[Peer(r)], queue[r][i].key)
        /\ queue[r][i].dh # <<Bob, 0>>
    BY <1>11 DEF IInv, Keys
  <2> QED BY <1>4, <1>11, <2>1, <2>2
<1>12. ASSUME NEW r \in Party PROVE Keys(r)'
  <2>1. SUFFICES ASSUME NEW i \in DOMAIN queue'[r]
        PROVE /\ opened'[r][i] > 0 => Spent(st'[r], queue'[r][i].key)
              /\ Sent(st'[Peer(r)], queue'[r][i].key)
              /\ queue'[r][i].dh # <<Bob, 0>>
    BY DEF Keys
  <2>2. CASE r # q \/ i \in DOMAIN queue[q]
    <3>1. CASE r # q
      <4>1. queue'[r] = queue[r] /\ opened'[r] = opened[r]
        BY <1>7, <3>1
      <4>2. i \in DOMAIN queue[r]
        BY <4>1
      <4> QED BY <1>11, <4>1, <4>2
    <3>2. CASE r = q /\ i \in DOMAIN queue[q]
      <4>1. queue'[r][i] = queue[r][i] /\ opened'[r][i] = opened[r][i]
        BY <1>7, <1>8, <3>2
      <4> QED BY <1>11, <3>2, <4>1
    <3> QED BY <2>2, <3>1, <3>2
  <2>3. CASE r = q /\ i = Len(queue[q]) + 1
    <3>1. queue'[r][i] = m /\ opened'[r][i] = 0
      BY <1>7, <1>8, <2>3
    <3>2. Sent(st'[Peer(r)], m.key)
      BY <1>1, <1>2, <1>4, <2>3
    <3> QED BY <1>2, <3>1, <3>2
  <2> QED BY <1>7, <1>8, <2>2, <2>3
<1>13. OpenedAtMostOnce'
  <2> SUFFICES ASSUME NEW r \in Party, NEW i \in DOMAIN opened'[r]
               PROVE  opened'[r][i] <= 1
    BY DEF OpenedAtMostOnce
  <2>1. \A j \in DOMAIN opened[r] : opened[r][j] <= 1
    BY DEF IInv, OpenedAtMostOnce
  <2>2. CASE r # q
    BY <1>7, <2>1, <2>2
  <2>3. CASE r = q /\ i \in DOMAIN queue[q]
    BY <1>5, <1>7, <1>8, <2>1, <2>3
  <2>4. CASE r = q /\ i = Len(queue[q]) + 1
    BY <1>7, <1>8, <2>4
  <2> QED BY <1>7, <1>8, <2>2, <2>3, <2>4
<1> QED BY <1>9, <1>10, <1>12, <1>13 DEF IInv

LEMMA Receiving ==
  ASSUME IInv, NEW p \in Party, NEW i, Receive(p, i), faults' \in Seq(Faults)
  PROVE  IInv'
<1> DEFINE mine == <<p, minted[p] + 1>>
           m == queue[p][i]
           result == Decrypt(st[p], m, mine)
           t == result.st
<1>1. TypeOK /\ i \in DOMAIN queue[p] /\ i \in Nat
  BY MessageKeys DEF IInv, Receive, Waiting
<1>2. m \in Message /\ m.key \in Key /\ m.dh # <<Bob, 0>>
  BY <1>1, MessageKeys DEF IInv, Keys
<1>3. mine \in Name /\ mine # <<Bob, 0>> /\ minted[p] + 1 \in Nat
  <2>1. minted[p] \in Nat
    BY <1>1 DEF TypeOK
  <2> QED BY <2>1 DEF Name
<1>4. Reads(st[p], m, result)
  <2> HIDE DEF mine, m
  <2> QED BY <1>2, <1>3, Decrypting DEF IInv, Ends
<1>5. /\ st' = [st EXCEPT ![p] = t]
      /\ minted' = IF t.dhs = mine
                   THEN [minted EXCEPT ![p] = @ + 1] ELSE minted
      /\ gone' = [gone EXCEPT ![p] = @ \cup {i}]
      /\ tried' = [tried EXCEPT ![p] = @ \cup {i}]
      /\ opened' = IF result.ok
                   THEN [opened EXCEPT ![p][i] = @ + 1] ELSE opened
      /\ queue' = queue
  BY DEF Receive
<1> HIDE DEF mine, result, t
<1>6. /\ st' \in [Party -> State] /\ st'[p] = t
      /\ \A r \in Party : Good(st'[r])
      /\ \A r \in Party, k \in Key :
           /\ Spent(st[r], k) => Spent(st'[r], k)
           /\ Sent(st[r], k) => Sent(st'[r], k)
  BY <1>4, <1>5, Moving DEF Reads, t
<1>7. /\ opened' \in [Party -> Seq(Nat)]
      /\ \A r \in Party : DOMAIN opened'[r] = DOMAIN opened[r]
      /\ \A r \in Party : \A j \in DOMAIN opened[r] :
           IF result.ok /\ r = p /\ j = i
           THEN opened'[r][j] = opened[r][j] + 1
           ELSE opened'[r][j] = opened[r][j]
  <2>1. opened \in [Party -> Seq(Nat)] /\ i \in DOMAIN opened[p]
    BY <1>1, MessageKeys DEF TypeOK
  <2>2. CASE ~result.ok
    BY <1>5, <2>1, <2>2
  <2>3. CASE result.ok
    <3> DEFINE counts == [opened[p] EXCEPT ![i] = opened[p][i] + 1]
    <3>1. opened[p] \in Seq(Nat) /\ opened[p][i] + 1 \in Nat
      BY <2>1
    <3>2. counts \in Seq(Nat) /\ DOMAIN counts = DOMAIN opened[p]
          /\ \A j \in DOMAIN opened[p] :
               counts[j] = IF j = i THEN opened[p][i] + 1 ELSE opened[p][j]
      BY <2>1, <3>1
    <3>3. opened' = [opened EXCEPT ![p] = counts]
      BY <1>5, <2>1, <2>3
    <3> HIDE DEF counts
    <3>4. /\ opened' \in [Party -> Seq(Nat)] /\ opened'[p] = counts
          /\ \A r \in Party : r # p => opened'[r] = opened[r]
      BY <2>1, <3>2, <3>3
    <3> QED BY <2>1, <2>3, <3>2, <3>4
  <2> QED BY <2>2, <2>3
<1>8. TypeOK'
  <2>1. minted' \in [Party -> Nat]
    BY <1>1, <1>3, <1>5 DEF TypeOK
  <2>2. gone' \in [Party -> SUBSET Nat] /\ tried' \in [Party -> SUBSET Nat]
    BY <1>1, <1>5 DEF TypeOK
  <2>3. \A r \in Party : DOMAIN opened'[r] = DOMAIN queue'[r]
    BY <1>1, <1>5, <1>7 DEF TypeOK
  <2>4. queue' \in [Party -> Seq(Message)]
    BY <1>1, <1>5 DEF TypeOK
  <2> QED BY <1>6, <1>7, <2>1, <2>2, <2>3, <2>4 DEF TypeOK
<1>9. result.ok => Spent(t, m.key) /\ opened[p][i] = 0
  <2>1. opened[p][i] \in Nat
    BY <1>1, MessageKeys
  <2>2. opened[p][i] > 0 => Spent(st[p], m.key)
    BY <1>1 DEF IInv, Keys
  <2>3. result.ok => Spent(t, m.key) /\ ~Spent(st[p], m.key)
    BY <1>4 DEF Reads, t
  <2> QED BY <2>1, <2>2, <2>3
<1>10. ASSUME NEW r \in Party PROVE Keys(r)'
  <2> SUFFICES ASSUME NEW j \in DOMAIN queue'[r]
       PROVE /\ opened'[r][j] > 0 => Spent(st'[r], queue'[r][j].key)
             /\ Sent(st'[Peer(r)], queue'[r][j].key)
             /\ queue'[r][j].dh # <<Bob, 0>>
    BY DEF Keys
  <2>1. /\ j \in DOMAIN queue[r] /\ j \in DOMAIN opened[r]
        /\ queue'[r][j] = queue[r][j] /\ queue[r][j].key \in Key
        /\ Peer(r) \in Party
    BY <1>1, <1>5, MessageKeys, OtherParty
  <2>2. /\ opened[r][j] > 0 => Spent(st[r], queue[r][j].key)
        /\ Sent(st[Peer(r)], queue[r][j].key)
        /\ queue[r][j].dh # <<Bob, 0>>
    BY <2>1 DEF IInv, Keys
  <2>3. opened'[r][j] > 0 => Spent(st'[r], queue[r][j].key)
    <3>1. CASE result.ok /\ r = p /\ j = i
      BY <1>6, <1>9, <3>1
    <3>2. CASE ~(result.ok /\ r = p /\ j = i)
      BY <1>6, <1>7, <2>1, <2>2, <3>2
    <3> QED BY <3>1, <3>2
  <2> QED BY <1>6, <2>1, <2>2, <2>3
<1>11. OpenedAtMostOnce'
  <2> SUFFICES ASSUME NEW r \in Party, NEW j \in DOMAIN opened'[r]
               PROVE  opened'[r][j] <= 1
    BY DEF OpenedAtMostOnce
  <2>1. j \in DOMAIN opened[r] /\ opened[r][j] <= 1
    BY <1>7 DEF IInv, OpenedAtMostOnce
  <2> QED BY <1>7, <1>9, <2>1
<1>12. \A r \in Party : Ends(r)'
  BY <1>6 DEF Ends
<1> QED BY <1>8, <1>10, <1>11, <1>12 DEF IInv

\* What the queues do on their own changes no party.
LEMMA Idling ==
  ASSUME IInv, UNCHANGED <<st, minted, queue, tried, opened>>,
         gone' \in [Party -> SUBSET Nat], faults' \in Seq(Faults)
  PROVE  IInv'
BY DEF IInv, TypeOK, Ends, Keys, OpenedAtMostOnce

LEMMA Faulting ==
  ASSUME IInv, NEW kind, Fault(kind)
  PROVE  faults' \in Seq(Faults)
BY DEF IInv, TypeOK, Fault

LEMMA Inductive == IInv /\ [Next]_vars => IInv'
<1> SUFFICES ASSUME IInv, [Next]_vars PROVE IInv'
  OBVIOUS
<1>1. /\ gone \in [Party -> SUBSET Nat] /\ faults \in Seq(Faults)
      /\ queue \in [Party -> Seq(Message)]
  BY DEF IInv, TypeOK
<1>2. CASE UNCHANGED vars
  BY <1>1, <1>2, Idling DEF vars
<1>3. ASSUME NEW p \in Party, Encrypt(p) PROVE IInv'
  BY <1>3, Sending
<1>4. ASSUME NEW p \in Party, Deliver(p) PROVE IInv'
  BY <1>1, <1>4, Receiving DEF Deliver
<1>5. ASSUME NEW p \in Party, Overtake(p) PROVE IInv'
  BY <1>5, Receiving, Faulting DEF Overtake
<1>6. ASSUME NEW p \in Party, Lose(p) PROVE IInv'
  <2>1. PICK i \in Waiting(p) : gone' = [gone EXCEPT ![p] = @ \cup {i}]
    BY <1>6 DEF Lose
  <2>2. i \in Nat
    BY <1>1, <2>1 DEF Waiting
  <2>3. gone' \in [Party -> SUBSET Nat]
    BY <1>1, <2>1, <2>2
  <2> QED BY <1>6, <2>3, Idling, Faulting DEF Lose
<1>7. ASSUME NEW p \in Party, Redeliver(p) PROVE IInv'
  <2>1. gone' \in [Party -> SUBSET Nat]
    BY <1>1, <1>7 DEF Redeliver
  <2> QED BY <1>7, <2>1, Idling, Faulting DEF Redeliver
<1> QED BY <1>2, <1>3, <1>4, <1>5, <1>6, <1>7 DEF Next

THEOREM Invariance == Spec => []IInv
BY Initially, Inductive, PTL DEF Spec

\* The types of the two states, the queues and what was opened.
THEOREM RatchetTypes == Spec => []TypeOK
<1>1. IInv => TypeOK
  BY DEF IInv
<1> QED BY <1>1, Invariance, PTL

\* A message is decrypted at most once, however often the queue delivers it
\* and whatever was delivered or lost before.
THEOREM OpenedOnce == Spec => []OpenedAtMostOnce
<1>1. IInv => OpenedAtMostOnce
  BY DEF IInv
<1> QED BY <1>1, Invariance, PTL

LEMMA SpentIsGone ==
  ASSUME NEW s, Good(s), NEW k \in Key, Spent(s, k)
  PROVE  ~Derivable(s, k)
<1>1. /\ Chains(s) /\ Cache(s) /\ s.nr \in Nat /\ Len(s.rk) \in Nat
      /\ s.cks \in Chain \cup {None} /\ s.ckr \in Chain \cup {None}
  BY Fields DEF Good
<1>2. k.n \in Nat /\ Len(k.base) \in Nat
  BY KeyFields
<1>3. ASSUME NEW e \in s.skipped, e.mk = k PROVE FALSE
  BY <1>1, <1>3 DEF Cache, Spent
<1>4. ASSUME s.ckr # None, k.n >= s.nr, MessageKey(s.ckr, k.n) = k PROVE FALSE
  <2>1. k.base = s.ckr.base
    BY <1>1, <1>2, <1>4, ChainFields
  <2>2. Len(k.base) + 1 = Len(s.rk)
    BY <1>1, <1>4, <2>1 DEF Chains
  <2> QED BY <1>1, <1>2, <1>4, <2>2 DEF Spent
<1>5. ASSUME s.cks # None, MessageKey(s.cks, k.n) = k PROVE FALSE
  <2>1. k.base = s.rk
    BY <1>1, <1>2, <1>5, ChainFields DEF Chains
  <2> QED BY <1>1, <2>1 DEF Spent, Incoming
<1> QED BY <1>3, <1>4, <1>5 DEF Derivable

LEMMA SentIsGone ==
  ASSUME NEW s, Good(s), NEW k \in Key, Sent(s, k)
  PROVE  ~Derivable(s, k)
<1>1. /\ Chains(s) /\ Cache(s) /\ s.ns \in Nat /\ Len(s.rk) \in Nat
      /\ s.cks \in Chain \cup {None} /\ s.ckr \in Chain \cup {None}
  BY Fields DEF Good
<1>2. k.n \in Nat /\ Len(k.base) \in Nat
  BY KeyFields
<1>3. ASSUME NEW e \in s.skipped, e.mk = k PROVE FALSE
  BY <1>1, <1>3 DEF Cache, Incoming, Sent
<1>4. ASSUME s.ckr # None, MessageKey(s.ckr, k.n) = k PROVE FALSE
  <2>1. k.base = s.ckr.base
    BY <1>1, <1>2, <1>4, ChainFields
  <2>2. Len(k.base) + 1 = Len(s.rk)
    BY <1>1, <1>4, <2>1 DEF Chains
  <2> QED BY <1>2, <2>2, Parity DEF Sent, Own
<1>5. ASSUME s.cks # None, k.n >= s.ns, MessageKey(s.cks, k.n) = k PROVE FALSE
  <2>1. k.base = s.rk
    BY <1>1, <1>2, <1>5, ChainFields DEF Chains
  <2> QED BY <1>1, <1>2, <1>5, <2>1 DEF Sent
<1> QED BY <1>3, <1>4, <1>5 DEF Derivable

\* Neither the party that opened a message nor the one that sent it can
\* derive its key again, at any later time.
THEOREM KeysAreForgotten == Spec => []ForwardSecrecy
<1>1. IInv => ForwardSecrecy
  <2> SUFFICES ASSUME IInv, NEW p \in Party, NEW i \in DOMAIN queue[p]
               PROVE  /\ opened[p][i] > 0 => ~Derivable(st[p], queue[p][i].key)
                      /\ ~Derivable(st[Peer(p)], queue[p][i].key)
    BY DEF ForwardSecrecy
  <2>1. queue[p][i].key \in Key /\ Peer(p) \in Party
    BY MessageKeys, OtherParty DEF IInv
  <2>2. Good(st[p]) /\ Good(st[Peer(p)])
    BY <2>1 DEF IInv, Ends
  <2>3. /\ opened[p][i] > 0 => Spent(st[p], queue[p][i].key)
        /\ Sent(st[Peer(p)], queue[p][i].key)
    BY DEF IInv, Keys
  <2> QED BY <2>1, <2>2, <2>3, SpentIsGone, SentIsGone
<1> QED BY <1>1, Invariance, PTL

-----------------------------------------------------------------------------
(* The agreement of the parties.                                           *)
(*                                                                         *)
(* As long as no message is redelivered the chains of a session form one   *)
(* ladder: level after level, Alice's and Bob's in turn, each with a key   *)
(* pair of its own.  A root key is known by its level, and the parties are *)
(* one level apart.                                                        *)

\* The chain that a DH key pair opens, and the DH output between two chains.
LevelOf(x) == IF x[1] = Alice THEN 2 * x[2] - 1 ELSE 2 * x[2]
Out(k) == {x \in Name : LevelOf(x) + 1 = k \/ LevelOf(x) = k}
Proper(root) == \A k \in 1 .. Len(root) : root[k] = Out(k)

Level(p) == Len(st[p].rk)
At(m) == Len(m.key.base)

\* The conditions of ReorderingTolerated: with Mild, messages may be lost and
\* overtake others.
Mild ==
  /\ ~Happened("redeliver")
  /\ \A p \in Party : \A i \in DOMAIN queue[p] :
       queue[p][i].ct = None /\ queue[p][i].n < MAX_SKIP
Tolerable == Orderly \/ Mild

\* A party by itself, and beside the other: who is ahead has not received more
\* than was sent.
Shape(p) ==
  /\ Proper(st[p].rk)
  /\ st[p].dhs = <<p, minted[p]>> /\ LevelOf(st[p].dhs) = Level(p)
  /\ Level(p) > 0 => st[p].dhr # None /\ LevelOf(st[p].dhr) + 1 = Level(p)
  /\ Level(p) = 0 => st[p].dhr = None
  /\ st[p].ckr # None => Proper(st[p].ckr.base) /\ st[p].nr > 0
  /\ st[p].cks # None /\ st[p].ns = 0 => st[p].cks.mix = None
  /\ Level(p) = Level(Peer(p)) + 1 => st[p].nr <= st[Peer(p)].ns
Near == Level(Alice) + 1 = Level(Bob) \/ Level(Bob) + 1 = Level(Alice)

\* What a message says of its chain; and, if the chain is the present one of
\* its sender, of that.
Letter(m) ==
  /\ m.n = m.key.n /\ Proper(m.key.base) /\ LevelOf(m.dh) = At(m)
  /\ m.n = 0 => m.ct = m.key.mix
  /\ m.n > 0 => m.ct = None /\ m.ek = None
Letters(p) ==
  /\ \A i \in DOMAIN queue[p] :
       /\ Letter(queue[p][i])
       /\ At(queue[p][i]) = Level(Peer(p)) =>
            /\ queue[p][i].pn = st[Peer(p)].pn
            /\ queue[p][i].key.mix = st[Peer(p)].cks.mix
       /\ At(queue[p][i]) + 1 = Level(p) /\ Level(Peer(p)) = Level(p) + 1 =>
            queue[p][i].n < st[Peer(p)].pn
  /\ \A i, j \in DOMAIN queue[p] :
       /\ At(queue[p][i]) = At(queue[p][j])
       /\ queue[p][i].n = queue[p][j].n
       => i = j
Aligned == Tolerable => Near /\ \A p \in Party : Shape(p) /\ Letters(p)

Opened ==
  /\ \A p \in Party : /\ tried[p] \subseteq DOMAIN queue[p]
                      /\ \A i \in DOMAIN opened[p] :
                           opened[p][i] > 0 => i \in tried[p]
  /\ Tolerable => \A p \in Party : /\ tried[p] \subseteq gone[p]
                                   /\ \A i \in tried[p] : opened[p][i] = 1

\* Where messages may be overtaken: those that are still to come to a chain
\* that went on or was closed have their keys in the cache.
Kept(s, m) == \E e \in s.skipped : e.dh = m.dh /\ e.n = m.n /\ e.mk = m.key
Mildly(p) ==
  /\ st[p].cks # None => st[p].cks.mix = None
  /\ st[p].ckr # None => st[p].ckr.mix = None
  /\ st[p].ns <= MAX_SKIP /\ st[p].pn <= MAX_SKIP
  /\ \A e \in st[p].skipped : e.dh # None /\ LevelOf(e.dh) = Len(e.mk.base)
  /\ \A i \in DOMAIN queue[p] : queue[p][i].key.mix = None
  /\ \A i \in Waiting(p) :
       At(queue[p][i]) < Level(p) =>
         \/ At(queue[p][i]) + 1 = Level(p) /\ st[p].nr <= queue[p][i].n
         \/ Kept(st[p], queue[p][i])
MildInv == Mild => \A p \in Party : Mildly(p)

\* Where messages come in order: they were sent in the order of the chains and
\* of their numbers, and the receiver is where the last one left it.
Follows(m, k) ==
  \/ At(k) = At(m) /\ k.n = m.n + 1 /\ k.key.mix = m.key.mix
  \/ At(k) = At(m) + 2 /\ k.n = 0 /\ k.pn = m.n + 1
Sender(p) ==
  /\ queue[p] # <<>> => queue[p][1].n = 0 /\ At(queue[p][1]) <= 2
  /\ \A i \in DOMAIN queue[p] :
       i + 1 \in DOMAIN queue[p] => Follows(queue[p][i], queue[p][i + 1])
  /\ queue[p] = <<>> => st[Peer(p)].ns = 0 /\ Level(Peer(p)) <= 2
  /\ queue[p] # <<>> =>
       LET m == queue[p][Len(queue[p])]
       IN  \/ At(m) = Level(Peer(p)) /\ m.n + 1 = st[Peer(p)].ns
           \/ /\ At(m) + 2 = Level(Peer(p))
              /\ st[Peer(p)].ns = 0 /\ m.n + 1 = st[Peer(p)].pn
  /\ Level(p) = Level(Peer(p)) + 1 /\ Level(Peer(p)) > 0 => st[Peer(p)].ns > 0
Receiver(p) ==
  /\ gone[p] = tried[p] /\ gone[p] \subseteq DOMAIN queue[p]
  /\ \A i \in gone[p] : \A j \in 1 .. i : j \in gone[p]
  /\ gone[p] = {} => st[p].ckr = None
  /\ \A i \in gone[p] : i + 1 \notin gone[p] =>
       /\ At(queue[p][i]) + 1 = Level(p) /\ st[p].nr = queue[p][i].n + 1
       /\ st[p].ckr # None /\ st[p].ckr.mix = queue[p][i].key.mix
  /\ st[p].skipped = {}

\* A key pair that p has offered is under way, or in the hands of the peer, or
\* answered and the answer under way; and this once.
Offers(p) == {i \in Waiting(Peer(p)) : queue[Peer(p)][i].ek # None}
Answers(p) == {i \in Waiting(p) : queue[p][i].ct # None}
Tokens(p) ==
  /\ \A i, j \in Offers(p) : i = j
  /\ \A i, j \in Answers(p) : i = j
  /\ Offers(p) # {} => st[Peer(p)].offer = None /\ Answers(p) = {}
  /\ st[Peer(p)].offer # None => Answers(p) = {}
  /\ \A i \in Offers(p) : queue[Peer(p)][i].ek = st[p].pending
  /\ \A i \in Answers(p) : queue[p][i].ct.ek = st[p].pending
  /\ st[Peer(p)].offer # None => st[Peer(p)].offer = st[p].pending

\* The turn that brings the first offer, and what becomes of it.
Due(p) == st[p].turns = PQ_REMIX_EVERY_N_TURNS
Renewal(p) ==
  /\ st[p].remixes = 0 => st[p].turns <= PQ_REMIX_EVERY_N_TURNS
  /\ st[p].turns < PQ_REMIX_EVERY_N_TURNS => st[p].pending = None
  /\ Due(p) /\ st[p].ns = 0 => st[p].pending = None
  /\ Level(p) > 0 => st[p].turns > 0
  /\ Due(p) => \A i \in DOMAIN queue[Peer(p)] :
       At(queue[Peer(p)][i]) = Level(p) /\ queue[Peer(p)][i].n = 0 =>
         queue[Peer(p)][i].ek # None
  /\ Due(p) /\ Level(Peer(p)) = Level(p) + 1 =>
       /\ st[Peer(p)].ns = 0 => st[Peer(p)].offer # None
       /\ \A i \in DOMAIN queue[p] :
            At(queue[p][i]) = Level(Peer(p)) /\ queue[p][i].n = 0 =>
              queue[p][i].ct # None
OrderInv ==
  Orderly => \A p \in Party : /\ Sender(p) /\ Receiver(p)
                              /\ Tokens(p) /\ Renewal(p)

Agreement == Aligned /\ Opened /\ MildInv /\ OrderInv

-----------------------------------------------------------------------------
(* Levels and roots *)

LEMMA LevelFields ==
  ASSUME NEW x \in Name
  PROVE  /\ x[1] \in Party /\ x[2] \in Nat /\ x = <<x[1], x[2]>>
         /\ LevelOf(x) \in Int
         /\ x[1] = Alice => LevelOf(x) = 2 * x[2] - 1
         /\ x[1] = Bob => LevelOf(x) = 2 * x[2]
BY DEF Name, Party, LevelOf, Alice, Bob

LEMMA LevelsDiffer ==
  ASSUME NEW x \in Name, NEW y \in Name, LevelOf(x) = LevelOf(y)
  PROVE  x = y
<1>1. x[1] = y[1]
  <2>1. /\ x[1] \in {Alice, Bob} /\ y[1] \in {Alice, Bob}
        /\ x[2] \in Nat /\ y[2] \in Nat
    BY LevelFields DEF Party
  <2> QED BY <2>1, LevelFields
<1>2. x[2] = y[2]
  BY <1>1, LevelFields DEF Party
<1> QED BY <1>1, <1>2, LevelFields

LEMMA SameRoot ==
  ASSUME NEW r \in Root, NEW u \in Root, Proper(r), Proper(u), Len(r) = Len(u)
  PROVE  r = u
<1>1. r \in Seq(SUBSET Name) /\ u \in Seq(SUBSET Name)
  BY DEF Root
<1>2. \A k \in 1 .. Len(r) : r[k] = u[k]
  BY DEF Proper
<1> HIDE DEF Proper
<1> QED BY <1>1, <1>2, SeqEqual

LEMMA NextProper ==
  ASSUME NEW r \in Root, Proper(r), NEW x \in Name, NEW y \in Name,
         \/ LevelOf(x) = Len(r) /\ LevelOf(y) = Len(r) + 1
         \/ LevelOf(y) = Len(r) /\ LevelOf(x) = Len(r) + 1
  PROVE  /\ NextRoot(r, DH(x, y)) \in Root
         /\ Len(NextRoot(r, DH(x, y))) = Len(r) + 1
         /\ Proper(NextRoot(r, DH(x, y)))
<1>1. r \in Seq(SUBSET Name) /\ Len(r) \in Nat
  BY DEF Root
<1>2. DH(x, y) = Out(Len(r) + 1)
  <2>1. \A z \in Name : LevelOf(z) \in Int
    BY LevelFields
  <2>2. DH(x, y) \subseteq Out(Len(r) + 1)
    BY <1>1, <2>1 DEF DH, Out
  <2>3. ASSUME NEW z \in Out(Len(r) + 1) PROVE z \in DH(x, y)
    <3>1. z \in Name /\ (LevelOf(z) = Len(r) \/ LevelOf(z) = Len(r) + 1)
      BY <1>1, <2>1 DEF Out
    <3> QED BY <3>1, LevelsDiffer DEF DH
  <2> QED BY <2>2, <2>3
<1>3. DH(x, y) \in SUBSET Name
  BY DEF DH
<1>4. NextRoot(r, DH(x, y)) = Append(r, Out(Len(r) + 1))
  BY <1>2 DEF NextRoot
<1> DEFINE o == Out(Len(r) + 1)
<1>5. o \in SUBSET Name
  BY <1>2, <1>3
<1> HIDE DEF o
<1>6. /\ Append(r, o) \in Seq(SUBSET Name) /\ Len(Append(r, o)) = Len(r) + 1
      /\ Append(r, o)[Len(r) + 1] = o
      /\ \A k \in 1 .. Len(r) : Append(r, o)[k] = r[k]
  BY <1>1, <1>5
<1>7. Proper(Append(r, o))
  <2> SUFFICES ASSUME NEW k \in 1 .. Len(r) + 1
               PROVE  Append(r, o)[k] = Out(k)
    BY <1>6 DEF Proper
  <2>1. CASE k = Len(r) + 1
    BY <1>6, <2>1 DEF o
  <2>2. CASE k \in 1 .. Len(r)
    BY <1>6, <2>2 DEF Proper
  <2> QED BY <1>1, <2>1, <2>2
<1> QED BY <1>4, <1>6, <1>7 DEF Root, o

LEMMA SameKey ==
  ASSUME NEW k \in Key, NEW c \in Chain, NEW n \in Nat,
         c.base = k.base, c.mix = k.mix, n = k.n
  PROVE  MessageKey(c, n) = k
BY DEF Key, Chain, MessageKey

-----------------------------------------------------------------------------
(* What the functions of the ratchet do to each field *)

\* The state t has the fields of s that no received message changes before a
\* new chain is begun.
Stays(s, t) ==
  /\ t.dhs = s.dhs /\ t.dhr = s.dhr /\ t.rk = s.rk /\ t.cks = s.cks
  /\ t.ns = s.ns /\ t.pn = s.pn /\ t.turns = s.turns
Renews(s, t) ==
  t.remixes = s.remixes /\ t.pending = s.pending /\ t.offer = s.offer

Entry(dh, n, chain) == [dh |-> dh, n |-> n, mk |-> MessageKey(chain, n)]

LEMMA SkipFields ==
  ASSUME NEW s \in State, NEW until \in Nat
  PROVE  LET t == SkipTo(s, until)
         IN  /\ Stays(s, t) /\ Renews(s, t) /\ t.ckr = s.ckr
             /\ s.ckr # None /\ s.nr <= until => t.nr = until
             /\ \A e \in t.skipped :
                  \/ e \in s.skipped
                  \/ /\ s.ckr # None
                     /\ \E n \in s.nr .. until - 1 : e = Entry(s.dhr, n, s.ckr)
             /\ \A e \in s.skipped :
                  e.dh # s.dhr \/ e.n < s.nr => e \in t.skipped
             /\ s.ckr # None => \A n \in s.nr .. until - 1 :
                                  Entry(s.dhr, n, s.ckr) \in t.skipped
<1> DEFINE t == SkipTo(s, until)
           range == s.nr .. until - 1
           new == {[dh |-> s.dhr, n |-> k, mk |-> MessageKey(s.ckr, k)] :
                     k \in range}
<1>1. s.nr \in Nat /\ \A e \in s.skipped : e.n \in Nat
  BY Fields
<1>2. CASE s.ckr = None \/ until <= s.nr
  <2>1. t = s
    BY <1>2 DEF SkipTo
  <2> QED BY <1>1, <1>2, <2>1 DEF Stays, Renews
<1>3. CASE s.ckr # None /\ ~(until <= s.nr)
  <2>1. t = [s EXCEPT !.skipped = {e \in @ : ~(e.dh = s.dhr /\ e.n \in range)}
                                  \cup new,
                      !.nr = until]
    BY <1>3 DEF SkipTo
  <2>2. new = {Entry(s.dhr, n, s.ckr) : n \in range}
    BY DEF Entry
  <2> HIDE DEF new, t
  <2>3. /\ t.dhs = s.dhs /\ t.dhr = s.dhr /\ t.rk = s.rk /\ t.cks = s.cks
        /\ t.ckr = s.ckr /\ t.ns = s.ns /\ t.nr = until /\ t.pn = s.pn
        /\ t.turns = s.turns
        /\ t.skipped = {e \in s.skipped : ~(e.dh = s.dhr /\ e.n \in range)}
                       \cup new
    BY <2>1 DEF State
  <2>4. Renews(s, t)
    BY <2>1 DEF State, Renews
  <2>5. \A e \in t.skipped :
          e \in s.skipped \/ \E n \in range : e = Entry(s.dhr, n, s.ckr)
    BY <2>2, <2>3
  <2>6. \A e \in s.skipped : e.dh # s.dhr \/ e.n < s.nr => e \in t.skipped
    BY <1>1, <2>3
  <2>7. \A n \in range : Entry(s.dhr, n, s.ckr) \in t.skipped
    BY <2>2, <2>3
  <2> QED BY <1>3, <2>3, <2>4, <2>5, <2>6, <2>7 DEF Stays, t
<1> QED BY <1>2, <1>3

LEMMA StepFields ==
  ASSUME NEW s \in State, NEW theirs \in Name, NEW mine \in Name
  PROVE  LET t == DhRatchetStep(s, theirs, mine)
             root == NextRoot(s.rk, DH(s.dhs, theirs))
         IN  /\ t.dhs = mine /\ t.dhr = theirs
             /\ t.rk = NextRoot(root, DH(mine, theirs))
             /\ t.cks = ChainOf(t.rk)
             /\ t.ckr = ChainOf(root) /\ t.ns = 0 /\ t.nr = 0 /\ t.pn = s.ns
             /\ t.turns = s.turns + 1 /\ t.skipped = s.skipped
             /\ Renews(s, t)
BY DEF DhRatchetStep, State, Renews

\* A message read on the present chain may bring an offer and an answer.
Renewed(s, m, t) ==
  /\ t.offer = IF m.n = 0 /\ m.ek # None THEN m.ek ELSE s.offer
  /\ t.pending = IF MixesIn(s, m) THEN None ELSE s.pending
  /\ t.remixes = IF MixesIn(s, m) THEN s.remixes + 1 ELSE s.remixes

LEMMA ReadFields ==
  ASSUME NEW s \in State, NEW m \in Message
  PROVE  LET r == FromChain(s, m)
             chain == IF MixesIn(s, m)
                      THEN Mix(s.ckr, Decapsulate(s.pending, m.ct)) ELSE s.ckr
         IN  /\ Stays(s, r.st) /\ r.st.ckr = chain
             /\ r.st.nr = m.n + 1 /\ r.st.skipped = s.skipped
             /\ Renewed(s, m, r.st)
             /\ r.ok = (MessageKey(chain, m.n) = m.key)
<1> DEFINE r == FromChain(s, m)
           chain == IF MixesIn(s, m)
                    THEN Mix(s.ckr, Decapsulate(s.pending, m.ct)) ELSE s.ckr
           offer == IF m.n = 0 /\ m.ek # None THEN m.ek ELSE s.offer
           pending == IF MixesIn(s, m) THEN None ELSE s.pending
           remixes == IF MixesIn(s, m) THEN s.remixes + 1 ELSE s.remixes
<1>1. /\ r.st = [s EXCEPT !.ckr = chain, !.nr = m.n + 1, !.offer = offer,
                          !.pending = pending, !.remixes = remixes]
      /\ r.ok = (MessageKey(chain, m.n) = m.key)
  BY DEF FromChain, State
<1> HIDE DEF chain, offer, pending, remixes, r
<1>2. /\ r.st.ckr = chain /\ r.st.nr = m.n + 1 /\ r.st.offer = offer
      /\ r.st.pending = pending /\ r.st.remixes = remixes
      /\ r.st.skipped = s.skipped
  BY <1>1 DEF State
<1>3. Stays(s, r.st)
  BY <1>1 DEF State, Stays
<1> QED BY <1>1, <1>2, <1>3 DEF Renewed, r, chain, offer, pending, remixes

-----------------------------------------------------------------------------
(* The three ways in which a message is opened *)

\* It begins the chain after the present one.
Moved(s, m, mine, t) ==
  /\ t.dhs = mine /\ t.dhr = m.dh
  /\ t.rk = NextRoot(m.key.base, DH(mine, m.dh)) /\ t.cks = ChainOf(t.rk)
  /\ t.ckr # None /\ t.ckr.base = m.key.base /\ t.ckr.mix = m.key.mix
  /\ t.ns = 0 /\ t.nr = m.n + 1 /\ t.pn = s.ns /\ t.turns = s.turns + 1
  /\ Renewed(s, m, t)
  /\ \A e \in t.skipped :
       \/ e \in s.skipped
       \/ /\ s.ckr # None
          /\ \E n \in s.nr .. m.pn - 1 : e = Entry(s.dhr, n, s.ckr)
       \/ \E n \in 0 .. m.n - 1 : e = Entry(m.dh, n, ChainOf(m.key.base))
  /\ \A e \in s.skipped :
       (e.dh # s.dhr \/ e.n < s.nr) /\ e.dh # m.dh => e \in t.skipped
  /\ s.ckr # None =>
       \A n \in s.nr .. m.pn - 1 : Entry(s.dhr, n, s.ckr) \in t.skipped
  /\ \A n \in 0 .. m.n - 1 : Entry(m.dh, n, ChainOf(m.key.base)) \in t.skipped

LEMMA Opening ==
  ASSUME NEW s, Good(s), NEW m \in Message, Letter(m), NEW mine \in Name,
         Proper(s.rk), LevelOf(s.dhs) = Len(s.rk),
         LevelOf(mine) = Len(s.rk) + 2,
         At(m) = Len(s.rk) + 1, s.dhr # m.dh, Cached(s, m.dh, m.n) = {},
         s.ckr # None => m.pn - s.nr <= MAX_SKIP, m.n <= MAX_SKIP,
         m.n > 0 => m.key.mix = None, m.ct # None => s.pending = m.ct.ek
  PROVE  /\ Decrypt(s, m, mine).ok
         /\ Moved(s, m, mine, Decrypt(s, m, mine).st)
<1> DEFINE t1 == SkipTo(s, m.pn)
           u == DhRatchetStep(t1, m.dh, mine)
           v == SkipTo(u, m.n)
           r == FromChain(v, m)
           root == NextRoot(s.rk, DH(s.dhs, m.dh))
<1>1. /\ m.n \in Nat /\ m.pn \in Nat /\ m.dh \in Name /\ m.key \in Key
      /\ m.ct \in Secret \cup {None}
  BY DEF Message
<1>2. /\ s \in State /\ s.dhs \in Name /\ s.rk \in Root /\ Len(s.rk) \in Nat
      /\ s.nr \in Nat
  BY Fields DEF Good
<1>3. /\ m.n = m.key.n /\ Proper(m.key.base) /\ LevelOf(m.dh) = At(m)
      /\ m.n = 0 => m.ct = m.key.mix
      /\ m.n > 0 => m.ct = None
      /\ m.key.base \in Root /\ Len(m.key.base) = Len(s.rk) + 1
  BY <1>1, KeyFields DEF Letter, At
<1>4. mine # <<Bob, 0>>
  <2>1. <<Bob, 0>> \in Name /\ <<Bob, 0>>[1] = Bob /\ <<Bob, 0>>[2] = 0
    BY DEF Name, Party
  <2>2. LevelOf(<<Bob, 0>>) = 0
    BY <2>1, LevelFields
  <2> QED BY <1>2, <2>2
<1>5. root = m.key.base
  <2>1. root \in Root /\ Len(root) = Len(s.rk) + 1 /\ Proper(root)
    BY <1>1, <1>2, <1>3, NextProper
  <2> QED BY <1>3, <2>1, SameRoot
<1>6. Decrypt(s, m, mine) = InNewChain(s, m, mine)
  BY DEF Decrypt
<1>7. /\ Stays(s, t1) /\ Renews(s, t1) /\ t1.ckr = s.ckr /\ Good(t1)
      /\ \A e \in t1.skipped :
           \/ e \in s.skipped
           \/ /\ s.ckr # None
              /\ \E n \in s.nr .. m.pn - 1 : e = Entry(s.dhr, n, s.ckr)
      /\ \A e \in s.skipped : e.dh # s.dhr \/ e.n < s.nr => e \in t1.skipped
      /\ s.ckr # None => \A n \in s.nr .. m.pn - 1 :
                           Entry(s.dhr, n, s.ckr) \in t1.skipped
  <2>1. Good(t1)
    BY <1>1, Skipping DEF Keeps
  <2> QED BY <1>1, <1>2, <2>1, SkipFields
<1>8. InNewChain(s, m, mine) = InChain(u, m)
  BY <1>1, <1>2, RatchetAssumption DEF InNewChain, TooFar
<1> HIDE DEF t1
<1>9. /\ u.dhs = mine /\ u.dhr = m.dh /\ u.rk = NextRoot(root, DH(mine, m.dh))
      /\ u.cks = ChainOf(u.rk) /\ u.ckr = ChainOf(root) /\ u.ns = 0 /\ u.nr = 0
      /\ u.pn = s.ns /\ u.turns = s.turns + 1 /\ u.skipped = t1.skipped
      /\ Renews(s, u)
  <2>1. t1 \in State
    BY <1>7 DEF Good
  <2>2. /\ u.dhs = mine /\ u.dhr = m.dh
        /\ u.rk = NextRoot(NextRoot(t1.rk, DH(t1.dhs, m.dh)), DH(mine, m.dh))
        /\ u.cks = ChainOf(u.rk)
        /\ u.ckr = ChainOf(NextRoot(t1.rk, DH(t1.dhs, m.dh)))
        /\ u.ns = 0 /\ u.nr = 0 /\ u.pn = t1.ns /\ u.turns = t1.turns + 1
        /\ u.skipped = t1.skipped /\ Renews(t1, u)
    BY <1>1, <2>1, StepFields
  <2> QED BY <1>7, <2>2 DEF Stays, Renews
<1>10. Good(u)
  BY <1>1, <1>4, <1>7, Stepping DEF Keeps
<1>11. /\ ChainOf(root) \in Chain /\ ChainOf(root) # None
       /\ ChainOf(root).base = root /\ ChainOf(root).mix = None
  BY <1>3, <1>5, NoneAssumption DEF ChainOf, Chain
<1>12. InChain(u, m) = r
  BY <1>1, <1>9, RatchetAssumption DEF InChain, TooFar
<1> HIDE DEF u, root
<1>13. /\ Stays(u, v) /\ Renews(u, v) /\ v.ckr = u.ckr /\ Good(v)
       /\ \A e \in v.skipped :
            \/ e \in u.skipped
            \/ \E n \in 0 .. m.n - 1 : e = Entry(m.dh, n, ChainOf(root))
       /\ \A e \in u.skipped : e.dh # m.dh \/ e.n < 0 => e \in v.skipped
       /\ \A n \in 0 .. m.n - 1 : Entry(m.dh, n, ChainOf(root)) \in v.skipped
  <2>1. Good(v)
    BY <1>1, <1>10, Skipping DEF Keeps
  <2>2. u \in State
    BY <1>10 DEF Good
  <2> QED BY <1>1, <1>9, <1>11, <2>1, <2>2, SkipFields
<1> HIDE DEF v
<1> DEFINE chain == IF MixesIn(v, m)
                    THEN Mix(v.ckr, Decapsulate(v.pending, m.ct)) ELSE v.ckr
<1>14. /\ Stays(v, r.st) /\ r.st.ckr = chain
       /\ r.st.nr = m.n + 1 /\ r.st.skipped = v.skipped
       /\ Renewed(v, m, r.st)
       /\ r.ok = (MessageKey(chain, m.n) = m.key)
  <2>1. v \in State
    BY <1>13 DEF Good
  <2> QED BY <2>1, ReadFields
<1>15. v.pending = s.pending /\ v.offer = s.offer /\ v.remixes = s.remixes
  BY <1>9, <1>13 DEF Renews
<1>16. v.ckr = ChainOf(m.key.base) /\ v.ckr \in Chain /\ v.ckr.mix = None
       /\ v.ckr.base = m.key.base
  BY <1>5, <1>9, <1>11, <1>13
<1>17. chain \in Chain /\ chain.base = m.key.base /\ chain.mix = m.key.mix
  <2>1. CASE m.ct = None
    <3>1. chain = v.ckr
      BY <2>1 DEF MixesIn
    <3>2. m.key.mix = None
      BY <1>1, <1>3, <2>1
    <3> QED BY <1>16, <3>1, <3>2
  <2>2. CASE m.ct # None
    <3>1. m.n = 0 /\ m.ct = m.key.mix /\ m.ct \in Secret
      BY <1>1, <1>3, <2>2
    <3>2. m.ct.ek \in Name /\ s.pending = m.ct.ek
      BY <2>2, <3>1 DEF Secret
    <3>3. MixesIn(v, m)
      BY <1>15, <2>2, <3>1, <3>2, NoneAssumption DEF MixesIn
    <3>4. Decapsulate(v.pending, m.ct) = m.ct
      BY <1>15, <3>2 DEF Decapsulate
    <3>5. chain = Mix(v.ckr, m.ct)
      BY <3>3, <3>4
    <3> QED BY <1>16, <3>1, <3>5 DEF Mix, Chain
  <2> QED BY <2>1, <2>2
<1>18. r.ok
  BY <1>1, <1>3, <1>14, <1>17, SameKey
<1>19. chain # None
  BY <1>17, NoneAssumption
<1> HIDE DEF chain, r
<1>20. Renewed(s, m, r.st)
  BY <1>14, <1>15 DEF Renewed, MixesIn
<1>21. /\ \A e \in r.st.skipped :
            \/ e \in s.skipped
            \/ /\ s.ckr # None
               /\ \E n \in s.nr .. m.pn - 1 : e = Entry(s.dhr, n, s.ckr)
            \/ \E n \in 0 .. m.n - 1 : e = Entry(m.dh, n, ChainOf(m.key.base))
       /\ \A e \in s.skipped :
            (e.dh # s.dhr \/ e.n < s.nr) /\ e.dh # m.dh => e \in r.st.skipped
       /\ \A n \in 0 .. m.n - 1 :
            Entry(m.dh, n, ChainOf(m.key.base)) \in r.st.skipped
  BY <1>5, <1>7, <1>9, <1>13, <1>14
<1>22. s.ckr # None =>
         \A n \in s.nr .. m.pn - 1 : Entry(s.dhr, n, s.ckr) \in r.st.skipped
  <2>1. \A n : Entry(s.dhr, n, s.ckr).dh = s.dhr
    BY DEF Entry
  <2> QED BY <1>7, <1>9, <1>13, <1>14, <2>1
<1>23. /\ r.st.dhs = mine /\ r.st.dhr = m.dh
       /\ r.st.rk = NextRoot(m.key.base, DH(mine, m.dh))
       /\ r.st.cks = ChainOf(r.st.rk) /\ r.st.ns = 0 /\ r.st.pn = s.ns
       /\ r.st.turns = s.turns + 1
  BY <1>5, <1>9, <1>13, <1>14 DEF Stays
<1> QED
  BY <1>6, <1>8, <1>12, <1>14, <1>17, <1>18, <1>19, <1>20, <1>21, <1>22, <1>23
     DEF Moved

\* It is of the present chain, at a position that was not passed.
Continued(s, m, t) ==
  /\ Stays(s, t) /\ Renews(s, t) /\ t.ckr = s.ckr /\ t.nr = m.n + 1
  /\ \A e \in t.skipped :
       \/ e \in s.skipped
       \/ \E n \in s.nr .. m.n - 1 : e = Entry(s.dhr, n, s.ckr)
  /\ \A e \in s.skipped : e.dh # s.dhr \/ e.n < s.nr => e \in t.skipped
  /\ \A n \in s.nr .. m.n - 1 : Entry(s.dhr, n, s.ckr) \in t.skipped

LEMMA Continuing ==
  ASSUME NEW s, Good(s), NEW m \in Message, Letter(m), NEW mine,
         Proper(m.key.base), s.ckr # None, Proper(s.ckr.base), s.nr > 0,
         At(m) + 1 = Len(s.rk), s.dhr = m.dh, Cached(s, m.dh, m.n) = {},
         s.nr <= m.n, m.n - s.nr <= MAX_SKIP, m.key.mix = s.ckr.mix
  PROVE  /\ Decrypt(s, m, mine).ok
         /\ Continued(s, m, Decrypt(s, m, mine).st)
<1> DEFINE v == SkipTo(s, m.n)
           r == FromChain(v, m)
<1>1. m.n \in Nat /\ m.key \in Key /\ m.n = m.key.n
      /\ m.key.base \in Root /\ Len(m.key.base) \in Nat
  BY KeyFields DEF Message, Letter
<1>2. s \in State /\ s.nr \in Nat /\ s.ckr \in Chain /\ s.ckr.base \in Root
      /\ Len(s.rk) \in Nat /\ Len(s.ckr.base) + 1 = Len(s.rk)
      /\ Len(s.ckr.base) \in Nat
  <2>1. s \in State /\ s.nr \in Nat /\ s.ckr \in Chain /\ Len(s.rk) \in Nat
    BY Fields DEF Good
  <2>2. s.ckr.base \in Root /\ Len(s.ckr.base) \in Nat
    BY <2>1, ChainFields
  <2> QED BY <2>1, <2>2 DEF Good, Chains
<1>3. s.ckr.base = m.key.base
  BY <1>1, <1>2, SameRoot DEF At
<1>4. m.n > 0 /\ ~(m.n < s.nr)
  BY <1>1, <1>2
<1>5. Decrypt(s, m, mine) = InChain(s, m)
  BY <1>4 DEF Decrypt
<1>6. InChain(s, m) = r
  BY <1>1, <1>2, RatchetAssumption DEF InChain, TooFar
<1>7. /\ Stays(s, v) /\ Renews(s, v) /\ v.ckr = s.ckr /\ v.nr = m.n /\ Good(v)
      /\ \A e \in v.skipped :
           \/ e \in s.skipped
           \/ \E n \in s.nr .. m.n - 1 : e = Entry(s.dhr, n, s.ckr)
      /\ \A e \in s.skipped : e.dh # s.dhr \/ e.n < s.nr => e \in v.skipped
      /\ \A n \in s.nr .. m.n - 1 : Entry(s.dhr, n, s.ckr) \in v.skipped
  <2>1. Good(v)
    BY <1>1, Skipping DEF Keeps
  <2> QED BY <1>1, <1>2, <2>1, SkipFields
<1> HIDE DEF v
<1>8. ~MixesIn(v, m)
  BY <1>4 DEF MixesIn
<1>9. /\ Stays(v, r.st) /\ r.st.ckr = v.ckr
      /\ r.st.nr = m.n + 1 /\ r.st.skipped = v.skipped
      /\ Renewed(v, m, r.st)
      /\ r.ok = (MessageKey(v.ckr, m.n) = m.key)
  <2>1. v \in State
    BY <1>7 DEF Good
  <2> QED BY <1>8, <2>1, ReadFields
<1> HIDE DEF r
<1>10. r.ok
  <2>1. r.ok = (MessageKey(s.ckr, m.n) = m.key)
    BY <1>7, <1>9
  <2>2. MessageKey(s.ckr, m.n) = m.key
    BY <1>1, <1>2, <1>3, SameKey
  <2> QED BY <2>1, <2>2
<1>11. Renews(s, r.st)
  BY <1>4, <1>7, <1>8, <1>9 DEF Renewed, Renews
<1>12. Stays(s, r.st)
  BY <1>7, <1>9 DEF Stays
<1> QED BY <1>5, <1>6, <1>7, <1>9, <1>10, <1>11, <1>12 DEF Continued

\* Its key was kept.
Recalled(s, m, t) ==
  /\ Stays(s, t) /\ Renews(s, t) /\ t.ckr = s.ckr /\ t.nr = s.nr
  /\ t.skipped = s.skipped \ Cached(s, m.dh, m.n)

LEMMA Recalling ==
  ASSUME NEW s \in State, NEW m, NEW mine, Kept(s, m)
  PROVE  /\ Decrypt(s, m, mine).ok
         /\ Recalled(s, m, Decrypt(s, m, mine).st)
<1>1. PICK e \in Cached(s, m.dh, m.n) : e.mk = m.key
  BY DEF Kept, Cached
<1>2. Decrypt(s, m, mine) = FromCache(s, m)
  BY <1>1 DEF Decrypt
<1>3. FromCache(s, m).ok
  BY <1>1 DEF FromCache
<1>4. FromCache(s, m).st = [s EXCEPT !.skipped = @ \ Cached(s, m.dh, m.n)]
  BY DEF FromCache
<1>5. Recalled(s, m, FromCache(s, m).st)
  BY <1>4 DEF State, Recalled, Stays, Renews
<1> QED BY <1>2, <1>3, <1>5

-----------------------------------------------------------------------------
(* What is known of the next message *)

LEMMA PartyFacts ==
  ASSUME IInv, NEW p \in Party
  PROVE  /\ Good(st[p]) /\ st[p] \in State /\ Level(p) \in Nat
         /\ st[p].rk \in Root /\ st[p].dhs \in Name /\ minted[p] \in Nat
         /\ st[p].ns \in Nat /\ st[p].nr \in Nat /\ st[p].pn \in Nat
         /\ st[p].turns \in Nat /\ st[p].remixes \in Nat
         /\ queue[p] \in Seq(Message) /\ Len(queue[p]) \in Nat
         /\ DOMAIN queue[p] = 1 .. Len(queue[p])
         /\ DOMAIN opened[p] = DOMAIN queue[p]
         /\ gone[p] \subseteq Nat /\ tried[p] \subseteq Nat
<1>1. TypeOK /\ Good(st[p])
  BY DEF IInv, Ends
<1>2. st[p] \in State
  BY <1>1 DEF Good
<1>3. /\ minted[p] \in Nat /\ queue[p] \in Seq(Message)
      /\ gone[p] \subseteq Nat /\ tried[p] \subseteq Nat
  BY <1>1 DEF TypeOK
<1> QED BY <1>1, <1>2, <1>3, Fields, MessageKeys DEF Level

LEMMA MessageFacts ==
  ASSUME IInv, NEW p \in Party, NEW i \in DOMAIN queue[p]
  PROVE  LET m == queue[p][i]
             q == Peer(p)
         IN  /\ m \in Message /\ m.n \in Nat /\ m.pn \in Nat /\ m.dh \in Name
             /\ m.key \in Key /\ m.key.n \in Nat
             /\ m.ct \in Secret \cup {None} /\ m.ek \in Name \cup {None}
             /\ At(m) \in Nat /\ m.dh # <<Bob, 0>>
             /\ At(m) <= Level(q) /\ Side(At(m)) = Side(Level(q))
             /\ At(m) = Level(q) => m.key.n < st[q].ns
<1>1. TypeOK
  BY DEF IInv
<1>2. queue[p][i] \in Message /\ queue[p][i].key \in Key
  BY <1>1, MessageKeys
<1>3. queue[p][i].dh # <<Bob, 0>> /\ Sent(st[Peer(p)], queue[p][i].key)
  BY DEF IInv, Keys
<1> QED BY <1>2, <1>3, KeyFields DEF Message, Sent, Own, At, Level

LEMMA Zero == <<Bob, 0>> \in Name /\ LevelOf(<<Bob, 0>>) = 0
<1>1. <<Bob, 0>> \in Name /\ <<Bob, 0>>[1] = Bob /\ <<Bob, 0>>[2] = 0
  BY DEF Name, Party
<1> QED BY <1>1, LevelFields

\* The parties are next to each other, seen from either side.
LEMMA Neighbours ==
  ASSUME Near, NEW p \in Party, IInv
  PROVE  \/ Level(Peer(p)) = Level(p) + 1
         \/ Level(p) = Level(Peer(p)) + 1
BY DEF Near, Party, Peer, Alice, Bob

\* A message is of the chain after the present one, or of an earlier one.
LEMMA Rungs ==
  ASSUME IInv, Near, NEW p \in Party, NEW i \in DOMAIN queue[p],
         Letter(queue[p][i])
  PROVE  /\ At(queue[p][i]) > 0
         /\ \/ /\ At(queue[p][i]) = Level(p) + 1
               /\ Level(Peer(p)) = Level(p) + 1
            \/ At(queue[p][i]) < Level(p)
<1> DEFINE m == queue[p][i]
           q == Peer(p)
<1>1. /\ At(m) \in Nat /\ m.dh \in Name /\ m.dh # <<Bob, 0>>
      /\ At(m) <= Level(q) /\ Side(At(m)) = Side(Level(q))
  BY MessageFacts
<1>2. Level(p) \in Nat /\ Level(q) \in Nat
  BY PartyFacts, OtherParty
<1>3. At(m) # 0
  BY <1>1, Zero, LevelsDiffer DEF Letter
<1>4. Level(q) = Level(p) + 1 \/ Level(p) = Level(q) + 1
  BY Neighbours
<1> HIDE DEF m, q
<1>5. At(m) # Level(p)
  BY <1>1, <1>2, <1>4, Parity
<1> QED BY <1>1, <1>2, <1>3, <1>4, <1>5 DEF m, q

LEMMA InTurn ==
  ASSUME IInv, Agreement, Orderly, NEW p \in Party, NEW i \in Waiting(p),
         InOrder(p, i)
  PROVE  LET m == queue[p][i]
         IN  /\ \/ /\ At(m) = Level(p) + 1 /\ m.n = 0
                   /\ st[p].ckr # None => m.pn = st[p].nr
                \/ /\ At(m) + 1 = Level(p) /\ m.n = st[p].nr
                   /\ st[p].ckr # None /\ m.key.mix = st[p].ckr.mix
             /\ \A j \in 1 .. i - 1 : j \in gone[p]
             /\ gone[p] \subseteq 1 .. i - 1
<1> DEFINE m == queue[p][i]
<1>1. /\ i \in DOMAIN queue[p] /\ i \notin gone[p] /\ i \in Nat /\ i > 0
      /\ DOMAIN queue[p] = 1 .. Len(queue[p]) /\ Len(queue[p]) \in Nat
  BY PartyFacts DEF Waiting
<1>2. /\ Near /\ Shape(p) /\ Letter(m) /\ Sender(p) /\ Receiver(p)
  BY <1>1 DEF Agreement, Aligned, Tolerable, OrderInv, Letters
<1>3. \A j \in 1 .. i - 1 : j \in gone[p]
  <2> SUFFICES ASSUME NEW j \in 1 .. i - 1, j \notin gone[p] PROVE FALSE
    OBVIOUS
  <2>1. j \in Waiting(p)
    BY <1>1 DEF Waiting
  <2> QED BY <1>1, <2>1 DEF InOrder
<1>4. gone[p] \subseteq 1 .. i - 1
  <2> SUFFICES ASSUME NEW j \in gone[p], j \notin 1 .. i - 1 PROVE FALSE
    OBVIOUS
  <2>1. j \in DOMAIN queue[p] /\ j >= i
    BY <1>1, <1>2 DEF Receiver
  <2>2. i \in 1 .. j
    BY <1>1, <2>1
  <2> QED BY <1>1, <1>2, <2>2 DEF Receiver
<1>5. At(m) > 0 /\ (At(m) = Level(p) + 1 \/ At(m) < Level(p))
      /\ At(m) \in Nat /\ Level(p) \in Nat
  BY <1>1, <1>2, Rungs, PartyFacts, MessageFacts
<1>6. CASE i = 1
  <2>1. gone[p] = {}
    BY <1>4, <1>6
  <2>2. st[p].ckr = None /\ m.n = 0 /\ At(m) <= 2
    BY <1>1, <1>2, <1>6, <2>1 DEF Receiver, Sender
  <2>3. st[p].dhr \in {None, <<Bob, 0>>}
    BY <2>2, PartyFacts DEF Good, Chains
  <2>4. Level(p) <= 1
    BY <1>2, <1>5, <2>3, Zero DEF Shape
  <2> HIDE DEF m
  <2> QED BY <1>3, <1>4, <1>5, <2>2, <2>4 DEF m
<1>7. CASE i # 1
  <2>1. i - 1 \in DOMAIN queue[p] /\ i - 1 \in gone[p] /\ (i - 1) + 1 = i
    BY <1>1, <1>3, <1>7
  <2> DEFINE k == queue[p][i - 1]
  <2>2. /\ At(k) + 1 = Level(p) /\ st[p].nr = k.n + 1
        /\ st[p].ckr # None /\ st[p].ckr.mix = k.key.mix
    BY <1>1, <1>2, <2>1 DEF Receiver
  <2>3. Follows(k, m)
    BY <1>1, <1>2, <2>1 DEF Sender
  <2>4. At(k) \in Nat
    BY <2>1, MessageFacts
  <2> HIDE DEF m, k
  <2> QED BY <1>3, <1>4, <1>5, <2>2, <2>3, <2>4 DEF m, Follows
<1> QED BY <1>6, <1>7

LEMMA NotKept ==
  ASSUME IInv, Agreement, Tolerable, NEW p \in Party, NEW i \in Waiting(p),
         \/ At(queue[p][i]) = Level(p) + 1
         \/ At(queue[p][i]) + 1 = Level(p) /\ st[p].nr <= queue[p][i].n
  PROVE  Cached(st[p], queue[p][i].dh, queue[p][i].n) = {}
<1> DEFINE m == queue[p][i]
<1>1. i \in DOMAIN queue[p]
  BY DEF Waiting
<1>2. m.n \in Nat /\ At(m) \in Nat /\ Letter(m)
  BY <1>1, MessageFacts DEF Agreement, Aligned, Letters
<1>3. /\ Good(st[p]) /\ Level(p) \in Nat /\ st[p].nr \in Nat
      /\ \A e \in st[p].skipped : e.n \in Nat /\ Len(e.mk.base) \in Nat
  BY PartyFacts, Fields
<1>4. SUFFICES ASSUME NEW e \in st[p].skipped, e.dh = m.dh, e.n = m.n
               PROVE  FALSE
  BY DEF Cached
<1>5. Mild
  BY DEF Agreement, OrderInv, Receiver, Tolerable
<1>6. Len(e.mk.base) = At(m)
  BY <1>2, <1>4, <1>5 DEF Agreement, MildInv, Mildly, Letter
<1>7. Len(e.mk.base) < Level(p)
      /\ (Len(e.mk.base) + 1 = Level(p) => e.n < st[p].nr)
  BY <1>3 DEF Good, Cache, Incoming, Level
<1> HIDE DEF m
<1> QED BY <1>2, <1>3, <1>4, <1>6, <1>7 DEF m

\* A new key pair of a party is two levels above its last one.
LEMMA Fresh ==
  ASSUME NEW p \in Party, NEW n \in Nat
  PROVE  /\ <<p, n>> \in Name /\ <<p, n + 1>> \in Name
         /\ LevelOf(<<p, n + 1>>) = LevelOf(<<p, n>>) + 2
<1>1. /\ <<p, n>> \in Name /\ <<p, n + 1>> \in Name
      /\ <<p, n>>[1] = p /\ <<p, n>>[2] = n
      /\ <<p, n + 1>>[1] = p /\ <<p, n + 1>>[2] = n + 1
  BY DEF Name
<1>2. p = Alice \/ p = Bob
  BY DEF Party
<1> QED BY <1>1, <1>2, LevelFields

-----------------------------------------------------------------------------
(* Every message that may come next is opened *)

\* The messages that the conditions of ReorderingTolerated let come next.
MayCome(p, i) == Mild \/ (Orderly /\ InOrder(p, i))

LEMMA Fits ==
  ASSUME IInv, Agreement, NEW p \in Party, NEW i \in Waiting(p), MayCome(p, i),
         At(queue[p][i]) = Level(p) + 1
  PROVE  LET s == st[p]
             m == queue[p][i]
         IN  /\ s.ckr # None => m.pn - s.nr <= MAX_SKIP
             /\ m.n <= MAX_SKIP
             /\ m.n > 0 => m.key.mix = None
             /\ m.ct # None => s.pending = m.ct.ek
<1> DEFINE s == st[p]
           m == queue[p][i]
           q == Peer(p)
<1>1. /\ q \in Party /\ i \in DOMAIN queue[p] /\ MAX_SKIP \in Nat
      /\ m.n \in Nat /\ m.pn \in Nat /\ s.nr \in Nat
  BY OtherParty, MessageFacts, PartyFacts, RatchetAssumption DEF Waiting
<1>2. CASE Mild
  <2>1. m.ct = None /\ m.n < MAX_SKIP
    BY <1>1, <1>2 DEF Mild
  <2>2. m.key.mix = None /\ st[q].pn <= MAX_SKIP
    BY <1>1, <1>2 DEF Agreement, MildInv, Mildly
  <2>3. Letters(p) /\ Near
    BY <1>2 DEF Agreement, Aligned, Tolerable
  <2>4. At(m) = Level(q) /\ Level(p) \in Nat /\ Level(q) \in Nat
    BY <1>1, <2>3, PartyFacts, Rungs DEF Letters
  <2>5. m.pn = st[q].pn
    BY <1>1, <2>3, <2>4 DEF Letters
  <2>6. st[q].pn \in Nat
    BY <1>1, PartyFacts
  <2> HIDE DEF m, q
  <2> QED BY <1>1, <2>1, <2>2, <2>5, <2>6 DEF m
<1>3. CASE Orderly /\ InOrder(p, i)
  <2>1. m.n = 0 /\ (s.ckr # None => m.pn = s.nr)
    <3>1. Level(p) \in Nat
      BY PartyFacts
    <3> QED BY <1>3, <3>1, InTurn
  <2>2. m.ct # None => s.pending = m.ct.ek
    <3>1. m.ct # None => i \in Answers(p)
      BY DEF Answers
    <3> QED BY <1>3, <3>1 DEF Agreement, OrderInv, Tokens
  <2> HIDE DEF m
  <2> QED BY <1>1, <2>1, <2>2 DEF m
<1> QED BY <1>2, <1>3 DEF MayCome

LEMMA OpensNext ==
  ASSUME IInv, Agreement, NEW p \in Party, NEW i \in Waiting(p), MayCome(p, i),
         At(queue[p][i]) = Level(p) + 1
  PROVE  LET mine == <<p, minted[p] + 1>>
             result == Decrypt(st[p], queue[p][i], mine)
         IN  result.ok /\ Moved(st[p], queue[p][i], mine, result.st)
<1> DEFINE s == st[p]
           m == queue[p][i]
           mine == <<p, minted[p] + 1>>
<1>1. Tolerable /\ i \in DOMAIN queue[p]
  BY DEF MayCome, Tolerable, Waiting
<1>2. Shape(p) /\ Letter(m)
  BY <1>1 DEF Agreement, Aligned, Letters
<1>3. /\ Good(s) /\ Level(p) \in Nat /\ m \in Message
  BY <1>1, PartyFacts, MessageFacts
<1>4. mine \in Name /\ LevelOf(mine) = Level(p) + 2
  BY <1>2, <1>3, Fresh, PartyFacts DEF Shape
<1>5. s.dhr # m.dh
  <2>1. Level(p) > 0 => s.dhr # None /\ LevelOf(s.dhr) + 1 = Level(p)
    BY <1>2 DEF Shape
  <2>2. Level(p) = 0 => s.dhr = None
    BY <1>2 DEF Shape
  <2>3. LevelOf(m.dh) = Level(p) + 1 /\ m.dh \in Name
    BY <1>1, <1>2, MessageFacts DEF Letter
  <2> HIDE DEF m, s
  <2> QED BY <1>3, <2>1, <2>2, <2>3, NoneAssumption
<1>6. Cached(s, m.dh, m.n) = {}
  BY <1>1, NotKept
<1>7. Proper(s.rk) /\ LevelOf(s.dhs) = Len(s.rk) /\ Level(p) = Len(s.rk)
  BY <1>2 DEF Shape, Level
<1>8. /\ s.ckr # None => m.pn - s.nr <= MAX_SKIP
      /\ m.n <= MAX_SKIP
      /\ m.n > 0 => m.key.mix = None
      /\ m.ct # None => s.pending = m.ct.ek
  BY Fits
<1>9. At(m) = Level(p) + 1
  OBVIOUS
<1> HIDE DEF s, m, mine
<1>10. /\ Decrypt(s, m, mine).ok
       /\ Moved(s, m, mine, Decrypt(s, m, mine).st)
  BY <1>2, <1>3, <1>4, <1>5, <1>6, <1>7, <1>8, <1>9, Opening
<1> QED BY <1>10 DEF s, m, mine

LEMMA GoesOn ==
  ASSUME IInv, Agreement, NEW p \in Party, NEW i \in Waiting(p), MayCome(p, i),
         At(queue[p][i]) + 1 = Level(p), st[p].nr <= queue[p][i].n
  PROVE  LET mine == <<p, minted[p] + 1>>
             result == Decrypt(st[p], queue[p][i], mine)
         IN  /\ result.ok /\ Continued(st[p], queue[p][i], result.st)
             /\ st[p].ckr # None
<1> DEFINE s == st[p]
           m == queue[p][i]
           mine == <<p, minted[p] + 1>>
<1>1. Tolerable /\ i \in DOMAIN queue[p]
  BY DEF MayCome, Tolerable, Waiting
<1>2. Near /\ Shape(p) /\ Letter(m)
  BY <1>1 DEF Agreement, Aligned, Letters
<1>3. /\ Good(s) /\ Level(p) \in Nat /\ m \in Message /\ At(m) \in Nat
      /\ m.n \in Nat /\ s.nr \in Nat /\ MAX_SKIP \in Nat
  BY <1>1, PartyFacts, MessageFacts, RatchetAssumption
<1>4. At(m) > 0
  BY <1>1, <1>2, Rungs
<1>5. /\ s.dhr # None /\ LevelOf(s.dhr) + 1 = Level(p) /\ s.dhr \in Name
  <2>1. s.dhr # None /\ LevelOf(s.dhr) + 1 = Level(p)
    BY <1>2, <1>3, <1>4 DEF Shape
  <2> QED BY <1>3, <2>1, PartyFacts, Fields
<1>6. s.dhr = m.dh
  <2>1. m.dh \in Name /\ LevelOf(m.dh) = At(m)
    BY <1>1, <1>2, MessageFacts DEF Letter
  <2>2. LevelOf(s.dhr) = LevelOf(m.dh)
    BY <1>3, <1>5, <2>1, LevelFields
  <2> QED BY <1>5, <2>1, <2>2, LevelsDiffer
<1>7. s.ckr # None
  <2> SUFFICES ASSUME s.ckr = None PROVE FALSE
    OBVIOUS
  <2>1. s.dhr = <<Bob, 0>>
    BY <1>3, <1>5 DEF Good, Chains
  <2> QED BY <1>3, <1>4, <1>5, <2>1, Zero
<1>8. Proper(s.ckr.base) /\ s.nr > 0
  BY <1>2, <1>7 DEF Shape
<1>9. m.n - s.nr <= MAX_SKIP /\ m.key.mix = s.ckr.mix
  <2>1. CASE Mild
    <3>1. m.n < MAX_SKIP
      BY <1>1, <2>1 DEF Mild
    <3>2. m.key.mix = None /\ s.ckr.mix = None
      BY <1>1, <1>7, <2>1 DEF Agreement, MildInv, Mildly
    <3> HIDE DEF m, s
    <3> QED BY <1>3, <3>1, <3>2
  <2>2. CASE Orderly /\ InOrder(p, i)
    <3>1. m.n = s.nr /\ m.key.mix = s.ckr.mix
      BY <1>3, <2>2, InTurn
    <3> HIDE DEF m, s
    <3> QED BY <1>3, <3>1
  <2> QED BY <2>1, <2>2 DEF MayCome
<1>10. Cached(s, m.dh, m.n) = {}
  BY <1>1, NotKept
<1>11. At(m) + 1 = Len(s.rk) /\ s.nr <= m.n
  BY DEF Level
<1>12. Proper(m.key.base)
  BY <1>2 DEF Letter
<1> HIDE DEF s, m, mine
<1>13. /\ Decrypt(s, m, mine).ok
       /\ Continued(s, m, Decrypt(s, m, mine).st)
  BY <1>2, <1>3, <1>6, <1>7, <1>8, <1>9, <1>10, <1>11, <1>12, Continuing
<1> QED BY <1>7, <1>13 DEF s, m, mine

LEMMA Recalls ==
  ASSUME IInv, Agreement, NEW p \in Party, NEW i \in Waiting(p), MayCome(p, i),
         At(queue[p][i]) # Level(p) + 1,
         ~(At(queue[p][i]) + 1 = Level(p) /\ st[p].nr <= queue[p][i].n)
  PROVE  LET mine == <<p, minted[p] + 1>>
             result == Decrypt(st[p], queue[p][i], mine)
         IN  /\ result.ok /\ Recalled(st[p], queue[p][i], result.st)
             /\ Mild
<1> DEFINE m == queue[p][i]
<1>1. Tolerable /\ i \in DOMAIN queue[p]
  BY DEF MayCome, Tolerable, Waiting
<1>2. Near /\ Letter(m)
  BY <1>1 DEF Agreement, Aligned, Letters
<1>3. At(m) < Level(p)
  BY <1>1, <1>2, Rungs
<1>4. Mild
  <2> SUFFICES ASSUME Orderly, InOrder(p, i) PROVE FALSE
    BY DEF MayCome
  <2>1. /\ At(m) + 1 = Level(p) /\ m.n = st[p].nr
    BY <1>3, InTurn
  <2> QED BY <2>1, PartyFacts
<1>5. Kept(st[p], m)
  BY <1>3, <1>4 DEF Agreement, MildInv, Mildly
<1>6. st[p] \in State
  BY PartyFacts
<1> QED BY <1>4, <1>5, <1>6, Recalling

-----------------------------------------------------------------------------
(* A step of a party, seen from both *)

\* Message i of p has been opened, and nothing else has changed but p.
Passed(p, i) ==
  /\ i \in Waiting(p) /\ queue' = queue
  /\ st' \in [Party -> State] /\ st'[Peer(p)] = st[Peer(p)]
  /\ minted'[Peer(p)] = minted[Peer(p)]
  /\ gone'[p] = gone[p] \cup {i} /\ gone'[Peer(p)] = gone[Peer(p)]
  /\ tried'[p] = tried[p] \cup {i} /\ tried'[Peer(p)] = tried[Peer(p)]
  /\ opened'[p] = [opened[p] EXCEPT ![i] = @ + 1]
  /\ opened'[Peer(p)] = opened[Peer(p)]

\* It began a chain, or it left p in its chains.
Turned(p, i) ==
  /\ At(queue[p][i]) = Level(p) + 1
  /\ Moved(st[p], queue[p][i], <<p, minted[p] + 1>>, st'[p])
  /\ minted'[p] = minted[p] + 1
MayRead(p, i) ==
  \/ At(queue[p][i]) = Level(p) + 1
  \/ At(queue[p][i]) + 1 = Level(p) /\ st[p].nr <= queue[p][i].n
Remained(p, i) ==
  /\ Stays(st[p], st'[p]) /\ Renews(st[p], st'[p])
  /\ st'[p].ckr = st[p].ckr /\ minted'[p] = minted[p]
  /\ \/ /\ At(queue[p][i]) + 1 = Level(p) /\ st[p].nr <= queue[p][i].n
        /\ st[p].ckr # None /\ Continued(st[p], queue[p][i], st'[p])
     \/ /\ ~MayRead(p, i) /\ Mild
        /\ Recalled(st[p], queue[p][i], st'[p])

LEMMA Reading ==
  ASSUME IInv, IInv', Agreement, NEW p \in Party, NEW i, Receive(p, i),
         MayCome(p, i)
  PROVE  Passed(p, i) /\ (Turned(p, i) \/ Remained(p, i))
<1> DEFINE mine == <<p, minted[p] + 1>>
           m == queue[p][i]
           result == Decrypt(st[p], m, mine)
           t == result.st
<1>1. /\ i \in Waiting(p)
      /\ st' = [st EXCEPT ![p] = t]
      /\ minted' = IF t.dhs = mine
                   THEN [minted EXCEPT ![p] = @ + 1] ELSE minted
      /\ gone' = [gone EXCEPT ![p] = @ \cup {i}]
      /\ tried' = [tried EXCEPT ![p] = @ \cup {i}]
      /\ opened' = IF result.ok
                   THEN [opened EXCEPT ![p][i] = @ + 1] ELSE opened
      /\ queue' = queue
  BY DEF Receive
<1>2. /\ st \in [Party -> State] /\ minted \in [Party -> Nat]
      /\ gone \in [Party -> SUBSET Nat] /\ tried \in [Party -> SUBSET Nat]
      /\ opened \in [Party -> Seq(Nat)] /\ st' \in [Party -> State]
  BY DEF IInv, TypeOK
<1>3. Peer(p) \in Party /\ Peer(p) # p
  BY OtherParty
<1>4. /\ result.ok
      /\ \/ At(m) = Level(p) + 1 /\ Moved(st[p], m, mine, t)
         \/ /\ At(m) + 1 = Level(p) /\ st[p].nr <= m.n
            /\ st[p].ckr # None /\ Continued(st[p], m, t)
         \/ ~MayRead(p, i) /\ Mild /\ Recalled(st[p], m, t)
  <2>1. CASE At(m) = Level(p) + 1
    BY <1>1, <2>1, OpensNext
  <2>2. CASE At(m) + 1 = Level(p) /\ st[p].nr <= m.n
    BY <1>1, <2>2, GoesOn
  <2>3. CASE At(m) # Level(p) + 1
             /\ ~(At(m) + 1 = Level(p) /\ st[p].nr <= m.n)
    BY <1>1, <2>3, Recalls DEF MayRead
  <2> QED BY <2>1, <2>2, <2>3
<1>5. st[p].dhs # mine
  <2>1. st[p].dhs = <<p, minted[p]>> /\ minted[p] \in Nat
    BY <1>2 DEF MayCome, Agreement, Aligned, Tolerable, Shape
  <2> QED BY <2>1
<1>6. Passed(p, i)
  <2>1. st'[Peer(p)] = st[Peer(p)] /\ minted'[Peer(p)] = minted[Peer(p)]
    BY <1>1, <1>2, <1>3
  <2>2. /\ gone'[p] = gone[p] \cup {i} /\ gone'[Peer(p)] = gone[Peer(p)]
        /\ tried'[p] = tried[p] \cup {i} /\ tried'[Peer(p)] = tried[Peer(p)]
    BY <1>1, <1>2, <1>3
  <2>3. /\ opened'[p] = [opened[p] EXCEPT ![i] = @ + 1]
        /\ opened'[Peer(p)] = opened[Peer(p)]
    <3> HIDE DEF result
    <3> QED BY <1>1, <1>2, <1>3, <1>4
  <2> HIDE DEF result
  <2> QED BY <1>1, <1>2, <2>1, <2>2, <2>3 DEF Passed
<1>7. st'[p] = t
  <2> HIDE DEF t
  <2> QED BY <1>1, <1>2
<1> HIDE DEF result, t
<1>8. CASE At(m) = Level(p) + 1 /\ Moved(st[p], m, mine, t)
  <2>1. minted'[p] = minted[p] + 1
    BY <1>1, <1>2, <1>8 DEF Moved
  <2> QED BY <1>6, <1>7, <1>8, <2>1 DEF Turned
<1>9. CASE \/ /\ At(m) + 1 = Level(p) /\ st[p].nr <= m.n
              /\ st[p].ckr # None /\ Continued(st[p], m, t)
           \/ ~MayRead(p, i) /\ Mild /\ Recalled(st[p], m, t)
  <2>1. Stays(st[p], t) /\ Renews(st[p], t) /\ t.ckr = st[p].ckr
    BY <1>9 DEF Continued, Recalled
  <2>2. minted'[p] = minted[p]
    BY <1>1, <1>5, <2>1 DEF Stays
  <2> QED BY <1>6, <1>7, <1>9, <2>1, <2>2 DEF Remained
<1> QED BY <1>4, <1>8, <1>9

\* Who turns was behind, and is ahead.
LEMMA Turning ==
  ASSUME IInv, Agreement, Tolerable, NEW p \in Party, NEW i,
         Passed(p, i), Turned(p, i)
  PROVE  LET m == queue[p][i]
             s == st[p]
             q == Peer(p)
         IN  /\ Level(q) = Level(p) + 1 /\ Level(p)' = Level(p) + 2
             /\ Level(q)' = Level(q)
             /\ Proper(st'[p].rk) /\ LevelOf(<<p, minted'[p]>>) = Level(p) + 2
             /\ Letter(m) /\ At(m) = Level(q) /\ m.n < st[q].ns
             /\ m.pn = st[q].pn
             /\ \A j \in DOMAIN queue[q] : At(queue[q][j]) <= Level(p)
             /\ s.ckr = None => Level(p) <= 1
<1> DEFINE m == queue[p][i]
           s == st[p]
           q == Peer(p)
           mine == <<p, minted[p] + 1>>
<1>1. /\ i \in DOMAIN queue[p] /\ q \in Party /\ Peer(q) = p
      /\ At(m) = Level(p) + 1
  BY OtherParty DEF Passed, Waiting, Turned
<1>2. Near /\ Shape(p) /\ Letter(m) /\ Letters(p)
  BY <1>1 DEF Agreement, Aligned, Letters
<1>3. /\ Level(p) \in Nat /\ Level(q) \in Nat /\ minted[p] \in Nat /\ Good(s)
      /\ m.n \in Nat /\ m.dh \in Name /\ m.key \in Key
      /\ At(m) = Level(q) => m.key.n < st[q].ns
  BY <1>1, PartyFacts, MessageFacts
<1>4. At(m) = Level(q) /\ Level(q) = Level(p) + 1
  <2> HIDE DEF m, q
  <2>1. \/ /\ At(m) = Level(p) + 1 /\ Level(q) = Level(p) + 1
        \/ At(m) < Level(p)
    BY <1>1, <1>2, Rungs DEF m, q
  <2> QED BY <1>1, <1>3, <2>1
<1>5. mine \in Name /\ LevelOf(mine) = Level(p) + 2
  BY <1>2, <1>3, Fresh DEF Shape
<1>6. /\ st'[p].rk = NextRoot(m.key.base, DH(mine, m.dh))
      /\ minted'[p] = minted[p] + 1
  BY DEF Turned, Moved
<1>7. /\ Len(NextRoot(m.key.base, DH(mine, m.dh))) = Level(p) + 2
      /\ Proper(NextRoot(m.key.base, DH(mine, m.dh)))
  <2>1. /\ m.key.base \in Root /\ Proper(m.key.base) /\ LevelOf(m.dh) = At(m)
        /\ Len(m.key.base) = Level(p) + 1
    BY <1>1, <1>2, <1>3, KeyFields DEF Letter, At
  <2> HIDE DEF m, mine
  <2> QED BY <1>1, <1>3, <1>5, <2>1, NextProper
<1>8. Level(p)' = Level(p) + 2
  BY <1>6, <1>7 DEF Level
<1>9. Level(q)' = Level(q)
  BY DEF Passed, Level
<1>10. \A j \in DOMAIN queue[q] : At(queue[q][j]) <= Level(p)
  BY <1>1, MessageFacts
<1>11. m.n < st[q].ns /\ m.pn = st[q].pn
  BY <1>1, <1>2, <1>3, <1>4 DEF Letter, Letters
<1>12. s.ckr = None => Level(p) <= 1
  <2> SUFFICES ASSUME s.ckr = None, Level(p) > 1 PROVE FALSE
    BY <1>3
  <2>1. s.dhr \in {None, <<Bob, 0>>}
    BY <1>3 DEF Good, Chains
  <2> QED BY <1>2, <1>3, <2>1, Zero DEF Shape
<1>13. Proper(st'[p].rk) /\ LevelOf(<<p, minted'[p]>>) = Level(p) + 2
  BY <1>5, <1>6, <1>7
<1> QED BY <1>2, <1>4, <1>8, <1>9, <1>10, <1>11, <1>12, <1>13

\* Who remains may only have come further in the chain it reads.
LEMMA Remaining ==
  ASSUME IInv, Agreement, Tolerable, NEW p \in Party, NEW i,
         Passed(p, i), Remained(p, i)
  PROVE  LET q == Peer(p)
         IN  /\ Level(p)' = Level(p) /\ Level(q)' = Level(q)
             /\ \/ st'[p].nr = st[p].nr
                \/ /\ At(queue[p][i]) + 1 = Level(p)
                   /\ st'[p].nr = queue[p][i].n + 1 /\ st'[p].nr > 0
             /\ Level(p) = Level(q) + 1 => st'[p].nr <= st[q].ns
<1> DEFINE m == queue[p][i]
           q == Peer(p)
<1>1. i \in DOMAIN queue[p] /\ q \in Party /\ Shape(p) /\ Letter(m)
  BY OtherParty DEF Passed, Waiting, Agreement, Aligned, Letters
<1>2. /\ m.n \in Nat /\ st[p].nr \in Nat /\ st[q].ns \in Nat
      /\ Level(p) \in Nat /\ Level(q) \in Nat /\ At(m) \in Nat
      /\ At(m) = Level(q) => m.key.n < st[q].ns
      /\ m.key.n \in Nat
  BY <1>1, PartyFacts, MessageFacts
<1>3. Level(p)' = Level(p) /\ Level(q)' = Level(q)
  BY DEF Passed, Remained, Stays, Level
<1>4. \/ st'[p].nr = st[p].nr
      \/ At(m) + 1 = Level(p) /\ st'[p].nr = m.n + 1
  BY DEF Remained, Continued, Recalled
<1>5. /\ Level(p) = Level(q) + 1 => st[p].nr <= st[q].ns
      /\ m.n = m.key.n
  BY <1>1 DEF Shape, Letter
<1> HIDE DEF m, q
<1>6. Level(p) = Level(q) + 1 => st'[p].nr <= st[q].ns
  BY <1>2, <1>4, <1>5
<1> QED BY <1>2, <1>3, <1>4, <1>6 DEF m, q

LEMMA Either ==
  ASSUME NEW p \in Party, NEW r \in Party
  PROVE  r = p \/ r = Peer(p)
BY DEF Party, Peer, Alice, Bob

LEMMA TurnAligned ==
  ASSUME IInv, Agreement, Tolerable, NEW p \in Party, NEW i,
         Passed(p, i), Turned(p, i)
  PROVE  Near' /\ \A r \in Party : Shape(r)' /\ Letters(r)'
<1> DEFINE m == queue[p][i]
           s == st[p]
           t == st'[p]
           q == Peer(p)
           mine == <<p, minted[p] + 1>>
<1>1. /\ q \in Party /\ Peer(q) = p /\ q # p /\ i \in DOMAIN queue[p]
      /\ queue' = queue /\ st'[q] = st[q] /\ minted'[q] = minted[q]
  BY OtherParty DEF Passed, Waiting
<1>2. /\ Level(q) = Level(p) + 1 /\ Level(p)' = Level(p) + 2
      /\ Level(q)' = Level(q)
      /\ Proper(t.rk) /\ LevelOf(<<p, minted'[p]>>) = Level(p) + 2
      /\ Letter(m) /\ At(m) = Level(q) /\ m.n < st[q].ns
      /\ \A j \in DOMAIN queue[q] : At(queue[q][j]) <= Level(p)
  BY Turning
<1>3. /\ t.dhs = mine /\ t.dhr = m.dh /\ t.cks = ChainOf(t.rk)
      /\ t.ckr # None /\ t.ckr.base = m.key.base
      /\ t.ns = 0 /\ t.nr = m.n + 1 /\ t.pn = s.ns
      /\ minted'[p] = minted[p] + 1
  BY DEF Turned, Moved
<1>4. /\ Level(p) \in Nat /\ Level(q) \in Nat /\ m.n \in Nat /\ m.dh \in Name
      /\ st[q].ns \in Nat
  BY <1>1, PartyFacts, MessageFacts
<1>5. \A r \in Party : Shape(r) /\ Letters(r)
  BY DEF Agreement, Aligned
<1>6. Near'
  BY <1>2, <1>4, Either DEF Near, Party, Peer
<1>7. Shape(p)'
  <2>1. LevelOf(m.dh) + 1 = Level(p)' /\ m.dh # None /\ Proper(m.key.base)
    BY <1>2, <1>4, NoneAssumption DEF Letter
  <2>2. t.cks.mix = None
    BY <1>3 DEF ChainOf
  <2>3. t.nr > 0 /\ t.nr <= st[q].ns /\ Level(p)' > 0
    BY <1>2, <1>3, <1>4
  <2>4. t.dhs = <<p, minted'[p]>> /\ LevelOf(t.dhs) = Level(p)'
    BY <1>2, <1>3
  <2> HIDE DEF m, s
  <2> QED BY <1>1, <1>2, <1>3, <2>1, <2>2, <2>3, <2>4 DEF Shape
<1>8. Shape(q)'
  <2>1. Level(q)' # Level(p)' + 1
    BY <1>2, <1>4
  <2> HIDE DEF q
  <2> QED BY <1>1, <1>2, <1>5, <2>1 DEF Shape
<1>9. Letters(p)'
  <2>1. Level(q)' # Level(p)' + 1
    BY <1>2, <1>4
  <2> HIDE DEF q
  <2> QED BY <1>1, <1>2, <1>5, <2>1 DEF Letters, q
<1>10. Letters(q)'
  <2> SUFFICES ASSUME NEW j \in DOMAIN queue[q]
               PROVE  LET k == queue[q][j]
                      IN  /\ Letter(k) /\ At(k) # Level(p)'
                          /\ At(k) + 1 = Level(q) => k.n < s.ns
    BY <1>1, <1>2, <1>3, <1>5 DEF Letters
  <2> DEFINE k == queue[q][j]
  <2>1. /\ Letter(k) /\ At(k) <= Level(p) /\ At(k) \in Nat
        /\ At(k) = Level(p) => k.key.n < s.ns
    BY <1>1, <1>2, <1>5, MessageFacts DEF Letters
  <2> HIDE DEF k, s, q
  <2> QED BY <1>2, <1>4, <2>1 DEF k, Letter
<1> QED BY <1>6, <1>7, <1>8, <1>9, <1>10, Either

LEMMA RemainAligned ==
  ASSUME IInv, Agreement, Tolerable, NEW p \in Party, NEW i,
         Passed(p, i), Remained(p, i)
  PROVE  Near' /\ \A r \in Party : Shape(r)' /\ Letters(r)'
<1> DEFINE m == queue[p][i]
           s == st[p]
           t == st'[p]
           q == Peer(p)
<1>1. /\ q \in Party /\ Peer(q) = p /\ q # p
      /\ queue' = queue /\ st'[q] = st[q] /\ minted'[q] = minted[q]
  BY OtherParty DEF Passed
<1>2. /\ Level(p)' = Level(p) /\ Level(q)' = Level(q)
      /\ t.nr = s.nr \/ t.nr > 0
      /\ Level(p) = Level(q) + 1 => t.nr <= st[q].ns
  BY Remaining
<1>3. /\ t.dhs = s.dhs /\ t.dhr = s.dhr /\ t.rk = s.rk /\ t.cks = s.cks
      /\ t.ns = s.ns /\ t.pn = s.pn /\ t.ckr = s.ckr
      /\ minted'[p] = minted[p]
  BY DEF Remained, Stays
<1>4. Near /\ \A r \in Party : Shape(r) /\ Letters(r)
  BY DEF Agreement, Aligned
<1>5. Near'
  BY <1>2, <1>4, Either DEF Near, Party, Peer
<1> HIDE DEF m, s, t, q
<1>6. Shape(p)'
  BY <1>1, <1>2, <1>3, <1>4 DEF Shape, s, t, q
<1>7. Shape(q)'
  BY <1>1, <1>2, <1>3, <1>4 DEF Shape, s, t
<1>8. Letters(p)'
  BY <1>1, <1>2, <1>4 DEF Letters, q
<1>9. Letters(q)'
  BY <1>1, <1>2, <1>3, <1>4 DEF Letters, s, t
<1> QED BY <1>5, <1>6, <1>7, <1>8, <1>9, Either DEF q

\* What is tried has been sent, and what was opened has been tried, whatever
\* becomes of it.
LEMMA Tried ==
  ASSUME IInv, Opened, NEW p \in Party, NEW i, Receive(p, i)
  PROVE  \A r \in Party : /\ tried'[r] \subseteq DOMAIN queue'[r]
                          /\ \A j \in DOMAIN opened'[r] :
                               opened'[r][j] > 0 => j \in tried'[r]
<1>1. /\ i \in DOMAIN queue[p] /\ queue' = queue
      /\ tried' = [tried EXCEPT ![p] = @ \cup {i}]
      /\ \/ opened' = opened
         \/ opened' = [opened EXCEPT ![p][i] = @ + 1]
  BY DEF Receive, Waiting
<1>2. /\ tried \in [Party -> SUBSET Nat] /\ opened \in [Party -> Seq(Nat)]
      /\ \A r \in Party : DOMAIN opened[r] = DOMAIN queue[r]
  BY DEF IInv, TypeOK
<1> SUFFICES ASSUME NEW r \in Party
             PROVE  /\ tried'[r] \subseteq DOMAIN queue'[r]
                    /\ \A j \in DOMAIN opened'[r] :
                         opened'[r][j] > 0 => j \in tried'[r]
  OBVIOUS
<1>3. /\ tried[r] \subseteq DOMAIN queue[r]
      /\ \A j \in DOMAIN opened[r] : opened[r][j] > 0 => j \in tried[r]
  BY DEF Opened
<1>4. tried'[r] = IF r = p THEN tried[r] \cup {i} ELSE tried[r]
  BY <1>1, <1>2
<1>5. DOMAIN opened'[r] = DOMAIN opened[r]
      /\ \A j \in DOMAIN opened[r] :
           opened'[r][j] = opened[r][j] \/ (r = p /\ j = i)
  BY <1>1, <1>2
<1>6. tried'[r] \subseteq DOMAIN queue'[r]
  BY <1>1, <1>3, <1>4
<1>7. \A j \in DOMAIN opened'[r] : opened'[r][j] > 0 => j \in tried'[r]
  BY <1>3, <1>4, <1>5
<1> QED BY <1>6, <1>7

LEMMA ReadOpened ==
  ASSUME IInv, Agreement, Tolerable, NEW p \in Party, NEW i, Passed(p, i)
  PROVE  \A r \in Party : /\ tried'[r] \subseteq gone'[r]
                          /\ \A j \in tried'[r] : opened'[r][j] = 1
<1>1. /\ i \in DOMAIN queue[p] /\ i \notin gone[p]
      /\ gone'[p] = gone[p] \cup {i} /\ gone'[Peer(p)] = gone[Peer(p)]
      /\ tried'[p] = tried[p] \cup {i} /\ tried'[Peer(p)] = tried[Peer(p)]
      /\ opened'[p] = [opened[p] EXCEPT ![i] = opened[p][i] + 1]
      /\ opened'[Peer(p)] = opened[Peer(p)]
  BY DEF Passed, Waiting
<1>2. opened[p] \in Seq(Nat) /\ DOMAIN opened[p] = DOMAIN queue[p]
  BY DEF IInv, TypeOK
<1>3. \A r \in Party : /\ tried[r] \subseteq gone[r]
                       /\ \A j \in tried[r] : opened[r][j] = 1
  BY DEF Agreement, Opened
<1>4. opened[p][i] = 0
  <2>1. i \notin tried[p]
    BY <1>1, <1>3
  <2>2. opened[p][i] \in Nat /\ ~(opened[p][i] > 0)
    BY <1>1, <1>2, <2>1 DEF Agreement, Opened
  <2> QED BY <2>2
<1>5. opened'[p][i] = 1 /\ \A j \in tried[p] : j # i => opened'[p][j] = 1
  <2>1. tried[p] \subseteq DOMAIN opened[p]
    BY <1>2 DEF Agreement, Opened
  <2> QED BY <1>1, <1>2, <1>3, <1>4, <2>1
<1> SUFFICES ASSUME NEW r \in Party
             PROVE  /\ tried'[r] \subseteq gone'[r]
                    /\ \A j \in tried'[r] : opened'[r][j] = 1
  OBVIOUS
<1>6. CASE r = p
  BY <1>1, <1>3, <1>5, <1>6
<1>7. CASE r = Peer(p)
  BY <1>1, <1>3, <1>7
<1> QED BY <1>6, <1>7, Either

-----------------------------------------------------------------------------
(* The cache holds what is overtaken *)

\* The cached key of the position of a message of the present chain is the
\* key of the message.
LEMMA EntryFits ==
  ASSUME IInv, Agreement, Mild, NEW p \in Party, NEW j \in DOMAIN queue[p],
         At(queue[p][j]) + 1 = Level(p)
  PROVE  LET k == queue[p][j]
             e == Entry(st[p].dhr, k.n, st[p].ckr)
         IN  st[p].ckr # None /\ e.dh = k.dh /\ e.n = k.n /\ e.mk = k.key
<1> DEFINE k == queue[p][j]
           s == st[p]
<1>1. Near /\ Shape(p) /\ Letter(k)
  BY DEF Agreement, Aligned, Tolerable, Letters
<1>2. /\ Good(s) /\ Level(p) \in Nat /\ At(k) \in Nat /\ k.n \in Nat
      /\ k.dh \in Name /\ k.key \in Key
  BY PartyFacts, MessageFacts
<1>3. At(k) > 0
  BY <1>1, Rungs
<1>4. /\ s.dhr # None /\ LevelOf(s.dhr) + 1 = Level(p) /\ s.dhr \in Name
  <2>1. s.dhr # None /\ LevelOf(s.dhr) + 1 = Level(p)
    BY <1>1, <1>2, <1>3 DEF Shape
  <2> QED BY <1>2, <2>1, PartyFacts, Fields
<1>5. s.dhr = k.dh
  <2>1. LevelOf(k.dh) = At(k)
    BY <1>1 DEF Letter
  <2>2. LevelOf(s.dhr) = LevelOf(k.dh)
    BY <1>2, <1>4, <2>1, LevelFields
  <2> QED BY <1>2, <1>4, <2>2, LevelsDiffer
<1>6. s.ckr # None
  <2> SUFFICES ASSUME s.ckr = None PROVE FALSE
    OBVIOUS
  <2>1. s.dhr = <<Bob, 0>>
    BY <1>2, <1>4 DEF Good, Chains
  <2> QED BY <1>2, <1>3, <1>4, <2>1, Zero
<1>7. /\ s.ckr \in Chain /\ s.ckr.base \in Root /\ Proper(s.ckr.base)
      /\ Len(s.ckr.base) + 1 = Level(p) /\ Len(s.ckr.base) \in Nat
  <2>1. s.ckr \in Chain
    BY <1>2, <1>6, Fields DEF Good
  <2>2. s.ckr.base \in Root /\ Len(s.ckr.base) \in Nat
    BY <2>1, ChainFields
  <2> QED BY <1>1, <1>2, <1>6, <2>1, <2>2 DEF Shape, Good, Chains, Level
<1>8. s.ckr.base = k.key.base
  <2>1. k.key.base \in Root /\ Proper(k.key.base)
    BY <1>1, <1>2, KeyFields DEF Letter
  <2>2. At(k) + 1 = Level(p) /\ At(k) = Len(k.key.base)
    BY DEF At
  <2> HIDE DEF k, s
  <2> QED BY <1>2, <1>7, <2>1, <2>2, SameRoot
<1>9. s.ckr.mix = None /\ k.key.mix = None /\ k.n = k.key.n
  BY <1>1, <1>6 DEF Agreement, MildInv, Mildly, Letter
<1>10. MessageKey(s.ckr, k.n) = k.key
  <2> HIDE DEF k, s
  <2> QED BY <1>2, <1>7, <1>8, <1>9, SameKey
<1> HIDE DEF k, s
<1> QED BY <1>5, <1>6, <1>10 DEF Entry, k, s

\* An entry of the present chain is of a position that was passed.
LEMMA EntryPassed ==
  ASSUME IInv, Agreement, Mild, NEW p \in Party, NEW e \in st[p].skipped,
         e.dh = st[p].dhr
  PROVE  e.n < st[p].nr
<1>1. Shape(p) /\ e.dh # None /\ LevelOf(e.dh) = Len(e.mk.base)
  BY DEF Agreement, Aligned, Tolerable, MildInv, Mildly
<1>2. Good(st[p]) /\ Level(p) \in Nat
  BY PartyFacts
<1>3. Len(e.mk.base) + 1 = Level(p)
  BY <1>1, <1>2 DEF Shape
<1> QED BY <1>2, <1>3 DEF Good, Cache, Level

\* Two messages are of different chains or positions.
LEMMA Distinct ==
  ASSUME Agreement, Tolerable, NEW p \in Party,
         NEW i \in DOMAIN queue[p], NEW j \in DOMAIN queue[p], i # j,
         At(queue[p][i]) = At(queue[p][j])
  PROVE  queue[p][i].n # queue[p][j].n
BY DEF Agreement, Aligned, Letters

LEMMA TurnMildly ==
  ASSUME IInv, Agreement, Mild, NEW p \in Party, NEW i,
         Passed(p, i), Turned(p, i)
  PROVE  Mildly(p)'
<1> DEFINE m == queue[p][i]
           s == st[p]
           t == st'[p]
           q == Peer(p)
<1>0. Tolerable
  BY DEF Tolerable
<1>1. /\ q \in Party /\ i \in DOMAIN queue[p] /\ queue' = queue
      /\ gone'[p] = gone[p] \cup {i}
  BY OtherParty DEF Passed, Waiting
<1>2. /\ Level(q) = Level(p) + 1 /\ Level(p)' = Level(p) + 2
      /\ Letter(m) /\ At(m) = Level(q) /\ m.pn = st[q].pn
      /\ s.ckr = None => Level(p) <= 1
  BY <1>0, Turning
<1>3. /\ Level(p) \in Nat /\ m.n \in Nat /\ m.dh \in Name /\ s.ns \in Nat
      /\ m.key.base \in Root /\ At(m) \in Nat /\ m.key \in Key
      /\ s.nr \in Nat /\ st[q].pn \in Nat
      /\ Good(s) /\ s.dhr \in Name \cup {None}
  <2>1. s.dhr \in Name \cup {None}
    BY PartyFacts, Fields
  <2> QED BY <1>1, <2>1, PartyFacts, MessageFacts, KeyFields
<1>4. /\ t.cks = ChainOf(t.rk) /\ t.ckr.mix = m.key.mix
      /\ t.ns = 0 /\ t.nr = m.n + 1 /\ t.pn = s.ns
      /\ \A e \in t.skipped :
           \/ e \in s.skipped
           \/ /\ s.ckr # None
              /\ \E n \in s.nr .. m.pn - 1 : e = Entry(s.dhr, n, s.ckr)
           \/ \E n \in 0 .. m.n - 1 : e = Entry(m.dh, n, ChainOf(m.key.base))
      /\ \A e \in s.skipped :
           (e.dh # s.dhr \/ e.n < s.nr) /\ e.dh # m.dh => e \in t.skipped
      /\ s.ckr # None =>
           \A n \in s.nr .. m.pn - 1 : Entry(s.dhr, n, s.ckr) \in t.skipped
      /\ \A n \in 0 .. m.n - 1 :
           Entry(m.dh, n, ChainOf(m.key.base)) \in t.skipped
  BY DEF Turned, Moved
<1>5. /\ Near /\ Shape(p) /\ Letters(p)
  BY <1>0 DEF Agreement, Aligned
<1>6. Mildly(p)
  BY DEF Agreement, MildInv
<1>7. ASSUME NEW e \in t.skipped
      PROVE  e.dh # None /\ LevelOf(e.dh) = Len(e.mk.base)
  <2>1. CASE e \in s.skipped
    BY <1>6, <2>1 DEF Mildly
  <2>2. CASE /\ s.ckr # None
             /\ \E n \in s.nr .. m.pn - 1 : e = Entry(s.dhr, n, s.ckr)
    <3>1. s.ckr \in Chain /\ Len(s.ckr.base) + 1 = Level(p)
          /\ Len(s.ckr.base) \in Nat
      BY <1>3, <2>2, Fields, ChainFields DEF Good, Chains, Level
    <3>2. s.dhr # None /\ LevelOf(s.dhr) + 1 = Level(p)
      BY <1>3, <1>5, <3>1 DEF Shape
    <3>3. LevelOf(s.dhr) = Len(s.ckr.base)
      <4>1. LevelOf(s.dhr) \in Int
        BY <1>3, <3>2, LevelFields
      <4> QED BY <1>3, <3>1, <3>2, <4>1
    <3>4. e.dh = s.dhr /\ e.mk.base = s.ckr.base
      BY <2>2 DEF Entry, MessageKey
    <3> QED BY <3>2, <3>3, <3>4
  <2>3. CASE \E n \in 0 .. m.n - 1 : e = Entry(m.dh, n, ChainOf(m.key.base))
    <3>1. e.dh = m.dh /\ e.mk.base = m.key.base
      BY <2>3 DEF Entry, MessageKey, ChainOf
    <3> QED BY <1>2, <1>3, <3>1, NoneAssumption DEF Letter, At
  <2> QED BY <1>4, <2>1, <2>2, <2>3
<1>8. ASSUME NEW j \in Waiting(p)', At(queue[p][j]) < Level(p)'
      PROVE  \/ At(queue[p][j]) + 1 = Level(p)' /\ t.nr <= queue[p][j].n
             \/ Kept(t, queue[p][j])
  <2> DEFINE k == queue[p][j]
  <2>1. j \in Waiting(p) /\ j \in DOMAIN queue[p] /\ j # i
    BY <1>1 DEF Waiting
  <2>2. /\ k.n \in Nat /\ At(k) \in Nat /\ k.dh \in Name /\ k.key \in Key
        /\ k.key.base \in Root /\ Letter(k) /\ At(k) > 0
        /\ At(k) = Level(p) + 1 \/ At(k) < Level(p)
        /\ k.key.mix = None
    <3>1. k.n \in Nat /\ At(k) \in Nat /\ k.dh \in Name /\ k.key \in Key
      BY <2>1, MessageFacts
    <3>2. Letter(k)
      BY <1>5, <2>1 DEF Letters
    <3>3. At(k) > 0 /\ (At(k) = Level(p) + 1 \/ At(k) < Level(p))
      BY <1>5, <2>1, <3>2, Rungs
    <3>4. k.key.mix = None
      BY <1>6, <2>1 DEF Mildly
    <3> QED BY <3>1, <3>2, <3>3, <3>4, KeyFields
  <2>3. CASE At(k) = Level(p) + 1
    <3>1. At(k) + 1 = Level(p)' /\ At(k) = At(m)
      BY <1>2, <1>3, <2>3
    <3>2. k.n # m.n
      BY <1>0, <1>1, <2>1, <3>1, Distinct
    <3>3. CASE k.n > m.n
      BY <1>3, <1>4, <2>2, <3>1, <3>3
    <3>4. CASE k.n < m.n
      <4>1. k.dh = m.dh
        BY <1>2, <1>3, <2>2, <3>1, LevelsDiffer DEF Letter
      <4>2. k.key.base = m.key.base
        BY <1>2, <1>3, <2>2, <3>1, SameRoot DEF Letter, At
      <4> DEFINE c == ChainOf(m.key.base)
      <4>3. c \in Chain /\ c.base = m.key.base /\ c.mix = None
        BY <1>3, NoneAssumption DEF ChainOf, Chain
      <4> HIDE DEF c, k, m
      <4>4. MessageKey(c, k.n) = k.key
        BY <2>2, <4>2, <4>3, SameKey DEF Letter
      <4>5. Entry(m.dh, k.n, c) \in t.skipped
        BY <1>3, <1>4, <2>2, <3>4 DEF c
      <4>6. Kept(t, k)
        BY <4>1, <4>4, <4>5 DEF Kept, Entry
      <4> QED BY <4>6 DEF k
    <3> QED BY <1>3, <2>2, <3>2, <3>3, <3>4
  <2>4. CASE At(k) < Level(p)
    <3>1. \/ At(k) + 1 = Level(p) /\ s.nr <= k.n
          \/ Kept(s, k)
      BY <1>6, <2>1, <2>4 DEF Mildly
    <3>2. CASE At(k) + 1 = Level(p) /\ s.nr <= k.n
      <4>1. k.n < m.pn
        BY <1>2, <1>5, <2>1, <3>2 DEF Letters
      <4> DEFINE e == Entry(s.dhr, k.n, s.ckr)
      <4>2. s.ckr # None /\ e.dh = k.dh /\ e.n = k.n /\ e.mk = k.key
        BY <2>1, <3>2, EntryFits
      <4>3. e \in t.skipped
        BY <1>2, <1>3, <1>4, <2>2, <3>2, <4>1, <4>2
      <4> QED BY <4>2, <4>3 DEF Kept
    <3>3. CASE Kept(s, k)
      <4>1. PICK e \in s.skipped : e.dh = k.dh /\ e.n = k.n /\ e.mk = k.key
        BY <3>3 DEF Kept
      <4>2. e.dh # m.dh
        BY <1>2, <1>3, <2>2, <2>4, <4>1 DEF Letter
      <4>3. e.dh # s.dhr \/ e.n < s.nr
        BY EntryPassed
      <4> QED BY <1>4, <4>1, <4>2, <4>3 DEF Kept
    <3> QED BY <3>1, <3>2, <3>3
  <2> QED BY <2>2, <2>3, <2>4
<1>9. t.cks.mix = None /\ t.ckr.mix = None
  BY <1>1, <1>4, <1>6 DEF ChainOf, Mildly
<1>10. t.ns <= MAX_SKIP /\ t.pn <= MAX_SKIP
  BY <1>4, <1>6, RatchetAssumption DEF Mildly
<1>11. \A j \in DOMAIN queue[p] : queue[p][j].key.mix = None
  BY <1>6 DEF Mildly
<1> QED BY <1>1, <1>7, <1>8, <1>9, <1>10, <1>11 DEF Mildly

LEMMA RemainMildly ==
  ASSUME IInv, Agreement, Mild, NEW p \in Party, NEW i,
         Passed(p, i), Remained(p, i)
  PROVE  Mildly(p)'
<1> DEFINE m == queue[p][i]
           s == st[p]
           t == st'[p]
<1>0. Tolerable
  BY DEF Tolerable
<1>1. /\ i \in DOMAIN queue[p] /\ queue' = queue
      /\ gone'[p] = gone[p] \cup {i} /\ Level(p)' = Level(p)
  BY <1>0, Remaining DEF Passed, Waiting
<1>2. /\ Level(p) \in Nat /\ m.n \in Nat /\ s.nr \in Nat /\ At(m) \in Nat
      /\ Letter(m) /\ Near /\ Shape(p) /\ Letters(p) /\ Good(s)
      /\ s.dhr \in Name \cup {None}
  <2>1. s.dhr \in Name \cup {None}
    BY PartyFacts, Fields
  <2>2. Near /\ Shape(p) /\ Letters(p)
    BY <1>0 DEF Agreement, Aligned
  <2> QED BY <1>1, <2>1, <2>2, PartyFacts, MessageFacts DEF Letters
<1>3. Mildly(p)
  BY DEF Agreement, MildInv
<1>4. /\ t.cks = s.cks /\ t.ckr = s.ckr /\ t.ns = s.ns /\ t.pn = s.pn
  BY DEF Remained, Stays
<1>5. ASSUME NEW j \in Waiting(p)'
      PROVE  j \in Waiting(p) /\ j \in DOMAIN queue[p] /\ j # i
  BY <1>1 DEF Waiting
<1>6. CASE /\ At(m) + 1 = Level(p) /\ s.nr <= m.n
           /\ s.ckr # None /\ Continued(s, m, t)
  <2>1. /\ t.nr = m.n + 1
        /\ \A e \in t.skipped :
             \/ e \in s.skipped
             \/ \E n \in s.nr .. m.n - 1 : e = Entry(s.dhr, n, s.ckr)
        /\ \A e \in s.skipped : e.dh # s.dhr \/ e.n < s.nr => e \in t.skipped
        /\ \A n \in s.nr .. m.n - 1 : Entry(s.dhr, n, s.ckr) \in t.skipped
    BY <1>6 DEF Continued
  <2>2. ASSUME NEW e \in t.skipped
        PROVE  e.dh # None /\ LevelOf(e.dh) = Len(e.mk.base)
    <3>1. CASE e \in s.skipped
      BY <1>3, <3>1 DEF Mildly
    <3>2. CASE \E n \in s.nr .. m.n - 1 : e = Entry(s.dhr, n, s.ckr)
      <4>1. s.ckr \in Chain /\ Len(s.ckr.base) + 1 = Level(p)
            /\ Len(s.ckr.base) \in Nat
        BY <1>2, <1>6, Fields, ChainFields DEF Good, Chains, Level
      <4>2. s.dhr # None /\ LevelOf(s.dhr) + 1 = Level(p)
        BY <1>2, <4>1 DEF Shape
      <4>3. LevelOf(s.dhr) = Len(s.ckr.base)
        <5>1. LevelOf(s.dhr) \in Int
          BY <1>2, <4>2, LevelFields
        <5> QED BY <1>2, <4>1, <4>2, <5>1
      <4>4. e.dh = s.dhr /\ e.mk.base = s.ckr.base
        BY <3>2 DEF Entry, MessageKey
      <4> QED BY <4>2, <4>3, <4>4
    <3> QED BY <2>1, <3>1, <3>2
  <2>3. ASSUME NEW j \in Waiting(p)', At(queue[p][j]) < Level(p)
        PROVE  \/ At(queue[p][j]) + 1 = Level(p) /\ t.nr <= queue[p][j].n
               \/ Kept(t, queue[p][j])
    <3> DEFINE k == queue[p][j]
    <3>1. j \in Waiting(p) /\ j \in DOMAIN queue[p] /\ j # i /\ k.n \in Nat
      BY <1>5, MessageFacts
    <3>2. \/ At(k) + 1 = Level(p) /\ s.nr <= k.n
          \/ Kept(s, k)
      BY <1>3, <2>3, <3>1 DEF Mildly
    <3>3. CASE At(k) + 1 = Level(p) /\ s.nr <= k.n
      <4>0. At(k) \in Nat
        BY <3>1, MessageFacts
      <4>1. k.n # m.n
        BY <1>0, <1>1, <1>2, <1>6, <3>1, <3>3, <4>0, Distinct
      <4>2. CASE k.n > m.n
        BY <1>2, <2>1, <3>1, <3>3, <4>2
      <4>3. CASE k.n < m.n
        <5> DEFINE e == Entry(s.dhr, k.n, s.ckr)
        <5>1. e.dh = k.dh /\ e.n = k.n /\ e.mk = k.key
          BY <3>1, <3>3, EntryFits
        <5>2. e \in t.skipped
          BY <1>2, <2>1, <3>1, <3>3, <4>3
        <5> QED BY <5>1, <5>2 DEF Kept
      <4> QED BY <1>2, <3>1, <4>1, <4>2, <4>3
    <3>4. CASE Kept(s, k)
      <4>1. PICK e \in s.skipped : e.dh = k.dh /\ e.n = k.n /\ e.mk = k.key
        BY <3>4 DEF Kept
      <4>2. e.dh # s.dhr \/ e.n < s.nr
        BY EntryPassed
      <4> QED BY <2>1, <4>1, <4>2 DEF Kept
    <3> QED BY <3>2, <3>3, <3>4
  <2> QED BY <1>1, <1>3, <1>4, <2>2, <2>3 DEF Mildly
<1>7. CASE Recalled(s, m, t)
  <2>1. t.nr = s.nr /\ t.skipped = s.skipped \ Cached(s, m.dh, m.n)
    BY <1>7 DEF Recalled
  <2>2. ASSUME NEW j \in Waiting(p)', Kept(s, queue[p][j])
        PROVE  Kept(t, queue[p][j])
    <3> DEFINE k == queue[p][j]
    <3>1. j \in Waiting(p) /\ j \in DOMAIN queue[p] /\ j # i
      BY <1>5
    <3>2. PICK e \in s.skipped : e.dh = k.dh /\ e.n = k.n /\ e.mk = k.key
      BY <2>2 DEF Kept
    <3>3. ~(e.dh = m.dh /\ e.n = m.n)
      <4>1. LevelOf(k.dh) = At(k) /\ LevelOf(m.dh) = At(m)
        BY <1>2, <3>1 DEF Letters, Letter
      <4> QED BY <1>0, <1>1, <3>1, <3>2, <4>1, Distinct
    <3>4. e \in t.skipped
      BY <2>1, <3>3 DEF Cached
    <3> QED BY <3>2, <3>4 DEF Kept
  <2>3. ASSUME NEW j \in Waiting(p)', At(queue[p][j]) < Level(p)
        PROVE  \/ At(queue[p][j]) + 1 = Level(p) /\ t.nr <= queue[p][j].n
               \/ Kept(t, queue[p][j])
    BY <1>3, <1>5, <2>1, <2>2, <2>3 DEF Mildly
  <2>4. \A e \in t.skipped : e \in s.skipped
    BY <2>1
  <2> QED BY <1>1, <1>3, <1>4, <2>3, <2>4 DEF Mildly
<1> QED BY <1>6, <1>7 DEF Remained

\* Nothing of this is about the other party.
LEMMA OtherMildly ==
  ASSUME Agreement, Mild, NEW p \in Party, NEW i, Passed(p, i)
  PROVE  Mildly(Peer(p))'
<1> DEFINE q == Peer(p)
<1>1. /\ q \in Party /\ queue' = queue /\ st'[q] = st[q]
      /\ gone'[q] = gone[q] /\ Level(q)' = Level(q)
  BY OtherParty DEF Passed, Level
<1>2. Mildly(q)
  BY <1>1 DEF Agreement, MildInv
<1> HIDE DEF q
<1>3. Mildly(q)'
  BY <1>1, <1>2 DEF Mildly, Waiting
<1> QED BY <1>3 DEF q

-----------------------------------------------------------------------------
(* Order is kept *)

\* In order, nothing is taken from the cache.
LEMMA InStep ==
  ASSUME IInv, Agreement, Orderly, NEW p \in Party, NEW i, InOrder(p, i),
         Passed(p, i), Remained(p, i)
  PROVE  LET m == queue[p][i]
             s == st[p]
             t == st'[p]
         IN  /\ At(m) + 1 = Level(p) /\ m.n = s.nr /\ s.nr > 0
             /\ s.ckr # None /\ m.key.mix = s.ckr.mix
             /\ t.nr = m.n + 1 /\ t.skipped = {}
<1> DEFINE m == queue[p][i]
           s == st[p]
           t == st'[p]
<1>1. i \in Waiting(p) /\ i \in DOMAIN queue[p] /\ Tolerable
  BY DEF Passed, Waiting, Tolerable
<1>2. \/ At(m) = Level(p) + 1
      \/ /\ At(m) + 1 = Level(p) /\ m.n = s.nr
         /\ s.ckr # None /\ m.key.mix = s.ckr.mix
  BY <1>1, InTurn
<1>3. s.nr \in Nat /\ Shape(p) /\ s.skipped = {} /\ m.n \in Nat
      /\ Level(p) \in Nat /\ At(m) \in Nat
  BY <1>1, PartyFacts, MessageFacts
     DEF Agreement, Aligned, OrderInv, Receiver
<1>4. MayRead(p, i)
  BY <1>2, <1>3 DEF MayRead
<1>5. /\ At(m) + 1 = Level(p) /\ s.nr <= m.n
      /\ s.ckr # None /\ Continued(s, m, t)
  BY <1>4 DEF Remained
<1>6. m.n = s.nr /\ m.key.mix = s.ckr.mix
  BY <1>2, <1>3, <1>5
<1>7. t.skipped = {}
  <2> SUFFICES ASSUME NEW e \in t.skipped PROVE FALSE
    OBVIOUS
  <2>1. e \in s.skipped \/ \E n \in s.nr .. m.n - 1 : TRUE
    BY <1>5 DEF Continued
  <2> QED BY <1>3, <1>6, <2>1
<1> QED BY <1>3, <1>5, <1>6, <1>7 DEF Continued, Shape

LEMMA Consumed ==
  ASSUME IInv, Agreement, Orderly, NEW p \in Party, NEW i, InOrder(p, i),
         Passed(p, i), At(queue[p][i]) + 1 = Level(p)',
         st'[p].nr = queue[p][i].n + 1, st'[p].skipped = {},
         st'[p].ckr # None, st'[p].ckr.mix = queue[p][i].key.mix
  PROVE  \A r \in Party : Receiver(r)'
<1> DEFINE q == Peer(p)
<1>1. /\ q \in Party /\ queue' = queue /\ st'[q] = st[q]
      /\ gone'[q] = gone[q] /\ tried'[q] = tried[q] /\ Level(q)' = Level(q)
      /\ gone'[p] = gone[p] \cup {i} /\ tried'[p] = tried[p] \cup {i}
      /\ i \in Waiting(p) /\ i \in DOMAIN queue[p]
  BY OtherParty DEF Passed, Waiting, Level
<1>2. Receiver(p) /\ Receiver(q)
  BY <1>1 DEF Agreement, OrderInv
<1>3. Receiver(q)'
  BY <1>1, <1>2 DEF Receiver
<1>4. /\ \A j \in 1 .. i - 1 : j \in gone[p]
      /\ gone[p] \subseteq 1 .. i - 1
  BY <1>1, InTurn
<1>5. i \in Nat /\ i > 0
  BY <1>1, PartyFacts
<1>6. \A x \in gone'[p] : \A j \in 1 .. x : j \in gone'[p]
  BY <1>1, <1>4, <1>5
<1>7. \A x \in gone'[p] : x + 1 \notin gone'[p] => x = i
  BY <1>1, <1>4, <1>5
<1>8. gone'[p] = tried'[p] /\ gone'[p] \subseteq DOMAIN queue'[p]
      /\ gone'[p] # {}
  BY <1>1, <1>2 DEF Receiver
<1>9. Receiver(p)'
  BY <1>1, <1>6, <1>7, <1>8 DEF Receiver
<1> QED BY <1>3, <1>9, Either

LEMMA TurnReceiver ==
  ASSUME IInv, Agreement, Orderly, NEW p \in Party, NEW i, InOrder(p, i),
         Passed(p, i), Turned(p, i)
  PROVE  /\ \A r \in Party : Receiver(r)'
         /\ queue[p][i].n = 0
<1> DEFINE m == queue[p][i]
           s == st[p]
           t == st'[p]
<1>1. i \in Waiting(p) /\ i \in DOMAIN queue[p] /\ Tolerable
  BY DEF Passed, Waiting, Tolerable
<1>2. At(m) = Level(p) + 1 /\ Level(p)' = Level(p) + 2
      /\ Level(p) \in Nat /\ m.n \in Nat
      /\ s.nr \in Nat /\ s.skipped = {}
  <2>1. At(m) = Level(p) + 1
    BY DEF Turned
  <2>2. Level(p)' = Level(p) + 2
    BY <1>1, Turning
  <2> QED BY <1>1, <2>1, <2>2, PartyFacts, MessageFacts
          DEF Agreement, OrderInv, Receiver
<1>3. m.n = 0 /\ (s.ckr # None => m.pn = s.nr)
  BY <1>1, <1>2, InTurn
<1>4. /\ t.nr = m.n + 1 /\ t.ckr # None /\ t.ckr.mix = m.key.mix
      /\ \A e \in t.skipped :
           \/ e \in s.skipped
           \/ /\ s.ckr # None
              /\ \E n \in s.nr .. m.pn - 1 : e = Entry(s.dhr, n, s.ckr)
           \/ \E n \in 0 .. m.n - 1 : e = Entry(m.dh, n, ChainOf(m.key.base))
  BY DEF Turned, Moved
<1>5. t.skipped = {}
  <2> SUFFICES ASSUME NEW e \in t.skipped PROVE FALSE
    OBVIOUS
  <2>1. \/ s.ckr # None /\ \E n \in s.nr .. m.pn - 1 : TRUE
        \/ \E n \in 0 .. m.n - 1 : TRUE
    BY <1>2, <1>4
  <2> QED BY <1>2, <1>3, <2>1
<1>6. At(m) + 1 = Level(p)'
  BY <1>2
<1> QED BY <1>3, <1>4, <1>5, <1>6, Consumed

LEMMA RemainReceiver ==
  ASSUME IInv, Agreement, Orderly, NEW p \in Party, NEW i, InOrder(p, i),
         Passed(p, i), Remained(p, i)
  PROVE  \A r \in Party : Receiver(r)'
<1>1. Level(p)' = Level(p)
  BY Remaining DEF Tolerable
<1>2. st'[p].ckr = st[p].ckr
  BY DEF Remained
<1> QED BY <1>1, <1>2, InStep, Consumed

\* Who begins a chain has sent on the one before, unless it is Bob's first.
LEMMA TurnSender ==
  ASSUME IInv, Agreement, Orderly, NEW p \in Party, NEW i,
         Passed(p, i), Turned(p, i)
  PROVE  \A r \in Party : Sender(r)'
<1> DEFINE q == Peer(p)
           s == st[p]
           t == st'[p]
           m == queue[p][i]
<1>1. /\ q \in Party /\ Peer(q) = p /\ queue' = queue /\ st'[q] = st[q]
      /\ i \in DOMAIN queue[p] /\ Tolerable
  BY OtherParty DEF Passed, Waiting, Tolerable
<1>2. /\ Level(q) = Level(p) + 1 /\ Level(p)' = Level(p) + 2
      /\ Level(q)' = Level(q) /\ m.n < st[q].ns
  BY <1>1, Turning
<1>3. t.ns = 0 /\ t.pn = s.ns
  BY DEF Turned, Moved
<1>4. /\ Level(p) \in Nat /\ Level(q) \in Nat /\ m.n \in Nat /\ s.ns \in Nat
      /\ st[q].ns \in Nat /\ queue[q] \in Seq(Message)
  BY <1>1, PartyFacts, MessageFacts
<1>5. Sender(p) /\ Sender(q)
  BY <1>1 DEF Agreement, OrderInv
<1>6. Level(p) > 0 => s.ns > 0
  BY <1>1, <1>2, <1>5 DEF Sender
<1>7. Sender(p)'
  <2>1. st[q].ns > 0
    BY <1>2, <1>4
  <2> HIDE DEF q
  <2> QED BY <1>1, <1>2, <1>5, <2>1 DEF Sender, q
<1>8. queue[q] = <<>> => t.ns = 0 /\ Level(p)' <= 2
  <2>1. queue[q] = <<>> => s.ns = 0
    BY <1>1, <1>5 DEF Sender
  <2> QED BY <1>2, <1>3, <1>4, <1>6, <2>1
<1>9. queue[q] # <<>> =>
        LET k == queue[q][Len(queue[q])]
        IN  /\ At(k) + 2 = Level(p)'
            /\ t.ns = 0 /\ k.n + 1 = t.pn
  <2> SUFFICES ASSUME queue[q] # <<>>
               PROVE  LET k == queue[q][Len(queue[q])]
                      IN  /\ At(k) + 2 = Level(p)'
                          /\ t.ns = 0 /\ k.n + 1 = t.pn
    OBVIOUS
  <2> DEFINE k == queue[q][Len(queue[q])]
  <2>1. \/ At(k) = Level(p) /\ k.n + 1 = s.ns
        \/ /\ At(k) + 2 = Level(p)
           /\ s.ns = 0 /\ k.n + 1 = s.pn
    BY <1>1, <1>5 DEF Sender
  <2>2. At(k) \in Nat
    <3>1. Len(queue[q]) \in DOMAIN queue[q]
      BY <1>4
    <3> QED BY <1>1, <3>1, MessageFacts
  <2> HIDE DEF k, s, t, q
  <2>3. At(k) = Level(p) /\ k.n + 1 = s.ns
    BY <1>4, <1>6, <2>1, <2>2
  <2> QED BY <1>2, <1>3, <2>3 DEF k
<1>10. Level(q)' # Level(p)' + 1
  BY <1>2, <1>4
<1>11. /\ queue[q] # <<>> => queue[q][1].n = 0 /\ At(queue[q][1]) <= 2
       /\ \A j \in DOMAIN queue[q] :
            j + 1 \in DOMAIN queue[q] => Follows(queue[q][j], queue[q][j + 1])
  BY <1>5 DEF Sender
<1>12. Sender(q)'
  <2> HIDE DEF q, s
  <2> QED BY <1>1, <1>8, <1>9, <1>10, <1>11 DEF Sender
<1> QED BY <1>7, <1>12, Either

LEMMA RemainSender ==
  ASSUME IInv, Agreement, Orderly, NEW p \in Party, NEW i,
         Passed(p, i), Remained(p, i)
  PROVE  \A r \in Party : Sender(r)'
<1> DEFINE q == Peer(p)
<1>1. /\ q \in Party /\ Peer(q) = p /\ queue' = queue /\ st'[q] = st[q]
      /\ st'[p].ns = st[p].ns /\ st'[p].pn = st[p].pn
  BY OtherParty DEF Passed, Remained, Stays
<1>2. Level(p)' = Level(p) /\ Level(q)' = Level(q)
  BY Remaining DEF Tolerable
<1>3. Sender(p) /\ Sender(q)
  BY <1>1 DEF Agreement, OrderInv
<1> HIDE DEF q
<1>4. Sender(p)'
  BY <1>1, <1>2, <1>3 DEF Sender, q
<1>5. Sender(q)'
  BY <1>1, <1>2, <1>3 DEF Sender
<1> QED BY <1>4, <1>5, Either DEF q

-----------------------------------------------------------------------------
(* The renewal of the secret *)

LEMMA RemainRenewed ==
  ASSUME IInv, Agreement, Orderly, NEW p \in Party, NEW i, InOrder(p, i),
         Passed(p, i), Remained(p, i)
  PROVE  Renewed(st[p], queue[p][i], st'[p]) /\ queue[p][i].n > 0
<1>1. queue[p][i].n > 0
  BY InStep
<1>2. Renews(st[p], st'[p])
  BY DEF Remained
<1> QED BY <1>1, <1>2 DEF Renewed, Renews, MixesIn

LEMMA ReadTokens ==
  ASSUME IInv, Agreement, Orderly, NEW p \in Party, NEW i, Passed(p, i),
         Renewed(st[p], queue[p][i], st'[p])
  PROVE  \A r \in Party : Tokens(r)'
<1> DEFINE q == Peer(p)
           s == st[p]
           t == st'[p]
           m == queue[p][i]
<1>1. /\ q \in Party /\ Peer(q) = p /\ queue' = queue /\ st'[q] = st[q]
      /\ gone'[p] = gone[p] \cup {i} /\ gone'[q] = gone[q]
      /\ i \in Waiting(p)
  BY OtherParty DEF Passed
<1>2. Tokens(p) /\ Tokens(q)
  BY <1>1 DEF Agreement, OrderInv
<1>3. /\ Offers(p)' = Offers(p) /\ Answers(q)' = Answers(q)
      /\ Answers(p)' = Answers(p) \ {i} /\ Offers(q)' = Offers(q) \ {i}
  <2> HIDE DEF q
  <2> QED BY <1>1 DEF Offers, Answers, Waiting, q
<1>4. t.pending = s.pending \/ i \in Answers(p)
  BY <1>1 DEF Renewed, MixesIn, Answers
<1>5. t.offer = s.offer \/ (i \in Offers(q) /\ t.offer = m.ek)
  BY <1>1 DEF Renewed, Offers
<1> HIDE DEF q, s, t, m
<1>6. Tokens(p)'
  <2>1. /\ \A j, k \in Offers(p) : j = k
        /\ \A j, k \in Answers(p) : j = k
        /\ Offers(p) # {} => st[q].offer = None /\ Answers(p) = {}
        /\ st[q].offer # None => Answers(p) = {}
        /\ \A j \in Offers(p) : queue[q][j].ek = s.pending
        /\ \A j \in Answers(p) : queue[p][j].ct.ek = s.pending
        /\ st[q].offer # None => st[q].offer = s.pending
    BY <1>2 DEF Tokens, q, s
  <2>2. CASE t.pending = s.pending
    BY <1>1, <1>3, <2>1, <2>2 DEF Tokens, q, t
  <2>3. CASE i \in Answers(p)
    <3>1. Offers(p) = {} /\ st[q].offer = None /\ Answers(p)' = {}
      BY <1>3, <2>1, <2>3
    <3> QED BY <1>1, <1>3, <3>1 DEF Tokens, q
  <2> QED BY <1>4, <2>2, <2>3
<1>7. Tokens(q)'
  <2>1. /\ \A j, k \in Offers(q) : j = k
        /\ \A j, k \in Answers(q) : j = k
        /\ Offers(q) # {} => s.offer = None /\ Answers(q) = {}
        /\ s.offer # None => Answers(q) = {}
        /\ \A j \in Offers(q) : queue[p][j].ek = st[q].pending
        /\ \A j \in Answers(q) : queue[q][j].ct.ek = st[q].pending
        /\ s.offer # None => s.offer = st[q].pending
    BY <1>1, <1>2 DEF Tokens, s
  <2>2. CASE t.offer = s.offer
    BY <1>1, <1>3, <2>1, <2>2 DEF Tokens, t
  <2>3. CASE i \in Offers(q) /\ t.offer = m.ek
    <3>1. Offers(q)' = {} /\ Answers(q) = {} /\ m.ek = st[q].pending
      BY <1>3, <2>1, <2>3 DEF m
    <3> QED BY <1>1, <1>3, <2>3, <3>1 DEF Tokens, t
  <2> QED BY <1>5, <2>2, <2>3
<1> QED BY <1>6, <1>7, Either DEF q

\* Past the turn of the offer a secret has been mixed in.
LEMMA TurnRenewal ==
  ASSUME IInv, Agreement, Orderly, NEW p \in Party, NEW i, InOrder(p, i),
         Passed(p, i), Turned(p, i)
  PROVE  \A r \in Party : Renewal(r)'
<1> DEFINE q == Peer(p)
           s == st[p]
           t == st'[p]
           m == queue[p][i]
           N == PQ_REMIX_EVERY_N_TURNS
<1>1. /\ q \in Party /\ Peer(q) = p /\ queue' = queue /\ st'[q] = st[q]
      /\ i \in Waiting(p) /\ i \in DOMAIN queue[p] /\ Tolerable
      /\ N \in Nat \ {0}
  BY OtherParty, RatchetAssumption DEF Passed, Waiting, Tolerable
<1>2. /\ Level(q) = Level(p) + 1 /\ Level(p)' = Level(p) + 2
      /\ Level(q)' = Level(q) /\ At(m) = Level(q)
      /\ \A j \in DOMAIN queue[q] : At(queue[q][j]) <= Level(p)
  BY <1>1, Turning
<1>3. m.n = 0
  BY TurnReceiver
<1>4. /\ t.ns = 0 /\ t.turns = s.turns + 1 /\ Renewed(s, m, t)
  BY DEF Turned, Moved
<1>5. /\ Level(p) \in Nat /\ Level(q) \in Nat /\ s.turns \in Nat
      /\ s.remixes \in Nat /\ m \in Message
      /\ \A j \in DOMAIN queue[q] : At(queue[q][j]) \in Nat
  BY <1>1, PartyFacts, MessageFacts
<1>6. Renewal(p) /\ Renewal(q) /\ Tokens(p)
  BY <1>1 DEF Agreement, OrderInv
<1>7. t.remixes = 0 => t.turns <= N
  <2> SUFFICES ASSUME t.remixes = 0, t.turns > N PROVE FALSE
    BY <1>1, <1>4, <1>5
  <2>1. ~MixesIn(s, m) /\ s.remixes = 0
    BY <1>4, <1>5 DEF Renewed
  <2>2. s.turns <= N
    BY <1>6, <2>1 DEF Renewal
  <2>3. s.turns = N
    BY <1>1, <1>4, <1>5, <2>2
  <2>4. m.ct # None
    BY <1>1, <1>2, <1>3, <1>6, <2>3 DEF Renewal, Due
  <2>5. m.ct.ek = s.pending
    BY <1>1, <1>6, <2>4 DEF Tokens, Answers
  <2>6. m.ct.ek \in Name
    BY <1>5, <2>4 DEF Message, Secret
  <2> QED BY <1>3, <2>1, <2>4, <2>5, <2>6, NoneAssumption DEF MixesIn
<1>8. t.turns <= N => t.pending = None
  <2> SUFFICES ASSUME t.turns <= N PROVE t.pending = None
    OBVIOUS
  <2>1. s.turns < N
    BY <1>1, <1>4, <1>5
  <2>2. s.pending = None
    BY <1>6, <2>1 DEF Renewal
  <2> QED BY <1>4, <2>2 DEF Renewed
<1>9. t.turns \in Nat /\ t.turns > 0
  BY <1>4, <1>5
<1>10. /\ \A j \in DOMAIN queue[q] : At(queue[q][j]) # Level(p)'
       /\ Level(q)' # Level(p)' + 1
  BY <1>2, <1>5
<1>11. Renewal(p)'
  <2> HIDE DEF q, s, t, m
  <2> QED BY <1>1, <1>7, <1>8, <1>9, <1>10 DEF Renewal, Due, q, t
<1>12. Due(q) => t.offer # None
  <2> SUFFICES ASSUME Due(q) PROVE t.offer # None
    OBVIOUS
  <2>1. m.ek # None
    BY <1>1, <1>2, <1>3, <1>6 DEF Renewal
  <2> QED BY <1>3, <1>4, <2>1 DEF Renewed
<1>13. Renewal(q)'
  <2>1. Due(q)' = Due(q)
    BY <1>1 DEF Due
  <2> HIDE DEF q, s, m
  <2> QED BY <1>1, <1>2, <1>6, <1>10, <1>12, <2>1 DEF Renewal
<1> QED BY <1>11, <1>13, Either

LEMMA RemainRenewal ==
  ASSUME IInv, Agreement, Orderly, NEW p \in Party, NEW i,
         Passed(p, i), Remained(p, i)
  PROVE  \A r \in Party : Renewal(r)'
<1> DEFINE q == Peer(p)
           s == st[p]
           t == st'[p]
<1>1. /\ q \in Party /\ Peer(q) = p /\ queue' = queue /\ st'[q] = st[q]
      /\ t.ns = s.ns /\ t.turns = s.turns /\ t.remixes = s.remixes
      /\ t.pending = s.pending /\ t.offer = s.offer
  BY OtherParty DEF Passed, Remained, Stays, Renews
<1>2. Level(p)' = Level(p) /\ Level(q)' = Level(q)
  BY Remaining DEF Tolerable
<1>3. Renewal(p) /\ Renewal(q)
  BY <1>1 DEF Agreement, OrderInv
<1> HIDE DEF q
<1>4. Renewal(p)'
  BY <1>1, <1>2, <1>3 DEF Renewal, Due, q
<1>5. Renewal(q)'
  BY <1>1, <1>2, <1>3 DEF Renewal, Due
<1> QED BY <1>4, <1>5, Either DEF q

\* Whichever message comes next, the parties agree after it.
LEMMA ReceivingAgrees ==
  ASSUME IInv, IInv', Agreement, NEW p \in Party, NEW i, Receive(p, i),
         Tolerable' => Tolerable /\ MayCome(p, i),
         Mild' => Mild, Orderly' => Orderly /\ InOrder(p, i)
  PROVE  Agreement'
<1>1. ASSUME Tolerable' PROVE Passed(p, i) /\ (Turned(p, i) \/ Remained(p, i))
  BY <1>1, Reading
<1>2. Aligned'
  <2> SUFFICES ASSUME Tolerable'
               PROVE  Near' /\ \A r \in Party : Shape(r)' /\ Letters(r)'
    BY DEF Aligned
  <2> QED BY <1>1, TurnAligned, RemainAligned
<1>3. Opened'
  <2>1. \A r \in Party : /\ tried'[r] \subseteq DOMAIN queue'[r]
                         /\ \A j \in DOMAIN opened'[r] :
                              opened'[r][j] > 0 => j \in tried'[r]
    BY Tried DEF Agreement
  <2>2. Tolerable' => \A r \in Party :
          /\ tried'[r] \subseteq gone'[r]
          /\ \A j \in tried'[r] : opened'[r][j] = 1
    BY <1>1, ReadOpened
  <2> QED BY <2>1, <2>2 DEF Opened
<1>4. MildInv'
  <2> SUFFICES ASSUME Mild', NEW r \in Party PROVE Mildly(r)'
    BY DEF MildInv
  <2>1. Mild /\ Tolerable'
    BY DEF Tolerable
  <2>2. Mildly(p)' /\ Mildly(Peer(p))'
    BY <1>1, <2>1, TurnMildly, RemainMildly, OtherMildly
  <2> QED BY <2>2, Either
<1>5. OrderInv'
  <2> SUFFICES ASSUME Orderly'
               PROVE  \A r \in Party : /\ Sender(r)' /\ Receiver(r)'
                                       /\ Tokens(r)' /\ Renewal(r)'
    BY DEF OrderInv
  <2>1. Orderly /\ InOrder(p, i) /\ Tolerable'
    BY DEF Tolerable
  <2>2. Renewed(st[p], queue[p][i], st'[p])
    BY <1>1, <2>1, RemainRenewed DEF Turned, Moved
  <2>3. \A r \in Party : Sender(r)' /\ Receiver(r)' /\ Renewal(r)'
    <3>1. CASE Turned(p, i)
      BY <1>1, <2>1, <3>1, TurnSender, TurnReceiver, TurnRenewal
    <3>2. CASE Remained(p, i)
      BY <1>1, <2>1, <3>2, RemainSender, RemainReceiver, RemainRenewal
    <3> QED BY <1>1, <2>1, <3>1, <3>2
  <2>4. \A r \in Party : Tokens(r)'
    BY <1>1, <2>1, <2>2, ReadTokens
  <2> QED BY <2>3, <2>4
<1> QED BY <1>2, <1>3, <1>4, <1>5 DEF Agreement

-----------------------------------------------------------------------------
(* What a message does that is sent *)

\* The message w carries the present chain of its sender.
Written(s, w, t) ==
  /\ t.dhs = s.dhs /\ t.dhr = s.dhr /\ t.rk = s.rk /\ t.ckr = s.ckr
  /\ t.nr = s.nr /\ t.pn = s.pn /\ t.skipped = s.skipped /\ t.turns = s.turns
  /\ t.ns = s.ns + 1 /\ t.cks # None
  /\ w.dh = s.dhs /\ w.pn = s.pn /\ w.n = s.ns /\ w.key.n = s.ns
  /\ w.key.base = s.rk /\ w.key.mix = t.cks.mix

\* It may carry an answer, and an offer.
Signed(s, w, t) ==
  /\ \/ /\ AnswersKem(s) /\ s.ns = 0 /\ s.offer # None
        /\ w.ct \in Secret /\ w.ct # None /\ w.ct.ek = s.offer
        /\ t.cks.mix = w.ct /\ t.offer = None /\ t.remixes = s.remixes + 1
     \/ /\ s.ns > 0 \/ s.offer = None
        /\ w.ct = None /\ t.cks.mix = s.cks.mix /\ t.offer = s.offer
        /\ t.remixes = s.remixes
  /\ \/ /\ OffersKem(s) /\ s.ns = 0
        /\ w.ek = s.dhs /\ w.ek # None /\ t.pending = s.dhs
     \/ ~OffersKem(s) /\ w.ek = None /\ t.pending = s.pending

LEMMA Writing ==
  ASSUME NEW s, Good(s), s.cks # None
  PROVE  Written(s, Wire(s), Encrypted(s)) /\ Signed(s, Wire(s), Encrypted(s))
<1> DEFINE w == Wire(s)
           t == Encrypted(s)
           c == SendingChain(s)
           secret == Encapsulate(s.offer, s.dhs)
<1>1. /\ s \in State /\ s.cks \in Chain /\ s.cks.base = s.rk /\ s.ns \in Nat
      /\ s.dhs \in Name /\ s.offer \in Name \cup {None} /\ s.dhs # None
  <2>1. s \in State
    BY DEF Good
  <2> QED BY <2>1, Fields, NoneAssumption DEF Good, Chains
<1>2. AnswersKem(s) => /\ secret \in Secret /\ secret # None
                       /\ secret.ek = s.offer
  BY <1>1, NoneAssumption DEF AnswersKem, Encapsulate, Secret
<1>3. /\ c # None /\ c.base = s.rk
      /\ c.mix = IF AnswersKem(s) THEN secret ELSE s.cks.mix
  <2>1. CASE AnswersKem(s)
    <3>1. c = Mix(s.cks, secret)
      BY <2>1 DEF SendingChain
    <3>2. Mix(s.cks, secret) \in Chain
      BY <1>1, <1>2, <2>1 DEF Mix, Chain
    <3>3. Mix(s.cks, secret).base = s.rk /\ Mix(s.cks, secret).mix = secret
      BY <1>1 DEF Mix, Chain
    <3> HIDE DEF c, secret
    <3> QED BY <2>1, <3>1, <3>2, <3>3, NoneAssumption
  <2>2. CASE ~AnswersKem(s)
    BY <1>1, <2>2 DEF SendingChain
  <2> QED BY <2>1, <2>2
<1>4. /\ w.dh = s.dhs /\ w.pn = s.pn /\ w.n = s.ns
      /\ w.ek = IF OffersKem(s) THEN s.dhs ELSE None
      /\ w.ct = IF AnswersKem(s) THEN secret ELSE None
      /\ w.key = MessageKey(c, s.ns)
  BY DEF Wire
<1> HIDE DEF c, secret
<1>5. w.key.n = s.ns /\ w.key.base = c.base /\ w.key.mix = c.mix
  BY <1>4 DEF MessageKey
<1>6. /\ t.dhs = s.dhs /\ t.dhr = s.dhr /\ t.rk = s.rk /\ t.ckr = s.ckr
      /\ t.nr = s.nr /\ t.pn = s.pn /\ t.skipped = s.skipped
      /\ t.turns = s.turns /\ t.ns = s.ns + 1 /\ t.cks = c
  BY <1>1 DEF Encrypted, State, c
<1>7. /\ t.offer = IF AnswersKem(s) THEN None ELSE s.offer
      /\ t.remixes = IF AnswersKem(s) THEN s.remixes + 1 ELSE s.remixes
      /\ t.pending = IF OffersKem(s) THEN s.dhs ELSE s.pending
  BY <1>1 DEF Encrypted, State
<1> HIDE DEF w, t
<1>8. Written(s, w, t)
  BY <1>3, <1>4, <1>5, <1>6 DEF Written
<1>9. OffersKem(s) => s.ns = 0
  BY DEF OffersKem
<1>10. /\ AnswersKem(s) => s.ns = 0 /\ s.offer # None
       /\ ~AnswersKem(s) => s.ns > 0 \/ s.offer = None
  BY <1>1 DEF AnswersKem
<1>11. Signed(s, w, t)
  <2>1. \/ /\ AnswersKem(s) /\ s.ns = 0 /\ s.offer # None
           /\ w.ct \in Secret /\ w.ct # None /\ w.ct.ek = s.offer
           /\ t.cks.mix = w.ct /\ t.offer = None /\ t.remixes = s.remixes + 1
        \/ /\ s.ns > 0 \/ s.offer = None
           /\ w.ct = None /\ t.cks.mix = s.cks.mix /\ t.offer = s.offer
           /\ t.remixes = s.remixes
    BY <1>2, <1>3, <1>4, <1>6, <1>7, <1>10
  <2>2. \/ /\ OffersKem(s) /\ s.ns = 0
           /\ w.ek = s.dhs /\ w.ek # None /\ t.pending = s.dhs
        \/ ~OffersKem(s) /\ w.ek = None /\ t.pending = s.pending
    BY <1>1, <1>4, <1>7, <1>9
  <2> QED BY <2>1, <2>2 DEF Signed
<1> QED BY <1>8, <1>11 DEF w, t

\* A message of p is at the end of the queue of its peer.
Posted(p, w) ==
  /\ st[p].cks # None
  /\ st'[Peer(p)] = st[Peer(p)] /\ minted' = minted
  /\ gone' = gone /\ tried' = tried
  /\ queue'[Peer(p)] = Append(queue[Peer(p)], w) /\ queue'[p] = queue[p]
  /\ opened'[Peer(p)] = Append(opened[Peer(p)], 0) /\ opened'[p] = opened[p]
  /\ Written(st[p], w, st'[p]) /\ Signed(st[p], w, st'[p])

LEMMA Posting ==
  ASSUME IInv, NEW p \in Party, Encrypt(p)
  PROVE  Posted(p, Wire(st[p])) /\ Wire(st[p]) \in Message
<1> DEFINE q == Peer(p)
           w == Wire(st[p])
           t == Encrypted(st[p])
<1>1. q \in Party /\ q # p
  BY OtherParty
<1>2. /\ st \in [Party -> State] /\ queue \in [Party -> Seq(Message)]
      /\ opened \in [Party -> Seq(Nat)]
  BY DEF IInv, TypeOK
<1>3. /\ st[p].cks # None
      /\ queue' = [queue EXCEPT ![q] = Append(@, w)]
      /\ opened' = [opened EXCEPT ![q] = Append(@, 0)]
      /\ st' = [st EXCEPT ![p] = t]
      /\ UNCHANGED <<minted, gone, tried>>
  BY DEF Encrypt
<1>4. Written(st[p], w, t) /\ Signed(st[p], w, t)
  BY <1>3, Writing, PartyFacts
<1>5. w \in Message
  BY <1>3, Encrypting, PartyFacts
<1> HIDE DEF w, t, q
<1>6. st'[p] = t /\ st'[q] = st[q]
  BY <1>1, <1>2, <1>3
<1>7. queue'[q] = Append(queue[q], w) /\ queue'[p] = queue[p]
  BY <1>1, <1>2, <1>3
<1>8. opened'[q] = Append(opened[q], 0) /\ opened'[p] = opened[p]
  BY <1>1, <1>2, <1>3
<1> QED BY <1>3, <1>4, <1>5, <1>6, <1>7, <1>8 DEF Posted, w, q

\* What was in the queue is still where it was.
LEMMA Queued ==
  ASSUME IInv, NEW p \in Party, NEW w \in Message, Posted(p, w)
  PROVE  LET q == Peer(p)
             last == Len(queue[q]) + 1
         IN  /\ DOMAIN queue'[q] = DOMAIN queue[q] \cup {last}
             /\ last \notin DOMAIN queue[q]
             /\ queue'[q][last] = w /\ Len(queue'[q]) = last
             /\ \A j \in DOMAIN queue[q] : queue'[q][j] = queue[q][j]
             /\ \A j \in DOMAIN opened[q] : opened'[q][j] = opened[q][j]
             /\ DOMAIN opened'[q] = DOMAIN opened[q] \cup {last}
             /\ opened'[q][last] = 0
             /\ Level(p)' = Level(p) /\ Level(q)' = Level(q)
             /\ At(w) = Level(p)
<1> DEFINE q == Peer(p)
           last == Len(queue[q]) + 1
<1>1. /\ q \in Party /\ queue'[q] = Append(queue[q], w)
      /\ opened'[q] = Append(opened[q], 0)
  BY OtherParty DEF Posted
<1>2. /\ queue[q] \in Seq(Message) /\ opened[q] \in Seq(Nat)
      /\ DOMAIN queue[q] = 1 .. Len(queue[q]) /\ Len(queue[q]) \in Nat
      /\ DOMAIN opened[q] = DOMAIN queue[q] /\ Len(opened[q]) = Len(queue[q])
  <2>1. opened[q] \in Seq(Nat) /\ queue[q] \in Seq(Message)
        /\ DOMAIN opened[q] = DOMAIN queue[q]
    BY <1>1 DEF IInv, TypeOK
  <2> HIDE DEF q
  <2> QED BY <2>1
<1>3. Level(p)' = Level(p) /\ Level(q)' = Level(q) /\ At(w) = Level(p)
  BY DEF Posted, Written, Level, At
<1> HIDE DEF q
<1>4. /\ DOMAIN queue'[q] = 1 .. Len(queue[q]) + 1
      /\ queue'[q][last] = w /\ Len(queue'[q]) = last
      /\ \A j \in 1 .. Len(queue[q]) : queue'[q][j] = queue[q][j]
  BY <1>1, <1>2
<1>5. /\ DOMAIN opened'[q] = 1 .. Len(queue[q]) + 1
      /\ opened'[q][last] = 0
      /\ \A j \in 1 .. Len(queue[q]) : opened'[q][j] = opened[q][j]
  BY <1>1, <1>2
<1>6. 1 .. Len(queue[q]) + 1 = (1 .. Len(queue[q])) \cup {last}
      /\ last \notin 1 .. Len(queue[q])
  BY <1>2
<1> QED BY <1>2, <1>3, <1>4, <1>5, <1>6 DEF q

LEMMA PostAligned ==
  ASSUME IInv, Agreement, Tolerable, NEW p \in Party, NEW w \in Message,
         Posted(p, w)
  PROVE  Near' /\ \A r \in Party : Shape(r)' /\ Letters(r)'
<1> DEFINE q == Peer(p)
           s == st[p]
           t == st'[p]
           last == Len(queue[q]) + 1
<1>1. /\ q \in Party /\ Peer(q) = p /\ st'[q] = st[q] /\ minted' = minted
      /\ queue'[p] = queue[p] /\ s.cks # None
  BY OtherParty DEF Posted
<1>2. /\ DOMAIN queue'[q] = DOMAIN queue[q] \cup {last}
      /\ last \notin DOMAIN queue[q] /\ queue'[q][last] = w
      /\ \A j \in DOMAIN queue[q] : queue'[q][j] = queue[q][j]
      /\ Level(p)' = Level(p) /\ Level(q)' = Level(q) /\ At(w) = Level(p)
  BY Queued
<1>3. Written(s, w, t) /\ Signed(s, w, t)
  BY DEF Posted
<1>4. /\ t.dhs = s.dhs /\ t.dhr = s.dhr /\ t.rk = s.rk /\ t.ckr = s.ckr
      /\ t.nr = s.nr /\ t.pn = s.pn /\ t.ns = s.ns + 1 /\ t.cks # None
      /\ w.dh = s.dhs /\ w.pn = s.pn /\ w.n = s.ns /\ w.key.n = s.ns
      /\ w.key.base = s.rk /\ w.key.mix = t.cks.mix
  BY <1>3 DEF Written
<1>5. Near /\ \A r \in Party : Shape(r) /\ Letters(r)
  BY DEF Agreement, Aligned
<1>6. /\ s.ns \in Nat /\ Level(p) \in Nat /\ Level(q) \in Nat
      /\ st[q].nr \in Nat
  BY <1>1, PartyFacts
<1>7. /\ s.ns = 0 => s.cks.mix = None
      /\ Level(q) = Level(p) + 1 => st[q].nr <= s.ns
  BY <1>1, <1>5 DEF Shape
<1>8. Near'
  BY <1>2, <1>5, Either DEF Near, Party, Peer
<1>9. Shape(p)'
  <2>1. t.ns # 0
    BY <1>4, <1>6
  <2> HIDE DEF s, t, q
  <2> QED BY <1>1, <1>2, <1>4, <1>5, <2>1 DEF Shape, s, t, q
<1>10. Shape(q)'
  <2>1. Level(q) = Level(p) + 1 => st[q].nr <= t.ns
    BY <1>4, <1>6, <1>7
  <2> HIDE DEF s, q
  <2> QED BY <1>1, <1>2, <1>5, <2>1 DEF Shape
<1>11. Letters(p)'
  <2> HIDE DEF q, s, t
  <2> QED BY <1>1, <1>2, <1>5 DEF Letters, q
<1>12. Letter(w)
  <2>1. Proper(s.rk) /\ LevelOf(s.dhs) = Level(p)
    BY <1>5 DEF Shape
  <2>2. w.n = 0 => w.ct = w.key.mix
    BY <1>3, <1>4, <1>7 DEF Signed
  <2>3. w.n > 0 => w.ct = None /\ w.ek = None
    BY <1>3, <1>4, <1>6 DEF Signed
  <2> HIDE DEF s, t
  <2> QED BY <1>2, <1>4, <2>1, <2>2, <2>3 DEF Letter
<1>13. ASSUME NEW j \in DOMAIN queue[q], At(queue[q][j]) = Level(p)
       PROVE  /\ queue[q][j].n < s.ns /\ queue[q][j].pn = s.pn
              /\ queue[q][j].key.mix = t.cks.mix
              /\ queue[q][j].n \in Nat
  <2> DEFINE k == queue[q][j]
  <2>1. k.key.n < s.ns /\ k.n \in Nat
    BY <1>1, <1>13, MessageFacts
  <2>2. k.n = k.key.n /\ k.pn = s.pn /\ k.key.mix = s.cks.mix
    BY <1>1, <1>5, <1>13 DEF Letters, Letter
  <2>3. s.ns # 0
    BY <1>6, <2>1, <2>2
  <2>4. t.cks.mix = s.cks.mix
    BY <1>3, <2>3 DEF Signed
  <2> QED BY <2>1, <2>2, <2>4
<1>14. Letters(q)'
  <2>1. ASSUME NEW j \in DOMAIN queue'[q]
        PROVE  LET k == queue'[q][j]
               IN  /\ Letter(k)
                   /\ At(k) = Level(p) => k.pn = t.pn /\ k.key.mix = t.cks.mix
                   /\ At(k) + 1 = Level(q) /\ Level(p) = Level(q) + 1 =>
                        k.n < t.pn
    <3>1. CASE j = last
      <4>1. ~(At(w) + 1 = Level(q) /\ Level(p) = Level(q) + 1)
        BY <1>2, <1>6
      <4> HIDE DEF s, t, q, last
      <4> QED BY <1>2, <1>4, <1>12, <3>1, <4>1
    <3>2. CASE j \in DOMAIN queue[q]
      <4>1. Letters(q)
        BY <1>1, <1>5
      <4>2. Letter(queue[q][j])
        BY <3>2, <4>1 DEF Letters
      <4>3. At(queue[q][j]) + 1 = Level(q) /\ Level(p) = Level(q) + 1 =>
              queue[q][j].n < s.pn
        BY <1>1, <3>2, <4>1 DEF Letters
      <4> HIDE DEF s, t, q, last
      <4> QED BY <1>2, <1>4, <1>13, <3>2, <4>2, <4>3
    <3> QED BY <1>2, <3>1, <3>2
  <2>2. ASSUME NEW j \in DOMAIN queue'[q], NEW k \in DOMAIN queue'[q],
               At(queue'[q][j]) = At(queue'[q][k]),
               queue'[q][j].n = queue'[q][k].n
        PROVE  j = k
    <3>1. CASE j \in DOMAIN queue[q] /\ k \in DOMAIN queue[q]
      <4>1. Letters(q)
        BY <1>1, <1>5
      <4> QED BY <1>2, <2>2, <3>1, <4>1 DEF Letters
    <3>2. CASE j = last /\ k \in DOMAIN queue[q]
      BY <1>2, <1>4, <1>6, <1>13, <2>2, <3>2
    <3>3. CASE k = last /\ j \in DOMAIN queue[q]
      BY <1>2, <1>4, <1>6, <1>13, <2>2, <3>3
    <3> QED BY <1>2, <3>1, <3>2, <3>3
  <2> HIDE DEF s, q
  <2> QED BY <1>1, <1>2, <2>1, <2>2 DEF Letters
<1> QED BY <1>8, <1>9, <1>10, <1>11, <1>14, Either

LEMMA PostOpened ==
  ASSUME IInv, Agreement, NEW p \in Party, NEW w \in Message, Posted(p, w),
         Tolerable' => Tolerable
  PROVE  Opened'
<1> DEFINE q == Peer(p)
           last == Len(queue[q]) + 1
<1>1. /\ q \in Party /\ gone' = gone /\ tried' = tried
      /\ queue'[p] = queue[p] /\ opened'[p] = opened[p]
  BY OtherParty DEF Posted
<1>2. /\ DOMAIN queue'[q] = DOMAIN queue[q] \cup {last}
      /\ DOMAIN opened'[q] = DOMAIN opened[q] \cup {last}
      /\ opened'[q][last] = 0
      /\ \A j \in DOMAIN opened[q] : opened'[q][j] = opened[q][j]
      /\ DOMAIN opened[q] = DOMAIN queue[q]
  BY <1>1, Queued, PartyFacts
<1>3. Opened
  BY DEF Agreement
<1>4. /\ tried'[p] \subseteq DOMAIN queue'[p]
      /\ \A j \in DOMAIN opened'[p] : opened'[p][j] > 0 => j \in tried'[p]
      /\ Tolerable' => /\ tried'[p] \subseteq gone'[p]
                       /\ \A j \in tried'[p] : opened'[p][j] = 1
  BY <1>1, <1>3 DEF Opened
<1>5. /\ tried'[q] \subseteq DOMAIN queue'[q]
      /\ \A j \in DOMAIN opened'[q] : opened'[q][j] > 0 => j \in tried'[q]
      /\ Tolerable' => /\ tried'[q] \subseteq gone'[q]
                       /\ \A j \in tried'[q] : opened'[q][j] = 1
  <2> HIDE DEF q
  <2>1. tried'[q] \subseteq DOMAIN queue[q]
    BY <1>1, <1>3 DEF Opened
  <2>2. \A j \in DOMAIN opened[q] : opened[q][j] > 0 => j \in tried[q]
    BY <1>1, <1>3 DEF Opened
  <2>3. Tolerable' => /\ tried[q] \subseteq gone[q]
                      /\ \A j \in tried[q] : opened[q][j] = 1
    BY <1>1, <1>3 DEF Opened
  <2> QED BY <1>1, <1>2, <2>1, <2>2, <2>3
<1> QED BY <1>4, <1>5, Either DEF Opened

LEMMA PostMildly ==
  ASSUME IInv, Agreement, Mild, NEW p \in Party, NEW w \in Message,
         Posted(p, w), Mild'
  PROVE  \A r \in Party : Mildly(r)'
<1> DEFINE q == Peer(p)
           s == st[p]
           t == st'[p]
           last == Len(queue[q]) + 1
<1>1. /\ q \in Party /\ Peer(q) = p /\ st'[q] = st[q] /\ gone' = gone
      /\ queue'[p] = queue[p] /\ s.cks # None
  BY OtherParty DEF Posted
<1>2. /\ DOMAIN queue'[q] = DOMAIN queue[q] \cup {last}
      /\ last \notin DOMAIN queue[q] /\ queue'[q][last] = w
      /\ \A j \in DOMAIN queue[q] : queue'[q][j] = queue[q][j]
      /\ Level(p)' = Level(p) /\ Level(q)' = Level(q) /\ At(w) = Level(p)
  BY Queued
<1>3. Written(s, w, t) /\ Signed(s, w, t)
  BY DEF Posted
<1>4. w.ct = None /\ w.n < MAX_SKIP
  BY <1>1, <1>2 DEF Mild
<1>5. Mildly(p) /\ Mildly(q)
  BY <1>1 DEF Agreement, MildInv
<1>6. t.cks.mix = None
  BY <1>1, <1>3, <1>4, <1>5 DEF Signed, Mildly
<1>7. /\ t.ckr = s.ckr /\ t.nr = s.nr /\ t.pn = s.pn /\ t.skipped = s.skipped
      /\ t.ns = s.ns + 1 /\ w.n = s.ns /\ w.key.mix = t.cks.mix
  BY <1>3 DEF Written
<1>8. /\ s.ns \in Nat /\ MAX_SKIP \in Nat /\ Level(p) \in Nat
      /\ Level(q) \in Nat /\ st[q].nr \in Nat
  BY <1>1, PartyFacts, RatchetAssumption
<1>9. t.ns <= MAX_SKIP
  BY <1>4, <1>7, <1>8
<1>10. Mildly(p)'
  <2>1. Waiting(p)' = Waiting(p)
    BY <1>1 DEF Waiting
  <2> HIDE DEF s, t, q
  <2>2. \A j \in Waiting(p) : At(queue[p][j]) < Level(p) =>
          \/ At(queue[p][j]) + 1 = Level(p) /\ t.nr <= queue[p][j].n
          \/ Kept(t, queue[p][j])
    <3>1. \A j : Kept(t, queue[p][j]) = Kept(s, queue[p][j])
      BY <1>7 DEF Kept
    <3> QED BY <1>5, <1>7, <3>1 DEF Mildly, s
  <2> QED BY <1>1, <1>2, <1>5, <1>6, <1>7, <1>9, <2>1, <2>2 DEF Mildly, s, t
<1>11. At(w) < Level(q) => At(w) + 1 = Level(q) /\ st[q].nr <= w.n
  <2>1. Near /\ Shape(q)
    BY <1>1 DEF Agreement, Aligned, Tolerable
  <2>2. Level(p) < Level(q) => Level(q) = Level(p) + 1
    BY <1>8, <2>1, Neighbours
  <2>3. Level(q) = Level(p) + 1 => st[q].nr <= s.ns
    BY <1>1, <2>1 DEF Shape
  <2> HIDE DEF q, s, t
  <2> QED BY <1>2, <1>7, <2>2, <2>3
<1>12. ASSUME NEW j \in Waiting(q)', At(queue'[q][j]) < Level(q)
       PROVE  \/ At(queue'[q][j]) + 1 = Level(q) /\ st[q].nr <= queue'[q][j].n
              \/ Kept(st[q], queue'[q][j])
  <2>1. j \in DOMAIN queue'[q] /\ j \notin gone[q]
    BY <1>1 DEF Waiting
  <2>2. CASE j = last
    BY <1>2, <1>11, <1>12, <2>2
  <2>3. CASE j \in DOMAIN queue[q]
    <3>1. j \in Waiting(q) /\ queue'[q][j] = queue[q][j]
      BY <1>2, <2>1, <2>3 DEF Waiting
    <3> QED BY <1>5, <1>12, <3>1 DEF Mildly
  <2> QED BY <1>2, <2>1, <2>2, <2>3
<1>13. \A j \in DOMAIN queue'[q] : queue'[q][j].key.mix = None
  BY <1>2, <1>5, <1>6, <1>7 DEF Mildly
<1>14. Mildly(q)'
  <2> HIDE DEF q
  <2> QED BY <1>1, <1>2, <1>5, <1>12, <1>13 DEF Mildly
<1> QED BY <1>10, <1>14, Either

LEMMA PostSender ==
  ASSUME IInv, Agreement, Orderly, NEW p \in Party, NEW w \in Message,
         Posted(p, w)
  PROVE  \A r \in Party : Sender(r)'
<1> DEFINE q == Peer(p)
           s == st[p]
           t == st'[p]
           last == Len(queue[q]) + 1
<1>1. /\ q \in Party /\ Peer(q) = p /\ st'[q] = st[q]
      /\ queue'[p] = queue[p]
  BY OtherParty DEF Posted
<1>2. /\ DOMAIN queue'[q] = DOMAIN queue[q] \cup {last}
      /\ last \notin DOMAIN queue[q] /\ queue'[q][last] = w
      /\ Len(queue'[q]) = last
      /\ \A j \in DOMAIN queue[q] : queue'[q][j] = queue[q][j]
      /\ Level(p)' = Level(p) /\ Level(q)' = Level(q) /\ At(w) = Level(p)
  BY Queued
<1>3. /\ t.ns = s.ns + 1 /\ w.pn = s.pn /\ w.n = s.ns
      /\ w.key.mix = t.cks.mix
      /\ s.ns # 0 => t.cks.mix = s.cks.mix
  <2>1. Written(s, w, t) /\ Signed(s, w, t)
    BY DEF Posted
  <2> QED BY <2>1 DEF Written, Signed
<1>4. /\ s.ns \in Nat /\ Level(p) \in Nat /\ Len(queue[q]) \in Nat
      /\ DOMAIN queue[q] = 1 .. Len(queue[q]) /\ queue[q] \in Seq(Message)
  BY <1>1, PartyFacts
<1>5. Sender(p) /\ Sender(q) /\ Letters(q)
  BY <1>1 DEF Agreement, OrderInv, Aligned, Tolerable
<1>6. Sender(p)'
  <2> HIDE DEF q
  <2> QED BY <1>1, <1>2, <1>5 DEF Sender, q
<1>7. queue'[q] # <<>>
  BY <1>2, <1>4
<1>8. queue'[q][1].n = 0 /\ At(queue'[q][1]) <= 2
  <2>1. CASE queue[q] = <<>>
    <3>1. s.ns = 0 /\ Level(p) <= 2
      BY <1>1, <1>5, <2>1 DEF Sender
    <3>2. last = 1
      BY <2>1
    <3> HIDE DEF q, last, s
    <3> QED BY <1>2, <1>3, <3>1, <3>2
  <2>2. CASE queue[q] # <<>>
    <3>1. 1 \in DOMAIN queue[q]
      BY <1>4, <2>2
    <3> QED BY <1>2, <1>5, <2>2, <3>1 DEF Sender
  <2> QED BY <2>1, <2>2
<1>9. ASSUME NEW j \in DOMAIN queue[q], j + 1 = last
      PROVE  Follows(queue[q][j], w)
  <2> DEFINE k == queue[q][j]
  <2>1. queue[q] # <<>> /\ j = Len(queue[q])
    BY <1>4, <1>9
  <2>2. \/ At(k) = Level(p) /\ k.n + 1 = s.ns
        \/ /\ At(k) + 2 = Level(p)
           /\ s.ns = 0 /\ k.n + 1 = s.pn
    BY <1>1, <1>5, <2>1 DEF Sender
  <2>3. CASE At(k) = Level(p) /\ k.n + 1 = s.ns
    <3>1. k.key.mix = s.cks.mix
      BY <1>1, <1>5, <2>3 DEF Letters
    <3>2. k.n \in Nat
      BY <1>1, MessageFacts
    <3>3. s.ns # 0
      BY <2>3, <3>2
    <3> HIDE DEF k, s, t
    <3> QED BY <1>2, <1>3, <2>3, <3>1, <3>3 DEF Follows, k
  <2>4. CASE At(k) + 2 = Level(p) /\ s.ns = 0 /\ k.n + 1 = s.pn
    <3> HIDE DEF k, s, t
    <3> QED BY <1>2, <1>3, <2>4 DEF Follows, k
  <2> QED BY <2>2, <2>3, <2>4
<1>10. ASSUME NEW j \in DOMAIN queue'[q], j + 1 \in DOMAIN queue'[q]
       PROVE  Follows(queue'[q][j], queue'[q][j + 1])
  <2>1. j \in DOMAIN queue[q]
    BY <1>2, <1>4, <1>10
  <2>2. CASE j + 1 = last
    BY <1>2, <1>9, <2>1, <2>2
  <2>3. CASE j + 1 \in DOMAIN queue[q]
    BY <1>2, <1>5, <2>1, <2>3 DEF Sender
  <2> QED BY <1>2, <1>10, <2>2, <2>3
<1>11. t.ns > 0
  BY <1>3, <1>4
<1>12. Sender(q)'
  <2> HIDE DEF q, s
  <2> QED BY <1>1, <1>2, <1>3, <1>7, <1>8, <1>10, <1>11 DEF Sender
<1> QED BY <1>6, <1>12, Either

LEMMA PostReceiver ==
  ASSUME IInv, Agreement, Orderly, NEW p \in Party, NEW w \in Message,
         Posted(p, w)
  PROVE  \A r \in Party : Receiver(r)'
<1> DEFINE q == Peer(p)
           last == Len(queue[q]) + 1
<1>1. /\ q \in Party /\ st'[q] = st[q] /\ gone' = gone /\ tried' = tried
      /\ queue'[p] = queue[p] /\ Level(p)' = Level(p) /\ Level(q)' = Level(q)
      /\ DOMAIN queue'[q] = DOMAIN queue[q] \cup {last}
      /\ \A j \in DOMAIN queue[q] : queue'[q][j] = queue[q][j]
  BY OtherParty, Queued DEF Posted
<1>2. /\ st'[p].ckr = st[p].ckr /\ st'[p].nr = st[p].nr
      /\ st'[p].skipped = st[p].skipped
  BY DEF Posted, Written
<1>3. Receiver(p) /\ Receiver(q)
  BY <1>1 DEF Agreement, OrderInv
<1>4. Receiver(p)'
  BY <1>1, <1>2, <1>3 DEF Receiver
<1> HIDE DEF q, last
<1>5. gone[q] \subseteq DOMAIN queue[q]
  BY <1>3 DEF Receiver
<1>6. \A j \in gone[q] : queue'[q][j] = queue[q][j]
  BY <1>1, <1>5
<1>7. Receiver(q)'
  BY <1>1, <1>3, <1>5, <1>6 DEF Receiver
<1> QED BY <1>4, <1>7, Either DEF q

LEMMA PostTokens ==
  ASSUME IInv, Agreement, Orderly, NEW p \in Party, NEW w \in Message,
         Posted(p, w)
  PROVE  \A r \in Party : Tokens(r)'
<1> DEFINE q == Peer(p)
           s == st[p]
           t == st'[p]
           last == Len(queue[q]) + 1
<1>1. /\ q \in Party /\ Peer(q) = p /\ st'[q] = st[q]
      /\ gone' = gone /\ queue'[p] = queue[p]
      /\ DOMAIN queue'[q] = DOMAIN queue[q] \cup {last}
      /\ last \notin DOMAIN queue[q] /\ queue'[q][last] = w
      /\ \A j \in DOMAIN queue[q] : queue'[q][j] = queue[q][j]
  BY OtherParty, Queued DEF Posted
<1>2. Signed(s, w, t)
  BY DEF Posted
<1>3. Tokens(p) /\ Tokens(q) /\ Receiver(q)
  BY <1>1 DEF Agreement, OrderInv
<1>4. last \notin gone[q]
  BY <1>1, <1>3 DEF Receiver
<1>5. /\ Answers(p)' = Answers(p) /\ Offers(q)' = Offers(q)
  <2> HIDE DEF q
  <2> QED BY <1>1 DEF Answers, Offers, Waiting
<1>6. /\ Offers(p)' = Offers(p) \cup {j \in {last} : w.ek # None}
      /\ Answers(q)' = Answers(q) \cup {j \in {last} : w.ct # None}
  <2> HIDE DEF q, last
  <2>1. Waiting(q)' = Waiting(q) \cup {last}
    BY <1>1, <1>4 DEF Waiting
  <2>2. \A j \in Waiting(q) : j \in DOMAIN queue[q]
    BY DEF Waiting
  <2> QED BY <1>1, <2>1, <2>2 DEF Answers, Offers, q
<1>7. /\ \A j \in Offers(p) : queue'[q][j] = queue[q][j]
      /\ \A j \in Answers(q) : queue'[q][j] = queue[q][j]
  <2> HIDE DEF q
  <2> QED BY <1>1 DEF Offers, Answers, Waiting, q
<1>8. /\ \A j, k \in Offers(p) : j = k
      /\ \A j, k \in Answers(p) : j = k
      /\ Offers(p) # {} => st[q].offer = None /\ Answers(p) = {}
      /\ st[q].offer # None => Answers(p) = {}
      /\ \A j \in Offers(p) : queue[q][j].ek = s.pending
      /\ \A j \in Answers(p) : queue[p][j].ct.ek = s.pending
      /\ st[q].offer # None => st[q].offer = s.pending
  BY <1>3 DEF Tokens
<1>9. /\ \A j, k \in Offers(q) : j = k
      /\ \A j, k \in Answers(q) : j = k
      /\ Offers(q) # {} => s.offer = None /\ Answers(q) = {}
      /\ s.offer # None => Answers(q) = {}
      /\ \A j \in Offers(q) : queue[p][j].ek = st[q].pending
      /\ \A j \in Answers(q) : queue[q][j].ct.ek = st[q].pending
      /\ s.offer # None => s.offer = st[q].pending
  BY <1>1, <1>3 DEF Tokens
<1>10. s.pending = None => /\ Offers(p) = {} /\ Answers(p) = {}
                           /\ st[q].offer = None
  <2> SUFFICES ASSUME s.pending = None
               PROVE  /\ Offers(p) = {} /\ Answers(p) = {}
                      /\ st[q].offer = None
    OBVIOUS
  <2>1. \A j \in Offers(p) : queue[q][j].ek # None
    BY DEF Offers
  <2>2. \A j \in Answers(p) : queue[p][j].ct.ek \in Name
    <3> SUFFICES ASSUME NEW j \in Answers(p)
                 PROVE  queue[p][j].ct.ek \in Name
      OBVIOUS
    <3>1. j \in DOMAIN queue[p] /\ queue[p][j].ct # None
      BY DEF Answers, Waiting
    <3>2. queue[p][j].ct \in Secret
      BY <3>1, MessageFacts
    <3> QED BY <3>2 DEF Secret
  <2> HIDE DEF s, q
  <2> QED BY <1>8, <2>1, <2>2, NoneAssumption
<1>11. OffersKem(s) => s.pending = None
  BY DEF OffersKem
<1>12. /\ \/ w.ek # None /\ t.pending = w.ek /\ s.pending = None
          \/ w.ek = None /\ t.pending = s.pending
       /\ \/ /\ s.offer # None /\ w.ct # None /\ w.ct.ek = s.offer
             /\ t.offer = None
          \/ w.ct = None /\ t.offer = s.offer
  BY <1>2, <1>11 DEF Signed
<1> HIDE DEF q, s, t, last
<1>13. Tokens(p)'
  <2>1. CASE w.ek # None /\ t.pending = w.ek /\ s.pending = None
    <3>1. /\ Offers(p)' = {last} /\ Answers(p)' = {}
          /\ st'[q].offer = None
      BY <1>1, <1>5, <1>6, <1>10, <2>1
    <3> QED BY <1>1, <2>1, <3>1 DEF Tokens, q, t
  <2>2. CASE w.ek = None /\ t.pending = s.pending
    <3>1. Offers(p)' = Offers(p)
      BY <1>6, <2>2
    <3> QED BY <1>1, <1>5, <1>7, <1>8, <2>2, <3>1 DEF Tokens, q, t
  <2> QED BY <1>12, <2>1, <2>2
<1>14. Tokens(q)'
  <2>1. CASE /\ s.offer # None /\ w.ct # None /\ w.ct.ek = s.offer
             /\ t.offer = None
    <3>1. /\ Answers(q)' = {last} /\ Offers(q)' = {}
          /\ s.offer = st[q].pending
      BY <1>5, <1>6, <1>9, <2>1
    <3> QED BY <1>1, <2>1, <3>1 DEF Tokens, t
  <2>2. CASE w.ct = None /\ t.offer = s.offer
    <3>1. Answers(q)' = Answers(q)
      BY <1>6, <2>2
    <3> QED BY <1>1, <1>5, <1>7, <1>9, <2>2, <3>1 DEF Tokens, t
  <2> QED BY <1>12, <2>1, <2>2
<1> QED BY <1>13, <1>14, Either DEF q

\* The offer comes at its turn.
LEMMA Divides ==
  ASSUME NEW N \in Nat \ {0}, NEW k \in Nat, k > 0
  PROVE  N % N = 0 /\ (k < N => k % N # 0)
OBVIOUS

LEMMA PostRenewal ==
  ASSUME IInv, Agreement, Orderly, NEW p \in Party, NEW w \in Message,
         Posted(p, w)
  PROVE  \A r \in Party : Renewal(r)'
<1> DEFINE q == Peer(p)
           s == st[p]
           t == st'[p]
           last == Len(queue[q]) + 1
           N == PQ_REMIX_EVERY_N_TURNS
<1>1. /\ q \in Party /\ Peer(q) = p /\ st'[q] = st[q] /\ queue'[p] = queue[p]
      /\ DOMAIN queue'[q] = DOMAIN queue[q] \cup {last}
      /\ queue'[q][last] = w /\ N \in Nat \ {0}
      /\ \A j \in DOMAIN queue[q] : queue'[q][j] = queue[q][j]
      /\ Level(p)' = Level(p) /\ Level(q)' = Level(q)
  BY OtherParty, Queued, RatchetAssumption DEF Posted
<1>2. /\ t.turns = s.turns /\ t.ns = s.ns + 1 /\ w.n = s.ns
  BY DEF Posted, Written
<1>3. Signed(s, w, t)
  BY DEF Posted
<1>4. Renewal(p) /\ Renewal(q)
  BY <1>1 DEF Agreement, OrderInv
<1>5. /\ s.turns \in Nat /\ s.ns \in Nat /\ s.remixes \in Nat
      /\ Level(p) \in Nat /\ Level(q) \in Nat
  BY <1>1, PartyFacts
<1>6. t.remixes = 0 => s.remixes = 0
  BY <1>3, <1>5 DEF Signed
<1>7. t.ns # 0
  BY <1>2, <1>5
<1>8. s.turns < N => ~OffersKem(s)
  BY <1>1, <1>5, Divides DEF OffersKem
<1>9. t.turns < N => t.pending = None
  BY <1>2, <1>3, <1>4, <1>8 DEF Signed, Renewal
<1>10. Due(p) /\ w.n = 0 => w.ek # None
  <2> SUFFICES ASSUME Due(p), w.n = 0 PROVE w.ek # None
    OBVIOUS
  <2>1. s.turns = N /\ s.ns = 0 /\ s.pending = None
    BY <1>2, <1>4 DEF Renewal, Due
  <2>2. OffersKem(s)
    BY <1>1, <2>1, Divides DEF OffersKem
  <2> QED BY <1>3, <2>2 DEF Signed
<1>11. Due(q) /\ Level(p) = Level(q) + 1 /\ w.n = 0 => w.ct # None
  <2> SUFFICES ASSUME Due(q), Level(p) = Level(q) + 1, w.n = 0
               PROVE  w.ct # None
    OBVIOUS
  <2>1. s.ns = 0 /\ s.offer # None
    BY <1>1, <1>2, <1>4 DEF Renewal
  <2> QED BY <1>3, <2>1 DEF Signed
<1>12. /\ Due(p)' = Due(p) /\ Due(q)' = Due(q)
  BY <1>1, <1>2 DEF Due
<1> HIDE DEF q, s, t, last
<1>13. Renewal(p)'
  <2>1. Due(p) => \A j \in DOMAIN queue'[q] :
          At(queue'[q][j]) = Level(p) /\ queue'[q][j].n = 0 =>
            queue'[q][j].ek # None
    BY <1>1, <1>4, <1>10 DEF Renewal, q
  <2> QED BY <1>1, <1>2, <1>4, <1>6, <1>7, <1>9, <1>12, <2>1
          DEF Renewal, q, s, t
<1>14. Renewal(q)'
  <2>1. Due(q) /\ Level(p) = Level(q) + 1 =>
          \A j \in DOMAIN queue'[q] :
            At(queue'[q][j]) = Level(p) /\ queue'[q][j].n = 0 =>
              queue'[q][j].ct # None
    BY <1>1, <1>4, <1>11 DEF Renewal
  <2> QED BY <1>1, <1>4, <1>7, <1>12, <2>1 DEF Renewal, t
<1> QED BY <1>13, <1>14, Either DEF q

\* Whatever is sent, the parties agree after it.
LEMMA SendingAgrees ==
  ASSUME IInv, Agreement, NEW p \in Party, Encrypt(p)
  PROVE  Agreement'
<1> DEFINE w == Wire(st[p])
           q == Peer(p)
<1>1. Posted(p, w) /\ w \in Message
  BY Posting
<1>2. /\ q \in Party /\ queue'[p] = queue[p] /\ faults' = faults
      /\ DOMAIN queue'[q] = DOMAIN queue[q] \cup {Len(queue[q]) + 1}
      /\ \A j \in DOMAIN queue[q] : queue'[q][j] = queue[q][j]
  BY <1>1, OtherParty, Queued DEF Posted, Encrypt
<1>3. (Orderly' => Orderly) /\ (Mild' => Mild)
  <2>1. Orderly' = Orderly /\ Happened("redeliver")' = Happened("redeliver")
    BY <1>2 DEF Orderly, Happened
  <2>2. \A r \in Party : \A j \in DOMAIN queue[r] :
          j \in DOMAIN queue'[r] /\ queue'[r][j] = queue[r][j]
    BY <1>2, Either
  <2> QED BY <2>1, <2>2 DEF Mild
<1>4. Tolerable' => Tolerable
  BY <1>3 DEF Tolerable
<1> HIDE DEF w, q
<1>5. Aligned'
  BY <1>1, <1>4, PostAligned DEF Aligned
<1>6. Opened'
  BY <1>1, <1>4, PostOpened
<1>7. MildInv'
  BY <1>1, <1>3, PostMildly DEF MildInv
<1>8. OrderInv'
  <2> SUFFICES ASSUME Orderly'
               PROVE  \A r \in Party : /\ Sender(r)' /\ Receiver(r)'
                                       /\ Tokens(r)' /\ Renewal(r)'
    BY DEF OrderInv
  <2> QED BY <1>1, <1>3, PostSender, PostReceiver, PostTokens, PostRenewal
<1> QED BY <1>5, <1>6, <1>7, <1>8 DEF Agreement

-----------------------------------------------------------------------------
(* The agreement is kept *)

LEMMA Starting == Init => Agreement
<1> SUFFICES ASSUME Init PROVE Agreement
  OBVIOUS
<1> DEFINE root == NextRoot(<<>>, DH(<<Alice, 1>>, <<Bob, 0>>))
<1>1. /\ <<Alice, 1>> \in Name /\ LevelOf(<<Alice, 1>>) = 1
      /\ <<Bob, 0>> \in Name /\ LevelOf(<<Bob, 0>>) = 0
  <2>1. <<Alice, 1>> \in Name /\ <<Alice, 1>>[1] = Alice
        /\ <<Alice, 1>>[2] = 1
    BY DEF Name, Party
  <2> QED BY <2>1, LevelFields, Zero
<1>2. root \in Root /\ Len(root) = 1 /\ Proper(root)
  <2> DEFINE r == <<>>
             x == <<Alice, 1>>
             y == <<Bob, 0>>
  <2>1. r \in Root /\ Len(r) = 0 /\ Proper(r)
    BY DEF Root, Proper
  <2>2. x \in Name /\ y \in Name /\ LevelOf(x) = 1 /\ LevelOf(y) = 0
    BY <1>1
  <2> HIDE DEF r, x, y
  <2>3. LevelOf(y) = Len(r) /\ LevelOf(x) = Len(r) + 1
    BY <2>1, <2>2
  <2>4. /\ NextRoot(r, DH(x, y)) \in Root
        /\ Len(NextRoot(r, DH(x, y))) = Len(r) + 1
        /\ Proper(NextRoot(r, DH(x, y)))
    BY <2>1, <2>2, <2>3, NextProper
  <2> QED BY <2>1, <2>4 DEF r, x, y
<1>3. /\ st[Alice] = AliceInit /\ st[Bob] = BobInit /\ Alice # Bob
      /\ minted[Alice] = 1 /\ minted[Bob] = 0
      /\ \A p \in Party : /\ queue[p] = <<>> /\ gone[p] = {} /\ tried[p] = {}
                          /\ opened[p] = <<>>
      /\ Party = {Alice, Bob} /\ Peer(Alice) = Bob /\ Peer(Bob) = Alice
  BY DEF Init, Party, Alice, Bob, Peer
<1>4. /\ st[Alice].dhs = <<Alice, 1>> /\ st[Alice].dhr = <<Bob, 0>>
      /\ st[Alice].rk = root /\ st[Alice].cks = ChainOf(root)
      /\ st[Alice].ckr = None /\ st[Alice].ns = 0 /\ st[Alice].nr = 0
      /\ st[Alice].pn = 0 /\ st[Alice].skipped = {} /\ st[Alice].turns = 1
      /\ st[Alice].remixes = 0 /\ st[Alice].pending = None
      /\ st[Alice].offer = None
  BY <1>3 DEF AliceInit
<1>5. /\ st[Bob].dhs = <<Bob, 0>> /\ st[Bob].dhr = None
      /\ st[Bob].rk = <<>> /\ st[Bob].cks = None
      /\ st[Bob].ckr = None /\ st[Bob].ns = 0 /\ st[Bob].nr = 0
      /\ st[Bob].pn = 0 /\ st[Bob].skipped = {} /\ st[Bob].turns = 0
      /\ st[Bob].remixes = 0 /\ st[Bob].pending = None
      /\ st[Bob].offer = None
  BY <1>3 DEF BobInit
<1>6. /\ Level(Alice) = 1 /\ Level(Bob) = 0 /\ Proper(st[Bob].rk)
      /\ ChainOf(root).mix = None
  BY <1>2, <1>4, <1>5 DEF Level, Proper, ChainOf
<1>7. MAX_SKIP \in Nat /\ PQ_REMIX_EVERY_N_TURNS \in Nat \ {0}
  BY RatchetAssumption
<1> HIDE DEF root
<1>8. Aligned
  <2>1. Shape(Alice)
    <3>1. <<Bob, 0>> # None
      BY <1>1, NoneAssumption
    <3> QED BY <1>1, <1>2, <1>3, <1>4, <1>5, <1>6, <3>1 DEF Shape
  <2>2. Shape(Bob)
    BY <1>1, <1>3, <1>5, <1>6 DEF Shape
  <2>3. \A p \in Party : Letters(p)
    BY <1>3 DEF Letters
  <2>4. Near
    BY <1>6 DEF Near
  <2> QED BY <1>3, <2>1, <2>2, <2>3, <2>4 DEF Aligned
<1>9. Opened
  BY <1>3 DEF Opened
<1>10. MildInv
  <2>1. Mildly(Alice)
    BY <1>3, <1>4, <1>6, <1>7 DEF Mildly, Waiting
  <2>2. Mildly(Bob)
    BY <1>3, <1>5, <1>7 DEF Mildly, Waiting
  <2> QED BY <1>3, <2>1, <2>2 DEF MildInv
<1>11. OrderInv
  <2>1. \A p \in Party : Offers(p) = {} /\ Answers(p) = {}
    BY <1>3 DEF Offers, Answers, Waiting
  <2>2. Sender(Alice) /\ Sender(Bob)
    BY <1>3, <1>4, <1>5, <1>6 DEF Sender
  <2>3. Receiver(Alice) /\ Receiver(Bob)
    BY <1>3, <1>4, <1>5 DEF Receiver
  <2>4. Tokens(Alice) /\ Tokens(Bob)
    BY <1>3, <1>4, <1>5, <2>1 DEF Tokens
  <2>5. Renewal(Alice) /\ Renewal(Bob)
    BY <1>3, <1>4, <1>5, <1>6, <1>7 DEF Renewal, Due
  <2> QED BY <1>3, <2>2, <2>3, <2>4, <2>5 DEF OrderInv
<1> QED BY <1>8, <1>9, <1>10, <1>11 DEF Agreement

\* A fault is remembered.
LEMMA FaultFacts ==
  ASSUME IInv, NEW kind, Fault(kind)
  PROVE  /\ ~Orderly'
         /\ Happened("redeliver") => Happened("redeliver")'
         /\ kind = "redeliver" => Happened("redeliver")'
<1>1. faults \in Seq(Faults) /\ kind \in Faults
      /\ faults' = Append(faults, kind)
  BY DEF IInv, TypeOK, Fault
<1>2. /\ DOMAIN faults' = 1 .. Len(faults) + 1 /\ Len(faults) \in Nat
      /\ DOMAIN faults = 1 .. Len(faults)
      /\ faults'[Len(faults) + 1] = kind
      /\ \A i \in DOMAIN faults : faults'[i] = faults[i]
      /\ faults' # <<>>
  BY <1>1
<1> QED BY <1>2 DEF Orderly, Happened

LEMMA LosingAgrees ==
  ASSUME IInv, Agreement, NEW p \in Party, Lose(p)
  PROVE  Agreement'
<1>1. /\ UNCHANGED <<st, minted, queue, tried, opened>>
      /\ \E i \in Waiting(p) : gone' = [gone EXCEPT ![p] = @ \cup {i}]
      /\ gone \in [Party -> SUBSET Nat]
  BY DEF Lose, IInv, TypeOK
<1>2. \A r \in Party : gone[r] \subseteq gone'[r]
  BY <1>1
<1>3. ~Orderly' /\ (Mild' => Mild) /\ (Tolerable' => Tolerable)
  <2>1. ~Orderly' /\ (Happened("redeliver") => Happened("redeliver")')
    BY FaultFacts DEF Lose
  <2>2. Mild' => Mild
    BY <1>1, <2>1 DEF Mild
  <2> QED BY <2>1, <2>2 DEF Tolerable
<1>4. \A r \in Party : Level(r)' = Level(r)
  BY <1>1 DEF Level
<1>5. Aligned'
  <2> SUFFICES ASSUME Tolerable'
               PROVE  Near' /\ \A r \in Party : Shape(r)' /\ Letters(r)'
    BY DEF Aligned
  <2>1. Near /\ \A r \in Party : Shape(r) /\ Letters(r)
    BY <1>3 DEF Agreement, Aligned
  <2>2. Near'
    BY <1>4, <2>1 DEF Near, Party
  <2> SUFFICES ASSUME NEW r \in Party PROVE Shape(r)' /\ Letters(r)'
    BY <2>2
  <2>3. Level(r)' = Level(r) /\ Level(Peer(r))' = Level(Peer(r))
    BY <1>4, OtherParty
  <2>4. Shape(r)'
    BY <1>1, <2>1, <2>3 DEF Shape
  <2>5. Letters(r)'
    BY <1>1, <2>1, <2>3 DEF Letters
  <2> QED BY <2>4, <2>5
<1>6. Opened'
  BY <1>1, <1>2, <1>3 DEF Agreement, Opened
<1>7. MildInv'
  <2> SUFFICES ASSUME Mild', NEW r \in Party PROVE Mildly(r)'
    BY DEF MildInv
  <2>1. Mildly(r)
    BY <1>3 DEF Agreement, MildInv
  <2>2. \A j \in Waiting(r)' : j \in Waiting(r)
    BY <1>1, <1>2 DEF Waiting
  <2> QED BY <1>1, <1>4, <2>1, <2>2 DEF Mildly
<1>8. OrderInv'
  BY <1>3 DEF OrderInv
<1> QED BY <1>5, <1>6, <1>7, <1>8 DEF Agreement

LEMMA StandingAgrees ==
  ASSUME Agreement, UNCHANGED vars
  PROVE  Agreement'
<1>1. /\ st' = st /\ minted' = minted /\ queue' = queue /\ gone' = gone
      /\ tried' = tried /\ opened' = opened /\ faults' = faults
  BY DEF vars
<1>2. (Tolerable' = Tolerable) /\ (Mild' = Mild) /\ (Orderly' = Orderly)
  BY <1>1 DEF Tolerable, Mild, Orderly, Happened
<1>3. Aligned'
  BY <1>1, <1>2 DEF Agreement, Aligned, Near, Shape, Letters, Level
<1>4. Opened'
  BY <1>1, <1>2 DEF Agreement, Opened
<1>5. MildInv'
  BY <1>1, <1>2 DEF Agreement, MildInv, Mildly, Waiting, Level
<1>6. OrderInv'
  <2>1. \A r \in Party : /\ Sender(r)' = Sender(r)
                         /\ Receiver(r)' = Receiver(r)
    BY <1>1 DEF Sender, Receiver, Level
  <2>2. \A r \in Party : Tokens(r)' = Tokens(r)
    BY <1>1 DEF Tokens, Offers, Answers, Waiting
  <2>3. \A r \in Party : Renewal(r)' = Renewal(r)
    BY <1>1 DEF Renewal, Due, Level
  <2> QED BY <1>2, <2>1, <2>2, <2>3 DEF Agreement, OrderInv
<1> QED BY <1>3, <1>4, <1>5, <1>6 DEF Agreement

LEMMA AgreementKept == IInv /\ IInv' /\ Agreement /\ [Next]_vars => Agreement'
<1> SUFFICES ASSUME IInv, IInv', Agreement, [Next]_vars PROVE Agreement'
  OBVIOUS
<1>1. CASE UNCHANGED vars
  BY <1>1, StandingAgrees
<1>2. ASSUME NEW p \in Party, Encrypt(p) PROVE Agreement'
  BY <1>2, SendingAgrees
<1>3. ASSUME NEW p \in Party, Deliver(p) PROVE Agreement'
  <2>1. PICK i \in Waiting(p) : InOrder(p, i) /\ Receive(p, i)
                                /\ UNCHANGED faults
    BY <1>3 DEF Deliver
  <2>2. (Orderly' => Orderly) /\ (Mild' => Mild)
    BY <2>1 DEF Orderly, Mild, Happened, Receive
  <2>3. Tolerable' => Tolerable /\ MayCome(p, i)
    BY <2>1, <2>2 DEF Tolerable, MayCome
  <2> QED BY <2>1, <2>2, <2>3, ReceivingAgrees
<1>4. ASSUME NEW p \in Party, Overtake(p) PROVE Agreement'
  <2>1. PICK i \in Waiting(p) : Receive(p, i) /\ Fault("overtake")
    BY <1>4 DEF Overtake
  <2>2. ~Orderly' /\ (Happened("redeliver") => Happened("redeliver")')
    BY <2>1, FaultFacts
  <2>3. Mild' => Mild
    BY <2>1, <2>2 DEF Mild, Receive
  <2>4. Tolerable' => Tolerable /\ MayCome(p, i)
    BY <2>2, <2>3 DEF Tolerable, MayCome
  <2> QED BY <2>1, <2>2, <2>3, <2>4, ReceivingAgrees
<1>5. ASSUME NEW p \in Party, Lose(p) PROVE Agreement'
  BY <1>5, LosingAgrees
<1>6. ASSUME NEW p \in Party, Redeliver(p) PROVE Agreement'
  <2>1. UNCHANGED <<st, minted, queue, tried, opened>> /\ Fault("redeliver")
    BY <1>6 DEF Redeliver
  <2>2. ~Orderly' /\ ~Mild'
    BY <2>1, FaultFacts DEF Mild
  <2>3. Opened'
    BY <2>1, <2>2 DEF Agreement, Opened, Tolerable
  <2> QED BY <2>2, <2>3 DEF Agreement, Aligned, MildInv, OrderInv, Tolerable
<1> QED BY <1>1, <1>2, <1>3, <1>4, <1>5, <1>6 DEF Next

\* As long as the network is orderly, or mild, the parties stay next to each
\* other on the ladder of the chains, and every message to come is of the next
\* chain, of the present one, or in the cache (ratchet.rs, dh_ratchet_step).
THEOREM PartiesAgree == Spec => []Agreement
BY Starting, Invariance, AgreementKept, PTL DEF Spec

\* On an orderly network every message decrypts; reordering and loss cost
\* nothing but the lost messages, as long as no post-quantum answer was sent
\* and no chain outgrows the cache (ratchet.rs, skip_message_keys_to).
THEOREM NothingElseIsLost == Spec => []ReorderingTolerated
<1>1. Agreement => ReorderingTolerated
  BY DEF Agreement, Opened, Tolerable, Mild, ReorderingTolerated
<1> QED BY <1>1, PartiesAgree, PTL

\* On an orderly network a party past the turn that brings an offer has mixed
\* in a secret (ratchet.rs, PQ_REMIX_EVERY_N_TURNS).
THEOREM HealsInTime == Spec => []RemixedInTime
<1>1. IInv /\ Agreement => RemixedInTime
  <2> SUFFICES ASSUME IInv, Agreement, Orderly, NEW p \in Party,
                      st[p].turns > PQ_REMIX_EVERY_N_TURNS
               PROVE  st[p].remixes > 0
    BY DEF RemixedInTime
  <2>1. /\ st[p].turns \in Nat /\ st[p].remixes \in Nat
        /\ PQ_REMIX_EVERY_N_TURNS \in Nat
    BY PartyFacts, RatchetAssumption
  <2>2. st[p].remixes = 0 => st[p].turns <= PQ_REMIX_EVERY_N_TURNS
    BY DEF Agreement, OrderInv, Renewal
  <2> QED BY <2>1, <2>2
<1> QED BY <1>1, Invariance, PartiesAgree, PTL

=============================================================================
