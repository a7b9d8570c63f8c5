----------------------------- MODULE LogProofs -----------------------------
(***************************************************************************)
(* The properties of the two components whose state is a log that others   *)
(* follow.  Alias: for any names, queues, owners and salts, any scale of   *)
(* prices, any tolerance and any number of requests and epochs.  Group:    *)
(* for any devices, invites and texts, and any number of members added,    *)
(* polls under way and faults.                                             *)
(***************************************************************************)
EXTENDS Alias, Group, TLAPS, FiniteSetTheorems, WellFoundedInduction,
        SequenceTheorems

-----------------------------------------------------------------------------
(* Alias *)

\* What a request was admitted with, and what the stamp it carries is for.
AdmittedWell(r) ==
  /\ r.kind = "register" =>
       r.target \in Name /\ r.owner \in Owner /\ (r.early \/ r.signed)
  /\ r.early \/ r.target \in reserved
  /\ r.gate \in 0 .. MaxEpoch
  /\ r.at = "hashing" => r.stamp \in Mined /\ r.stamp.resource = r.target
Admission == \A r \in requests : AdmittedWell(r)

\* A stamp that bought something is in the replay set, or out of date for good.
Replay ==
  /\ \A b \in bought : b.stamp \in pow_stamps \/ Expiry(b.stamp) <= now
  /\ OnePurchaseUnlessLate

\* The requests that may spend a stamp of so many bits, and those that did:
\* together they were counted, and they are within the scale.
Pending(k, t, e, bits) ==
  {r \in requests : /\ r.at # "gate" /\ r.kind = k /\ r.target = t
                    /\ r.gate = e /\ r.required <= bits}
Cheap(k, t, e, bits) ==
  {b \in bought : /\ b.kind = k /\ b.stamp.resource = t
                  /\ b.gate = e /\ b.stamp.bits <= bits}
Scale(k, bits) ==
  ((bits - Price[k].base) \div Price[k].per + 1) * Price[k].step
Paying(k, t, e, bits) ==
  Cardinality(Pending(k, t, e, bits)) + Cardinality(Cheap(k, t, e, bits))
Pricing ==
  \A k \in Kind, t \in Resource, e \in 0 .. MaxEpoch :
    \A bits \in Price[k].base .. Price[k].max - 1 :
      /\ Paying(k, t, e, bits) <= counters[e][k][t]
      /\ Paying(k, t, e, bits) <= Scale(k, bits)

\* The last of the appends of a name reports its row; with none, the log does.
Numbered ==
  /\ \A a \in appends : a.no <= changes
  /\ \A a, b \in appends : a.no = b.no => a = b
Reported ==
  \A n \in Name \ adrift :
    /\ (\A a \in appends : a.lookup_key # n) => Latest(n) = aliases[n]
    /\ \A a \in appends :
         /\ a.lookup_key = n
         /\ \A b \in appends : b.lookup_key = n => b.no <= a.no
         => a.alias_pub = aliases[n]

IInv == TypeOK /\ Admission /\ Replay /\ Pricing /\ Numbered /\ Reported

-----------------------------------------------------------------------------
(* Numbers *)

LEMMA MinNat ==
  ASSUME NEW S, S \subseteq Nat, S # {}
  PROVE  Min(S) \in S /\ \A x \in S : Min(S) <= x
<1> DEFINE R == OpToRel(<, Nat)
<1>1. IsWellFoundedOn(R, Nat)
  BY NatLessThanWellFounded
<1>2. \A x, y \in Nat : <<y, x>> \in R <=> y < x
  BY DEF OpToRel
<1> HIDE DEF R
<1>3. \E x \in S : \A y \in S : x <= y
  <2>1. PICK x \in S : \A y \in S : ~(<<y, x>> \in R)
    BY <1>1, WFMin
  <2>2. ASSUME NEW y \in S PROVE x <= y
    <3>1. x \in Nat /\ y \in Nat
      OBVIOUS
    <3>2. ~(y < x)
      BY <1>2, <2>1, <3>1
    <3> QED BY <3>1, <3>2
  <2> QED BY <2>2
<1> QED BY <1>3 DEF Min

\* The greatest of some indices is the least of their bounds.
LEMMA MaxIndex ==
  ASSUME NEW n \in Nat, NEW S, S \subseteq 1 .. n, S # {}
  PROVE  Max(S) \in S /\ \A x \in S : x <= Max(S)
<1> DEFINE T == {m \in Nat : \A y \in S : y <= m}
           m == Min(T)
<1>1. n \in T
  OBVIOUS
<1>2. m \in T /\ \A x \in T : m <= x
  BY <1>1, MinNat
<1> HIDE DEF m
<1>3. m \in Nat /\ \A y \in S : y \in Nat /\ y <= m /\ y > 0
  BY <1>2
<1>4. m \in S
  <2> SUFFICES ASSUME m \notin S PROVE FALSE
    OBVIOUS
  <2>1. \A y \in S : y <= m - 1
    BY <1>3
  <2>2. m - 1 \in Nat
    <3>1. PICK y \in S : TRUE
      OBVIOUS
    <3> QED BY <1>3, <3>1
  <2>3. m - 1 \in T
    BY <2>1, <2>2
  <2> QED BY <1>2, <1>3, <2>3
<1>5. \E x \in S : \A y \in S : x >= y
  BY <1>3, <1>4
<1>6. Max(S) \in S /\ \A y \in S : Max(S) >= y
  BY <1>5 DEF Max
<1> QED BY <1>3, <1>6

LEMMA Division ==
  ASSUME NEW a \in Nat, NEW d \in Nat \ {0}
  PROVE  a \div d \in Nat /\ (a \div d) * d <= a /\ a < (a \div d + 1) * d
OBVIOUS

LEMMA PriceFacts ==
  ASSUME NEW k \in Kind
  PROVE  /\ Price[k].base \in Nat /\ Price[k].max \in Nat
         /\ Price[k].step \in Nat \ {0} /\ Price[k].per \in Nat \ {0}
         /\ Price[k].base <= Price[k].max
BY AliasAssumption

LEMMA Monotone ==
  ASSUME NEW x \in Nat, NEW y \in Nat, NEW d \in Nat, x <= y
  PROVE  x * d <= y * d
<1>1. PICK z \in Nat : y = x + z
  <2>1. y - x \in Nat /\ y = x + (y - x)
    OBVIOUS
  <2> QED BY <2>1
<1>2. y * d = x * d + z * d /\ z * d >= 0 /\ x * d \in Nat /\ z * d \in Nat
  BY <1>1
<1> QED BY <1>2

\* The scale bounds the attempts that are priced at so many bits or fewer.
LEMMA OnTheScale ==
  ASSUME NEW k \in Kind, NEW count \in Nat \ {0}
  PROVE  /\ adaptiveBits(k, count) \in Nat
         /\ \A bits \in Price[k].base .. Price[k].max - 1 :
              adaptiveBits(k, count) <= bits => count <= Scale(k, bits)
<1> DEFINE base == Price[k].base
           per == Price[k].per
           stp == Price[k].step
           top == Price[k].max
           q == (count - 1) \div stp
           x == base + q * per
<1>1. /\ base \in Nat /\ top \in Nat /\ base <= top
      /\ stp \in Nat \ {0} /\ per \in Nat \ {0}
  BY PriceFacts
<1>2. adaptiveBits(k, count) = Min({x, top})
  BY DEF adaptiveBits
<1> HIDE DEF base, per, stp, top
<1>3. q \in Nat /\ count <= (q + 1) * stp
  <2>1. count - 1 \in Nat
    OBVIOUS
  <2>2. q \in Nat /\ count - 1 < (q + 1) * stp
    BY <1>1, <2>1, Division
  <2>3. (q + 1) * stp \in Nat
    BY <1>1, <2>2
  <2> QED BY <2>1, <2>2, <2>3
<1> HIDE DEF q
<1>4. x \in Nat
  BY <1>1, <1>3
<1>5. /\ Min({x, top}) \in {x, top}
      /\ Min({x, top}) <= x /\ Min({x, top}) <= top
  BY <1>1, <1>4, MinNat
<1>6. ASSUME NEW bits \in base .. top - 1, adaptiveBits(k, count) <= bits
      PROVE  count <= Scale(k, bits)
  <2> DEFINE d == (bits - base) \div per
  <2>1. x <= bits /\ bits \in Nat /\ bits - base \in Nat
    BY <1>1, <1>2, <1>4, <1>5, <1>6
  <2>2. d \in Nat /\ bits - base < (d + 1) * per
    BY <1>1, <2>1, Division
  <2>3. Scale(k, bits) = (d + 1) * stp
    BY DEF Scale, base, per, stp
  <2> HIDE DEF d
  <2>4. q <= d
    <3> SUFFICES ASSUME d + 1 <= q PROVE FALSE
      BY <1>3, <2>2
    <3>1. (d + 1) * per <= q * per
      BY <1>1, <1>3, <2>2, Monotone
    <3>2. (d + 1) * per \in Nat /\ q * per \in Nat
      BY <1>1, <1>3, <2>2
    <3> QED BY <1>1, <2>1, <2>2, <3>1, <3>2
  <2>5. (q + 1) * stp <= (d + 1) * stp
    BY <1>1, <1>3, <2>2, <2>4, Monotone
  <2>6. (d + 1) * stp \in Nat /\ (q + 1) * stp \in Nat
    BY <1>1, <1>3, <2>2
  <2> QED BY <1>3, <2>3, <2>5, <2>6
<1> QED BY <1>1, <1>2, <1>4, <1>5, <1>6 DEF base, top

-----------------------------------------------------------------------------
(* What the requests pay *)

LEMMA PayingFacts ==
  ASSUME TypeOK, NEW k, NEW t, NEW e, NEW bits
  PROVE  /\ IsFiniteSet(Pending(k, t, e, bits))
         /\ Cardinality(Pending(k, t, e, bits)) \in Nat
         /\ IsFiniteSet(Cheap(k, t, e, bits))
         /\ Cardinality(Cheap(k, t, e, bits)) \in Nat
<1>1. /\ Pending(k, t, e, bits) \in SUBSET requests
      /\ Cheap(k, t, e, bits) \in SUBSET bought
  BY DEF Pending, Cheap
<1>2. IsFiniteSet(Pending(k, t, e, bits)) /\ IsFiniteSet(Cheap(k, t, e, bits))
  BY <1>1, FS_Subset DEF TypeOK
<1> QED BY <1>2, FS_CardinalityType

LEMMA PurchaseFacts ==
  ASSUME NEW r \in Purchase
  PROVE  /\ r.kind \in Kind /\ r.target \in Resource /\ r.gate \in Nat
         /\ r.required \in Nat /\ r.at \in {"gate", "priced", "hashing"}
         /\ r.early \in BOOLEAN /\ r.signed \in BOOLEAN
         /\ r.no \in Nat /\ r.owner \in Owner \cup {None}
BY DEF Purchase

LEMMA CounterFacts ==
  ASSUME TypeOK, NEW k \in Kind, NEW t \in Resource, NEW e \in 0 .. MaxEpoch,
         NEW bits \in Price[k].base .. Price[k].max - 1
  PROVE  counters[e][k][t] \in Nat /\ Scale(k, bits) \in Nat /\ bits \in Nat
<1>1. counters[e][k][t] \in Nat
  BY DEF TypeOK
<1>2. bits \in Nat /\ bits - Price[k].base \in Nat
  BY PriceFacts
<1>3. (bits - Price[k].base) \div Price[k].per \in Nat
  BY <1>2, PriceFacts, Division
<1> QED BY <1>1, <1>2, <1>3, PriceFacts DEF Scale

LEMMA OneMore ==
  ASSUME NEW S, NEW x, IsFiniteSet(S), NEW T, T \subseteq S \cup {x}
  PROVE  /\ IsFiniteSet(T) /\ Cardinality(T) \in Nat
         /\ Cardinality(S) \in Nat /\ Cardinality(T) <= Cardinality(S) + 1
<1> DEFINE U == S \cup {x}
<1>1. /\ IsFiniteSet(U)
      /\ Cardinality(U) =
           IF x \in S THEN Cardinality(S) ELSE Cardinality(S) + 1
  BY FS_AddElement
<1>2. T \in SUBSET U
  OBVIOUS
<1> HIDE DEF U
<1>3. Cardinality(S) \in Nat
  BY FS_CardinalityType
<1>4. IsFiniteSet(T) /\ Cardinality(T) <= Cardinality(U)
  BY <1>1, <1>2, FS_Subset
<1>5. Cardinality(T) \in Nat
  BY <1>4, FS_CardinalityType
<1> QED BY <1>1, <1>3, <1>4, <1>5

LEMMA OneLess ==
  ASSUME NEW S, NEW x \in S, IsFiniteSet(S), NEW T, T \subseteq S \ {x}
  PROVE  /\ IsFiniteSet(T) /\ Cardinality(T) \in Nat
         /\ Cardinality(S) \in Nat /\ Cardinality(T) <= Cardinality(S) - 1
<1> DEFINE U == S \ {x}
<1>1. IsFiniteSet(U) /\ Cardinality(U) = Cardinality(S) - 1
  BY FS_RemoveElement
<1>2. T \in SUBSET U
  OBVIOUS
<1> HIDE DEF U
<1>3. Cardinality(S) \in Nat
  BY FS_CardinalityType
<1>4. IsFiniteSet(T) /\ Cardinality(T) <= Cardinality(U)
  BY <1>1, <1>2, FS_Subset
<1>5. Cardinality(T) \in Nat
  BY <1>4, FS_CardinalityType
<1> QED BY <1>1, <1>3, <1>4, <1>5

\* Fewer requests pay no more, and neither do new ones that have no price yet
\* or the highest.
LEMMA FewerPay ==
  ASSUME TypeOK, Pricing, UNCHANGED <<bought, counters>>,
         \A r \in requests' : \/ r \in requests \/ r.at = "gate"
                              \/ /\ r.kind \in Kind /\ r.required \in Nat
                                 /\ r.required >= Price[r.kind].max
  PROVE  Pricing'
<1> SUFFICES ASSUME NEW k \in Kind, NEW t \in Resource,
                    NEW e \in 0 .. MaxEpoch,
                    NEW bits \in Price[k].base .. Price[k].max - 1
             PROVE  /\ Paying(k, t, e, bits)' <= counters[e][k][t]
                    /\ Paying(k, t, e, bits)' <= Scale(k, bits)
  BY DEF Pricing, Scale
<1> DEFINE P == Pending(k, t, e, bits)
           Q == {r \in requests' : /\ r.at # "gate" /\ r.kind = k
                                   /\ r.target = t /\ r.gate = e
                                   /\ r.required <= bits}
           C == Cheap(k, t, e, bits)
<1>1. Q \in SUBSET P
  BY PriceFacts DEF Pending
<1>2. /\ Paying(k, t, e, bits)' = Cardinality(Q) + Cardinality(C)
      /\ Paying(k, t, e, bits) = Cardinality(P) + Cardinality(C)
  BY DEF Paying, Pending, Cheap
<1>3. IsFiniteSet(P) /\ Cardinality(P) \in Nat /\ Cardinality(C) \in Nat
  BY PayingFacts
<1> HIDE DEF P, Q, C
<1>4. Cardinality(Q) \in Nat /\ Cardinality(Q) <= Cardinality(P)
  BY <1>1, <1>3, FS_Subset, FS_CardinalityType
<1>5. /\ Paying(k, t, e, bits) <= counters[e][k][t]
      /\ Paying(k, t, e, bits) <= Scale(k, bits)
  BY DEF Pricing
<1> QED BY <1>2, <1>3, <1>4, <1>5, CounterFacts

LEMMA VerifyPays ==
  ASSUME TypeOK, Pricing, NEW r \in requests, NEW new,
         requests' = (requests \ {r}) \cup {new},
         r.at = "priced", new.at = "hashing", new.kind = r.kind,
         new.target = r.target, new.gate = r.gate, new.required = r.required,
         UNCHANGED <<bought, counters>>
  PROVE  Pricing'
<1> SUFFICES ASSUME NEW k \in Kind, NEW t \in Resource,
                    NEW e \in 0 .. MaxEpoch,
                    NEW bits \in Price[k].base .. Price[k].max - 1
             PROVE  /\ Paying(k, t, e, bits)' <= counters[e][k][t]
                    /\ Paying(k, t, e, bits)' <= Scale(k, bits)
  BY DEF Pricing, Scale
<1> DEFINE P == Pending(k, t, e, bits)
           Q == {x \in requests' : /\ x.at # "gate" /\ x.kind = k
                                   /\ x.target = t /\ x.gate = e
                                   /\ x.required <= bits}
           C == Cheap(k, t, e, bits)
<1>1. Q \in SUBSET P \/ (r \in P /\ Q \in SUBSET ((P \ {r}) \cup {new}))
  BY DEF Pending
<1>2. /\ Paying(k, t, e, bits)' = Cardinality(Q) + Cardinality(C)
      /\ Paying(k, t, e, bits) = Cardinality(P) + Cardinality(C)
  BY DEF Paying, Pending, Cheap
<1>3. IsFiniteSet(P) /\ Cardinality(P) \in Nat /\ Cardinality(C) \in Nat
  BY PayingFacts
<1> HIDE DEF P, Q, C
<1>4. Cardinality(Q) \in Nat /\ Cardinality(Q) <= Cardinality(P)
  <2>1. CASE Q \in SUBSET P
    BY <1>3, <2>1, FS_Subset, FS_CardinalityType
  <2>2. CASE r \in P /\ Q \in SUBSET ((P \ {r}) \cup {new})
    <3> DEFINE R == P \ {r}
    <3>1. IsFiniteSet(R) /\ Cardinality(R) <= Cardinality(P) - 1
      BY <1>3, <2>2, OneLess
    <3>2. Q \subseteq R \cup {new}
      BY <2>2
    <3> HIDE DEF R
    <3>3. /\ Cardinality(Q) \in Nat /\ Cardinality(R) \in Nat
          /\ Cardinality(Q) <= Cardinality(R) + 1
      BY <3>1, <3>2, OneMore
    <3> QED BY <1>3, <3>1, <3>3
  <2> QED BY <1>1, <2>1, <2>2
<1>5. /\ Paying(k, t, e, bits) <= counters[e][k][t]
      /\ Paying(k, t, e, bits) <= Scale(k, bits)
  BY DEF Pricing
<1> QED BY <1>2, <1>3, <1>4, <1>5, CounterFacts

\* One more was counted, and its price is on the scale of the count.
LEMMA CountPays ==
  ASSUME TypeOK, Pricing, NEW r \in requests, NEW new, NEW count,
         r.kind \in Kind, r.target \in Resource, r.gate \in 0 .. MaxEpoch,
         count = counters[r.gate][r.kind][r.target] + 1,
         counters' = [counters EXCEPT ![r.gate][r.kind][r.target] = count],
         requests' = (requests \ {r}) \cup {new},
         new.kind = r.kind, new.target = r.target, new.gate = r.gate,
         new.required = adaptiveBits(r.kind, count),
         UNCHANGED bought
  PROVE  Pricing'
<1> SUFFICES ASSUME NEW k \in Kind, NEW t \in Resource,
                    NEW e \in 0 .. MaxEpoch,
                    NEW bits \in Price[k].base .. Price[k].max - 1
             PROVE  /\ Paying(k, t, e, bits)' <= counters'[e][k][t]
                    /\ Paying(k, t, e, bits)' <= Scale(k, bits)
  BY DEF Pricing, Scale
<1> DEFINE P == Pending(k, t, e, bits)
           Q == {x \in requests' : /\ x.at # "gate" /\ x.kind = k
                                   /\ x.target = t /\ x.gate = e
                                   /\ x.required <= bits}
           C == Cheap(k, t, e, bits)
           mine == k = r.kind /\ t = r.target /\ e = r.gate
           n == counters[e][k][t]
<1>1. /\ Q \in SUBSET P \/ (mine /\ new.required <= bits)
      /\ Q \in SUBSET (P \cup {new})
  BY DEF Pending
<1>2. /\ Paying(k, t, e, bits)' = Cardinality(Q) + Cardinality(C)
      /\ Paying(k, t, e, bits) = Cardinality(P) + Cardinality(C)
  BY DEF Paying, Pending, Cheap
<1>3. IsFiniteSet(P) /\ Cardinality(P) \in Nat /\ Cardinality(C) \in Nat
  BY PayingFacts
<1>4. /\ counters'[e][k][t] = IF mine THEN n + 1 ELSE n
      /\ mine => count = n + 1
  BY DEF TypeOK
<1>5. /\ Paying(k, t, e, bits) <= n
      /\ Paying(k, t, e, bits) <= Scale(k, bits)
  BY DEF Pricing
<1>6. n \in Nat /\ Scale(k, bits) \in Nat /\ bits \in Nat
  BY CounterFacts
<1> HIDE DEF P, Q, C, n
<1>7. CASE Q \in SUBSET P
  <2>1. Cardinality(Q) \in Nat /\ Cardinality(Q) <= Cardinality(P)
    BY <1>3, <1>7, FS_Subset, FS_CardinalityType
  <2> QED BY <1>2, <1>3, <1>4, <1>5, <1>6, <2>1
<1>8. CASE mine /\ new.required <= bits
  <2>1. Cardinality(Q) \in Nat /\ Cardinality(Q) <= Cardinality(P) + 1
    BY <1>1, <1>3, OneMore
  <2>2. Paying(k, t, e, bits)' <= n + 1
    BY <1>2, <1>3, <1>5, <1>6, <2>1
  <2>3. n + 1 <= Scale(k, bits)
    <3>1. n + 1 \in Nat \ {0}
      BY <1>6
    <3> QED BY <1>4, <1>8, <3>1, OnTheScale
  <2>4. Paying(k, t, e, bits)' \in Nat
    BY <1>2, <1>3, <2>1
  <2> QED BY <1>4, <1>6, <1>8, <2>2, <2>3, <2>4
<1> QED BY <1>1, <1>7, <1>8

\* A request that spends a stamp no longer may.
LEMMA SpendPays ==
  ASSUME TypeOK, Pricing, NEW r \in requests, NEW b,
         requests' = requests \ {r}, bought' = bought \cup {b},
         r.at = "hashing", b.kind = r.kind, b.gate = r.gate,
         b.stamp.resource = r.target, b.stamp.bits \in Nat, r.required \in Nat,
         b.stamp.bits >= r.required,
         UNCHANGED counters
  PROVE  Pricing'
<1> SUFFICES ASSUME NEW k \in Kind, NEW t \in Resource,
                    NEW e \in 0 .. MaxEpoch,
                    NEW bits \in Price[k].base .. Price[k].max - 1
             PROVE  /\ Paying(k, t, e, bits)' <= counters[e][k][t]
                    /\ Paying(k, t, e, bits)' <= Scale(k, bits)
  BY DEF Pricing, Scale
<1> DEFINE P == Pending(k, t, e, bits)
           Q == {x \in requests' : /\ x.at # "gate" /\ x.kind = k
                                   /\ x.target = t /\ x.gate = e
                                   /\ x.required <= bits}
           C == Cheap(k, t, e, bits)
           D == {x \in bought' : /\ x.kind = k /\ x.stamp.resource = t
                                 /\ x.gate = e /\ x.stamp.bits <= bits}
<1>0. counters[e][k][t] \in Nat /\ Scale(k, bits) \in Nat /\ bits \in Nat
  BY CounterFacts
<1>1. \/ Q \in SUBSET P /\ D = C
      \/ r \in P /\ Q \in SUBSET (P \ {r}) /\ D \subseteq C \cup {b}
  <2>1. Q \in SUBSET P /\ Q \in SUBSET (P \ {r})
    BY DEF Pending
  <2>2. D \subseteq C \cup {b} /\ C \subseteq D /\ (b \in C => b \in D)
    BY DEF Cheap
  <2>3. b \in D => r \in P
    BY <1>0 DEF Pending
  <2>4. b \notin D => D = C
    BY <2>2
  <2> QED BY <2>1, <2>2, <2>3, <2>4
<1>2. /\ Paying(k, t, e, bits)' = Cardinality(Q) + Cardinality(D)
      /\ Paying(k, t, e, bits) = Cardinality(P) + Cardinality(C)
  BY DEF Paying, Pending, Cheap
<1>3. /\ IsFiniteSet(P) /\ Cardinality(P) \in Nat
      /\ IsFiniteSet(C) /\ Cardinality(C) \in Nat
  BY PayingFacts
<1>4. /\ Paying(k, t, e, bits) <= counters[e][k][t]
      /\ Paying(k, t, e, bits) <= Scale(k, bits)
  BY DEF Pricing
<1> HIDE DEF P, Q, C, D
<1>5. CASE Q \in SUBSET P /\ D = C
  <2>1. Cardinality(Q) \in Nat /\ Cardinality(Q) <= Cardinality(P)
    BY <1>3, <1>5, FS_Subset, FS_CardinalityType
  <2> QED BY <1>0, <1>2, <1>3, <1>4, <1>5, <2>1
<1>6. CASE r \in P /\ Q \in SUBSET (P \ {r}) /\ D \subseteq C \cup {b}
  <2>1. Cardinality(Q) \in Nat /\ Cardinality(Q) <= Cardinality(P) - 1
    BY <1>3, <1>6, OneLess
  <2>2. Cardinality(D) \in Nat /\ Cardinality(D) <= Cardinality(C) + 1
    BY <1>3, <1>6, OneMore
  <2> QED BY <1>0, <1>2, <1>3, <1>4, <2>1, <2>2
<1> QED BY <1>1, <1>5, <1>6

-----------------------------------------------------------------------------
(* What the log names *)

Line == [lookup_key : Name, alias_pub : Owner \cup {None},
         event : {"register", "revoke"}]

\* An entry at the end is the latest of its name, and of no other.
LEMMA AppendedLatest ==
  ASSUME TypeOK, NEW a \in Line, kt_entries' = Append(kt_entries, a),
         NEW n \in Name
  PROVE  /\ n = a.lookup_key => Latest(n)' = a.alias_pub
         /\ n # a.lookup_key => Latest(n)' = Latest(n)
<1> DEFINE len == Len(kt_entries)
           S == {i \in DOMAIN kt_entries : kt_entries[i].lookup_key = n}
           T == {i \in DOMAIN kt_entries' : kt_entries'[i].lookup_key = n}
<1>1. /\ len \in Nat /\ DOMAIN kt_entries = 1 .. len
      /\ DOMAIN kt_entries' = 1 .. len + 1
      /\ kt_entries'[len + 1] = a
      /\ \A i \in 1 .. len : kt_entries'[i] = kt_entries[i]
  BY DEF TypeOK, Line
<1>2. S \subseteq 1 .. len /\ T \subseteq 1 .. len + 1
  BY <1>1
<1>3. /\ Latest(n) = IF S = {} THEN None ELSE kt_entries[Max(S)].alias_pub
      /\ Latest(n)' = IF T = {} THEN None ELSE kt_entries'[Max(T)].alias_pub
  BY DEF Latest
<1>4. /\ n = a.lookup_key => len + 1 \in T
      /\ n # a.lookup_key => T = S
  <2>1. \A i \in 1 .. len : i \in T <=> i \in S
    BY <1>1
  <2>2. len + 1 \in T <=> n = a.lookup_key
    BY <1>1
  <2>3. \A i \in T : i \in 1 .. len \/ i = len + 1
    BY <1>1, <1>2
  <2> QED BY <1>2, <2>1, <2>2, <2>3
<1> HIDE DEF S, T, len
<1>5. CASE n = a.lookup_key
  <2>1. Max(T) \in T /\ len + 1 <= Max(T)
    <3>1. len + 1 \in Nat /\ len + 1 \in T /\ T # {}
      BY <1>1, <1>4, <1>5
    <3>2. Max(T) \in T /\ \A i \in T : i <= Max(T)
      BY <1>2, <3>1, MaxIndex
    <3> QED BY <3>1, <3>2
  <2>2. Max(T) = len + 1
    <3>1. Max(T) \in 1 .. len + 1 /\ len \in Nat
      BY <1>1, <1>2, <2>1
    <3> QED BY <2>1, <3>1
  <2> QED BY <1>1, <1>3, <1>4, <1>5, <2>2
<1>6. CASE n # a.lookup_key
  <2>1. T = S
    BY <1>4, <1>6
  <2>2. S # {} => Max(S) \in 1 .. len
    BY <1>1, <1>2, MaxIndex
  <2> QED BY <1>1, <1>3, <1>6, <2>1, <2>2
<1> QED BY <1>5, <1>6

\* A change of a row and its report.
LEMMA ReportKeeps ==
  ASSUME TypeOK, Numbered, Reported, NEW n \in Name,
         NEW pub \in Owner \cup {None}, NEW event \in {"register", "revoke"},
         Report(n, pub, event), aliases' = [aliases EXCEPT ![n] = pub]
  PROVE  /\ Numbered' /\ Reported'
         /\ changes' \in Nat /\ UNCHANGED <<kt_entries, adrift>>
         /\ aliases' \in [Name -> Owner \cup {None}]
         /\ appends' \subseteq [no : Nat, lookup_key : Name,
                                alias_pub : Owner \cup {None},
                                event : {"register", "revoke"}]
<1> DEFINE new == [no |-> changes + 1, lookup_key |-> n, alias_pub |-> pub,
                   event |-> event]
<1>1. /\ changes' = changes + 1 /\ changes \in Nat
      /\ appends' = appends \cup {new}
      /\ UNCHANGED <<kt_entries, adrift>>
  BY DEF Report, TypeOK
<1>2. /\ new.no = changes + 1 /\ new.lookup_key = n /\ new.alias_pub = pub
      /\ new \in [no : Nat, lookup_key : Name, alias_pub : Owner \cup {None},
                  event : {"register", "revoke"}]
  BY <1>1
<1>3. /\ aliases' \in [Name -> Owner \cup {None}] /\ aliases'[n] = pub
      /\ \A m \in Name \ {n} : aliases'[m] = aliases[m]
  BY DEF TypeOK
<1>4. \A a \in appends : a.no \in Nat /\ a.no <= changes
  BY DEF TypeOK, Numbered
<1> HIDE DEF new
<1>5. Numbered'
  BY <1>1, <1>2, <1>4 DEF Numbered
<1>6. Reported'
  <2> SUFFICES ASSUME NEW m \in Name \ adrift
               PROVE  /\ (\A a \in appends' : a.lookup_key # m) =>
                           Latest(m)' = aliases'[m]
                      /\ \A a \in appends' :
                           /\ a.lookup_key = m
                           /\ \A b \in appends' :
                                b.lookup_key = m => b.no <= a.no
                           => a.alias_pub = aliases'[m]
    BY <1>1 DEF Reported
  <2>1. CASE m = n
    BY <1>1, <1>2, <1>3, <1>4, <2>1
  <2>2. CASE m # n
    <3>1. Latest(m)' = Latest(m) /\ aliases'[m] = aliases[m]
      BY <1>1, <1>3, <2>2 DEF Latest
    <3>2. \A a \in appends' : a.lookup_key = m => a \in appends
      BY <1>1, <1>2, <2>2
    <3>3. appends \subseteq appends'
      BY <1>1
    <3>4. (\A a \in appends' : a.lookup_key # m) => Latest(m)' = aliases'[m]
      BY <3>1, <3>3 DEF Reported
    <3>5. ASSUME NEW a \in appends', a.lookup_key = m,
                 \A b \in appends' : b.lookup_key = m => b.no <= a.no
          PROVE  a.alias_pub = aliases'[m]
      BY <3>1, <3>2, <3>3, <3>5 DEF Reported
    <3> QED BY <3>4, <3>5
  <2> QED BY <2>1, <2>2
<1> QED BY <1>1, <1>2, <1>3, <1>5, <1>6 DEF TypeOK

LEMMA LogAppendKeeps ==
  ASSUME TypeOK, Numbered, Reported, NEW a \in appends, LogAppend(a)
  PROVE  Numbered' /\ Reported'
<1>1. /\ appends' = appends \ {a}
      /\ adrift' = IF \E b \in appends : b.lookup_key = a.lookup_key
                                         /\ b.no < a.no
                   THEN adrift \cup {a.lookup_key} ELSE adrift
      /\ UNCHANGED <<changes, aliases>>
  BY DEF LogAppend, object
<1>2. Numbered'
  BY <1>1 DEF Numbered
<1>3. /\ \A b \in appends : b.no \in Nat
      /\ a.lookup_key \in Name
  BY DEF TypeOK
<1>4. \A m \in Name :
        /\ m = a.lookup_key => Latest(m)' = a.alias_pub
        /\ m # a.lookup_key => Latest(m)' = Latest(m)
  <2> DEFINE line == [lookup_key |-> a.lookup_key, alias_pub |-> a.alias_pub,
                      event |-> a.event]
  <2>1. /\ line \in Line /\ kt_entries' = Append(kt_entries, line)
        /\ line.lookup_key = a.lookup_key /\ line.alias_pub = a.alias_pub
    BY DEF LogAppend, Line, TypeOK
  <2> HIDE DEF line
  <2> QED BY <2>1, AppendedLatest
<1>5. Reported'
  <2> SUFFICES ASSUME NEW m \in Name, m \notin adrift'
               PROVE  /\ (\A b \in appends' : b.lookup_key # m) =>
                           Latest(m)' = aliases[m]
                      /\ \A b \in appends' :
                           /\ b.lookup_key = m
                           /\ \A c \in appends' :
                                c.lookup_key = m => c.no <= b.no
                           => b.alias_pub = aliases[m]
    BY <1>1 DEF Reported
  <2>1. m \notin adrift
    BY <1>1
  <2>2. CASE m # a.lookup_key
    BY <1>1, <1>4, <2>1, <2>2 DEF Reported
  <2>3. CASE m = a.lookup_key
    <3>1. \A b \in appends : b.lookup_key = m => a.no <= b.no
      BY <1>1, <1>3, <2>3
    <3>2. ASSUME \A b \in appends' : b.lookup_key # m
          PROVE  Latest(m)' = aliases[m]
      <4>1. \A b \in appends : b.lookup_key = m => b.no <= a.no
        BY <1>1, <1>3, <3>2
      <4> QED BY <1>4, <2>1, <2>3, <4>1 DEF Reported
    <3>3. ASSUME NEW b \in appends', b.lookup_key = m,
                 \A c \in appends' : c.lookup_key = m => c.no <= b.no
          PROVE  b.alias_pub = aliases[m]
      <4>1. b \in appends /\ a.no <= b.no
        BY <1>1, <3>1, <3>3
      <4>2. \A c \in appends : c.lookup_key = m => c.no <= b.no
        BY <1>1, <3>3, <4>1
      <4> QED BY <2>1, <3>3, <4>1, <4>2 DEF Reported
    <3> QED BY <3>2, <3>3
  <2> QED BY <2>2, <2>3
<1> QED BY <1>2, <1>5

-----------------------------------------------------------------------------
(* The steps *)

\* Steps of the requests that touch nothing else than the counters.
LEMMA RequestStep ==
  ASSUME IInv, UNCHANGED <<now, object, log, bought>>,
         \A r \in requests' :
           r \in requests \/ (r \in Purchase /\ AdmittedWell(r)),
         IsFiniteSet(requests'), sent' \in Nat,
         counters' \in [0 .. MaxEpoch -> [Kind -> [Resource -> Nat]]],
         revokes' \subseteq Name \X Owner,
         Pricing'
  PROVE  IInv'
<1>1. UNCHANGED <<now, aliases, reserved, pow_stamps, alarm, appends,
                  kt_entries, changes, adrift, bought>>
  BY DEF object, log
<1>2. TypeOK'
  BY <1>1 DEF IInv, TypeOK
<1>3. Admission'
  BY <1>1 DEF IInv, Admission, AdmittedWell
<1>4. Replay'
  BY <1>1 DEF IInv, Replay, Expiry, OnePurchaseUnlessLate
<1>5. Numbered' /\ Reported'
  BY <1>1 DEF IInv, Numbered, Reported, Latest
<1> QED BY <1>2, <1>3, <1>4, <1>5 DEF IInv

LEMMA FinitePlus ==
  ASSUME NEW S, NEW x, NEW y, IsFiniteSet(S)
  PROVE  /\ IsFiniteSet(S \ {x}) /\ IsFiniteSet(S \cup {y})
         /\ IsFiniteSet((S \ {x}) \cup {y})
<1>1. IsFiniteSet(S \ {x}) /\ IsFiniteSet(S \cup {y})
  BY FS_RemoveElement, FS_AddElement
<1> QED BY <1>1, FS_AddElement

LEMMA ArriveStep ==
  ASSUME IInv, NEW kind \in Kind, NEW target \in Resource,
         NEW owner \in Owner \cup {None}, NEW signed \in BOOLEAN,
         Arrive(kind, target, owner, signed)
  PROVE  IInv'
<1> DEFINE new == [no |-> sent + 1, kind |-> kind, target |-> target,
                   owner |-> owner, signed |-> signed,
                   early |-> target \notin reserved, stamp |-> None,
                   gate |-> now, required |-> 0, at |-> "gate"]
<1>1. /\ requests' = requests \cup {new} /\ sent' = sent + 1
      /\ UNCHANGED <<now, object, counters, revokes, log, bought>>
  BY DEF Arrive
<1>2. /\ new \in Purchase /\ new.at = "gate" /\ new.kind = kind
      /\ new.target = target /\ new.owner = owner /\ new.gate = now
      /\ new.signed = signed /\ new.early = (target \notin reserved)
  BY DEF IInv, TypeOK, Purchase
<1>3. AdmittedWell(new)
  <2>1. kind = "register" =>
          target \in Name /\ owner \in Owner /\ (target \in reserved => signed)
    BY DEF Arrive, Admitted
  <2> QED BY <1>2, <2>1 DEF IInv, TypeOK, AdmittedWell
<1> HIDE DEF new
<1>4. Pricing'
  BY <1>1, <1>2, FewerPay DEF IInv
<1>5. IsFiniteSet(requests')
  BY <1>1, FinitePlus DEF IInv, TypeOK
<1> QED BY <1>1, <1>2, <1>3, <1>4, <1>5, RequestStep DEF IInv, TypeOK

LEMMA CountStep ==
  ASSUME IInv, NEW r \in requests, Count(r)
  PROVE  IInv'
<1> DEFINE count == counters[r.gate][r.kind][r.target] + 1
           new == [r EXCEPT !.at = "priced",
                            !.required = adaptiveBits(r.kind, count)]
<1>1. /\ counters' = [counters EXCEPT ![r.gate][r.kind][r.target] = count]
      /\ requests' = (requests \ {r}) \cup {new}
      /\ UNCHANGED <<now, object, revokes, log, sent, bought>>
  BY DEF Count
<1>2. r \in Purchase /\ AdmittedWell(r) /\ r.at = "gate"
  BY DEF Count, IInv, TypeOK, Admission
<1>3. r.kind \in Kind /\ r.target \in Resource /\ r.gate \in 0 .. MaxEpoch
  BY <1>2, PurchaseFacts DEF AdmittedWell
<1>4. count \in Nat \ {0}
  <2>1. counters \in [0 .. MaxEpoch -> [Kind -> [Resource -> Nat]]]
    BY DEF IInv, TypeOK
  <2>2. counters[r.gate][r.kind][r.target] \in Nat
    BY <1>3, <2>1
  <2> QED BY <2>2
<1>5. adaptiveBits(r.kind, count) \in Nat
  BY <1>3, <1>4, OnTheScale
<1>6. /\ new \in Purchase /\ new.at = "priced" /\ new.kind = r.kind
      /\ new.target = r.target /\ new.owner = r.owner /\ new.gate = r.gate
      /\ new.signed = r.signed /\ new.early = r.early
      /\ new.required = adaptiveBits(r.kind, count)
  BY <1>2, <1>5 DEF Purchase
<1> HIDE DEF new, count
<1>7. AdmittedWell(new)
  BY <1>2, <1>6 DEF AdmittedWell
<1>8. Pricing'
  <2>1. count = counters[r.gate][r.kind][r.target] + 1
    BY DEF count
  <2> QED BY <1>1, <1>3, <1>6, <2>1, CountPays DEF IInv
<1>9. /\ IsFiniteSet(requests')
      /\ counters' \in [0 .. MaxEpoch -> [Kind -> [Resource -> Nat]]]
  BY <1>1, <1>3, <1>4, FinitePlus DEF IInv, TypeOK
<1> QED BY <1>1, <1>6, <1>7, <1>8, <1>9, RequestStep DEF IInv, TypeOK

LEMMA CountFailsStep ==
  ASSUME IInv, NEW r \in requests, CountFails(r)
  PROVE  IInv'
<1> DEFINE new == [r EXCEPT !.at = "priced",
                            !.required = BitsOnFailure(r.kind)]
<1>1. /\ requests' = (requests \ {r}) \cup {new}
      /\ UNCHANGED <<now, object, counters, revokes, log, sent, bought>>
  BY DEF CountFails
<1>2. r \in Purchase /\ AdmittedWell(r)
  BY DEF IInv, TypeOK, Admission
<1>3. r.kind \in Kind /\ BitsOnFailure(r.kind) \in Nat
  BY <1>2, PurchaseFacts, PriceFacts DEF BitsOnFailure
<1>4. /\ new \in Purchase /\ new.at = "priced" /\ new.kind = r.kind
      /\ new.target = r.target /\ new.owner = r.owner /\ new.gate = r.gate
      /\ new.signed = r.signed /\ new.early = r.early
      /\ new.required = BitsOnFailure(r.kind)
  BY <1>2, <1>3 DEF Purchase
<1> HIDE DEF new
<1>5. AdmittedWell(new)
  BY <1>2, <1>4 DEF AdmittedWell
<1>6. Pricing'
  <2>1. new.kind \in Kind /\ new.required = Price[new.kind].max
    BY <1>3, <1>4 DEF BitsOnFailure
  <2>2. new.required \in Nat /\ new.required >= Price[new.kind].max
    BY <2>1, PriceFacts
  <2> QED BY <1>1, <2>1, <2>2, FewerPay DEF IInv
<1>7. IsFiniteSet(requests')
  BY <1>1, FinitePlus DEF IInv, TypeOK
<1> QED BY <1>1, <1>4, <1>5, <1>6, <1>7, RequestStep DEF IInv, TypeOK

LEMMA VerifyStep ==
  ASSUME IInv, NEW r \in requests, NEW stamp \in Mined, Verify(r, stamp)
  PROVE  IInv'
<1> DEFINE new == [r EXCEPT !.at = "hashing", !.stamp = stamp]
<1>1. /\ requests' = (requests \ {r}) \cup {new}
      /\ UNCHANGED <<now, object, counters, revokes, log, sent, bought>>
      /\ r.at = "priced" /\ stamp.resource = r.target
  BY DEF Verify, Fits
<1>2. r \in Purchase /\ AdmittedWell(r)
  BY DEF IInv, TypeOK, Admission
<1>3. stamp \in Stamp
  BY AliasAssumption DEF Mined, Stamp
<1>4. /\ new \in Purchase /\ new.at = "hashing" /\ new.kind = r.kind
      /\ new.target = r.target /\ new.owner = r.owner /\ new.gate = r.gate
      /\ new.signed = r.signed /\ new.early = r.early
      /\ new.required = r.required /\ new.stamp = stamp
  BY <1>2, <1>3 DEF Purchase
<1> HIDE DEF new
<1>5. AdmittedWell(new)
  BY <1>1, <1>2, <1>4 DEF AdmittedWell
<1>6. Pricing'
  BY <1>1, <1>4, VerifyPays DEF IInv
<1>7. IsFiniteSet(requests')
  BY <1>1, FinitePlus DEF IInv, TypeOK
<1> QED BY <1>1, <1>4, <1>5, <1>6, <1>7, RequestStep DEF IInv, TypeOK

\* A request that ends leaves no trace.
LEMMA EndStep ==
  ASSUME IInv, requests' \subseteq requests, IsFiniteSet(requests'),
         revokes' \subseteq Name \X Owner,
         UNCHANGED <<now, object, counters, log, sent, bought>>
  PROVE  IInv'
<1>1. Pricing'
  BY FewerPay DEF IInv
<1> QED BY <1>1, RequestStep DEF IInv, TypeOK

LEMMA SpendStep ==
  ASSUME IInv, NEW r \in requests, Spend(r)
  PROVE  IInv'
<1> DEFINE b == [no |-> r.no, kind |-> r.kind, stamp |-> r.stamp,
                 gate |-> r.gate, late |-> ~Acceptable(r.stamp)]
<1>1. /\ requests' = requests \ {r}
      /\ pow_stamps' = pow_stamps \cup {r.stamp}
      /\ alarm' = SweepBy(Expiry(r.stamp))
      /\ bought' = bought \cup {b}
      /\ UNCHANGED <<now, reserved, counters, revokes, sent>>
      /\ ~Rejected(r) /\ r.at = "hashing"
  BY DEF Spend
<1>2. r \in Purchase /\ AdmittedWell(r)
  BY DEF IInv, TypeOK, Admission
<1>3. /\ r.stamp \in Mined /\ r.stamp.resource = r.target
      /\ r.gate \in 0 .. MaxEpoch
      /\ r.kind \in Kind /\ r.required \in Nat /\ r.no \in Nat
  BY <1>1, <1>2, PurchaseFacts DEF AdmittedWell
<1>4. r.stamp.bits \in Nat /\ r.stamp.epoch \in Nat
  <2>1. Bits \subseteq Nat
    BY PriceFacts DEF Bits
  <2>2. /\ r.stamp.bits \in Bits
        /\ r.stamp.epoch \in 0 .. MaxEpoch + EPOCH_TOLERANCE
    BY <1>3 DEF Mined
  <2>3. r.stamp.bits \in Nat
    BY <2>1, <2>2
  <2>4. r.stamp.epoch \in Nat
    BY <2>2, AliasAssumption
  <2> QED BY <2>3, <2>4
<1>5. /\ b \in [no : Nat, kind : Kind, stamp : Mined, gate : 0 .. MaxEpoch,
                late : BOOLEAN]
      /\ b.kind = r.kind /\ b.gate = r.gate /\ b.stamp = r.stamp
  BY <1>3 DEF Acceptable
<1> HIDE DEF b
<1>6. Pricing'
  BY <1>1, <1>3, <1>4, <1>5, SpendPays DEF IInv, Rejected
<1>7. alarm' \in Nat \cup {None}
  BY <1>1, <1>4, AliasAssumption DEF SweepBy, Expiry, IInv, TypeOK
<1>8. /\ Numbered' /\ Reported' /\ changes' \in Nat
      /\ UNCHANGED <<kt_entries, adrift>>
      /\ aliases' \in [Name -> Owner \cup {None}]
      /\ appends' \subseteq [no : Nat, lookup_key : Name,
                             alias_pub : Owner \cup {None},
                             event : {"register", "revoke"}]
  <2>1. CASE r.kind = "register"
    <3>1. /\ aliases' = [aliases EXCEPT ![r.target] = r.owner]
          /\ Report(r.target, r.owner, "register")
      BY <2>1 DEF Spend
    <3>2. r.target \in Name /\ r.owner \in Owner
      BY <1>2, <2>1 DEF AdmittedWell
    <3> QED BY <3>1, <3>2, ReportKeeps DEF IInv
  <2>2. CASE r.kind # "register"
    <3>1. UNCHANGED <<aliases, appends, kt_entries, changes, adrift>>
      BY <2>2 DEF Spend, log
    <3> QED BY <3>1 DEF IInv, TypeOK, Numbered, Reported, Latest
  <2> QED BY <2>1, <2>2
<1>9. IsFiniteSet(requests') /\ IsFiniteSet(bought')
  BY <1>1, FinitePlus DEF IInv, TypeOK
<1>10. TypeOK'
  BY <1>1, <1>3, <1>5, <1>7, <1>8, <1>9 DEF IInv, TypeOK
<1>11. Admission'
  BY <1>1 DEF IInv, Admission, AdmittedWell
<1>12. Replay'
  <2>1. \A c \in bought : c.stamp = r.stamp => b.late
    <3> SUFFICES ASSUME NEW c \in bought, c.stamp = r.stamp PROVE b.late
      OBVIOUS
    <3>1. Expiry(r.stamp) <= now
      BY <1>1 DEF IInv, Replay, Rejected, Unspent
    <3>2. ~Acceptable(r.stamp)
      BY <1>4, <3>1, AliasAssumption DEF Acceptable, Expiry, IInv, TypeOK
    <3> QED BY <3>2 DEF b
  <2> QED
    BY <1>1, <1>5, <2>1 DEF IInv, Replay, Expiry, OnePurchaseUnlessLate
<1> QED BY <1>6, <1>8, <1>10, <1>11, <1>12 DEF IInv

LEMMA SweepStep ==
  ASSUME IInv, Sweep
  PROVE  IInv'
<1>1. /\ pow_stamps' = {s \in pow_stamps : Expiry(s) > now}
      /\ alarm' = IF pow_stamps' = {} THEN None
                  ELSE Min({Expiry(s) : s \in pow_stamps'})
      /\ UNCHANGED <<now, aliases, reserved, counters, requests, revokes,
                     appends, kt_entries, changes, adrift, sent, bought>>
  BY DEF Sweep, log
<1>2. \A s \in Mined : Expiry(s) \in Nat
  <2>1. \A s \in Mined : s.epoch \in 0 .. MaxEpoch + EPOCH_TOLERANCE
    BY DEF Mined
  <2> QED BY <2>1, AliasAssumption DEF Expiry
<1>3. alarm' \in Nat \cup {None}
  <2> DEFINE times == {Expiry(s) : s \in pow_stamps'}
  <2>1. times \subseteq Nat
    BY <1>1, <1>2 DEF IInv, TypeOK
  <2>2. pow_stamps' # {} => times # {}
    OBVIOUS
  <2>3. alarm' = None \/ (alarm' = Min(times) /\ times # {})
    BY <1>1, <2>2
  <2> HIDE DEF times
  <2>4. times # {} => Min(times) \in Nat
    BY <2>1, MinNat
  <2> QED BY <2>3, <2>4
<1>4. TypeOK'
  BY <1>1, <1>3 DEF IInv, TypeOK
<1>5. Admission' /\ Numbered' /\ Reported'
  <2>1. Admission' /\ Numbered'
    BY <1>1 DEF IInv, Admission, AdmittedWell, Numbered
  <2>2. Reported'
    BY <1>1 DEF IInv, Reported, Latest
  <2> QED BY <2>1, <2>2
<1>6. Pricing'
  BY <1>1, FewerPay DEF IInv
<1>7. Replay'
  <2>1. \A s \in pow_stamps : s \in pow_stamps' \/ Expiry(s) <= now
    <3>1. \A s \in pow_stamps : Expiry(s) \in Nat
      BY <1>2 DEF IInv, TypeOK
    <3> QED BY <1>1, <3>1 DEF IInv, TypeOK
  <2> QED
    BY <1>1, <2>1 DEF IInv, Replay, Expiry, OnePurchaseUnlessLate
<1> QED BY <1>4, <1>5, <1>6, <1>7 DEF IInv

LEMMA RevokeStep ==
  ASSUME IInv, NEW name \in Name, Revoke(name)
  PROVE  IInv'
<1>1. /\ aliases' = [aliases EXCEPT ![name] = None]
      /\ Report(name, None, "revoke")
      /\ UNCHANGED <<now, reserved, pow_stamps, alarm, counters, requests,
                     revokes, sent, bought>>
  BY DEF Revoke
<1>2. /\ Numbered' /\ Reported' /\ changes' \in Nat
      /\ UNCHANGED <<kt_entries, adrift>>
      /\ aliases' \in [Name -> Owner \cup {None}]
      /\ appends' \subseteq [no : Nat, lookup_key : Name,
                             alias_pub : Owner \cup {None},
                             event : {"register", "revoke"}]
  BY <1>1, ReportKeeps DEF IInv
<1>3. TypeOK'
  BY <1>1, <1>2 DEF IInv, TypeOK
<1>4. Admission' /\ Replay'
  BY <1>1
     DEF IInv, Admission, AdmittedWell, Replay, Expiry, OnePurchaseUnlessLate
<1>5. Pricing'
  BY <1>1, FewerPay DEF IInv
<1> QED BY <1>2, <1>3, <1>4, <1>5 DEF IInv

LEMMA ReserveStep ==
  ASSUME IInv, NEW name \in Name, Reserve(name)
  PROVE  IInv'
<1>1. /\ reserved' = reserved \cup {name}
      /\ UNCHANGED <<now, aliases, pow_stamps, alarm, counters, requests,
                     revokes, appends, kt_entries, changes, adrift, sent,
                     bought>>
  BY DEF Reserve, log
<1>2. TypeOK'
  BY <1>1 DEF IInv, TypeOK
<1>3. Admission' /\ Replay'
  BY <1>1
     DEF IInv, Admission, AdmittedWell, Replay, Expiry, OnePurchaseUnlessLate
<1>4. Numbered' /\ Reported'
  BY <1>1 DEF IInv, Numbered, Reported, Latest
<1>5. Pricing'
  BY <1>1, FewerPay DEF IInv
<1> QED BY <1>2, <1>3, <1>4, <1>5 DEF IInv

LEMMA LogAppendStep ==
  ASSUME IInv, NEW a \in appends, LogAppend(a)
  PROVE  IInv'
<1>1. UNCHANGED <<now, aliases, reserved, pow_stamps, alarm, counters,
                  requests, revokes, changes, sent, bought>>
  BY DEF LogAppend, object
<1>2. Numbered' /\ Reported'
  BY LogAppendKeeps DEF IInv
<1>3. TypeOK'
  <2> DEFINE line == [lookup_key |-> a.lookup_key, alias_pub |-> a.alias_pub,
                      event |-> a.event]
  <2>1. kt_entries \in Seq(Line) /\ line \in Line
    BY DEF IInv, TypeOK, Line
  <2>2. kt_entries' = Append(kt_entries, line)
    BY DEF LogAppend
  <2> HIDE DEF line
  <2>3. kt_entries' \in Seq(Line)
    BY <2>1, <2>2
  <2>4. appends' \subseteq appends /\ adrift' \subseteq Name
    BY DEF LogAppend, IInv, TypeOK
  <2> QED BY <1>1, <2>3, <2>4 DEF IInv, TypeOK, Line
<1>4. Admission' /\ Replay'
  BY <1>1
     DEF IInv, Admission, AdmittedWell, Replay, Expiry, OnePurchaseUnlessLate
<1>5. Pricing'
  BY <1>1, FewerPay DEF IInv
<1> QED BY <1>2, <1>3, <1>4, <1>5 DEF IInv

LEMMA AppendFailsStep ==
  ASSUME IInv, NEW a \in appends, AppendFails(a)
  PROVE  IInv'
<1>1. /\ appends' = appends \ {a} /\ adrift' = adrift \cup {a.lookup_key}
      /\ UNCHANGED <<now, aliases, reserved, pow_stamps, alarm, counters,
                     requests, revokes, kt_entries, changes, sent, bought>>
  BY DEF AppendFails, object
<1>2. TypeOK'
  BY <1>1 DEF IInv, TypeOK
<1>3. Numbered'
  BY <1>1 DEF IInv, Numbered
<1>4. Reported'
  <2>1. \A n \in Name \ adrift' :
          /\ n \notin adrift
          /\ \A b \in appends : b.lookup_key = n => b \in appends'
    BY <1>1
  <2> QED BY <1>1, <2>1 DEF IInv, Reported, Latest
<1>5. Admission' /\ Replay'
  BY <1>1
     DEF IInv, Admission, AdmittedWell, Replay, Expiry, OnePurchaseUnlessLate
<1>6. Pricing'
  BY <1>1, FewerPay DEF IInv
<1> QED BY <1>2, <1>3, <1>4, <1>5, <1>6 DEF IInv

LEMMA TickStep ==
  ASSUME IInv, Tick
  PROVE  IInv'
<1>1. /\ now \in Nat /\ now' = now + 1 /\ now' \in 0 .. MaxEpoch
      /\ UNCHANGED <<aliases, reserved, pow_stamps, alarm, counters, requests,
                     revokes, appends, kt_entries, changes, adrift, sent,
                     bought>>
  BY AliasAssumption DEF Tick, object, log, IInv, TypeOK
<1>2. TypeOK'
  BY <1>1 DEF IInv, TypeOK
<1>3. Replay'
  <2>1. \A b \in bought : Expiry(b.stamp) \in Nat
    <3>1. \A b \in bought : b.stamp \in Mined
      BY DEF IInv, TypeOK
    <3>2. \A s \in Mined : s.epoch \in 0 .. MaxEpoch + EPOCH_TOLERANCE
      BY DEF Mined
    <3> QED BY <3>1, <3>2, AliasAssumption DEF Expiry
  <2>2. \A b \in bought : Expiry(b.stamp) <= now => Expiry(b.stamp) <= now'
    BY <1>1, <2>1
  <2> QED BY <1>1, <2>2 DEF IInv, Replay, Expiry, OnePurchaseUnlessLate
<1>4. Admission' /\ Numbered' /\ Reported'
  <2>1. Admission' /\ Numbered'
    BY <1>1 DEF IInv, Admission, AdmittedWell, Numbered
  <2>2. Reported'
    BY <1>1 DEF IInv, Reported, Latest
  <2> QED BY <2>1, <2>2
<1>5. Pricing'
  BY <1>1, FewerPay DEF IInv
<1> QED BY <1>2, <1>3, <1>4, <1>5 DEF IInv

-----------------------------------------------------------------------------
(* The invariant *)

LEMMA InitInv == Init => IInv
<1> SUFFICES ASSUME Init PROVE IInv
  OBVIOUS
<1>1. TypeOK
  BY AliasAssumption, FS_EmptySet DEF Init, TypeOK
<1>2. Admission /\ Replay /\ Numbered
  BY DEF Init, Admission, Replay, OnePurchaseUnlessLate, Numbered
<1>3. Reported
  BY DEF Init, Reported, Latest
<1>4. Pricing
  <2> SUFFICES ASSUME NEW k \in Kind, NEW t \in Resource,
                      NEW e \in 0 .. MaxEpoch,
                      NEW bits \in Price[k].base .. Price[k].max - 1
               PROVE  /\ Paying(k, t, e, bits) <= counters[e][k][t]
                      /\ Paying(k, t, e, bits) <= Scale(k, bits)
    BY DEF Pricing
  <2>1. Pending(k, t, e, bits) = {} /\ Cheap(k, t, e, bits) = {}
    BY DEF Init, Pending, Cheap
  <2>2. Paying(k, t, e, bits) = 0
    BY <2>1, FS_EmptySet DEF Paying
  <2> QED BY <1>1, <2>2, CounterFacts
<1> QED BY <1>1, <1>2, <1>3, <1>4 DEF IInv

LEMMA InvStep == IInv /\ [Next]_vars => IInv'
<1> SUFFICES ASSUME IInv, [Next]_vars PROVE IInv'
  OBVIOUS
<1>1. IsFiniteSet(requests) /\ revokes \subseteq Name \X Owner
  BY DEF IInv, TypeOK
<1>2. CASE \E kind \in Kind, target \in Resource, owner \in Owner \cup {None},
              signed \in BOOLEAN : Arrive(kind, target, owner, signed)
  BY <1>2, ArriveStep
<1>3. ASSUME NEW r \in requests,
             \/ Count(r) \/ CountFails(r) \/ Spend(r)
             \/ \E stamp \in Mined : Verify(r, stamp)
      PROVE  IInv'
  BY <1>3, CountStep, CountFailsStep, VerifyStep, SpendStep
<1>4. ASSUME NEW r \in requests, Abort(r) \/ Refuse(r)
      PROVE  IInv'
  <2>1. /\ requests' = requests \ {r}
        /\ UNCHANGED <<now, object, counters, revokes, log, sent, bought>>
    BY <1>4 DEF Abort, Refuse
  <2>2. IsFiniteSet(requests')
    BY <1>1, <2>1, FinitePlus
  <2> QED BY <1>1, <2>1, <2>2, EndStep
<1>5. ASSUME NEW n \in Name, Sign(n)
      PROVE  IInv'
  <2>1. /\ revokes' \subseteq Name \X Owner
        /\ UNCHANGED <<now, object, counters, requests, log, sent, bought>>
    BY <1>1, <1>5 DEF Sign, IInv, TypeOK
  <2> QED BY <1>1, <2>1, EndStep
<1>6. ASSUME NEW n \in Name, Revoke(n) \/ Reserve(n)
      PROVE  IInv'
  BY <1>6, RevokeStep, ReserveStep
<1>7. ASSUME NEW a \in appends, LogAppend(a) \/ AppendFails(a)
      PROVE  IInv'
  BY <1>7, LogAppendStep, AppendFailsStep
<1>8. CASE Sweep \/ Tick
  BY <1>8, SweepStep, TickStep
<1>9. CASE UNCHANGED vars
  <2>1. UNCHANGED <<now, object, counters, requests, revokes, log, sent,
                    bought>>
    BY <1>9 DEF vars
  <2> QED BY <1>1, <2>1, EndStep
<1> QED BY <1>2, <1>3, <1>4, <1>5, <1>6, <1>7, <1>8, <1>9 DEF Next

LEMMA Invariance == Spec => []IInv
BY InitInv, InvStep, PTL DEF Spec

-----------------------------------------------------------------------------
(* The properties *)

\* The tables, the requests and the log have their types; the prices are
\* numbers and only finitely many requests are under way.
THEOREM AliasTypes == Spec => []TypeOK
<1>1. IInv => TypeOK
  BY DEF IInv
<1> QED BY <1>1, Invariance, PTL

\* Two purchases never share a stamp, unless one of them ended its wait for the
\* digest after the stamp's epoch had run out: a spent stamp stays in the
\* replay set until no request can be accepted with it.
THEOREM StampsBuyOnce == Spec => []OnePurchaseUnlessLate
<1>1. IInv => OnePurchaseUnlessLate
  BY DEF IInv, Replay
<1> QED BY <1>1, Invariance, PTL

\* Whatever the scale, the cheap stamps of one target and epoch buy no more
\* than their steps allow: a request that was priced low was counted low, and
\* neither overtaking nor a failing counter lets more of them through.
THEOREM PricesRise == Spec => []PriceRises
<1>1. IInv => PriceRises
  <2> SUFFICES ASSUME IInv, NEW k \in Kind, NEW t \in Resource,
                      NEW e \in 0 .. MaxEpoch,
                      NEW bits \in Price[k].base .. Price[k].max - 1
               PROVE  Cardinality(Cheap(k, t, e, bits)) <= Scale(k, bits)
    BY DEF PriceRises, Cheap, Scale
  <2>1. /\ Cardinality(Pending(k, t, e, bits)) \in Nat
        /\ Cardinality(Cheap(k, t, e, bits)) \in Nat
    BY PayingFacts DEF IInv
  <2>2. Cardinality(Pending(k, t, e, bits))
          + Cardinality(Cheap(k, t, e, bits)) <= Scale(k, bits)
    BY DEF IInv, Pricing, Paying
  <2>3. Scale(k, bits) \in Nat
    BY CounterFacts DEF IInv
  <2> QED BY <2>1, <2>2, <2>3
<1> QED BY <1>1, Invariance, PTL

\* A reserved name is only ever claimed by a request with the authority's
\* signature, or by one that was admitted before the name was reserved.
THEOREM ReservedNamesHold == Spec => ReservedUnlessRaced
<1> DEFINE Claim ==
      \A n \in reserved :
        aliases[n] = None /\ aliases'[n] # None =>
          \E r \in requests \ requests' :
            /\ r.target = n
            /\ r.owner = aliases'[n]
            /\ r.signed \/ r.early
<1>1. ASSUME IInv, [Next]_vars PROVE Claim
  <2> SUFFICES ASSUME NEW n \in reserved,
                      aliases[n] = None, aliases'[n] # None
               PROVE  \E r \in requests \ requests' :
                        /\ r.target = n
                        /\ r.owner = aliases'[n]
                        /\ r.signed \/ r.early
    OBVIOUS
  <2>1. n \in Name /\ aliases \in [Name -> Owner \cup {None}]
    BY <1>1 DEF IInv, TypeOK
  <2>2. PICK r \in requests : Spend(r)
    <3>1. aliases' # aliases
      OBVIOUS
    <3>2. ASSUME NEW m \in Name PROVE ~Revoke(m)
      BY <2>1 DEF Revoke
    <3> QED
      BY <1>1, <3>1, <3>2
         DEF Next, vars, object, Arrive, Count, CountFails, Verify, Abort,
             Refuse, Sweep, Sign, Reserve, LogAppend, AppendFails, Tick
  <2>3. /\ r.kind = "register"
        /\ aliases' = [aliases EXCEPT ![r.target] = r.owner]
        /\ requests' = requests \ {r}
    BY <2>2 DEF Spend
  <2>4. n = r.target /\ aliases'[n] = r.owner
    BY <2>1, <2>3
  <2>5. r.early \/ r.signed
    BY <1>1, <2>3 DEF IInv, Admission, AdmittedWell
  <2> QED BY <2>3, <2>4, <2>5
<1>2. IInv /\ [Next]_vars => [Claim]_vars
  BY <1>1
<1> HIDE DEF Claim
<1>3. Spec => [][Claim]_vars
  BY <1>2, Invariance, PTL DEF Spec
<1> QED BY <1>3 DEF ReservedUnlessRaced, Claim

\* The log names the key of the row whenever no append of the name is under way
\* and none was lost or overtaken.
THEOREM LogAgrees == Spec => []LogAgreesUnlessRaced
<1>1. IInv => LogAgreesUnlessRaced
  BY DEF IInv, Reported, LogAgreesUnlessRaced
<1> QED BY <1>1, Invariance, PTL

-----------------------------------------------------------------------------
(* Group: the invariants *)


\* What the parts of a device have to do with each other.
DevicesFit ==
  \A d \in Device :
    /\ live[d] # Nothing => d \in open
    /\ d \in open => disk[d] # Nothing
    /\ joining[d] # Nothing => disk[d] = Nothing
    /\ (list[d] = Nothing) = (disk[d] = Nothing)
    /\ (socket[d] = Nothing) = (d \notin open)
    /\ maxSeq[d] <= Len(entries)
    /\ d \notin open => maxSeq[d] = 0

PollFits(p) ==
  /\ disk[p.by] # Nothing
  /\ p.tag \in {p.by, Nothing}
  /\ p.live => p.tag = p.by
  /\ p.at = "pull" => IF p.live THEN live[p.by] # Nothing
                                ELSE p.held \in Sessions
  /\ p.at = "pull" => toCreator[p.invite] # <<>>
  /\ p.at # "pull" => p.held.by = p.by

SealFits(s) == s.entry # Nothing => disk[s.by] # Nothing

Orderly(frames, since, end) ==
  /\ \A n \in DOMAIN frames : frames[n] \in since + 1 .. end
  /\ \A m, n \in DOMAIN frames : m < n => frames[m] < frames[n]
\* ProcessEntry: the frame it takes, and what becomes of the session.
Takes(d, seq) ==
  /\ d \in open /\ seq > maxSeq[d]
  /\ socket' = [socket EXCEPT ![d] = Tail(@)]
  /\ Orderly(Tail(socket[d]), seq, Len(entries))
  /\ Range(socket[d]) = Range(Tail(socket[d])) \cup {seq}
  /\ maxSeq' = [maxSeq EXCEPT ![d] = seq]
  /\ excused' = IF live[d] = Nothing THEN excused \cup {d} ELSE excused
Reads(d, e, s) ==
  /\ live[d] \in Sessions /\ Processes(d, live[d], e)
  /\ s.epoch = IF e.kind = "commit" THEN Append(live[d].epoch, e.what)
                                    ELSE live[d].epoch
  /\ s.start = live[d].start
  /\ live' = [live EXCEPT ![d] = s] /\ seals' = seals \cup {Seal(d, s, e)}
Skips(d, e) ==
  /\ live[d] # Nothing => ~Processes(d, live[d], e)
  /\ UNCHANGED <<live, seals>>

\* AddMember: the session that adds, and the commit.
Entry(p, s, x) ==
  [kind |-> "commit", by |-> p.by, epoch |-> s.epoch, what |-> x]
Grown(s, x) == Session(Append(s.epoch, x), s.start)
Committing(p, s, x) == [p EXCEPT !.at = "commit", !.held = Entry(p, s, x)]
Holding(q, s) == [q EXCEPT !.held = s]
Added(p, s, x) ==
  /\ s = IF p.live THEN live[p.by] ELSE p.held
  /\ x[1] = p.by
  /\ polls' = {Committing(p, s, x)} \cup
       {IF SameSession(p, q) THEN Holding(q, Grown(s, x)) ELSE q :
          q \in polls \ {p}}
  /\ live' = IF p.live THEN [live EXCEPT ![p.by] = Grown(s, x)] ELSE live
  /\ seals' = seals \cup {Seal(p.by, Grown(s, x), Entry(p, s, x))}
  /\ last' = [by |-> p.by, epoch |-> Append(s.epoch, x)]

MembersWrite ==
  /\ \A k \in DOMAIN entries : disk[entries[k].by] # Nothing
  /\ \A e \in sending : disk[e.by] # Nothing
Shape == /\ DevicesFit /\ (\A p \in polls : PollFits(p))
         /\ (\A s \in seals : SealFits(s)) /\ MembersWrite

\* A commit of the log led to an epoch.
LoggedCommit(es, epoch) ==
  \E k \in DOMAIN es :
    es[k].kind = "commit" /\ epoch = Append(es[k].epoch, es[k].what)
\* A session goes back to such a commit, or is the creator's.
Founded(es, d, s) ==
  /\ s.start \in 0 .. Len(s.epoch)
  /\ d # Creator => LoggedCommit(es, SubSeq(s.epoch, 1, s.start))

SessionsFounded ==
  \A d \in Device : /\ disk[d] # Nothing => Founded(entries, d, disk[d])
                    /\ live[d] # Nothing => Founded(entries, d, live[d])
SealsFounded == \A s \in seals : Founded(entries, s.by, s.session)
PollsFounded ==
  \A p \in polls :
    /\ p.at = "pull" /\ ~p.live => Founded(entries, p.by, p.held)
    /\ p.at = "welcome" => \E k \in DOMAIN entries : entries[k] = p.held
WelcomesFounded ==
  \A i \in Invite : \A n \in DOMAIN toInvitee[i] :
    LoggedCommit(entries, toInvitee[i][n].epoch)
JoinedInv == SessionsFounded /\ SealsFounded /\ PollsFounded /\ WelcomesFounded

Ordered == \A d \in open : Orderly(socket[d], maxSeq[d], Len(entries))
TypesInv == GroupTypeOK /\ Shape /\ Ordered

\* Where the group is: the last member that was added is the end of the path.
Path == last.epoch
Leads(e) == Append(e.epoch, e.what)
Logged == {k \in DOMAIN entries : entries[k].kind = "commit"}
Committed == {p \in polls : p.at = "commit"}

OnPath ==
  /\ \A d \in Device : disk[d] # Nothing => IsPrefix(disk[d].epoch, Path)
  /\ \A s \in seals : IsPrefix(s.session.epoch, Path)
  /\ \A k \in Logged : IsPrefix(Leads(entries[k]), Path)
  /\ \A p \in polls : p.at # "pull" => IsPrefix(Leads(p.held), Path)
  /\ \A i \in Invite : \A n \in DOMAIN toInvitee[i] :
       IsPrefix(toInvitee[i][n].epoch, Path)

\* The polls are of one device, hold one session, which is ahead, and only they
\* do when the hook has let go of it.
OneAdds ==
  /\ \A p, q \in polls : p # q => p.by = q.by /\ p.tag # Nothing
  /\ \A p \in polls : p.at = "pull" /\ p.live => live[p.by].epoch = Path
  /\ \A p \in polls : p.at = "pull" /\ ~p.live =>
       live[p.by] = Nothing /\ p.held.epoch = Path
  /\ \A p \in Committed : p.by = last.by

\* A commit names the device that made it.
Signed ==
  /\ \A k \in Logged : entries[k].what[1] = entries[k].by
  /\ \A p \in polls : p.at # "pull" => p.held.what[1] = p.by
  /\ Path # <<>> => Path[Len(Path)][1] = last.by

\* The commits in the log, then those on their way there, lead from the
\* beginning to the end of the path.
Rising ==
  /\ \A k, l \in Logged :
       k < l => Len(entries[k].epoch) < Len(entries[l].epoch)
  /\ \A k \in Logged, p \in Committed :
       Len(entries[k].epoch) < Len(p.held.epoch)
  /\ \A p, q \in Committed : Len(p.held.epoch) = Len(q.held.epoch) => p = q
  /\ \A n \in 0 .. Len(Path) - 1 :
       \/ \E k \in Logged : Len(entries[k].epoch) = n
       \/ \E p \in Committed : Len(p.held.epoch) = n

\* A device has merged the commits it made, in the session of the hook at once
\* and in the sealed one before they are pushed.
Merges(session, e) == Len(e.epoch) < Len(session.epoch)
Hooked ==
  /\ \A d \in Device : live[d] # Nothing => IsPrefix(live[d].epoch, Path)
  /\ \A k \in Logged : live[entries[k].by] # Nothing =>
       Merges(live[entries[k].by], entries[k])
  /\ \A p \in Committed : live[p.by] # Nothing => Merges(live[p.by], p.held)
Merged ==
  /\ \A k \in Logged : Merges(disk[entries[k].by], entries[k])
  /\ \A p \in Committed : ~Sealing(p.held) => Merges(disk[p.by], p.held)
  /\ \A s \in seals : s.entry # Nothing /\ s.entry.kind = "commit" =>
       s.session.epoch = Leads(s.entry)

\* The commits of the others that it has not merged are still under way to it.
Follows ==
  \A d \in open \ excused : \A k \in Logged :
    /\ entries[k].by # d
    /\ live[d] # Nothing => ~Merges(live[d], entries[k])
    => k \in Range(socket[d])

Tale ==
  OnPath /\ OneAdds /\ Signed /\ Rising /\ Hooked /\ Merged /\ Follows
HistoryInv == ~raced /\ fits["commit"] => Tale

-----------------------------------------------------------------------------
(* Group: sequences of which one begins the other *)

\* One sequence is a prefix of another.
LEMMA PrefixDef ==
  ASSUME NEW S, NEW s \in Seq(S), NEW t \in Seq(S)
  PROVE  IsPrefix(s, t) <=> /\ Len(s) <= Len(t)
                            /\ \A n \in 1 .. Len(s) : s[n] = t[n]
<1>1. CASE Len(s) <= Len(t)
  <2>1. /\ SubSeq(s, 1, Len(s)) = s
        /\ SubSeq(t, 1, Len(s)) \in Seq(S)
        /\ Len(SubSeq(t, 1, Len(s))) = Len(s)
        /\ \A n \in 1 .. Len(s) : SubSeq(t, 1, Len(s))[n] = t[n]
    BY <1>1, SubSeqFull
  <2>2. SubSeq(t, 1, Len(s)) = s <=> \A n \in 1 .. Len(s) : s[n] = t[n]
    BY <2>1, SeqEqual
  <2> QED BY <1>1, <2>1, <2>2 DEF IsPrefix
<1>2. CASE ~(Len(s) <= Len(t))
  BY <1>2 DEF IsPrefix
<1> QED BY <1>1, <1>2

\* A sequence begins itself.
LEMMA PrefixRefl ==
  ASSUME NEW S, NEW s \in Seq(S)
  PROVE  IsPrefix(s, s)
BY PrefixDef

\* What begins a beginning of a sequence begins the sequence.
LEMMA PrefixTrans ==
  ASSUME NEW S, NEW s \in Seq(S), NEW t \in Seq(S), NEW u \in Seq(S),
         IsPrefix(s, t), IsPrefix(t, u)
  PROVE  IsPrefix(s, u)
<1>1. Len(s) \in Nat /\ Len(t) \in Nat /\ Len(u) \in Nat
  OBVIOUS
<1> QED BY <1>1, PrefixDef

\* Prefixes of one sequence differ in length only.
LEMMA PrefixesOfOne ==
  ASSUME NEW S, NEW s \in Seq(S), NEW t \in Seq(S), NEW u \in Seq(S),
         IsPrefix(s, u), IsPrefix(t, u)
  PROVE  /\ Len(s) <= Len(t) => IsPrefix(s, t)
         /\ Len(s) = Len(t) => s = t
         /\ IsPrefix(s, t) \/ IsPrefix(t, s)
<1>1. Len(s) \in Nat /\ Len(t) \in Nat /\ Len(u) \in Nat
  OBVIOUS
<1>2. /\ \A n \in 1 .. Len(s) : s[n] = u[n]
      /\ \A n \in 1 .. Len(t) : t[n] = u[n]
  BY PrefixDef
<1>3. Len(s) <= Len(t) => IsPrefix(s, t)
  BY <1>1, <1>2, PrefixDef
<1>4. Len(t) <= Len(s) => IsPrefix(t, s)
  BY <1>1, <1>2, PrefixDef
<1>5. Len(s) = Len(t) => s = t
  BY <1>1, <1>2, SeqEqual
<1> QED BY <1>1, <1>3, <1>4, <1>5

\* A sequence that grows by one element begins with what it was.
LEMMA PrefixAppend ==
  ASSUME NEW S, NEW s \in Seq(S), NEW x \in S
  PROVE  /\ Append(s, x) \in Seq(S)
         /\ Len(Append(s, x)) = Len(s) + 1
         /\ IsPrefix(s, Append(s, x))
<1> DEFINE t == Append(s, x)
<1>1. /\ t \in Seq(S) /\ Len(t) = Len(s) + 1
      /\ \A n \in 1 .. Len(s) : t[n] = s[n]
  OBVIOUS
<1>2. Len(s) \in Nat
  OBVIOUS
<1> HIDE DEF t
<1>3. IsPrefix(s, t)
  BY <1>1, <1>2, PrefixDef
<1> QED BY <1>1, <1>3 DEF t

\* An element at the end changes no first part.
LEMMA FirstPart ==
  ASSUME NEW S, NEW s \in Seq(S), NEW x \in S, NEW n \in 0 .. Len(s)
  PROVE  /\ SubSeq(Append(s, x), 1, n) = SubSeq(s, 1, n)
         /\ SubSeq(s, 1, n) \in Seq(S)
         /\ SubSeq(s, 1, Len(s)) = s
<1>1. /\ Append(s, x) \in Seq(S) /\ Len(Append(s, x)) = Len(s) + 1
      /\ \A k \in 1 .. Len(s) : Append(s, x)[k] = s[k]
  OBVIOUS
<1>2. Len(s) \in Nat
  OBVIOUS
<1>3. /\ SubSeq(s, 1, n) \in Seq(S) /\ Len(SubSeq(s, 1, n)) = n
      /\ \A k \in 1 .. n : SubSeq(s, 1, n)[k] = s[k]
  BY <1>2, SubSeqProperties
<1>4. /\ SubSeq(Append(s, x), 1, n) \in Seq(S)
      /\ Len(SubSeq(Append(s, x), 1, n)) = n
      /\ \A k \in 1 .. n : SubSeq(Append(s, x), 1, n)[k] = Append(s, x)[k]
  BY <1>1, <1>2, SubSeqProperties
<1>5. SubSeq(Append(s, x), 1, n) = SubSeq(s, 1, n)
  BY <1>1, <1>2, <1>3, <1>4, SeqEqual
<1>6. SubSeq(s, 1, Len(s)) = s
  BY SubSeqFull
<1> QED BY <1>3, <1>5, <1>6

-----------------------------------------------------------------------------
(* Group: the values, the backlog and a push *)

\* Nothing is none of the values it stands beside.
LEMMA Absence ==
  /\ Nothing \notin Device /\ Nothing \notin Invite /\ Nothing \notin Package
  /\ Nothing \notin Sessions /\ Nothing \notin Seq(Nat)
  /\ Nothing \notin Listed /\ Nothing \notin Commits
BY GroupAssumption

\* What a session is made of.
LEMMA SessionTypes ==
  /\ \A epoch \in Epoch, start \in Nat :
       /\ Session(epoch, start) \in Sessions
       /\ Session(epoch, start).epoch = epoch
       /\ Session(epoch, start).start = start
       /\ Session(epoch, start).used = {}
  /\ \A s \in Sessions : s.epoch \in Seq(Commit) /\ s.start \in Nat
                         /\ s.used \subseteq Text
BY DEF Sessions, Session, Epoch

\* The backlog holds the places of the log after a given one, in order.
LEMMA Backlogs ==
  ASSUME entries \in Seq(Commits \cup Texts), NEW since \in Nat,
         since <= Len(entries)
  PROVE  /\ Backlog(since) \in Seq(Nat)
         /\ Orderly(Backlog(since), since, Len(entries))
         /\ Range(Backlog(since)) = since + 1 .. Len(entries)
<1> DEFINE n == Len(entries) - since
           q == Backlog(since)
<1>1. n \in Nat /\ Len(entries) = n + since
  OBVIOUS
<1>2. q = [k \in 1 .. n |-> since + k]
  BY DEF Backlog
<1> HIDE DEF n, q
<1>3. \A k \in 1 .. n : q[k] = since + k /\ q[k] \in Nat
  BY <1>1, <1>2
<1>4. q \in Seq(Nat) /\ DOMAIN q = 1 .. n
  BY <1>1, <1>2, <1>3
<1>5. Orderly(q, since, Len(entries))
  BY <1>1, <1>3, <1>4 DEF Orderly
<1>6. Range(q) \subseteq since + 1 .. Len(entries)
  BY <1>1, <1>3, <1>4 DEF Range
<1>7. ASSUME NEW k \in since + 1 .. Len(entries) PROVE k \in Range(q)
  <2>1. k - since \in 1 .. n /\ since + (k - since) = k
    BY <1>1
  <2>2. q[k - since] = k
    BY <1>3, <2>1
  <2> QED BY <1>4, <2>1, <2>2 DEF Range
<1>8. Range(q) = since + 1 .. Len(entries)
  BY <1>6, <1>7
<1> QED BY <1>4, <1>5, <1>8 DEF q

\* A new entry of the log goes to the end of the frames under way.
LEMMA Appending ==
  ASSUME NEW q \in Seq(Nat), NEW since \in Nat, NEW end \in Nat,
         Orderly(q, since, end), since <= end
  PROVE  /\ Orderly(q, since, end + 1)
         /\ Append(q, end + 1) \in Seq(Nat)
         /\ Orderly(Append(q, end + 1), since, end + 1)
         /\ Range(Append(q, end + 1)) = Range(q) \cup {end + 1}
<1> DEFINE r == Append(q, end + 1)
<1>1. /\ r \in Seq(Nat) /\ DOMAIN r = 1 .. Len(q) + 1
      /\ r[Len(q) + 1] = end + 1
      /\ DOMAIN q = 1 .. Len(q) /\ Len(q) \in Nat
  OBVIOUS
<1>2. \A n \in 1 .. Len(q) : r[n] = q[n]
  OBVIOUS
<1>3. \A n \in 1 .. Len(q) : q[n] \in since + 1 .. end
  BY <1>1 DEF Orderly
<1>4. \A m, n \in 1 .. Len(q) : m < n => q[m] < q[n]
  BY <1>1 DEF Orderly
<1> HIDE DEF r
<1>5. Orderly(r, since, end + 1)
  <2>1. \A n \in DOMAIN r : r[n] \in since + 1 .. end + 1
    BY <1>1, <1>2, <1>3
  <2>2. ASSUME NEW m \in DOMAIN r, NEW n \in DOMAIN r, m < n
        PROVE  r[m] < r[n]
    <3>1. m \in 1 .. Len(q) /\ n \in 1 .. Len(q) + 1
      BY <1>1, <2>2
    <3>2. r[m] = q[m] /\ q[m] \in since + 1 .. end
      BY <1>2, <1>3, <3>1
    <3>3. CASE n = Len(q) + 1
      BY <1>1, <3>2, <3>3
    <3>4. CASE n # Len(q) + 1
      <4>1. n \in 1 .. Len(q)
        BY <1>1, <3>1, <3>4
      <4> QED BY <1>2, <1>4, <2>2, <3>1, <3>2, <4>1
    <3> QED BY <3>3, <3>4
  <2> QED BY <2>1, <2>2 DEF Orderly
<1>6. Range(r) = Range(q) \cup {end + 1}
  <2>1. Range(r) = {r[n] : n \in 1 .. Len(q) + 1}
    BY <1>1 DEF Range
  <2>2. Range(q) = {q[n] : n \in 1 .. Len(q)}
    BY <1>1 DEF Range
  <2>3. ASSUME NEW n \in 1 .. Len(q) + 1
        PROVE  r[n] \in Range(q) \cup {end + 1}
    <3>1. CASE n = Len(q) + 1
      BY <1>1, <3>1
    <3>2. CASE n # Len(q) + 1
      <4>1. n \in 1 .. Len(q)
        BY <1>1, <3>2
      <4> QED BY <1>2, <2>2, <4>1
    <3> QED BY <3>1, <3>2
  <2>4. ASSUME NEW n \in 1 .. Len(q)
        PROVE  q[n] \in Range(r)
    <3>1. n \in 1 .. Len(q) + 1 /\ r[n] = q[n]
      BY <1>1, <1>2
    <3> QED BY <2>1, <3>1
  <2>5. end + 1 \in Range(r)
    <3>1. Len(q) + 1 \in 1 .. Len(q) + 1
      BY <1>1
    <3> QED BY <1>1, <2>1, <3>1
  <2> QED BY <2>1, <2>2, <2>3, <2>4, <2>5
<1>7. Orderly(q, since, end + 1)
  BY <1>1, <1>3, <1>4 DEF Orderly
<1> QED BY <1>1, <1>5, <1>6, <1>7 DEF r

\* A push adds one entry to the log and one frame to every socket but its own.
LEMMA Pushing ==
  ASSUME TypesInv, NEW e \in Commits \cup Texts, NEW tag, Push(e, tag)
  PROVE  /\ entries' \in Seq(Commits \cup Texts)
         /\ Len(entries') = Len(entries) + 1
         /\ entries'[Len(entries) + 1] = e
         /\ \A k \in 1 .. Len(entries) : entries'[k] = entries[k]
         /\ socket' \in [Device -> Seq(Nat) \cup {Nothing}]
         /\ \A d \in Device : (socket'[d] = Nothing) = (socket[d] = Nothing)
         /\ \A d \in open :
              /\ Orderly(socket'[d], maxSeq[d], Len(entries'))
              /\ Range(socket[d]) \subseteq Range(socket'[d])
              /\ d # tag => Len(entries) + 1 \in Range(socket'[d])
<1>1. /\ entries \in Seq(Commits \cup Texts)
      /\ socket \in [Device -> Seq(Nat) \cup {Nothing}]
      /\ open \subseteq Device /\ maxSeq \in [Device -> Nat]
  BY DEF TypesInv, GroupTypeOK
<1>2. \A d \in Device : /\ (socket[d] = Nothing) = (d \notin open)
                        /\ maxSeq[d] <= Len(entries)
  BY DEF TypesInv, Shape, DevicesFit
<1>3. /\ entries' = Append(entries, e)
      /\ socket' = [d \in Device |->
           IF socket[d] = Nothing \/ d = tag THEN socket[d]
           ELSE Append(socket[d], Len(entries) + 1)]
  BY DEF Push
<1>4. /\ entries' \in Seq(Commits \cup Texts)
      /\ Len(entries') = Len(entries) + 1
      /\ entries'[Len(entries) + 1] = e
      /\ \A k \in 1 .. Len(entries) : entries'[k] = entries[k]
  BY <1>1, <1>3
<1>5. ASSUME NEW d \in Device, d \notin open
      PROVE  socket'[d] = Nothing /\ socket[d] = Nothing
  BY <1>2, <1>3, <1>5
<1>6. ASSUME NEW d \in open
      PROVE  /\ socket[d] \in Seq(Nat) /\ socket'[d] \in Seq(Nat)
             /\ Orderly(socket'[d], maxSeq[d], Len(entries) + 1)
             /\ Range(socket[d]) \subseteq Range(socket'[d])
             /\ d # tag => Len(entries) + 1 \in Range(socket'[d])
  <2>1. /\ socket[d] \in Seq(Nat) /\ maxSeq[d] \in Nat
        /\ maxSeq[d] <= Len(entries) /\ Len(entries) \in Nat
    BY <1>1, <1>2
  <2>2. Orderly(socket[d], maxSeq[d], Len(entries))
    BY DEF TypesInv, Ordered
  <2>3. /\ Orderly(socket[d], maxSeq[d], Len(entries) + 1)
        /\ Append(socket[d], Len(entries) + 1) \in Seq(Nat)
        /\ Orderly(Append(socket[d], Len(entries) + 1), maxSeq[d],
                   Len(entries) + 1)
        /\ Range(Append(socket[d], Len(entries) + 1)) =
             Range(socket[d]) \cup {Len(entries) + 1}
    BY <2>1, <2>2, Appending
  <2>4. CASE d = tag
    <3>1. socket'[d] = socket[d]
      BY <1>1, <1>3, <2>4
    <3> QED BY <2>1, <2>3, <2>4, <3>1
  <2>5. CASE d # tag
    <3>1. socket'[d] = Append(socket[d], Len(entries) + 1)
      BY <1>1, <1>2, <1>3, <2>5
    <3> QED BY <2>1, <2>3, <3>1
  <2> QED BY <2>4, <2>5
<1>7. socket' \in [Device -> Seq(Nat) \cup {Nothing}]
  <2>1. DOMAIN socket' = Device /\ socket' = [d \in Device |-> socket'[d]]
    BY <1>3
  <2>2. \A d \in Device : socket'[d] \in Seq(Nat) \cup {Nothing}
    BY <1>5, <1>6
  <2> QED BY <2>1, <2>2
<1>8. \A d \in Device : (socket'[d] = Nothing) = (socket[d] = Nothing)
  <2> SUFFICES ASSUME NEW d \in Device
               PROVE  (socket'[d] = Nothing) = (socket[d] = Nothing)
    OBVIOUS
  <2>1. CASE d \in open
    <3>1. socket'[d] # Nothing /\ socket[d] # Nothing
      BY <1>6, <2>1, Absence
    <3> QED BY <3>1
  <2>2. CASE d \notin open
    BY <1>5, <2>2
  <2> QED BY <2>1, <2>2
<1> QED BY <1>4, <1>6, <1>7, <1>8

-----------------------------------------------------------------------------
(* Group: types and shape, action by action *)

\* The types and the shape of a device, as the proofs use them.
LEMMA Typing ==
  ASSUME TypesInv
  PROVE  /\ entries \in Seq(Commits \cup Texts) /\ Len(entries) \in Nat
         /\ disk \in [Device -> Sessions \cup {Nothing}]
         /\ live \in [Device -> Sessions \cup {Nothing}]
         /\ socket \in [Device -> Seq(Nat) \cup {Nothing}]
         /\ maxSeq \in [Device -> Nat]
         /\ joining \in [Device -> Invite \cup {Nothing}]
         /\ list \in [Device -> Listed \cup {Nothing}]
         /\ open \subseteq Device /\ last \in [by : Device, epoch : Epoch]
         /\ \A d \in Device :
              /\ live[d] # Nothing => d \in open
              /\ d \in open => /\ disk[d] \in Sessions /\ list[d] \in Listed
                               /\ socket[d] \in Seq(Nat)
                               /\ Orderly(socket[d], maxSeq[d], Len(entries))
              /\ d \notin open => socket[d] = Nothing /\ maxSeq[d] = 0
                                  /\ live[d] = Nothing
              /\ joining[d] # Nothing =>
                   disk[d] = Nothing /\ d \notin open /\ joining[d] \in Invite
              /\ (list[d] = Nothing) = (disk[d] = Nothing)
              /\ maxSeq[d] \in Nat /\ maxSeq[d] <= Len(entries)
         /\ \A p \in polls : PollFits(p)
         /\ \A s \in seals : s \in Seals /\ SealFits(s)
<1>1. /\ entries \in Seq(Commits \cup Texts) /\ Len(entries) \in Nat
      /\ disk \in [Device -> Sessions \cup {Nothing}]
      /\ live \in [Device -> Sessions \cup {Nothing}]
      /\ socket \in [Device -> Seq(Nat) \cup {Nothing}]
      /\ maxSeq \in [Device -> Nat]
      /\ joining \in [Device -> Invite \cup {Nothing}]
      /\ list \in [Device -> Listed \cup {Nothing}]
      /\ open \subseteq Device /\ last \in [by : Device, epoch : Epoch]
  BY DEF TypesInv, GroupTypeOK
<1>2. ASSUME NEW d \in Device
      PROVE  /\ live[d] # Nothing => d \in open
             /\ d \in open => /\ disk[d] \in Sessions /\ list[d] \in Listed
                              /\ socket[d] \in Seq(Nat)
                              /\ Orderly(socket[d], maxSeq[d], Len(entries))
             /\ d \notin open => socket[d] = Nothing /\ maxSeq[d] = 0
                                 /\ live[d] = Nothing
             /\ joining[d] # Nothing =>
                  disk[d] = Nothing /\ d \notin open /\ joining[d] \in Invite
             /\ (list[d] = Nothing) = (disk[d] = Nothing)
             /\ maxSeq[d] \in Nat /\ maxSeq[d] <= Len(entries)
  BY <1>1 DEF TypesInv, Shape, DevicesFit, Ordered
<1>3. /\ \A p \in polls : PollFits(p)
      /\ \A s \in seals : s \in Seals /\ SealFits(s)
  BY DEF TypesInv, GroupTypeOK, Shape
<1> QED BY <1>1, <1>2, <1>3

\* What a step that leaves the log alone, unseals no session and begins to seal
\* only what came with a welcome has to show.
LEMMA QuietStep ==
  ASSUME TypesInv, GroupTypeOK', Ordered', DevicesFit', UNCHANGED entries,
         \A d \in Device : disk[d] # Nothing => disk'[d] # Nothing,
         \A s \in seals' \ seals : s.entry = Nothing,
         sending' \subseteq sending,
         \A p \in polls' : PollFits(p)'
  PROVE  TypesInv'
<1>1. MembersWrite'
  <2>1. \A k \in DOMAIN entries : entries[k].by \in Device
    BY DEF TypesInv, GroupTypeOK, Commits, Texts
  <2>2. \A e \in sending : e.by \in Device
    BY DEF TypesInv, GroupTypeOK, Texts
  <2> QED BY <2>1, <2>2 DEF TypesInv, Shape, MembersWrite
<1>2. ASSUME NEW s \in seals' PROVE SealFits(s)'
  <2>1. s \in seals => s.by \in Device /\ SealFits(s)
    BY DEF TypesInv, GroupTypeOK, Seals, Shape
  <2> QED BY <2>1 DEF SealFits
<1> QED BY <1>1, <1>2 DEF TypesInv, Shape

\* Select.
LEMMA SelectTypes ==
  ASSUME TypesInv, NEW d \in Device, Select(d)
  PROVE  TypesInv'
<1>1. /\ d \notin open /\ list[d] # Nothing
      /\ open' = open \cup {d}
      /\ socket' = [socket EXCEPT ![d] = Backlog(0)]
      /\ UNCHANGED <<fits, entries, toCreator, toInvitee, disk, seals, pending,
                     live, maxSeq, joining, list, polls, sending, last, raced,
                     excused, written, adds, faults>>
  BY DEF Select, server, store, page, history
<1>2. /\ Backlog(0) \in Seq(Nat) /\ Orderly(Backlog(0), 0, Len(entries))
      /\ Backlog(0) # Nothing
  BY Typing, Backlogs, Absence
<1>3. GroupTypeOK'
  BY <1>1, <1>2 DEF TypesInv, GroupTypeOK
<1>4. DevicesFit'
  BY <1>1, <1>2, Typing DEF TypesInv, Shape, DevicesFit
<1>5. Ordered'
  BY <1>1, <1>2, Typing DEF Ordered
<1>6. \A p \in polls' : PollFits(p)'
  BY <1>1, Typing DEF PollFits
<1> QED BY <1>1, <1>3, <1>4, <1>5, <1>6, QuietStep

\* Leave.
LEMMA LeaveTypes ==
  ASSUME TypesInv, NEW d \in Device, Leave(d)
  PROVE  TypesInv'
<1>1. /\ d \in open
      /\ open' = open \ {d}
      /\ socket' = [socket EXCEPT ![d] = Nothing]
      /\ polls' = Orphaned(d)
      /\ live' = [live EXCEPT ![d] = Nothing]
      /\ maxSeq' = [maxSeq EXCEPT ![d] = 0]
      /\ UNCHANGED <<fits, entries, toCreator, toInvitee, disk, seals, pending,
                     joining, list, sending, last, raced, excused, written,
                     adds>>
      /\ faults' = faults + 1
  BY DEF Leave, server, store, Fault
<1>2. ASSUME NEW p \in polls'
      PROVE  /\ p \in Polls({"pull"}, Sessions \cup {Nothing}) \cup
                      Polls({"commit", "welcome"}, Commits)
             /\ PollFits(p)'
  <2>1. PICK q \in polls :
          p = IF q.by = d /\ q.live /\ q.at = "pull"
              THEN [q EXCEPT !.live = FALSE, !.held = live[d]] ELSE q
    BY <1>1 DEF Orphaned
  <2>2. /\ q \in Polls({"pull"}, Sessions \cup {Nothing}) \cup
                 Polls({"commit", "welcome"}, Commits)
        /\ PollFits(q)
    BY DEF TypesInv, GroupTypeOK, Shape
  <2>3. CASE q.by = d /\ q.live /\ q.at = "pull"
    <3>1. q \in Polls({"pull"}, Sessions \cup {Nothing})
      BY <2>2, <2>3 DEF Polls
    <3>2. live[d] \in Sessions
      BY <2>2, <2>3, Typing DEF PollFits
    <3>3. p = [q EXCEPT !.live = FALSE, !.held = live[d]]
      BY <2>1, <2>3
    <3>4. /\ p \in Polls({"pull"}, Sessions \cup {Nothing})
          /\ p.by = q.by /\ p.tag = q.tag /\ p.at = q.at /\ p.live = FALSE
          /\ p.invite = q.invite
          /\ p.held = live[d]
      BY <3>1, <3>2, <3>3 DEF Polls
    <3> QED BY <1>1, <2>2, <2>3, <3>2, <3>4 DEF PollFits
  <2>4. CASE ~(q.by = d /\ q.live /\ q.at = "pull")
    <3>1. p = q
      BY <2>1, <2>4
    <3>2. q.at = "pull" /\ q.live => live'[q.by] = live[q.by]
      <4>1. q.by \in Device
        BY <2>2 DEF Polls
      <4> QED BY <1>1, <2>4, <4>1, Typing
    <3> QED BY <1>1, <2>2, <3>1, <3>2 DEF PollFits
  <2> QED BY <2>3, <2>4
<1>3. GroupTypeOK'
  <2>1. polls' \subseteq Polls({"pull"}, Sessions \cup {Nothing}) \cup
                         Polls({"commit", "welcome"}, Commits)
    BY <1>2
  <2>2. faults' \in Nat
    BY <1>1 DEF TypesInv, GroupTypeOK
  <2> QED BY <1>1, <2>1, <2>2 DEF TypesInv, GroupTypeOK
<1>4. DevicesFit'
  BY <1>1, Typing DEF TypesInv, Shape, DevicesFit
<1>5. Ordered'
  BY <1>1, Typing DEF Ordered
<1> QED BY <1>1, <1>2, <1>3, <1>4, <1>5, QuietStep

\* Load.
LEMMA LoadTypes ==
  ASSUME TypesInv, NEW d \in Device, Load(d)
  PROVE  TypesInv'
<1>1. /\ d \in open /\ live[d] = Nothing
      /\ live' = [live EXCEPT ![d] = disk[d]]
      /\ raced' = (raced \/ PollsOf(d) # {})
      /\ excused' \subseteq excused \cup {d}
      /\ UNCHANGED <<fits, entries, toCreator, toInvitee, disk, seals, pending,
                     open, maxSeq, socket, joining, list, polls, sending, last,
                     written, adds, faults>>
  BY DEF Load, server, store, page
<1>2. disk[d] \in Sessions
  BY <1>1, Typing
<1>3. GroupTypeOK'
  BY <1>1, <1>2 DEF TypesInv, GroupTypeOK
<1>4. DevicesFit'
  BY <1>1, Typing DEF TypesInv, Shape, DevicesFit
<1>5. Ordered'
  BY <1>1, Typing DEF Ordered
<1>6. \A p \in polls' : PollFits(p)'
  BY <1>1, <1>2, Typing, Absence DEF PollFits
<1> QED BY <1>1, <1>3, <1>4, <1>5, <1>6, QuietStep

\* Reconnect.
LEMMA ReconnectTypes ==
  ASSUME TypesInv, NEW d \in Device, Reconnect(d)
  PROVE  TypesInv'
<1>1. /\ d \in open
      /\ socket' = [socket EXCEPT ![d] = Backlog(maxSeq[d])]
      /\ faults' = faults + 1
      /\ UNCHANGED <<fits, entries, toCreator, toInvitee, disk, seals, pending,
                     live, open, maxSeq, joining, list, polls, sending, last,
                     raced, excused, written, adds>>
  BY DEF Reconnect, server, store, page, Fault
<1>2. /\ Backlog(maxSeq[d]) \in Seq(Nat)
      /\ Orderly(Backlog(maxSeq[d]), maxSeq[d], Len(entries))
      /\ Backlog(maxSeq[d]) # Nothing
  <2>1. maxSeq[d] \in Nat /\ maxSeq[d] <= Len(entries)
        /\ entries \in Seq(Commits \cup Texts)
    BY Typing
  <2>2. PICK since \in Nat : since = maxSeq[d]
    BY <2>1
  <2>3. /\ Backlog(since) \in Seq(Nat)
        /\ Orderly(Backlog(since), since, Len(entries))
    BY <2>1, <2>2, Backlogs
  <2> QED BY <2>2, <2>3, Absence
<1>3. GroupTypeOK'
  <2>1. faults' \in Nat
    BY <1>1 DEF TypesInv, GroupTypeOK
  <2> QED BY <1>1, <1>2, <2>1 DEF TypesInv, GroupTypeOK
<1>4. DevicesFit'
  BY <1>1, <1>2, Typing DEF TypesInv, Shape, DevicesFit
<1>5. Ordered'
  BY <1>1, <1>2, Typing DEF Ordered
<1>6. \A p \in polls' : PollFits(p)'
  BY <1>1, Typing DEF PollFits
<1> QED BY <1>1, <1>3, <1>4, <1>5, <1>6, QuietStep

\* What an entry of the log is made of.
LEMMA EntryTypes ==
  /\ \A e \in Commits \cup Texts : e.by \in Device /\ e.epoch \in Seq(Commit)
  /\ \A e \in Commits : e.what \in Commit /\ e.kind = "commit"
  /\ \A e \in Texts : e.what \in Text /\ e.kind = "text"
  /\ \A e \in Commits \cup Texts : e.kind = "commit" => e \in Commits
BY DEF Commits, Texts, Epoch

\* The first frame is taken, and the rest is beyond it.
LEMMA Taking ==
  ASSUME NEW q \in Seq(Nat), NEW since \in Nat, NEW end \in Nat,
         Orderly(q, since, end), q # <<>>
  PROVE  /\ Head(q) \in since + 1 .. end
         /\ Tail(q) \in Seq(Nat)
         /\ Orderly(Tail(q), Head(q), end)
         /\ Range(q) = Range(Tail(q)) \cup {Head(q)}
<1>1. /\ Len(q) \in Nat \ {0} /\ Head(q) = q[1] /\ Tail(q) \in Seq(Nat)
      /\ q[1] \in Nat
      /\ Len(Tail(q)) = Len(q) - 1
      /\ \A n \in 1 .. Len(q) - 1 : Tail(q)[n] = q[n + 1]
  OBVIOUS
<1>2. PICK c \in Nat : Len(q) = c + 1
  <2>1. Len(q) \in Nat /\ Len(q) # 0
    OBVIOUS
  <2> QED BY <2>1
<1>3. PICK r \in Seq(Nat), h \in Nat : r = Tail(q) /\ h = Head(q)
  BY <1>1
<1>4. /\ DOMAIN q = 1 .. Len(q) /\ DOMAIN r = 1 .. Len(q) - 1
      /\ \A n \in 1 .. Len(q) - 1 : r[n] = q[n + 1]
      /\ h = q[1]
  BY <1>1, <1>3
<1>5. /\ \A n \in 1 .. Len(q) : q[n] \in since + 1 .. end
      /\ \A m, n \in 1 .. Len(q) : m < n => q[m] < q[n]
  BY <1>1, <1>4 DEF Orderly
<1>6. Orderly(r, h, end)
  <2>1. ASSUME NEW n \in DOMAIN r
        PROVE  r[n] \in h + 1 .. end
    <3>1. n + 1 \in 1 .. Len(q) /\ 1 \in 1 .. Len(q) /\ 1 < n + 1
      <4>1. n \in 1 .. Len(q) - 1 /\ Len(q) \in Nat
        BY <1>1, <1>4
      <4> QED BY <4>1
    <3>2. PICK m \in 1 .. Len(q) : m = n + 1
      BY <3>1
    <3>3. q[1] < q[m] /\ q[m] \in since + 1 .. end
          /\ q[1] \in since + 1 .. end
      BY <1>5, <3>1, <3>2
    <3>4. r[n] = q[m] /\ q[1] = h
      BY <1>4, <3>2
    <3> QED BY <3>3, <3>4
  <2>2. c = Len(q) - 1
    BY <1>2
  <2>3. ASSUME NEW m \in 1 .. c, NEW n \in 1 .. c, m < n
        PROVE  r[m] < r[n]
    <3>1. m + 1 \in 1 .. c + 1 /\ n + 1 \in 1 .. c + 1 /\ m + 1 < n + 1
      BY <2>3
    <3>2. c + 1 = Len(q)
      BY <1>2
    <3>3. q[m + 1] < q[n + 1]
      BY <1>5, <3>1, <3>2
    <3> QED BY <1>4, <2>2, <3>3
  <2>4. \A m, n \in DOMAIN r : m < n => r[m] < r[n]
    BY <1>4, <2>2, <2>3
  <2> QED BY <2>1, <2>4 DEF Orderly
<1>7. Range(q) = Range(r) \cup {h}
  <2>1. Range(q) = {q[n] : n \in 1 .. Len(q)}
        /\ Range(r) = {r[n] : n \in 1 .. Len(q) - 1}
    BY <1>4 DEF Range
  <2>2. ASSUME NEW n \in 1 .. Len(q)
        PROVE  q[n] \in Range(r) \cup {h}
    <3>1. CASE n = 1
      BY <1>4, <3>1
    <3>2. CASE n # 1
      <4>1. n - 1 \in 1 .. Len(q) - 1 /\ (n - 1) + 1 = n
        BY <1>1, <3>2
      <4>2. r[n - 1] = q[n]
        BY <1>4, <4>1
      <4> QED BY <2>1, <4>1, <4>2
    <3> QED BY <3>1, <3>2
  <2>3. ASSUME NEW n \in 1 .. Len(q) - 1
        PROVE  r[n] \in Range(q)
    <3>1. n + 1 \in 1 .. Len(q) /\ r[n] = q[n + 1]
      BY <1>1, <1>4
    <3> QED BY <2>1, <3>1
  <2>4. h \in Range(q)
    <3>1. 1 \in 1 .. Len(q)
      BY <1>1
    <3> QED BY <1>4, <2>1, <3>1
  <2> QED BY <2>1, <2>2, <2>3, <2>4
<1>8. h \in since + 1 .. end
  <2>1. 1 \in 1 .. Len(q)
    BY <1>1
  <2> QED BY <1>4, <1>5, <2>1
<1> QED BY <1>3, <1>6, <1>7, <1>8

\* ProcessEntry takes one frame, and drops its entry or moves the session on.
LEMMA Processing ==
  ASSUME TypesInv, NEW d \in Device, ProcessEntry(d)
  PROVE  \E seq \in 1 .. Len(entries) :
           /\ Takes(d, seq)
           /\ \/ Skips(d, entries[seq])
              \/ \E s \in Sessions : Reads(d, entries[seq], s)
<1> DEFINE seq == Head(socket[d])
           e == entries[seq]
           next == Processed(live[d], e)
           taken == /\ seq > maxSeq[d] /\ live[d] # Nothing
                    /\ Processes(d, live[d], e)
<1>1. /\ socket[d] \notin {Nothing, <<>>}
      /\ socket' = [socket EXCEPT ![d] = Tail(@)]
      /\ maxSeq' = [maxSeq EXCEPT ![d] = IF seq > maxSeq[d] THEN seq ELSE @]
      /\ live' = IF taken THEN [live EXCEPT ![d] = next] ELSE live
      /\ seals' = IF taken THEN seals \cup {Seal(d, next, e)} ELSE seals
      /\ excused' = IF seq > maxSeq[d] /\ live[d] = Nothing
                    THEN excused \cup {d} ELSE excused
  BY DEF ProcessEntry
<1>2. /\ d \in open /\ socket[d] \in Seq(Nat) /\ socket[d] # <<>>
      /\ Orderly(socket[d], maxSeq[d], Len(entries))
      /\ maxSeq[d] \in Nat /\ Len(entries) \in Nat
  BY <1>1, Typing
<1>3. /\ seq \in maxSeq[d] + 1 .. Len(entries)
      /\ Orderly(Tail(socket[d]), seq, Len(entries))
      /\ Range(socket[d]) = Range(Tail(socket[d])) \cup {seq}
  BY <1>2, Taking
<1>4. seq \in 1 .. Len(entries) /\ seq > maxSeq[d]
  BY <1>2, <1>3
<1>5. e \in Commits \cup Texts
  BY <1>4, Typing
<1> HIDE DEF seq, e
<1>6. Takes(d, seq)
  <2>1. maxSeq' = [maxSeq EXCEPT ![d] = seq]
    BY <1>1, <1>4
  <2>2. excused' = IF live[d] = Nothing THEN excused \cup {d} ELSE excused
    BY <1>1, <1>4
  <2> QED BY <1>1, <1>2, <1>3, <1>4, <2>1, <2>2 DEF Takes
<1>7. CASE ~taken
  <2>1. Skips(d, e)
    BY <1>1, <1>4, <1>7 DEF Skips
  <2> QED BY <1>4, <1>6, <2>1 DEF e
<1>8. CASE taken
  <2>1. live[d] \in Sessions
    BY <1>2, <1>8, Typing
  <2>2. /\ live' = [live EXCEPT ![d] = next]
        /\ seals' = seals \cup {Seal(d, next, e)}
    BY <1>1, <1>8
  <2>3. /\ next \in Sessions /\ next.start = live[d].start
        /\ next.epoch = IF e.kind = "commit" THEN Append(live[d].epoch, e.what)
                                             ELSE live[d].epoch
    <3>1. CASE e.kind = "commit"
      <4>1. e.what \in Commit
        BY <1>5, <3>1, EntryTypes
      <4>2. PICK epoch \in Epoch : epoch = Append(live[d].epoch, e.what)
        BY <2>1, <4>1, SessionTypes, PrefixAppend DEF Epoch
      <4>3. next = Session(epoch, live[d].start)
        BY <3>1, <4>2 DEF Processed
      <4>4. PICK start \in Nat : start = live[d].start
        BY <2>1, SessionTypes
      <4>5. /\ Session(epoch, start) \in Sessions
            /\ Session(epoch, start).epoch = epoch
            /\ Session(epoch, start).start = start
        BY SessionTypes
      <4> HIDE DEF next
      <4> QED BY <3>1, <4>2, <4>3, <4>4, <4>5
    <3>2. CASE e.kind # "commit"
      <4>1. e.what \in Text
        BY <1>5, <3>2, EntryTypes
      <4>2. next = [live[d] EXCEPT !.used = @ \cup {e.what}]
        BY <3>2 DEF Processed
      <4> QED BY <2>1, <3>2, <4>1, <4>2 DEF Sessions
    <3> QED BY <3>1, <3>2
  <2>4. Reads(d, e, next)
    BY <1>8, <2>1, <2>2, <2>3 DEF Reads
  <2> HIDE DEF next
  <2> QED BY <1>4, <1>6, <2>3, <2>4 DEF e
<1> QED BY <1>7, <1>8

\* ProcessEntry.
LEMMA ProcessTypes ==
  ASSUME TypesInv, NEW d \in Device, ProcessEntry(d)
  PROVE  TypesInv'
<1>1. PICK seq \in 1 .. Len(entries) :
        /\ Takes(d, seq)
        /\ \/ Skips(d, entries[seq])
           \/ \E s \in Sessions : Reads(d, entries[seq], s)
  BY Processing
<1>2. UNCHANGED <<fits, entries, toCreator, toInvitee, disk, pending, open,
                  joining, list, polls, sending, last, raced, adds, faults,
                  written>>
  BY DEF ProcessEntry, server, page
<1>3. /\ d \in open /\ socket' = [socket EXCEPT ![d] = Tail(@)]
      /\ Tail(socket[d]) \in Seq(Nat)
      /\ Orderly(Tail(socket[d]), seq, Len(entries))
      /\ maxSeq' = [maxSeq EXCEPT ![d] = seq]
      /\ excused' \subseteq excused \cup {d}
      /\ seq \in Nat /\ seq <= Len(entries)
      /\ entries[seq] \in Commits \cup Texts
  <2>1. Len(entries) \in Nat /\ entries[seq] \in Commits \cup Texts
    BY Typing
  <2>2. seq \in Nat /\ seq <= Len(entries)
    BY <2>1
  <2>3. socket[d] # <<>>
    BY DEF ProcessEntry
  <2>4. d \in open
    BY <1>1 DEF Takes
  <2>5. Tail(socket[d]) \in Seq(Nat)
    BY <2>3, <2>4, Typing
  <2> QED BY <1>1, <2>1, <2>2, <2>4, <2>5 DEF Takes
<1>4. /\ live' \in [Device -> Sessions \cup {Nothing}]
      /\ \A c \in Device : (live'[c] = Nothing) = (live[c] = Nothing)
      /\ \A s \in seals' : s \in Seals /\ SealFits(s)'
  <2>1. CASE Skips(d, entries[seq])
    BY <1>2, <2>1, Typing DEF Skips, SealFits
  <2>2. CASE \E s \in Sessions : Reads(d, entries[seq], s)
    <3>1. PICK s \in Sessions : Reads(d, entries[seq], s)
      BY <2>2
    <3>2. disk[d] # Nothing /\ live[d] # Nothing
      BY <1>3, <3>1, Typing, Absence DEF Reads
    <3>3. /\ live' = [live EXCEPT ![d] = s]
          /\ seals' = seals \cup {Seal(d, s, entries[seq])}
      BY <3>1 DEF Reads
    <3>4. /\ Seal(d, s, entries[seq]) \in Seals
          /\ Seal(d, s, entries[seq]).by = d
      BY <1>3 DEF Seal, Seals
    <3> QED BY <1>2, <3>2, <3>3, <3>4, Typing, Absence DEF SealFits
  <2> QED BY <1>1, <2>1, <2>2
<1>5. GroupTypeOK'
  BY <1>1, <1>2, <1>3, <1>4 DEF TypesInv, GroupTypeOK
<1>6. DevicesFit'
  BY <1>2, <1>3, <1>4, Typing, Absence DEF TypesInv, Shape, DevicesFit
<1>7. Ordered'
  BY <1>2, <1>3, Typing DEF Ordered
<1>8. \A p \in polls' : PollFits(p)'
  <2> SUFFICES ASSUME NEW p \in polls PROVE PollFits(p)'
    BY <1>2
  <2>1. PollFits(p) /\ p.by \in Device
    BY Typing DEF TypesInv, GroupTypeOK, Polls
  <2> QED BY <1>2, <1>4, <2>1 DEF PollFits
<1>9. MembersWrite'
  BY <1>2 DEF TypesInv, Shape, MembersWrite
<1> QED BY <1>4, <1>5, <1>6, <1>7, <1>8, <1>9 DEF TypesInv, Shape

\* A poll waits for its key package, or holds its commit.
LEMMA PollTypes ==
  ASSUME TypesInv, NEW p \in polls
  PROVE  /\ p \in Polls({"pull"}, Sessions \cup {Nothing}) \cup
                  Polls({"commit", "welcome"}, Commits)
         /\ p.by \in Device /\ p.invite \in Invite
         /\ p.at \in {"pull", "commit", "welcome"}
         /\ p.at = "pull" => p \in Polls({"pull"}, Sessions \cup {Nothing})
         /\ p.at # "pull" => /\ p \in Polls({"commit", "welcome"}, Commits)
                             /\ p.held \in Commits
         /\ PollFits(p)
<1>1. /\ p \in Polls({"pull"}, Sessions \cup {Nothing}) \cup
               Polls({"commit", "welcome"}, Commits)
      /\ PollFits(p)
  BY DEF TypesInv, GroupTypeOK, Shape
<1> QED BY <1>1 DEF Polls

\* SendMessage.
LEMMA SendTypes ==
  ASSUME TypesInv, NEW d \in Device, NEW t \in Text, SendMessage(d, t)
  PROVE  TypesInv'
<1> DEFINE e == [kind |-> "text", by |-> d, epoch |-> live[d].epoch, what |-> t]
<1>1. /\ d \in open /\ live[d] # Nothing
      /\ written' = written \cup {t}
      /\ list' = [list EXCEPT ![d].shown = Append(@, t)]
      /\ seals' = seals \cup {Seal(d, live[d], e)}
      /\ sending' = sending \cup {e}
      /\ UNCHANGED <<fits, entries, toCreator, toInvitee, disk, pending, live,
                     open, maxSeq, socket, joining, polls, last, raced, excused,
                     adds, faults>>
  BY DEF SendMessage, server, hook
<1>2. /\ live[d] \in Sessions /\ list[d] \in Listed
      /\ disk[d] # Nothing /\ list[d] # Nothing
  BY <1>1, Typing, Absence
<1>3. e \in Texts /\ e.by = d
  BY <1>2 DEF Texts, Sessions
<1> HIDE DEF e
<1>4. /\ list' \in [Device -> Listed \cup {Nothing}]
      /\ \A c \in Device : (list'[c] = Nothing) = (list[c] = Nothing)
  <2>1. Append(list[d].shown, t) \in Seq(Text)
    BY <1>2 DEF Listed
  <2>2. [list[d] EXCEPT !.shown = Append(@, t)] \in Listed
    BY <1>2, <2>1 DEF Listed
  <2>3. list' = [list EXCEPT ![d] = [list[d] EXCEPT !.shown = Append(@, t)]]
    BY <1>1
  <2> QED BY <1>2, <2>2, <2>3, Typing, Absence
<1>5. \A s \in seals' : s \in Seals /\ SealFits(s)'
  <2>1. /\ Seal(d, live[d], e) \in Seals
        /\ Seal(d, live[d], e).by = d
    BY <1>2, <1>3 DEF Seal, Seals
  <2> QED BY <1>1, <1>2, <2>1, Typing DEF SealFits
<1>6. GroupTypeOK'
  BY <1>1, <1>3, <1>4, <1>5 DEF TypesInv, GroupTypeOK
<1>7. DevicesFit'
  BY <1>1, <1>4, Typing DEF TypesInv, Shape, DevicesFit
<1>8. Ordered'
  BY <1>1, Typing DEF Ordered
<1>9. \A p \in polls' : PollFits(p)'
  BY <1>1, PollTypes DEF PollFits
<1>10. MembersWrite'
  BY <1>1, <1>2, <1>3 DEF TypesInv, Shape, MembersWrite
<1> QED BY <1>5, <1>6, <1>7, <1>8, <1>9, <1>10 DEF TypesInv, Shape

\* An entry by a member goes to the log.
LEMMA PushedTypes ==
  ASSUME TypesInv, NEW e \in Commits \cup Texts, NEW tag, Push(e, tag),
         disk[e.by] # Nothing, sending' \subseteq sending, raced' \in BOOLEAN,
         UNCHANGED <<fits, toCreator, toInvitee, disk, seals, pending, live,
                     open, maxSeq, joining, list, last, excused, written, adds,
                     faults>>,
         polls' \subseteq Polls({"pull"}, Sessions \cup {Nothing}) \cup
                          Polls({"commit", "welcome"}, Commits),
         \A p \in polls' : PollFits(p)
  PROVE  TypesInv'
<1>1. /\ entries' \in Seq(Commits \cup Texts)
      /\ Len(entries') = Len(entries) + 1
      /\ entries'[Len(entries) + 1] = e
      /\ \A k \in 1 .. Len(entries) : entries'[k] = entries[k]
      /\ socket' \in [Device -> Seq(Nat) \cup {Nothing}]
      /\ \A d \in Device : (socket'[d] = Nothing) = (socket[d] = Nothing)
      /\ \A d \in open : Orderly(socket'[d], maxSeq[d], Len(entries'))
  BY Pushing
<1>2. GroupTypeOK'
  BY <1>1 DEF TypesInv, GroupTypeOK
<1>3. DevicesFit'
  BY <1>1, Typing DEF TypesInv, Shape, DevicesFit
<1>4. Ordered'
  BY <1>1 DEF Ordered
<1>5. \A p \in polls' : PollFits(p)'
  BY DEF PollFits
<1>6. MembersWrite'
  <2>1. ASSUME NEW k \in DOMAIN entries'
        PROVE  disk[entries'[k].by] # Nothing
    <3>1. k \in 1 .. Len(entries) + 1 /\ Len(entries) \in Nat
      BY <1>1, Typing
    <3>2. CASE k = Len(entries) + 1
      BY <1>1, <3>2
    <3>3. CASE k # Len(entries) + 1
      <4>1. k \in 1 .. Len(entries)
        BY <3>1, <3>3
      <4>2. k \in DOMAIN entries
        BY <4>1, Typing
      <4> QED BY <1>1, <4>1, <4>2 DEF TypesInv, Shape, MembersWrite
    <3> QED BY <3>2, <3>3
  <2> QED BY <2>1 DEF TypesInv, Shape, MembersWrite
<1>7. \A s \in seals' : SealFits(s)'
  BY DEF TypesInv, Shape, SealFits
<1> QED BY <1>2, <1>3, <1>4, <1>5, <1>6, <1>7 DEF TypesInv, Shape

\* PushText.
LEMMA PushTextTypes ==
  ASSUME TypesInv, NEW e \in sending, PushText(e)
  PROVE  TypesInv'
<1>1. /\ Push(e, e.by) /\ sending' = sending \ {e}
      /\ UNCHANGED <<fits, toCreator, toInvitee, disk, seals, pending, live,
                     open, maxSeq, joining, list, polls, last, raced, excused,
                     written, adds, faults>>
  BY DEF PushText, store, history
<1>2. e \in Texts /\ disk[e.by] # Nothing /\ raced \in BOOLEAN
  BY DEF TypesInv, GroupTypeOK, Shape, MembersWrite
<1>3. polls' \subseteq Polls({"pull"}, Sessions \cup {Nothing}) \cup
                       Polls({"commit", "welcome"}, Commits)
      /\ \A p \in polls' : PollFits(p)
  BY <1>1 DEF TypesInv, GroupTypeOK, Shape
<1> QED BY <1>1, <1>2, <1>3, PushedTypes

\* PushCommit.
LEMMA PushCommitTypes ==
  ASSUME TypesInv, NEW p \in polls, PushCommit(p)
  PROVE  /\ TypesInv' /\ p.held \in Commits
         /\ [p EXCEPT !.at = "welcome"].held = p.held
         /\ [p EXCEPT !.at = "welcome"].by = p.by
         /\ [p EXCEPT !.at = "welcome"].tag = p.tag
         /\ [p EXCEPT !.at = "welcome"].at = "welcome"
<1>1. /\ p.at = "commit" /\ Push(p.held, p.tag)
      /\ polls' = (polls \ {p}) \cup {[p EXCEPT !.at = "welcome"]}
      /\ raced' = (raced \/ \E q \in polls :
           q.at = "commit" /\ Len(q.held.epoch) < Len(p.held.epoch))
      /\ UNCHANGED <<fits, toCreator, toInvitee, disk, seals, pending, live,
                     open, maxSeq, joining, list, sending, last, excused,
                     written, adds, faults>>
  BY DEF PushCommit, store
<1> DEFINE q == [p EXCEPT !.at = "welcome"]
<1>2. /\ p \in Polls({"commit", "welcome"}, Commits) /\ p.held \in Commits
      /\ disk[p.by] # Nothing /\ p.held.by = p.by
      /\ PollFits(p)
  BY <1>1, PollTypes DEF PollFits
<1>3. /\ q \in Polls({"commit", "welcome"}, Commits)
      /\ q.held = p.held /\ q.by = p.by /\ q.tag = p.tag /\ q.live = p.live
      /\ q.at = "welcome" /\ q.invite = p.invite
  BY <1>2 DEF Polls
<1> HIDE DEF q
<1>4. PollFits(q)
  BY <1>1, <1>2, <1>3 DEF PollFits
<1>5. polls' = (polls \ {p}) \cup {q}
  BY <1>1 DEF q
<1>6. polls' \subseteq Polls({"pull"}, Sessions \cup {Nothing}) \cup
                       Polls({"commit", "welcome"}, Commits)
      /\ \A r \in polls' : PollFits(r)
  BY <1>3, <1>4, <1>5 DEF TypesInv, GroupTypeOK, Shape
<1>7. raced' \in BOOLEAN
  <2>1. raced \in BOOLEAN
    BY DEF TypesInv, GroupTypeOK
  <2> QED BY <1>1, <2>1
<1>8. TypesInv'
  BY <1>1, <1>2, <1>6, <1>7, PushedTypes
<1> QED BY <1>2, <1>3, <1>8 DEF q

\* Reload.
LEMMA ReloadTypes ==
  ASSUME TypesInv, NEW d \in Device, Reload(d)
  PROVE  TypesInv'
<1>1. /\ \E l \in Forgetting(d) :
           /\ list' = [list EXCEPT ![d] = l]
           /\ excused' \subseteq excused \cup {d}
      /\ faults' = faults + 1
      /\ joining' = [joining EXCEPT ![d] = Nothing]
      /\ live' = [live EXCEPT ![d] = Nothing]
      /\ open' = open \ {d}
      /\ maxSeq' = [maxSeq EXCEPT ![d] = 0]
      /\ socket' = [socket EXCEPT ![d] = Nothing]
      /\ polls' = polls \ PollsOf(d)
      /\ sending' = {s \in sending : s.by # d}
      /\ raced' = (raced \/ \E p \in PollsOf(d) : p.at = "commit")
      /\ seals' = {s \in seals : s.by # d}
      /\ UNCHANGED <<fits, entries, toCreator, toInvitee, disk, pending, last,
                     adds, written>>
  BY DEF Reload, server, Fault
<1>2. /\ list' \in [Device -> Listed \cup {Nothing}]
      /\ \A c \in Device : (list'[c] = Nothing) = (list[c] = Nothing)
      /\ excused' \subseteq Device
  <2>1. PICK l \in Forgetting(d) :
          /\ list' = [list EXCEPT ![d] = l]
          /\ excused' \subseteq excused \cup {d}
    BY <1>1
  <2>2. excused' \subseteq Device
    BY <2>1 DEF TypesInv, GroupTypeOK
  <2>3. CASE l = list[d]
    BY <2>1, <2>2, <2>3, Typing
  <2>4. CASE l # list[d]
    <3>1. /\ list[d] \in Listed /\ list[d].shown # <<>>
          /\ l = [list[d] EXCEPT !.shown = Front(@)]
      BY <2>4, Typing DEF Forgetting
    <3>2. Front(list[d].shown) \in Seq(Text)
      <4>1. list[d].shown \in Seq(Text)
        BY <3>1 DEF Listed
      <4>2. PICK s \in Seq(Text) : s = list[d].shown
        BY <4>1
      <4>3. Len(s) \in Nat /\ Len(s) # 0
        BY <3>1, <4>2
      <4>4. SubSeq(s, 1, Len(s) - 1) \in Seq(Text)
        BY <4>3, SubSeqProperties
      <4> QED BY <4>2, <4>4 DEF Front
    <3>3. l \in Listed
      BY <3>1, <3>2 DEF Listed
    <3> QED BY <2>1, <2>2, <3>1, <3>3, Typing, Absence
  <2> QED BY <2>3, <2>4
<1>3. GroupTypeOK'
  <2>1. faults' \in Nat /\ raced' \in BOOLEAN
    BY <1>1 DEF TypesInv, GroupTypeOK
  <2> QED BY <1>1, <1>2, <2>1 DEF TypesInv, GroupTypeOK
<1>4. DevicesFit'
  BY <1>1, <1>2, Typing DEF TypesInv, Shape, DevicesFit
<1>5. Ordered'
  BY <1>1, Typing DEF Ordered
<1>6. \A p \in polls' : PollFits(p)'
  <2> SUFFICES ASSUME NEW p \in polls, p.by # d
               PROVE  PollFits(p)'
    BY <1>1 DEF PollsOf
  <2>1. p.by \in Device /\ PollFits(p)
    BY PollTypes
  <2>2. live'[p.by] = live[p.by]
    BY <1>1, <2>1, Typing
  <2> QED BY <1>1, <2>1, <2>2 DEF PollFits
<1>7. sending' \subseteq sending /\ seals' \subseteq seals
  BY <1>1
<1> QED BY <1>1, <1>3, <1>4, <1>5, <1>6, <1>7, QuietStep

\* MakeInvite.
LEMMA MakeInviteTypes ==
  ASSUME TypesInv, NEW d \in Device, NEW i \in Invite, MakeInvite(d, i)
  PROVE  TypesInv'
<1>1. /\ d \in open
      /\ list' = [list EXCEPT ![d].invites = @ \cup {i}]
      /\ UNCHANGED <<fits, entries, toCreator, toInvitee, disk, seals, pending,
                     live, open, maxSeq, socket, joining, polls, sending, last,
                     raced, excused, written, adds, faults>>
  BY DEF MakeInvite, server, store, hook, history
<1>2. /\ list' \in [Device -> Listed \cup {Nothing}]
      /\ \A c \in Device : (list'[c] = Nothing) = (list[c] = Nothing)
  <2>1. list[d] \in Listed
    BY <1>1, Typing
  <2>2. [list[d] EXCEPT !.invites = @ \cup {i}] \in Listed
    BY <2>1 DEF Listed
  <2>3. list' = [list EXCEPT ![d] = [list[d] EXCEPT !.invites = @ \cup {i}]]
    BY <1>1
  <2> QED BY <2>1, <2>2, <2>3, Typing, Absence
<1>3. GroupTypeOK'
  BY <1>1, <1>2 DEF TypesInv, GroupTypeOK
<1>4. DevicesFit'
  BY <1>1, <1>2, Typing DEF TypesInv, Shape, DevicesFit
<1>5. Ordered'
  BY <1>1, Typing DEF Ordered
<1>6. \A p \in polls' : PollFits(p)'
  BY <1>1, PollTypes DEF PollFits
<1> QED BY <1>1, <1>3, <1>4, <1>5, <1>6, QuietStep

\* RequestToJoin.
LEMMA RequestTypes ==
  ASSUME TypesInv, NEW d \in Device, NEW i \in Invite, RequestToJoin(d, i)
  PROVE  TypesInv'
<1>1. /\ disk[d] = Nothing
      /\ pending' = [pending EXCEPT ![d] = <<d, i>>]
      /\ joining' = [joining EXCEPT ![d] = i]
      /\ toCreator' = [toCreator EXCEPT ![i] = Append(@, <<d, i>>)]
      /\ UNCHANGED <<fits, entries, toInvitee, disk, seals, live, open, maxSeq,
                     socket, list, polls, sending, last, raced, excused,
                     written, adds, faults>>
  BY DEF RequestToJoin, hook, history
<1>2. <<d, i>> \in Package
  BY DEF Package
<1>3. /\ toCreator' \in [Invite -> Seq(Package)]
      /\ \A n \in Invite : toCreator[n] # <<>> => toCreator'[n] # <<>>
  <2>1. toCreator \in [Invite -> Seq(Package)]
    BY DEF TypesInv, GroupTypeOK
  <2>2. /\ Append(toCreator[i], <<d, i>>) \in Seq(Package)
        /\ Append(toCreator[i], <<d, i>>) # <<>>
    BY <1>2, <2>1
  <2> QED BY <1>1, <2>1, <2>2
<1>4. GroupTypeOK'
  BY <1>1, <1>2, <1>3 DEF TypesInv, GroupTypeOK
<1>5. DevicesFit'
  BY <1>1, Typing DEF TypesInv, Shape, DevicesFit
<1>6. Ordered'
  BY <1>1, Typing DEF Ordered
<1>7. \A p \in polls' : PollFits(p)'
  BY <1>1, <1>3, PollTypes DEF PollFits
<1> QED BY <1>1, <1>4, <1>5, <1>6, <1>7, QuietStep

\* The session that a welcome leads to.
Welcomed(epoch) == Session(epoch, Len(epoch))
LEMMA WelcomedTypes ==
  /\ \A i \in Invite : \A n \in DOMAIN toInvitee[i] :
       GroupTypeOK => toInvitee[i][n].epoch \in Epoch
  /\ \A epoch \in Epoch : /\ Welcomed(epoch) \in Sessions
                          /\ Welcomed(epoch).epoch = epoch
                          /\ Welcomed(epoch).start = Len(epoch)
<1>1. ASSUME NEW i \in Invite, NEW n \in DOMAIN toInvitee[i], GroupTypeOK
      PROVE  toInvitee[i][n].epoch \in Epoch
  <2>1. PICK q \in Seq(Welcomes) : q = toInvitee[i]
    BY <1>1 DEF GroupTypeOK
  <2>2. q[n] \in Welcomes
    BY <2>1
  <2> QED BY <2>1, <2>2 DEF Welcomes
<1>2. ASSUME NEW epoch \in Epoch
      PROVE  /\ Welcomed(epoch) \in Sessions
             /\ Welcomed(epoch).epoch = epoch
             /\ Welcomed(epoch).start = Len(epoch)
  <2>1. Len(epoch) \in Nat
    BY DEF Epoch
  <2>2. PICK start \in Nat : start = Len(epoch)
    BY <2>1
  <2> QED BY <2>2, SessionTypes DEF Welcomed
<1> QED BY <1>1, <1>2

\* PollForWelcome ends the wait, or begins to seal the session of a welcome.
LEMMA Welcoming ==
  ASSUME TypesInv, NEW d \in Device, PollForWelcome(d)
  PROVE  /\ UNCHANGED <<fits, entries, toCreator, toInvitee, disk, pending,
                        live, open, maxSeq, socket, list, polls, sending, last,
                        raced, excused, written, adds, faults>>
         /\ \/ joining' = [joining EXCEPT ![d] = Nothing] /\ UNCHANGED seals
            \/ /\ \E i \in Invite : \E n \in DOMAIN toInvitee[i] :
                    seals' = seals \cup
                      {Seal(d, Welcomed(toInvitee[i][n].epoch), Nothing)}
               /\ UNCHANGED joining
<1> DEFINE i == joining[d]
           welcome == Head(toInvitee[i])
<1>1. /\ joining[d] # Nothing /\ toInvitee[joining[d]] # <<>>
      /\ UNCHANGED <<fits, entries, toCreator, toInvitee, disk, pending, live,
                     open, maxSeq, socket, list, polls, sending, last, raced,
                     excused, written, adds, faults>>
  BY DEF PollForWelcome, server, hook, history
<1>2. IF fits["welcome"] /\ welcome.for = pending[d]
      THEN /\ seals' = seals \cup {Seal(d, Welcomed(welcome.epoch), Nothing)}
           /\ UNCHANGED joining
      ELSE joining' = [joining EXCEPT ![d] = Nothing] /\ UNCHANGED seals
  BY DEF PollForWelcome, Welcomed
<1>3. joining[d] \in Invite
  BY <1>1, Typing
<1>4. CASE fits["welcome"] /\ welcome.for = pending[d]
  <2>1. toInvitee[i] \in Seq(Welcomes) /\ toInvitee[i] # <<>>
    BY <1>1, <1>3 DEF TypesInv, GroupTypeOK
  <2>2. 1 \in DOMAIN toInvitee[i] /\ welcome = toInvitee[i][1]
    <3>1. PICK q \in Seq(Welcomes) : q = toInvitee[i] /\ q # <<>>
      BY <2>1
    <3>2. 1 \in DOMAIN q /\ Head(q) = q[1]
      BY <3>1
    <3> QED BY <3>1, <3>2
  <2>3. /\ seals' = seals \cup {Seal(d, Welcomed(welcome.epoch), Nothing)}
        /\ UNCHANGED joining
    BY <1>2, <1>4
  <2>4. seals' = seals \cup {Seal(d, Welcomed(toInvitee[i][1].epoch), Nothing)}
    BY <2>2, <2>3
  <2> HIDE DEF welcome
  <2> QED BY <1>1, <1>3, <2>2, <2>3, <2>4
<1>5. CASE ~(fits["welcome"] /\ welcome.for = pending[d])
  BY <1>1, <1>2, <1>5
<1> QED BY <1>4, <1>5

\* PollForWelcome.
LEMMA WelcomeTypes ==
  ASSUME TypesInv, NEW d \in Device, PollForWelcome(d)
  PROVE  TypesInv'
<1>1. UNCHANGED <<fits, entries, toCreator, toInvitee, disk, pending, live,
                  open, maxSeq, socket, list, polls, sending, last, raced,
                  excused, written, adds, faults>>
  BY Welcoming
<1>2. /\ \A s \in seals' : s \in Seals /\ (s \in seals \/ s.entry = Nothing)
      /\ joining' \in [Device -> Invite \cup {Nothing}]
      /\ \A c \in Device : joining'[c] # Nothing => joining[c] # Nothing
  <2>1. CASE joining' = [joining EXCEPT ![d] = Nothing] /\ UNCHANGED seals
    BY <2>1, Typing
  <2>2. CASE /\ \E i \in Invite : \E n \in DOMAIN toInvitee[i] :
                  seals' = seals \cup
                    {Seal(d, Welcomed(toInvitee[i][n].epoch), Nothing)}
             /\ UNCHANGED joining
    <3>1. PICK i \in Invite : \E n \in DOMAIN toInvitee[i] :
            seals' = seals \cup
              {Seal(d, Welcomed(toInvitee[i][n].epoch), Nothing)}
      BY <2>2
    <3>2. PICK n \in DOMAIN toInvitee[i] :
            seals' = seals \cup
              {Seal(d, Welcomed(toInvitee[i][n].epoch), Nothing)}
      BY <3>1
    <3>3. Welcomed(toInvitee[i][n].epoch) \in Sessions
      BY WelcomedTypes DEF TypesInv
    <3>4. /\ Seal(d, Welcomed(toInvitee[i][n].epoch), Nothing) \in Seals
          /\ Seal(d, Welcomed(toInvitee[i][n].epoch), Nothing).entry = Nothing
      BY <3>3 DEF Seal, Seals
    <3> QED BY <2>2, <3>2, <3>4, Typing
  <2> QED BY <2>1, <2>2, Welcoming
<1>3. GroupTypeOK'
  BY <1>1, <1>2 DEF TypesInv, GroupTypeOK
<1>4. DevicesFit'
  BY <1>1, <1>2, Typing DEF TypesInv, Shape, DevicesFit
<1>5. Ordered'
  BY <1>1, Typing DEF Ordered
<1>6. \A p \in polls' : PollFits(p)'
  BY <1>1, PollTypes DEF PollFits
<1> QED BY <1>1, <1>2, <1>3, <1>4, <1>5, <1>6, QuietStep

\* SealLands.
LEMMA LandTypes ==
  ASSUME TypesInv, NEW s \in seals, SealLands(s)
  PROVE  TypesInv'
<1>1. /\ s.entry # Nothing
      /\ seals' = seals \ {s}
      /\ disk' = [disk EXCEPT ![s.by] = s.session]
      /\ list' = IF Shows(s) /\ s.by \in open
                 THEN [list EXCEPT ![s.by].shown = Append(@, s.entry.what)]
                 ELSE list
      /\ raced' = (raced \/ Forgets(s))
      /\ excused' \subseteq excused \cup {s.by}
      /\ UNCHANGED <<fits, entries, toCreator, toInvitee, pending, live, open,
                     maxSeq, socket, joining, polls, sending, last, written,
                     adds, faults>>
  BY DEF SealLands, Sealed, server, hook
<1>2. /\ s.by \in Device /\ s.session \in Sessions
      /\ s.entry \in Commits \cup Texts /\ disk[s.by] # Nothing
  BY <1>1, Typing DEF Seals, SealFits
<1>3. /\ list' \in [Device -> Listed \cup {Nothing}]
      /\ \A c \in Device : (list'[c] = Nothing) = (list[c] = Nothing)
  <2>1. CASE Shows(s) /\ s.by \in open
    <3>1. list[s.by] \in Listed
      BY <2>1, Typing
    <3>2. s.entry.what \in Text
      BY <1>2, <2>1, EntryTypes DEF Shows
    <3>3. Append(list[s.by].shown, s.entry.what) \in Seq(Text)
      BY <3>1, <3>2 DEF Listed
    <3>4. [list[s.by] EXCEPT !.shown = Append(@, s.entry.what)] \in Listed
      BY <3>1, <3>3 DEF Listed
    <3>5. list' = [list EXCEPT
            ![s.by] = [list[s.by] EXCEPT !.shown = Append(@, s.entry.what)]]
      BY <1>1, <2>1
    <3> QED BY <1>2, <3>1, <3>4, <3>5, Typing, Absence
  <2>2. CASE ~(Shows(s) /\ s.by \in open)
    BY <1>1, <2>2, Typing
  <2> QED BY <2>1, <2>2
<1>4. /\ disk' \in [Device -> Sessions \cup {Nothing}]
      /\ \A c \in Device : (disk'[c] = Nothing) = (disk[c] = Nothing)
  BY <1>1, <1>2, Typing, Absence
<1>5. GroupTypeOK'
  <2>1. raced' \in BOOLEAN
    <3>1. raced \in BOOLEAN
      BY DEF TypesInv, GroupTypeOK
    <3> QED BY <1>1, <3>1
  <2> QED BY <1>1, <1>2, <1>3, <1>4, <2>1 DEF TypesInv, GroupTypeOK
<1>6. DevicesFit'
  BY <1>1, <1>3, <1>4, Typing DEF TypesInv, Shape, DevicesFit
<1>7. Ordered'
  BY <1>1, Typing DEF Ordered
<1>8. \A p \in polls' : PollFits(p)'
  BY <1>1, <1>4, PollTypes DEF PollFits
<1> QED BY <1>1, <1>4, <1>5, <1>6, <1>7, <1>8, QuietStep

\* Joined: the session is sealed, and the group is open.
LEMMA Joining ==
  ASSUME TypesInv, NEW s \in seals, NEW again \in BOOLEAN, Joined(s, again)
  PROVE  /\ s.by \in Device /\ s.session \in Sessions
         /\ disk' = [disk EXCEPT ![s.by] = s.session]
         /\ seals' \subseteq seals /\ seals \ {s} \subseteq seals'
         /\ s.entry = Nothing
         /\ pending' = [pending EXCEPT ![s.by] = Nothing]
         /\ joining' = [joining EXCEPT ![s.by] = Nothing]
         /\ open' = open \cup {s.by}
         /\ socket' = IF s.by \in open THEN socket
                      ELSE [socket EXCEPT ![s.by] = Backlog(0)]
         /\ list' \in [Device -> Listed \cup {Nothing}]
         /\ \A c \in Device :
              (list'[c] = Nothing) = (c # s.by /\ list[c] = Nothing)
         /\ raced' \in BOOLEAN /\ faults' \in Nat
         /\ raced \/ (disk[s.by] # Nothing /\ Forgets(s)) => raced'
         /\ ~raced' => ~raced
         /\ excused \subseteq excused' /\ excused' \subseteq Device
         /\ UNCHANGED <<fits, entries, toCreator, toInvitee, live, maxSeq,
                        polls, sending, last, written, adds>>
<1>1. /\ s.entry = Nothing
      /\ disk' = [disk EXCEPT ![s.by] = s.session]
      /\ pending' = [pending EXCEPT ![s.by] = Nothing]
      /\ joining' = [joining EXCEPT ![s.by] = Nothing]
      /\ open' = open \cup {s.by}
      /\ socket' = IF s.by \in open THEN socket
                   ELSE [socket EXCEPT ![s.by] = Backlog(0)]
      /\ UNCHANGED <<fits, entries, toCreator, toInvitee, live, maxSeq, polls,
                     sending, last, written, adds>>
  BY DEF Joined, Sealed, server
<1>2. s.by \in Device /\ s.session \in Sessions
  BY Typing DEF Seals
<1>3. /\ seals' \subseteq seals /\ seals \ {s} \subseteq seals'
      /\ faults' \in Nat
  <2>1. faults \in Nat
    BY DEF TypesInv, GroupTypeOK
  <2>2. \/ faults' = faults + 1 /\ seals' = seals
        \/ seals' = seals \ {s} /\ faults' = faults
    BY DEF Joined, Fault
  <2> QED BY <2>1, <2>2
<1>4. /\ raced \in BOOLEAN /\ excused \subseteq Device
      /\ (list[s.by] = Nothing) = (disk[s.by] = Nothing)
  BY <1>2, Typing DEF TypesInv, GroupTypeOK
<1>5. CASE disk[s.by] = Nothing
  <2>1. /\ list' = [list EXCEPT ![s.by] = [shown |-> <<>>, invites |-> {}]]
        /\ UNCHANGED <<raced, excused>>
    BY <1>5 DEF Joined
  <2>2. PICK l \in Listed : list' = [list EXCEPT ![s.by] = l]
    <3>1. [shown |-> <<>>, invites |-> {}] \in Listed
      BY DEF Listed
    <3> QED BY <2>1, <3>1
  <2>3. /\ list' \in [Device -> Listed \cup {Nothing}]
        /\ \A c \in Device :
             (list'[c] = Nothing) = (c # s.by /\ list[c] = Nothing)
    BY <1>2, <2>2, Typing, Absence
  <2> QED BY <1>1, <1>2, <1>3, <1>4, <1>5, <2>1, <2>3
<1>6. CASE disk[s.by] # Nothing
  <2>1. /\ raced' = (raced \/ Forgets(s)) /\ list' = list
        /\ excused' = IF Reverts(s) THEN excused \cup {s.by} ELSE excused
    BY <1>6 DEF Joined
  <2>2. /\ list' \in [Device -> Listed \cup {Nothing}]
        /\ \A c \in Device :
             (list'[c] = Nothing) = (c # s.by /\ list[c] = Nothing)
    BY <1>2, <1>4, <1>6, <2>1, Typing
  <2>3. raced' \in BOOLEAN
    BY <1>4, <2>1
  <2>4. excused \subseteq excused' /\ excused' \subseteq Device
    BY <1>2, <1>4, <2>1
  <2> QED BY <1>1, <1>2, <1>3, <1>4, <2>1, <2>2, <2>3, <2>4
<1> QED BY <1>5, <1>6

\* Joined.
LEMMA JoinedTypes ==
  ASSUME TypesInv, NEW s \in seals, NEW again \in BOOLEAN, Joined(s, again)
  PROVE  TypesInv'
<1>1. /\ s.by \in Device /\ s.session \in Sessions
      /\ disk' = [disk EXCEPT ![s.by] = s.session]
      /\ seals' \subseteq seals
      /\ pending' = [pending EXCEPT ![s.by] = Nothing]
      /\ joining' = [joining EXCEPT ![s.by] = Nothing]
      /\ open' = open \cup {s.by}
      /\ socket' = IF s.by \in open THEN socket
                   ELSE [socket EXCEPT ![s.by] = Backlog(0)]
      /\ list' \in [Device -> Listed \cup {Nothing}]
      /\ \A c \in Device :
           (list'[c] = Nothing) = (c # s.by /\ list[c] = Nothing)
      /\ raced' \in BOOLEAN /\ faults' \in Nat
      /\ excused' \subseteq Device
      /\ UNCHANGED <<fits, entries, toCreator, toInvitee, live, maxSeq, polls,
                     sending, last, written, adds>>
  BY Joining
<1>2. /\ disk' \in [Device -> Sessions \cup {Nothing}]
      /\ \A c \in Device :
           (disk'[c] = Nothing) = (c # s.by /\ disk[c] = Nothing)
  BY <1>1, Typing, Absence
<1>3. /\ Backlog(0) \in Seq(Nat) /\ Orderly(Backlog(0), 0, Len(entries))
      /\ Backlog(0) # Nothing
  BY Typing, Backlogs, Absence
<1>4. /\ socket' \in [Device -> Seq(Nat) \cup {Nothing}]
      /\ \A c \in Device :
           /\ (socket'[c] = Nothing) = (c \notin open')
           /\ c \in open' => Orderly(socket'[c], maxSeq[c], Len(entries))
  <2>1. CASE s.by \in open
    <3>1. open' = open /\ socket' = socket
      BY <1>1, <2>1
    <3> QED BY <3>1, Typing, Absence
  <2>2. CASE s.by \notin open
    <3>1. socket' = [socket EXCEPT ![s.by] = Backlog(0)] /\ maxSeq[s.by] = 0
      BY <1>1, <2>2, Typing
    <3> QED BY <1>1, <1>3, <2>2, <3>1, Typing, Absence
  <2> QED BY <2>1, <2>2
<1>5. GroupTypeOK'
  BY <1>1, <1>2, <1>4 DEF TypesInv, GroupTypeOK
<1>6. DevicesFit'
  <2> SUFFICES ASSUME NEW c \in Device
               PROVE  /\ live'[c] # Nothing => c \in open'
                      /\ c \in open' => disk'[c] # Nothing
                      /\ joining'[c] # Nothing => disk'[c] = Nothing
                      /\ (list'[c] = Nothing) = (disk'[c] = Nothing)
                      /\ (socket'[c] = Nothing) = (c \notin open')
                      /\ maxSeq'[c] <= Len(entries')
                      /\ c \notin open' => maxSeq'[c] = 0
    BY DEF DevicesFit
  <2>1. CASE c = s.by
    BY <1>1, <1>2, <1>4, <2>1, Typing
  <2>2. CASE c # s.by
    <3>1. /\ joining'[c] = joining[c] /\ live'[c] = live[c]
          /\ maxSeq'[c] = maxSeq[c] /\ entries' = entries
          /\ (c \in open') = (c \in open)
      BY <1>1, <2>2, Typing
    <3> QED BY <1>1, <1>2, <1>4, <2>2, <3>1 DEF TypesInv, Shape, DevicesFit
  <2> QED BY <2>1, <2>2
<1>7. Ordered'
  <2>1. open' \subseteq Device
    BY <1>5 DEF GroupTypeOK
  <2> QED BY <1>1, <1>4, <2>1 DEF Ordered
<1>8. \A p \in polls' : PollFits(p)'
  BY <1>1, <1>2, PollTypes DEF PollFits
<1> QED BY <1>1, <1>2, <1>5, <1>6, <1>7, <1>8, QuietStep

\* The poll that begins.
NewPoll(d, i) ==
  [by |-> d, invite |-> i, at |-> "pull", n |-> adds,
   live |-> d \in open, tag |-> IF d \in open THEN d ELSE Nothing,
   held |-> IF d \in open THEN Nothing ELSE disk[d]]

\* Poll.
LEMMA PollBegins ==
  ASSUME TypesInv, NEW d \in Device, NEW i \in Invite, Poll(d, i)
  PROVE  TypesInv'
<1>1. /\ list[d] # Nothing /\ toCreator[i] # <<>>
      /\ d \in open => live[d] # Nothing
      /\ polls' = polls \cup {NewPoll(d, i)}
      /\ adds' = adds + 1
      /\ raced' = \/ raced
                  \/ \E p \in polls : p.by # d \/ ~p.live \/ d \notin open
                  \/ last.by # d /\ ~Heard(d)
      /\ UNCHANGED <<fits, entries, toCreator, toInvitee, disk, seals, pending,
                     live, open, maxSeq, socket, joining, list, sending, last,
                     excused, written, faults>>
  BY DEF Poll, NewPoll, server, store, hook
<1>2. disk[d] \in Sessions /\ disk[d] # Nothing /\ adds \in Nat
  BY <1>1, Typing, Absence DEF TypesInv, GroupTypeOK
<1>3. /\ NewPoll(d, i) \in Polls({"pull"}, Sessions \cup {Nothing})
      /\ PollFits(NewPoll(d, i))
  <2>1. CASE d \in open
    <3>1. NewPoll(d, i) =
            [by |-> d, invite |-> i, at |-> "pull", n |-> adds, live |-> TRUE,
             tag |-> d, held |-> Nothing]
      BY <2>1 DEF NewPoll
    <3> QED BY <1>1, <1>2, <2>1, <3>1 DEF Polls, PollFits
  <2>2. CASE d \notin open
    <3>1. NewPoll(d, i) =
            [by |-> d, invite |-> i, at |-> "pull", n |-> adds, live |-> FALSE,
             tag |-> Nothing, held |-> disk[d]]
      <4>1. (d \in open) = FALSE
        BY <2>2
      <4> QED BY <4>1 DEF NewPoll
    <3> QED BY <1>1, <1>2, <2>2, <3>1 DEF Polls, PollFits
  <2> QED BY <2>1, <2>2
<1>4. GroupTypeOK'
  <2>1. raced' \in BOOLEAN /\ adds' \in Nat
    <3>1. raced \in BOOLEAN
      BY DEF TypesInv, GroupTypeOK
    <3> QED BY <1>1, <1>2, <3>1
  <2> QED BY <1>1, <1>3, <2>1 DEF TypesInv, GroupTypeOK
<1>5. DevicesFit'
  BY <1>1, Typing DEF TypesInv, Shape, DevicesFit
<1>6. Ordered'
  BY <1>1, Typing DEF Ordered
<1>7. \A p \in polls' : PollFits(p)'
  <2>1. \A p \in polls' : PollFits(p)
    BY <1>1, <1>3, PollTypes
  <2> QED BY <1>1, <2>1 DEF PollFits
<1> QED BY <1>1, <1>4, <1>5, <1>6, <1>7, QuietStep

\* The session a poll adds with.
LEMMA Adding ==
  ASSUME TypesInv, NEW p \in polls, AddMember(p)
  PROVE  /\ p.at = "pull"
         /\ p \in Polls({"pull"}, Sessions \cup {Nothing})
         /\ UNCHANGED <<fits, entries, toCreator, toInvitee, disk, pending,
                        open, maxSeq, socket, joining, list, sending, raced,
                        excused, adds, faults, written>>
         /\ \/ polls' = polls \ {p} /\ UNCHANGED <<live, seals, last>>
            \/ \E s \in Sessions, x \in Commit : Added(p, s, x)
<1> DEFINE s == IF p.live THEN live[p.by] ELSE p.held
           package == Head(toCreator[p.invite])
           x == <<p.by, package, p.n>>
<1>1. /\ p.at = "pull"
      /\ IF Adds(p).ok
         THEN /\ polls' = {[p EXCEPT !.at = "commit", !.held = Adds(p).entry]}
                   \cup {IF SameSession(p, q)
                         THEN [q EXCEPT !.held = Adds(p).session]
                         ELSE q : q \in polls \ {p}}
              /\ live' = IF p.live THEN [live EXCEPT ![p.by] = Adds(p).session]
                                   ELSE live
              /\ seals' = seals \cup
                   {Seal(p.by, Adds(p).session, Adds(p).entry)}
              /\ last' = [by |-> p.by, epoch |-> Adds(p).session.epoch]
         ELSE polls' = polls \ {p} /\ UNCHANGED <<live, seals, last>>
      /\ UNCHANGED <<fits, entries, toCreator, toInvitee, disk, pending, open,
                     maxSeq, socket, joining, list, sending, raced, excused,
                     adds, faults, written>>
  BY DEF AddMember, server
<1>2. /\ Adds(p).entry = Entry(p, s, x)
      /\ Adds(p).session = Grown(s, x)
  BY DEF Adds, Entry, Grown
<1>3. p \in Polls({"pull"}, Sessions \cup {Nothing})
  BY <1>1, PollTypes
<1>4. s \in Sessions
  <2>1. p.by \in Device /\ PollFits(p) /\ p.live \in BOOLEAN
    BY <1>3, PollTypes DEF Polls
  <2> QED BY <1>1, <2>1, Typing DEF PollFits
<1>5. x \in Commit
  <2>1. p.invite \in Invite /\ p.by \in Device /\ p.n \in Nat
    BY <1>3 DEF Polls
  <2>2. toCreator[p.invite] \in Seq(Package) /\ toCreator[p.invite] # <<>>
    BY <1>1, <2>1, PollTypes DEF PollFits, TypesInv, GroupTypeOK
  <2>3. package \in Package
    BY <2>2
  <2> HIDE DEF package
  <2> QED BY <2>1, <2>3 DEF Commit
<1> HIDE DEF s, x
<1>6. CASE Adds(p).ok
  <2>1. Grown(s, x).epoch = Append(s.epoch, x)
    <3>1. s.epoch \in Seq(Commit) /\ s.start \in Nat
      BY <1>4, SessionTypes
    <3>2. PICK epoch \in Epoch : epoch = Append(s.epoch, x)
      BY <1>5, <3>1, PrefixAppend DEF Epoch
    <3>3. PICK start \in Nat : start = s.start
      BY <3>1
    <3> QED BY <3>2, <3>3, SessionTypes DEF Grown
  <2>2. s = (IF p.live THEN live[p.by] ELSE p.held) /\ x[1] = p.by
    BY DEF s, x
  <2>3. Added(p, s, x)
    BY <1>1, <1>2, <1>6, <2>1, <2>2 DEF Added, Committing, Holding
  <2> QED BY <1>1, <1>3, <1>4, <1>5, <2>3
<1>7. CASE ~Adds(p).ok
  BY <1>1, <1>3, <1>7
<1> QED BY <1>6, <1>7

\* The session a poll leaves and the commit it goes on with.
NewOnes(p, s, x) ==
  /\ Grown(s, x) \in Sessions
  /\ Grown(s, x).epoch = Append(s.epoch, x)
  /\ Grown(s, x).start = s.start
  /\ Entry(p, s, x) \in Commits
  /\ Entry(p, s, x).epoch = s.epoch /\ Entry(p, s, x).what = x
  /\ Entry(p, s, x).by = p.by
  /\ Committing(p, s, x) \in Polls({"commit", "welcome"}, Commits)
  /\ Committing(p, s, x).held = Entry(p, s, x)
  /\ Committing(p, s, x).at = "commit"
  /\ Committing(p, s, x).by = p.by
  /\ Committing(p, s, x).tag = p.tag
  /\ Committing(p, s, x).live = p.live
  /\ Committing(p, s, x).invite = p.invite
  /\ disk[p.by] # Nothing /\ p.by \in Device
  /\ p.live => live[p.by] # Nothing /\ live[p.by] = s
  /\ ~p.live => p.held = s
\* The polls that are left with the same session go on with the new one.
Rebased(p, s, x) ==
  \A q \in polls : SameSession(p, q) =>
    /\ Holding(q, Grown(s, x)) \in Polls({"pull"}, Sessions \cup {Nothing})
    /\ Holding(q, Grown(s, x)).at = "pull"
    /\ Holding(q, Grown(s, x)).by = p.by
    /\ Holding(q, Grown(s, x)).tag = q.tag
    /\ Holding(q, Grown(s, x)).held = Grown(s, x)
    /\ Holding(q, Grown(s, x)).live = FALSE
    /\ Holding(q, Grown(s, x)).invite = q.invite

\* The new session, the commit and the polls that hold them.
LEMMA AddedTypes ==
  ASSUME TypesInv, NEW p \in polls, AddMember(p),
         NEW s \in Sessions, NEW x \in Commit, Added(p, s, x)
  PROVE  NewOnes(p, s, x) /\ Rebased(p, s, x)
<1> DEFINE N == Grown(s, x)
           e == Entry(p, s, x)
<1>1. p.at = "pull" /\ p \in Polls({"pull"}, Sessions \cup {Nothing})
  BY Adding
<1>2. /\ Append(s.epoch, x) \in Epoch /\ s.start \in Nat /\ s.epoch \in Epoch
  BY SessionTypes, PrefixAppend DEF Epoch
<1>3. N \in Sessions /\ N.epoch = Append(s.epoch, x) /\ N.start = s.start
  <2>1. PICK epoch \in Epoch : epoch = Append(s.epoch, x)
    BY <1>2
  <2>2. PICK start \in Nat : start = s.start
    BY <1>2
  <2>3. N = Session(epoch, start)
    BY <2>1, <2>2 DEF Grown
  <2>4. /\ Session(epoch, start) \in Sessions
        /\ Session(epoch, start).epoch = epoch
        /\ Session(epoch, start).start = start
    BY SessionTypes
  <2> HIDE DEF N
  <2> QED BY <2>1, <2>2, <2>3, <2>4
<1>4. e \in Commits /\ e.epoch = s.epoch /\ e.what = x /\ e.by = p.by
  BY <1>1, <1>2 DEF Entry, Commits, Polls
<1> HIDE DEF N, e
<1>5. /\ [p EXCEPT !.at = "commit", !.held = e] \in
           Polls({"commit", "welcome"}, Commits)
      /\ [p EXCEPT !.at = "commit", !.held = e].held = e
      /\ [p EXCEPT !.at = "commit", !.held = e].at = "commit"
      /\ [p EXCEPT !.at = "commit", !.held = e].by = p.by
      /\ [p EXCEPT !.at = "commit", !.held = e].tag = p.tag
      /\ [p EXCEPT !.at = "commit", !.held = e].live = p.live
      /\ [p EXCEPT !.at = "commit", !.held = e].invite = p.invite
  BY <1>1, <1>4 DEF Polls
<1>6. Committing(p, s, x) = [p EXCEPT !.at = "commit", !.held = e]
  BY DEF Committing, e
<1>7. /\ disk[p.by] # Nothing /\ p.by \in Device
      /\ p.live => live[p.by] # Nothing /\ live[p.by] = s
      /\ ~p.live => p.held = s
  <2>1. PollFits(p) /\ p.by \in Device
    BY PollTypes
  <2>2. s = IF p.live THEN live[p.by] ELSE p.held
    BY DEF Added
  <2> QED BY <1>1, <2>1, <2>2 DEF PollFits
<1>8. ASSUME NEW q \in polls, SameSession(p, q)
      PROVE  /\ Holding(q, N) \in Polls({"pull"}, Sessions \cup {Nothing})
             /\ Holding(q, N).at = "pull"
             /\ Holding(q, N).by = p.by
             /\ Holding(q, N).tag = q.tag
             /\ Holding(q, N).held = N
             /\ Holding(q, N).live = FALSE
             /\ Holding(q, N).invite = q.invite
  <2>1. q.by = p.by /\ ~q.live /\ q.at = "pull"
    BY <1>8 DEF SameSession
  <2>2. q \in Polls({"pull"}, Sessions \cup {Nothing})
    BY <2>1, PollTypes
  <2>3. q.live = FALSE
    BY <2>1, <2>2 DEF Polls
  <2>4. Holding(q, N) = [q EXCEPT !.held = N]
    BY DEF Holding
  <2>5. /\ Holding(q, N) \in Polls({"pull"}, Sessions \cup {Nothing})
        /\ Holding(q, N).held = N
    BY <1>3, <2>2, <2>4 DEF Polls
  <2>6. /\ Holding(q, N).at = q.at /\ Holding(q, N).by = q.by
        /\ Holding(q, N).tag = q.tag /\ Holding(q, N).live = q.live
        /\ Holding(q, N).invite = q.invite
    BY <2>2, <2>4 DEF Polls
  <2> QED BY <2>1, <2>3, <2>5, <2>6
<1>9. /\ Committing(p, s, x) \in Polls({"commit", "welcome"}, Commits)
      /\ Committing(p, s, x).held = e
      /\ Committing(p, s, x).at = "commit"
      /\ Committing(p, s, x).by = p.by
      /\ Committing(p, s, x).tag = p.tag
      /\ Committing(p, s, x).live = p.live
      /\ Committing(p, s, x).invite = p.invite
  BY <1>5, <1>6
<1>10. NewOnes(p, s, x)
  BY <1>3, <1>4, <1>7, <1>9 DEF N, e, NewOnes
<1>11. Rebased(p, s, x)
  BY <1>8 DEF N, Rebased
<1> QED BY <1>10, <1>11

\* AddMember.
LEMMA AddMemberTypes ==
  ASSUME TypesInv, NEW p \in polls, AddMember(p)
  PROVE  TypesInv'
<1>1. /\ p.at = "pull"
      /\ UNCHANGED <<fits, entries, toCreator, toInvitee, disk, pending, open,
                     maxSeq, socket, joining, list, sending, raced, excused,
                     adds, faults, written>>
  BY Adding
<1>2. CASE polls' = polls \ {p} /\ UNCHANGED <<live, seals, last>>
  <2>1. GroupTypeOK'
    BY <1>1, <1>2 DEF TypesInv, GroupTypeOK
  <2>2. DevicesFit'
    BY <1>1, <1>2, Typing DEF TypesInv, Shape, DevicesFit
  <2>3. Ordered'
    BY <1>1, <1>2, Typing DEF Ordered
  <2>4. \A q \in polls' : PollFits(q)'
    BY <1>1, <1>2, PollTypes DEF PollFits
  <2> QED BY <1>1, <1>2, <2>1, <2>2, <2>3, <2>4, QuietStep
<1>3. CASE \E s \in Sessions, x \in Commit : Added(p, s, x)
  <2>1. PICK s \in Sessions : \E x \in Commit : Added(p, s, x)
    BY <1>3
  <2>2. PICK x \in Commit : Added(p, s, x)
    BY <2>1
  <2> DEFINE N == Grown(s, x)
             r == Committing(p, s, x)
  <2>3. /\ polls' = {r} \cup {IF SameSession(p, q) THEN Holding(q, N) ELSE q :
                               q \in polls \ {p}}
        /\ live' = IF p.live THEN [live EXCEPT ![p.by] = N] ELSE live
        /\ seals' = seals \cup {Seal(p.by, N, Entry(p, s, x))}
        /\ last' = [by |-> p.by, epoch |-> Append(s.epoch, x)]
    BY <2>2 DEF Added
  <2>4. NewOnes(p, s, x) /\ Rebased(p, s, x)
    BY <2>2, AddedTypes
  <2>12. /\ N \in Sessions /\ r \in Polls({"commit", "welcome"}, Commits)
         /\ r.at = "commit" /\ r.by = p.by /\ r.tag = p.tag
         /\ r.live = p.live /\ r.held.by = r.by /\ r.invite = p.invite
         /\ disk[p.by] # Nothing /\ p.by \in Device
         /\ p.live => live[p.by] # Nothing
         /\ Entry(p, s, x) \in Commits
    BY <2>4 DEF NewOnes
  <2>13. \A q \in polls : SameSession(p, q) =>
              /\ Holding(q, N) \in Polls({"pull"}, Sessions \cup {Nothing})
              /\ Holding(q, N).at = "pull"
              /\ Holding(q, N).by = p.by
              /\ Holding(q, N).tag = q.tag
              /\ Holding(q, N).held = N
              /\ Holding(q, N).live = FALSE
              /\ Holding(q, N).invite = q.invite
    BY <2>4 DEF Rebased
  <2> HIDE DEF N, r
  <2>5. PollFits(p) /\ r.held.by = r.by
    BY <2>12, PollTypes
  <2>6. /\ live' \in [Device -> Sessions \cup {Nothing}]
        /\ \A c \in Device : (live'[c] = Nothing) = (live[c] = Nothing)
    <3>1. CASE p.live
      BY <2>3, <2>12, <3>1, Typing, Absence
    <3>2. CASE ~p.live
      BY <2>3, <3>2, Typing
    <3> QED BY <3>1, <3>2
  <2>14. \A c \in seals' : c \in Seals /\ SealFits(c)'
    <3>1. /\ Seal(p.by, N, Entry(p, s, x)) \in Seals
          /\ Seal(p.by, N, Entry(p, s, x)).by = p.by
      BY <2>12 DEF Seal, Seals
    <3> QED BY <1>1, <2>3, <2>12, <3>1, Typing DEF SealFits
  <2>15. last' \in [by : Device, epoch : Epoch]
    <3>1. PICK epoch \in Epoch : epoch = Append(s.epoch, x)
      BY SessionTypes, PrefixAppend DEF Epoch
    <3> QED BY <2>3, <2>12, <3>1
  <2>7. ASSUME NEW q \in polls'
        PROVE  /\ q \in Polls({"pull"}, Sessions \cup {Nothing}) \cup
                        Polls({"commit", "welcome"}, Commits)
               /\ PollFits(q)'
    <3>1. CASE q = r
      <4>1. PollFits(r)'
        BY <1>1, <2>3, <2>12, <2>5, <2>6 DEF PollFits
      <4> QED BY <2>12, <3>1, <4>1
    <3>2. CASE q # r
      <4>1. PICK o \in polls \ {p} :
              q = IF SameSession(p, o) THEN Holding(o, N) ELSE o
        BY <2>3, <3>2
      <4>2. /\ PollFits(o) /\ o.by \in Device
            /\ o \in Polls({"pull"}, Sessions \cup {Nothing}) \cup
                     Polls({"commit", "welcome"}, Commits)
        BY PollTypes
      <4>3. CASE SameSession(p, o)
        <5>1. q = Holding(o, N) /\ o.by = p.by /\ o.at = "pull"
          BY <4>1, <4>3 DEF SameSession
        <5>2. /\ q \in Polls({"pull"}, Sessions \cup {Nothing})
              /\ q.at = "pull" /\ q.by = o.by /\ q.tag = o.tag
              /\ q.held \in Sessions /\ q.live = FALSE
              /\ q.invite = o.invite
          BY <2>12, <2>13, <4>3, <5>1
        <5>3. PollFits(q)'
          BY <1>1, <2>6, <4>2, <5>1, <5>2 DEF PollFits
        <5> QED BY <5>2, <5>3
      <4>4. CASE ~SameSession(p, o)
        <5>1. q = o
          BY <4>1, <4>4
        <5> QED BY <1>1, <2>6, <4>2, <5>1 DEF PollFits
      <4> QED BY <4>3, <4>4
    <3> QED BY <3>1, <3>2
  <2>8. GroupTypeOK'
    <3>1. polls' \subseteq Polls({"pull"}, Sessions \cup {Nothing}) \cup
                           Polls({"commit", "welcome"}, Commits)
      BY <2>7
    <3> QED BY <1>1, <2>14, <2>15, <2>6, <3>1 DEF TypesInv, GroupTypeOK
  <2>9. DevicesFit'
    BY <1>1, <2>6, Typing DEF TypesInv, Shape, DevicesFit
  <2>10. Ordered'
    BY <1>1, Typing DEF Ordered
  <2>11. MembersWrite'
    BY <1>1 DEF TypesInv, Shape, MembersWrite
  <2> QED BY <2>7, <2>8, <2>9, <2>10, <2>11, <2>14 DEF TypesInv, Shape
<1> QED BY <1>2, <1>3, Adding

\* PushWelcome.
LEMMA PushWelcomeTypes ==
  ASSUME TypesInv, NEW p \in polls, PushWelcome(p)
  PROVE  /\ TypesInv'
         /\ p.at = "welcome" /\ p.held \in Commits /\ p.invite \in Invite
         /\ \E w \in Welcomes :
              /\ w.epoch = Append(p.held.epoch, p.held.what)
              /\ toInvitee' =
                   [toInvitee EXCEPT ![p.invite] = Append(@, w)]
<1> DEFINE w == [for |-> p.held.what[2],
                 epoch |-> Append(p.held.epoch, p.held.what)]
<1>1. /\ p.at = "welcome"
      /\ toInvitee' = [toInvitee EXCEPT ![p.invite] = Append(@, w)]
      /\ polls' = polls \ {p}
      /\ list' = [list EXCEPT ![p.by].invites = @ \ {p.invite}]
      /\ UNCHANGED <<fits, entries, toCreator, disk, seals, pending, live, open,
                     maxSeq, socket, joining, sending, last, raced, excused,
                     written, adds, faults>>
  BY DEF PushWelcome, WelcomeDue, store, hook, history
<1>2. /\ p.held \in Commits /\ p.by \in Device /\ p.invite \in Invite
      /\ disk[p.by] # Nothing
  BY <1>1, PollTypes DEF PollFits
<1>3. w \in Welcomes
  <2>1. p.held.what \in Commit /\ p.held.epoch \in Seq(Commit)
    BY <1>2, EntryTypes
  <2>2. p.held.what[2] \in Package
    BY <2>1 DEF Commit
  <2>3. PICK epoch \in Epoch : epoch = Append(p.held.epoch, p.held.what)
    BY <2>1, PrefixAppend DEF Epoch
  <2> QED BY <2>2, <2>3 DEF Welcomes
<1>4. w.epoch = Append(p.held.epoch, p.held.what)
  OBVIOUS
<1> HIDE DEF w
<1>5. toInvitee' \in [Invite -> Seq(Welcomes)]
  <2>1. toInvitee \in [Invite -> Seq(Welcomes)]
    BY DEF TypesInv, GroupTypeOK
  <2>2. Append(toInvitee[p.invite], w) \in Seq(Welcomes)
    BY <1>2, <1>3, <2>1
  <2> QED BY <1>1, <2>1, <2>2
<1>6. /\ list' \in [Device -> Listed \cup {Nothing}]
      /\ \A c \in Device : (list'[c] = Nothing) = (list[c] = Nothing)
  <2>1. list[p.by] \in Listed
    BY <1>2, Typing
  <2>2. [list[p.by] EXCEPT !.invites = @ \ {p.invite}] \in Listed
    BY <2>1 DEF Listed
  <2>3. list' = [list EXCEPT
          ![p.by] = [list[p.by] EXCEPT !.invites = @ \ {p.invite}]]
    BY <1>1
  <2> QED BY <1>2, <2>1, <2>2, <2>3, Typing, Absence
<1>7. GroupTypeOK'
  BY <1>1, <1>5, <1>6 DEF TypesInv, GroupTypeOK
<1>8. DevicesFit'
  BY <1>1, <1>6, Typing DEF TypesInv, Shape, DevicesFit
<1>9. Ordered'
  BY <1>1, Typing DEF Ordered
<1>10. \A q \in polls' : PollFits(q)'
  BY <1>1, PollTypes DEF PollFits
<1>11. TypesInv'
  BY <1>1, <1>7, <1>8, <1>9, <1>10, QuietStep
<1> QED BY <1>1, <1>2, <1>3, <1>4, <1>11

\* PushFails loses a text, a commit or a welcome that was to be pushed.
LEMMA PushFailsTypes ==
  ASSUME TypesInv, PushFails
  PROVE  /\ TypesInv' /\ sending' \subseteq sending /\ polls' \subseteq polls
         /\ UNCHANGED <<fits, entries, toCreator, toInvitee, disk, seals,
                        pending, live, open, maxSeq, socket, joining, list,
                        last, excused, adds, written>>
         /\ raced => raced'
         /\ \A p \in polls : p.at = "commit" /\ ~raced' => p \in polls'
<1>1. /\ \/ \E e \in sending :
              sending' = sending \ {e} /\ UNCHANGED <<polls, raced>>
         \/ \E p \in polls :
              /\ p.at \in {"commit", "welcome"}
              /\ polls' = polls \ {p}
              /\ raced' = (raced \/ p.at = "commit")
              /\ UNCHANGED sending
      /\ faults' = faults + 1
      /\ UNCHANGED <<fits, entries, toCreator, toInvitee, disk, seals, pending,
                     live, open, maxSeq, socket, joining, list, last, excused,
                     adds, written>>
  BY DEF PushFails, Fault, server, store, hook
<1>2. /\ sending' \subseteq sending /\ polls' \subseteq polls
      /\ raced' \in BOOLEAN /\ faults' \in Nat
      /\ raced => raced'
      /\ \A p \in polls : p.at = "commit" /\ ~raced' => p \in polls'
  <2>1. raced \in BOOLEAN /\ faults' \in Nat
    BY <1>1 DEF TypesInv, GroupTypeOK
  <2>2. CASE \E e \in sending :
               sending' = sending \ {e} /\ UNCHANGED <<polls, raced>>
    BY <2>1, <2>2
  <2>3. CASE \E p \in polls : /\ polls' = polls \ {p}
                              /\ raced' = (raced \/ p.at = "commit")
                              /\ UNCHANGED sending
    BY <2>1, <2>3
  <2> QED BY <1>1, <2>2, <2>3
<1>3. GroupTypeOK'
  BY <1>1, <1>2 DEF TypesInv, GroupTypeOK
<1>4. DevicesFit'
  BY <1>1, Typing DEF TypesInv, Shape, DevicesFit
<1>5. Ordered'
  BY <1>1, Typing DEF Ordered
<1>6. \A q \in polls' : PollFits(q)'
  BY <1>1, <1>2, PollTypes DEF PollFits
<1> QED BY <1>1, <1>2, <1>3, <1>4, <1>5, <1>6, QuietStep

\* At the beginning there is only the creator, alone in the group.
LEMMA GroupInitTypes == GroupInit => TypesInv
<1> SUFFICES ASSUME GroupInit PROVE TypesInv
  OBVIOUS
<1>1. /\ entries = <<>> /\ polls = {} /\ sending = {} /\ seals = {}
      /\ last = [by |-> Creator, epoch |-> <<>>]
      /\ live = disk /\ open = {Creator} /\ written = {} /\ excused = {}
      /\ raced = FALSE /\ adds = 0 /\ faults \in {0, 1}
      /\ maxSeq = [d \in Device |-> 0]
      /\ pending = [d \in Device |-> Nothing]
      /\ joining = [d \in Device |-> Nothing]
      /\ toCreator = [i \in Invite |-> <<>>]
      /\ toInvitee = [i \in Invite |-> <<>>]
      /\ disk = [d \in Device |->
           IF d = Creator THEN Session(<<>>, 0) ELSE Nothing]
      /\ socket = [d \in Device |-> IF d = Creator THEN <<>> ELSE Nothing]
      /\ list = [d \in Device |->
           IF d = Creator THEN [shown |-> <<>>, invites |-> {}] ELSE Nothing]
      /\ Creator \in Device /\ fits \in [BlobKind -> BOOLEAN]
  BY GroupAssumption DEF GroupInit
<1>2. PICK s \in Sessions : s = Session(<<>>, 0)
  <2>1. <<>> \in Epoch
    BY DEF Epoch
  <2> QED BY <2>1, SessionTypes
<1>3. PICK l \in Listed : l = [shown |-> <<>>, invites |-> {}]
  <2>1. [shown |-> <<>>, invites |-> {}] \in Listed
    BY DEF Listed
  <2> QED BY <2>1
<1>4. PICK q \in Seq(Nat) : q = <<>>
  <2>1. <<>> \in Seq(Nat)
    OBVIOUS
  <2> QED BY <2>1
<1>5. /\ disk = [d \in Device |-> IF d = Creator THEN s ELSE Nothing]
      /\ list = [d \in Device |-> IF d = Creator THEN l ELSE Nothing]
      /\ socket = [d \in Device |-> IF d = Creator THEN q ELSE Nothing]
  BY <1>1, <1>2, <1>3, <1>4
<1>6. /\ toCreator \in [Invite -> Seq(Package)]
      /\ toInvitee \in [Invite -> Seq(Welcomes)]
      /\ entries \in Seq(Commits \cup Texts)
  BY <1>1
<1>7. GroupTypeOK
  <2>1. last \in [by : Device, epoch : Epoch]
    BY <1>1 DEF Epoch
  <2>2. /\ disk \in [Device -> Sessions \cup {Nothing}]
        /\ live \in [Device -> Sessions \cup {Nothing}]
        /\ list \in [Device -> Listed \cup {Nothing}]
        /\ socket \in [Device -> Seq(Nat) \cup {Nothing}]
    BY <1>1, <1>5
  <2>3. /\ pending \in [Device -> Package \cup {Nothing}]
        /\ joining \in [Device -> Invite \cup {Nothing}]
        /\ maxSeq \in [Device -> Nat]
    BY <1>1
  <2>5. /\ fits \in [BlobKind -> BOOLEAN] /\ raced \in BOOLEAN
        /\ adds \in Nat /\ faults \in Nat
    <3>1. 0 \in Nat /\ 1 \in Nat
      OBVIOUS
    <3> QED BY <1>1, <3>1
  <2>4. /\ open \subseteq Device /\ polls = {} /\ sending = {} /\ seals = {}
        /\ excused = {} /\ written = {}
    BY <1>1
  <2> QED BY <1>6, <2>1, <2>2, <2>3, <2>4, <2>5 DEF GroupTypeOK
<1>8. DevicesFit
  <2>1. Len(entries) = 0
    BY <1>1
  <2>2. s # Nothing /\ l # Nothing /\ q # Nothing
    BY Absence
  <2>3. \A d \in Device :
          /\ d = Creator => /\ disk[d] = s /\ list[d] = l /\ socket[d] = q
                            /\ live[d] = s /\ d \in open
          /\ d # Creator => /\ disk[d] = Nothing /\ list[d] = Nothing
                            /\ socket[d] = Nothing /\ live[d] = Nothing
                            /\ d \notin open
          /\ joining[d] = Nothing /\ maxSeq[d] = 0
    BY <1>1, <1>5
  <2> QED BY <2>1, <2>2, <2>3 DEF DevicesFit
<1>9. MembersWrite
  BY <1>1 DEF MembersWrite
<1>10. Ordered
  <2>1. Orderly(socket[Creator], 0, 0)
    BY <1>1 DEF Orderly
  <2> QED BY <1>1, <2>1 DEF Ordered
<1> QED BY <1>1, <1>7, <1>8, <1>9, <1>10 DEF TypesInv, Shape

\* Every action keeps the types and the shape.
LEMMA GroupStepTypes ==
  ASSUME TypesInv, [GroupNext]_groupVars
  PROVE  TypesInv'
<1>1. ASSUME NEW d \in Device,
             \/ Select(d) \/ Leave(d) \/ Load(d) \/ Reconnect(d)
             \/ ProcessEntry(d) \/ Reload(d) \/ PollForWelcome(d)
             \/ \E t \in Text : SendMessage(d, t)
             \/ \E i \in Invite :
                  MakeInvite(d, i) \/ RequestToJoin(d, i) \/ Poll(d, i)
      PROVE  TypesInv'
  <2>1. CASE Select(d) \/ Leave(d) \/ Load(d) \/ Reconnect(d)
    BY <2>1, SelectTypes, LeaveTypes, LoadTypes, ReconnectTypes
  <2>2. CASE ProcessEntry(d) \/ Reload(d) \/ PollForWelcome(d)
    BY <2>2, ProcessTypes, ReloadTypes, WelcomeTypes
  <2>3. CASE \E t \in Text : SendMessage(d, t)
    BY <2>3, SendTypes
  <2>4. CASE \E i \in Invite :
               MakeInvite(d, i) \/ RequestToJoin(d, i) \/ Poll(d, i)
    BY <2>4, MakeInviteTypes, RequestTypes, PollBegins
  <2> QED BY <1>1, <2>1, <2>2, <2>3, <2>4
<1>2. CASE \/ \E e \in sending : PushText(e)
           \/ \E s \in seals :
                SealLands(s) \/ \E again \in BOOLEAN : Joined(s, again)
  BY <1>2, PushTextTypes, LandTypes, JoinedTypes
<1>3. CASE \E p \in polls : AddMember(p) \/ PushCommit(p) \/ PushWelcome(p)
  BY <1>3, AddMemberTypes, PushCommitTypes, PushWelcomeTypes
<1>4. CASE PushFails
  BY <1>4, PushFailsTypes
<1>5. CASE UNCHANGED groupVars
  <2>1. UNCHANGED <<fits, entries, toCreator, toInvitee, disk, seals, pending,
                    live, open, maxSeq, socket, joining, list, polls, sending,
                    last, raced, excused, written, adds, faults>>
    BY <1>5 DEF groupVars, server, store, hook, page, history
  <2>2. GroupTypeOK'
    BY <2>1 DEF TypesInv, GroupTypeOK
  <2>3. DevicesFit'
    BY <2>1 DEF TypesInv, Shape, DevicesFit
  <2>4. Ordered'
    BY <2>1 DEF TypesInv, Ordered
  <2>5. \A p \in polls' : PollFits(p)'
    BY <2>1, PollTypes DEF PollFits
  <2> QED BY <2>1, <2>2, <2>3, <2>4, <2>5, QuietStep
<1> QED BY <1>1, <1>2, <1>3, <1>4, <1>5 DEF GroupNext

\* The type invariant of the group: the log (GroupDO.ts), the sessions (group.rs),
\* the hook (useGroupTransport.ts) and the polls (GroupChats.tsx).
THEOREM GroupTypes == GroupSpec => []GroupTypeOK
<1>1. GroupInit => TypesInv
  BY GroupInitTypes
<1>2. TypesInv /\ [GroupNext]_groupVars => TypesInv'
  BY GroupStepTypes
<1>3. TypesInv => GroupTypeOK
  BY DEF TypesInv
<1> QED BY <1>1, <1>2, <1>3, PTL DEF GroupSpec

-----------------------------------------------------------------------------
(* Group: whoever has joined was added by a commit of the log *)

\* The log only grows.
LogKept ==
  \A k \in DOMAIN entries : k \in DOMAIN entries' /\ entries'[k] = entries[k]

\* A commit that is in the log stays there.
LEMMA LoggedStays ==
  ASSUME NEW epoch, LoggedCommit(entries, epoch), LogKept
  PROVE  LoggedCommit(entries', epoch)
BY DEF LoggedCommit, LogKept

\* A session that goes back to such a commit still does.
LEMMA FoundedStays ==
  ASSUME NEW d, NEW s, Founded(entries, d, s), LogKept
  PROVE  Founded(entries', d, s)
BY LoggedStays DEF Founded

\* It also does when it moves on.
LEMMA FoundedGrows ==
  ASSUME NEW d, NEW s \in Sessions, NEW t, NEW x \in Commit,
         Founded(entries, d, s),
         t.start = s.start, t.epoch = Append(s.epoch, x) \/ t.epoch = s.epoch
  PROVE  Founded(entries, d, t)
<1>1. s.epoch \in Seq(Commit) /\ s.start \in 0 .. Len(s.epoch)
  BY SessionTypes DEF Founded
<1>2. CASE t.epoch = s.epoch
  BY <1>2 DEF Founded
<1>3. CASE t.epoch = Append(s.epoch, x)
  <2>1. PICK e \in Seq(Commit) : e = s.epoch
    BY <1>1
  <2>2. PICK n \in 0 .. Len(e) : n = s.start
    BY <1>1, <2>1
  <2>3. /\ SubSeq(Append(e, x), 1, n) = SubSeq(e, 1, n)
        /\ Len(Append(e, x)) = Len(e) + 1
    BY FirstPart, PrefixAppend
  <2>4. Len(e) \in Nat
    OBVIOUS
  <2>5. n \in 0 .. Len(e) + 1
    BY <2>4
  <2>6. t.start = n /\ t.epoch = Append(e, x)
    BY <1>3, <2>1, <2>2
  <2>7. d # Creator => LoggedCommit(entries, SubSeq(e, 1, n))
    BY <2>1, <2>2 DEF Founded
  <2>8. SubSeq(t.epoch, 1, t.start) = SubSeq(e, 1, n)
    BY <2>3, <2>6
  <2>9. t.start \in 0 .. Len(t.epoch)
    BY <2>3, <2>5, <2>6
  <2> QED BY <2>7, <2>8, <2>9 DEF Founded
<1> QED BY <1>2, <1>3

\* Sessions that stay go back to their commits.
LEMMA SessionsStay ==
  ASSUME SessionsFounded, LogKept,
         \A d \in Device : /\ disk'[d] = disk[d]
                           /\ live'[d] \in {live[d], disk[d], Nothing}
  PROVE  SessionsFounded'
<1> SUFFICES ASSUME NEW d \in Device
             PROVE  /\ disk'[d] # Nothing => Founded(entries', d, disk'[d])
                    /\ live'[d] # Nothing => Founded(entries', d, live'[d])
  BY DEF SessionsFounded
<1>1. /\ disk[d] # Nothing => Founded(entries', d, disk[d])
      /\ live[d] # Nothing => Founded(entries', d, live[d])
  BY FoundedStays DEF SessionsFounded
<1> QED BY <1>1

\* A device goes on with another session.
LEMMA SessionMoves ==
  ASSUME TypesInv, SessionsFounded, LogKept, NEW d \in Device, NEW s,
         Founded(entries, d, s),
         disk' \in {disk, [disk EXCEPT ![d] = s]},
         live' \in {live, [live EXCEPT ![d] = s]}
  PROVE  SessionsFounded'
<1> SUFFICES ASSUME NEW c \in Device
             PROVE  /\ disk'[c] # Nothing => Founded(entries', c, disk'[c])
                    /\ live'[c] # Nothing => Founded(entries', c, live'[c])
  BY DEF SessionsFounded
<1>1. /\ disk[c] # Nothing => Founded(entries', c, disk[c])
      /\ live[c] # Nothing => Founded(entries', c, live[c])
  BY FoundedStays DEF SessionsFounded
<1>2. Founded(entries', d, s)
  BY FoundedStays
<1>3. CASE c = d
  BY <1>1, <1>2, <1>3, Typing
<1>4. CASE c # d
  BY <1>1, <1>4, Typing
<1> QED BY <1>3, <1>4

\* The sessions that are being sealed land, and others begin to be.
LEMMA SealsStay ==
  ASSUME SealsFounded, LogKept, seals' \subseteq seals
  PROVE  SealsFounded'
BY FoundedStays DEF SealsFounded
LEMMA SealBegins ==
  ASSUME SealsFounded, LogKept, NEW d, NEW s, NEW e, Founded(entries, d, s),
         seals' = seals \cup {Seal(d, s, e)}
  PROVE  SealsFounded'
<1>1. Seal(d, s, e).by = d /\ Seal(d, s, e).session = s
  BY DEF Seal
<1> QED BY <1>1, FoundedStays DEF SealsFounded

\* Polls end, or go on as they were.
LEMMA PollStays ==
  ASSUME PollsFounded, LogKept, NEW p \in polls
  PROVE  /\ p.at = "pull" /\ ~p.live => Founded(entries', p.by, p.held)
         /\ p.at = "welcome" => \E k \in DOMAIN entries' : entries'[k] = p.held
<1>1. /\ p.at = "pull" /\ ~p.live => Founded(entries, p.by, p.held)
      /\ p.at = "welcome" => \E k \in DOMAIN entries : entries[k] = p.held
  BY DEF PollsFounded
<1>2. p.at = "pull" /\ ~p.live => Founded(entries', p.by, p.held)
  BY <1>1, FoundedStays
<1>3. p.at = "welcome" => \E k \in DOMAIN entries' : entries'[k] = p.held
  BY <1>1 DEF LogKept
<1> QED BY <1>2, <1>3

\* And so do those that the polls hold.
LEMMA PollsStay ==
  ASSUME PollsFounded, LogKept, polls' \subseteq polls
  PROVE  PollsFounded'
BY PollStays DEF PollsFounded

\* The welcomes that were sent are of commits in the log.
LEMMA WelcomesStay ==
  ASSUME WelcomesFounded, LogKept, UNCHANGED toInvitee
  PROVE  WelcomesFounded'
BY LoggedStays DEF WelcomesFounded

\* A push only adds to the log.
LEMMA KeptByPush ==
  ASSUME TypesInv, NEW e \in Commits \cup Texts, NEW tag, Push(e, tag)
  PROVE  LogKept /\ \E k \in DOMAIN entries' : entries'[k] = e
<1>1. /\ entries' \in Seq(Commits \cup Texts)
      /\ Len(entries') = Len(entries) + 1
      /\ entries'[Len(entries) + 1] = e
      /\ \A k \in 1 .. Len(entries) : entries'[k] = entries[k]
  BY Pushing
<1>2. Len(entries) \in Nat /\ DOMAIN entries = 1 .. Len(entries)
      /\ DOMAIN entries' = 1 .. Len(entries) + 1
  BY <1>1, Typing
<1> QED BY <1>1, <1>2 DEF LogKept

\* The steps that leave the sessions on disk, the log and the welcomes alone.
LEMMA JoinedQuietly ==
  ASSUME JoinedInv, UNCHANGED <<entries, toInvitee>>, polls' \subseteq polls,
         seals' \subseteq seals,
         \A d \in Device : /\ disk'[d] = disk[d]
                           /\ live'[d] \in {live[d], disk[d], Nothing}
  PROVE  JoinedInv'
<1>1. LogKept
  BY DEF LogKept
<1> QED BY <1>1, SessionsStay, SealsStay, PollsStay, WelcomesStay DEF JoinedInv

\* The user, the socket and the page leave the sessions on disk alone.
LEMMA JoinedQuietSteps ==
  ASSUME TypesInv, JoinedInv, NEW d \in Device,
         \/ Select(d) \/ Load(d) \/ Reconnect(d) \/ Reload(d)
         \/ \E i \in Invite : MakeInvite(d, i) \/ RequestToJoin(d, i)
  PROVE  JoinedInv'
<1>1. /\ UNCHANGED <<entries, toInvitee, disk>> /\ polls' \subseteq polls
      /\ seals' \subseteq seals
      /\ \/ UNCHANGED live
         \/ live' = [live EXCEPT ![d] = disk[d]]
         \/ live' = [live EXCEPT ![d] = Nothing]
  <2>1. CASE Select(d) \/ Reconnect(d)
    BY <2>1 DEF Select, Reconnect, server, store, page
  <2>2. CASE Load(d) \/ Reload(d)
    BY <2>2 DEF Load, Reload, server, store, page
  <2>3. CASE \E i \in Invite : MakeInvite(d, i) \/ RequestToJoin(d, i)
    BY <2>3 DEF MakeInvite, RequestToJoin, server, store, hook
  <2> QED BY <2>1, <2>2, <2>3
<1>2. \A c \in Device : /\ disk'[c] = disk[c]
                        /\ live'[c] \in {live[c], disk[c], Nothing}
  BY <1>1, Typing
<1> QED BY <1>1, <1>2, JoinedQuietly

\* A poll that keeps the session of the hook keeps a session with a commit.
LEMMA JoinedLeave ==
  ASSUME TypesInv, JoinedInv, NEW d \in Device, Leave(d)
  PROVE  JoinedInv'
<1>1. /\ UNCHANGED <<entries, toInvitee, disk, seals>> /\ polls' = Orphaned(d)
      /\ live' = [live EXCEPT ![d] = Nothing]
  BY DEF Leave, server, store
<1>2. LogKept
  BY <1>1 DEF LogKept
<1>3. SessionsFounded'
  BY <1>1, <1>2, SessionsStay, Typing DEF JoinedInv
<1>4. PollsFounded'
  <2> SUFFICES ASSUME NEW p \in polls'
               PROVE  /\ p.at = "pull" /\ ~p.live =>
                           Founded(entries', p.by, p.held)
                      /\ p.at = "welcome" =>
                           \E k \in DOMAIN entries' : entries'[k] = p.held
    BY DEF PollsFounded
  <2>1. PICK q \in polls :
          p = IF q.by = d /\ q.live /\ q.at = "pull"
              THEN [q EXCEPT !.live = FALSE, !.held = live[d]] ELSE q
    BY <1>1 DEF Orphaned
  <2>2. CASE q.by = d /\ q.live /\ q.at = "pull"
    <3>1. q \in Polls({"pull"}, Sessions \cup {Nothing}) /\ PollFits(q)
      BY <2>2, PollTypes
    <3>2. live[d] # Nothing
      BY <2>2, <3>1 DEF PollFits
    <3>3. p = [q EXCEPT !.live = FALSE, !.held = live[d]]
      BY <2>1, <2>2
    <3>4. p.by = d /\ p.at = "pull" /\ p.held = live[d]
      BY <2>2, <3>1, <3>3 DEF Polls
    <3>5. Founded(entries', d, live[d])
      BY <1>2, <3>2, FoundedStays DEF JoinedInv, SessionsFounded
    <3> QED BY <3>4, <3>5
  <2>3. CASE ~(q.by = d /\ q.live /\ q.at = "pull")
    <3>1. p = q
      BY <2>1, <2>3
    <3> QED BY <1>2, <3>1, PollStays DEF JoinedInv
  <2> QED BY <2>2, <2>3
<1> QED BY <1>1, <1>2, <1>3, <1>4, SealsStay, WelcomesStay DEF JoinedInv

\* Whoever processes a commit goes on from where it joined.
LEMMA JoinedProcess ==
  ASSUME TypesInv, JoinedInv, NEW d \in Device, ProcessEntry(d)
  PROVE  JoinedInv'
<1>1. UNCHANGED <<entries, toInvitee, polls, disk>>
  BY DEF ProcessEntry, server, page
<1>2. LogKept
  BY <1>1 DEF LogKept
<1>3. PICK seq \in 1 .. Len(entries) :
        \/ Skips(d, entries[seq])
        \/ \E s \in Sessions : Reads(d, entries[seq], s)
  BY Processing
<1>4. CASE Skips(d, entries[seq])
  <2>1. UNCHANGED <<live, seals>>
    BY <1>4 DEF Skips
  <2> QED BY <1>1, <2>1, JoinedQuietly
<1>5. CASE \E s \in Sessions : Reads(d, entries[seq], s)
  <2>1. PICK s \in Sessions : Reads(d, entries[seq], s)
    BY <1>5
  <2>2. /\ live[d] \in Sessions /\ s.start = live[d].start
        /\ s.epoch = IF entries[seq].kind = "commit"
                     THEN Append(live[d].epoch, entries[seq].what)
                     ELSE live[d].epoch
        /\ live' = [live EXCEPT ![d] = s]
        /\ seals' = seals \cup {Seal(d, s, entries[seq])}
    BY <2>1 DEF Reads
  <2>3. Founded(entries, d, live[d])
    BY <2>2, Absence DEF JoinedInv, SessionsFounded
  <2>4. Founded(entries, d, s)
    <3>1. CASE entries[seq].kind = "commit"
      <4>1. entries[seq].what \in Commit
        BY <3>1, Typing, EntryTypes
      <4> QED BY <2>2, <2>3, <3>1, <4>1, FoundedGrows
    <3>2. CASE entries[seq].kind # "commit"
      <4>1. s.epoch = live[d].epoch
        BY <2>2, <3>2
      <4> QED BY <2>2, <2>3, <4>1 DEF Founded
    <3> QED BY <3>1, <3>2
  <2>5. SessionsFounded'
    BY <1>1, <1>2, <2>2, <2>4, SessionMoves DEF JoinedInv
  <2>6. SealsFounded'
    BY <1>2, <2>2, <2>4, SealBegins DEF JoinedInv
  <2> QED BY <1>1, <1>2, <2>5, <2>6, PollsStay, WelcomesStay DEF JoinedInv
<1> QED BY <1>3, <1>4, <1>5

\* Sending seals the session of the hook.
LEMMA JoinedSend ==
  ASSUME TypesInv, JoinedInv, NEW d \in Device, NEW t \in Text,
         SendMessage(d, t)
  PROVE  JoinedInv'
<1>1. /\ UNCHANGED <<entries, toInvitee, polls, live, disk>>
      /\ live[d] # Nothing
      /\ \E e : seals' = seals \cup {Seal(d, live[d], e)}
  BY DEF SendMessage, server, hook
<1>2. LogKept
  BY <1>1 DEF LogKept
<1>3. Founded(entries, d, live[d])
  BY <1>1 DEF JoinedInv, SessionsFounded
<1>4. SealsFounded'
  BY <1>1, <1>2, <1>3, SealBegins DEF JoinedInv
<1> QED BY <1>1, <1>2, <1>4, SessionsStay, PollsStay, WelcomesStay
        DEF JoinedInv

\* A text in the log takes no commit out of it.
LEMMA JoinedPushText ==
  ASSUME TypesInv, JoinedInv, NEW e \in sending, PushText(e)
  PROVE  JoinedInv'
<1>1. /\ Push(e, e.by) /\ UNCHANGED <<toInvitee, polls, live, disk, seals>>
  BY DEF PushText, store
<1>2. e \in Commits \cup Texts
  BY DEF TypesInv, GroupTypeOK
<1>3. LogKept
  BY <1>1, <1>2, KeptByPush
<1> QED BY <1>1, <1>3, SessionsStay, SealsStay, PollsStay, WelcomesStay
        DEF JoinedInv

\* A commit is in the log before its welcome is due.
LEMMA JoinedPushCommit ==
  ASSUME TypesInv, JoinedInv, NEW p \in polls, PushCommit(p)
  PROVE  JoinedInv'
<1> DEFINE q == [p EXCEPT !.at = "welcome"]
<1>1. /\ Push(p.held, p.tag)
      /\ polls' = (polls \ {p}) \cup {q}
      /\ UNCHANGED <<toInvitee, live, disk, seals>>
  BY DEF PushCommit, store
<1>2. p.held \in Commits /\ q.held = p.held /\ q.at = "welcome"
  BY PushCommitTypes
<1> HIDE DEF q
<1>3. LogKept /\ \E k \in DOMAIN entries' : entries'[k] = p.held
  BY <1>1, <1>2, KeptByPush
<1>4. PollsFounded'
  <2> SUFFICES ASSUME NEW r \in polls'
               PROVE  /\ r.at = "pull" /\ ~r.live =>
                           Founded(entries', r.by, r.held)
                      /\ r.at = "welcome" =>
                           \E k \in DOMAIN entries' : entries'[k] = r.held
    BY DEF PollsFounded
  <2>1. CASE r = q
    BY <1>2, <1>3, <2>1
  <2>2. CASE r # q
    <3>1. r \in polls
      BY <1>1, <2>2
    <3> QED BY <1>3, <3>1, PollStays DEF JoinedInv
  <2> QED BY <2>1, <2>2
<1> QED BY <1>1, <1>3, <1>4, SessionsStay, SealsStay, WelcomesStay DEF JoinedInv

\* Whoever joins begins in the epoch of a welcome, whose commit is logged.
LEMMA JoinedWelcome ==
  ASSUME TypesInv, JoinedInv, NEW d \in Device, PollForWelcome(d)
  PROVE  JoinedInv'
<1>1. /\ UNCHANGED <<entries, toInvitee, live, disk, polls>>
      /\ \/ UNCHANGED seals
         \/ \E i \in Invite : \E n \in DOMAIN toInvitee[i] :
              seals' = seals \cup
                {Seal(d, Welcomed(toInvitee[i][n].epoch), Nothing)}
  BY Welcoming
<1>2. LogKept
  BY <1>1 DEF LogKept
<1>3. CASE UNCHANGED seals
  BY <1>1, <1>3, JoinedQuietly
<1>4. CASE \E i \in Invite : \E n \in DOMAIN toInvitee[i] :
             seals' = seals \cup
               {Seal(d, Welcomed(toInvitee[i][n].epoch), Nothing)}
  <2>1. PICK i \in Invite : \E n \in DOMAIN toInvitee[i] :
          seals' = seals \cup
            {Seal(d, Welcomed(toInvitee[i][n].epoch), Nothing)}
    BY <1>4
  <2>2. PICK n \in DOMAIN toInvitee[i] :
          seals' = seals \cup
            {Seal(d, Welcomed(toInvitee[i][n].epoch), Nothing)}
    BY <2>1
  <2>3. PICK epoch \in Epoch : epoch = toInvitee[i][n].epoch
    BY WelcomedTypes DEF TypesInv
  <2>4. LoggedCommit(entries, epoch)
    BY <2>3 DEF JoinedInv, WelcomesFounded
  <2>5. PICK s \in Sessions : /\ s = Welcomed(epoch)
                              /\ s.epoch = epoch /\ s.start = Len(epoch)
    BY WelcomedTypes
  <2>6. SubSeq(epoch, 1, Len(epoch)) = epoch /\ Len(epoch) \in Nat
    BY SubSeqFull DEF Epoch
  <2>7. Founded(entries, d, s)
    <3>1. s.start \in 0 .. Len(s.epoch)
      BY <2>5, <2>6
    <3>2. LoggedCommit(entries, SubSeq(s.epoch, 1, s.start))
      BY <2>4, <2>5, <2>6
    <3> QED BY <3>1, <3>2 DEF Founded
  <2>8. SealsFounded'
    BY <1>2, <2>2, <2>3, <2>5, <2>7, SealBegins DEF JoinedInv
  <2> QED BY <1>1, <1>2, <2>8, SessionsStay, PollsStay, WelcomesStay
          DEF JoinedInv
<1> QED BY <1>1, <1>3, <1>4

\* A session that is sealed has its commit.
LEMMA JoinedLands ==
  ASSUME TypesInv, JoinedInv, NEW s \in seals,
         SealLands(s) \/ \E again \in BOOLEAN : Joined(s, again)
  PROVE  JoinedInv'
<1>1. /\ UNCHANGED <<entries, toInvitee, polls, live>>
      /\ disk' = [disk EXCEPT ![s.by] = s.session]
      /\ seals' \subseteq seals
  <2>1. CASE SealLands(s)
    BY <2>1 DEF SealLands, Sealed, server, hook
  <2>2. CASE \E again \in BOOLEAN : Joined(s, again)
    BY <2>2, Joining
  <2> QED BY <2>1, <2>2
<1>2. LogKept
  BY <1>1 DEF LogKept
<1>3. s.by \in Device /\ Founded(entries, s.by, s.session)
  BY Typing DEF Seals, JoinedInv, SealsFounded
<1>4. SessionsFounded'
  BY <1>1, <1>2, <1>3, SessionMoves DEF JoinedInv
<1> QED BY <1>1, <1>2, <1>4, SealsStay, PollsStay, WelcomesStay DEF JoinedInv

\* A poll begins with the sealed session.
LEMMA JoinedPoll ==
  ASSUME TypesInv, JoinedInv, NEW d \in Device, NEW i \in Invite, Poll(d, i)
  PROVE  JoinedInv'
<1> DEFINE r == NewPoll(d, i)
<1>1. /\ list[d] # Nothing /\ polls' = polls \cup {r}
      /\ UNCHANGED <<entries, toInvitee, disk, live, seals>>
  BY DEF Poll, NewPoll, server, store, hook
<1>2. r.by = d /\ r.at = "pull" /\ (~r.live => r.held = disk[d])
  BY DEF NewPoll
<1>3. LogKept
  BY <1>1 DEF LogKept
<1>4. disk[d] # Nothing
  BY <1>1, Typing
<1>5. Founded(entries', d, disk[d])
  BY <1>3, <1>4, FoundedStays DEF JoinedInv, SessionsFounded
<1> HIDE DEF r
<1>6. PollsFounded'
  <2> SUFFICES ASSUME NEW p \in polls'
               PROVE  /\ p.at = "pull" /\ ~p.live =>
                           Founded(entries', p.by, p.held)
                      /\ p.at = "welcome" =>
                           \E k \in DOMAIN entries' : entries'[k] = p.held
    BY DEF PollsFounded
  <2>1. CASE p = r
    BY <1>2, <1>5, <2>1
  <2>2. CASE p # r
    <3>1. p \in polls
      BY <1>1, <2>2
    <3> QED BY <1>3, <3>1, PollStays DEF JoinedInv
  <2> QED BY <2>1, <2>2
<1> QED BY <1>1, <1>3, <1>6, SessionsStay, SealsStay, WelcomesStay DEF JoinedInv

\* Adding a member prolongs the session that adds.
LEMMA JoinedAdd ==
  ASSUME TypesInv, JoinedInv, NEW p \in polls, AddMember(p)
  PROVE  JoinedInv'
<1>1. p.at = "pull" /\ UNCHANGED <<entries, toInvitee, disk>>
  BY Adding
<1>2. LogKept
  BY <1>1 DEF LogKept
<1>3. CASE polls' = polls \ {p} /\ UNCHANGED <<live, seals, last>>
  BY <1>1, <1>3, JoinedQuietly
<1>4. CASE \E s \in Sessions, x \in Commit : Added(p, s, x)
  <2>1. PICK s \in Sessions : \E x \in Commit : Added(p, s, x)
    BY <1>4
  <2>2. PICK x \in Commit : Added(p, s, x)
    BY <2>1
  <2>3. NewOnes(p, s, x) /\ Rebased(p, s, x)
    BY <2>2, AddedTypes
  <2> DEFINE N == Grown(s, x)
             r == Committing(p, s, x)
  <2>4. /\ polls' = {r} \cup {IF SameSession(p, q) THEN Holding(q, N) ELSE q :
                               q \in polls \ {p}}
        /\ live' \in {live, [live EXCEPT ![p.by] = N]}
        /\ seals' = seals \cup {Seal(p.by, N, Entry(p, s, x))}
    BY <2>2 DEF Added
  <2>5. /\ N.epoch = Append(s.epoch, x) /\ N.start = s.start
        /\ r.at = "commit" /\ p.by \in Device
        /\ p.live => live[p.by] # Nothing /\ live[p.by] = s
        /\ ~p.live => p.held = s
    BY <2>3 DEF NewOnes
  <2>6. \A q \in polls : SameSession(p, q) =>
          /\ Holding(q, N).at = "pull" /\ Holding(q, N).by = p.by
          /\ Holding(q, N).held = N
    BY <2>3 DEF Rebased
  <2> HIDE DEF N, r
  <2>7. Founded(entries, p.by, s)
    BY <1>1, <2>5 DEF JoinedInv, SessionsFounded, PollsFounded
  <2>8. Founded(entries, p.by, N)
    BY <2>5, <2>7, FoundedGrows
  <2>9. SessionsFounded'
    BY <1>1, <1>2, <2>4, <2>5, <2>8, SessionMoves DEF JoinedInv
  <2>11. SealsFounded'
    BY <1>2, <2>4, <2>8, SealBegins DEF JoinedInv
  <2>10. PollsFounded'
    <3> SUFFICES ASSUME NEW q \in polls'
                 PROVE  /\ q.at = "pull" /\ ~q.live =>
                             Founded(entries', q.by, q.held)
                        /\ q.at = "welcome" =>
                             \E k \in DOMAIN entries' : entries'[k] = q.held
      BY DEF PollsFounded
    <3>1. CASE q = r
      BY <2>5, <3>1
    <3>2. CASE q # r
      <4>1. PICK o \in polls \ {p} :
              q = IF SameSession(p, o) THEN Holding(o, N) ELSE o
        BY <2>4, <3>2
      <4>2. CASE SameSession(p, o)
        <5>1. q.at = "pull" /\ q.by = p.by /\ q.held = N
          BY <2>6, <4>1, <4>2
        <5> QED BY <1>2, <2>8, <5>1, FoundedStays
      <4>3. CASE ~SameSession(p, o)
        BY <1>2, <4>1, <4>3, PollStays DEF JoinedInv
      <4> QED BY <4>2, <4>3
    <3> QED BY <3>1, <3>2
  <2> QED BY <1>1, <1>2, <2>9, <2>10, <2>11, WelcomesStay DEF JoinedInv
<1> QED BY <1>3, <1>4, Adding

\* A welcome is of the commit of its poll, which is logged.
LEMMA JoinedPushWelcome ==
  ASSUME TypesInv, JoinedInv, NEW p \in polls, PushWelcome(p)
  PROVE  JoinedInv'
<1>1. PICK w \in Welcomes :
        /\ w.epoch = Append(p.held.epoch, p.held.what)
        /\ toInvitee' = [toInvitee EXCEPT ![p.invite] = Append(@, w)]
  BY PushWelcomeTypes
<1>2. p.at = "welcome" /\ p.held \in Commits /\ p.invite \in Invite
  BY PushWelcomeTypes
<1>3. UNCHANGED <<entries, live, disk, seals>> /\ polls' \subseteq polls
  BY DEF PushWelcome, store, hook
<1>4. LogKept
  BY <1>3 DEF LogKept
<1>5. LoggedCommit(entries', w.epoch)
  <2>1. PICK k \in DOMAIN entries : entries[k] = p.held
    BY <1>2 DEF JoinedInv, PollsFounded
  <2>2. p.held.kind = "commit"
    BY <1>2, EntryTypes
  <2> QED BY <1>1, <1>3, <2>1, <2>2 DEF LoggedCommit
<1>6. WelcomesFounded'
  <2> SUFFICES ASSUME NEW i \in Invite, NEW n \in DOMAIN toInvitee'[i]
               PROVE  LoggedCommit(entries', toInvitee'[i][n].epoch)
    BY DEF WelcomesFounded
  <2>1. PICK q \in Seq(Welcomes) : q = toInvitee[i]
    BY DEF TypesInv, GroupTypeOK
  <2>2. \A m \in DOMAIN q : LoggedCommit(entries', q[m].epoch)
    BY <1>4, <2>1, LoggedStays DEF JoinedInv, WelcomesFounded
  <2>3. CASE i = p.invite
    <3>1. toInvitee'[i] = Append(q, w)
      BY <1>1, <1>2, <2>1, <2>3 DEF TypesInv, GroupTypeOK
    <3>2. PICK r \in Seq(Welcomes) : r = Append(q, w)
      BY PrefixAppend
    <3>3. /\ DOMAIN r = 1 .. Len(q) + 1 /\ r[Len(q) + 1] = w
          /\ \A m \in 1 .. Len(q) : r[m] = q[m]
          /\ DOMAIN q = 1 .. Len(q) /\ Len(q) \in Nat
      BY <3>2
    <3>4. n \in 1 .. Len(q) + 1
      BY <3>1, <3>2, <3>3
    <3>5. CASE n = Len(q) + 1
      BY <1>5, <3>1, <3>2, <3>3, <3>5
    <3>6. CASE n # Len(q) + 1
      <4>1. n \in 1 .. Len(q)
        BY <3>3, <3>4, <3>6
      <4> QED BY <2>2, <3>1, <3>2, <3>3, <4>1
    <3> QED BY <3>5, <3>6
  <2>4. CASE i # p.invite
    <3>1. toInvitee'[i] = q
      BY <1>1, <2>1, <2>4 DEF TypesInv, GroupTypeOK
    <3> QED BY <2>2, <3>1
  <2> QED BY <2>3, <2>4
<1> QED BY <1>3, <1>4, <1>6, SessionsStay, SealsStay, PollsStay DEF JoinedInv

\* At the beginning there is only the creator.
LEMMA JoinedInit == GroupInit => JoinedInv
<1> SUFFICES ASSUME GroupInit PROVE JoinedInv
  OBVIOUS
<1>1. /\ entries = <<>> /\ polls = {} /\ seals = {} /\ live = disk
      /\ toInvitee = [i \in Invite |-> <<>>]
      /\ disk = [d \in Device |->
           IF d = Creator THEN Session(<<>>, 0) ELSE Nothing]
  BY DEF GroupInit
<1>2. Founded(entries, Creator, Session(<<>>, 0))
  BY DEF Founded, Session
<1>3. SessionsFounded
  BY <1>1, <1>2 DEF SessionsFounded
<1>4. SealsFounded /\ PollsFounded /\ WelcomesFounded
  BY <1>1 DEF SealsFounded, PollsFounded, WelcomesFounded
<1> QED BY <1>3, <1>4 DEF JoinedInv

\* No step leaves a session without the commit it began with.
LEMMA JoinedStep ==
  ASSUME TypesInv, JoinedInv, [GroupNext]_groupVars
  PROVE  JoinedInv'
<1>1. ASSUME NEW d \in Device,
             \/ Select(d) \/ Leave(d) \/ Load(d) \/ Reconnect(d)
             \/ ProcessEntry(d) \/ Reload(d) \/ PollForWelcome(d)
             \/ \E t \in Text : SendMessage(d, t)
             \/ \E i \in Invite :
                  MakeInvite(d, i) \/ RequestToJoin(d, i) \/ Poll(d, i)
      PROVE  JoinedInv'
  <2>1. CASE \/ Select(d) \/ Load(d) \/ Reconnect(d) \/ Reload(d)
             \/ \E i \in Invite : MakeInvite(d, i) \/ RequestToJoin(d, i)
    BY <2>1, JoinedQuietSteps
  <2>2. CASE Leave(d) \/ ProcessEntry(d) \/ PollForWelcome(d)
    BY <2>2, JoinedLeave, JoinedProcess, JoinedWelcome
  <2>3. CASE \E t \in Text : SendMessage(d, t)
    BY <2>3, JoinedSend
  <2>4. CASE \E i \in Invite : Poll(d, i)
    BY <2>4, JoinedPoll
  <2> QED BY <1>1, <2>1, <2>2, <2>3, <2>4
<1>2. CASE \/ \E e \in sending : PushText(e)
           \/ \E s \in seals :
                SealLands(s) \/ \E again \in BOOLEAN : Joined(s, again)
  BY <1>2, JoinedPushText, JoinedLands
<1>3. CASE \E p \in polls : AddMember(p) \/ PushCommit(p) \/ PushWelcome(p)
  BY <1>3, JoinedAdd, JoinedPushCommit, JoinedPushWelcome
<1>4. CASE PushFails
  <2>1. UNCHANGED <<entries, toInvitee, disk, live, seals>>
        /\ polls' \subseteq polls
    BY <1>4, PushFailsTypes
  <2> QED BY <2>1, JoinedQuietly
<1>5. CASE UNCHANGED groupVars
  <2>1. UNCHANGED <<entries, toInvitee, disk, live, seals, polls>>
    BY <1>5 DEF groupVars, server, store, hook, page
  <2> QED BY <2>1, JoinedQuietly
<1> QED BY <1>1, <1>2, <1>3, <1>4, <1>5 DEF GroupNext

\* A device that has joined was added by a commit that is in the log, however the
\* pushes of commits and welcomes fail and the polls overlap (group.ts:248-249).
THEOREM JoinsFromTheLog == GroupSpec => []JoinedIsLogged
<1>1. GroupInit => TypesInv /\ JoinedInv
  BY GroupInitTypes, JoinedInit
<1>2. TypesInv /\ JoinedInv /\ [GroupNext]_groupVars => (TypesInv /\ JoinedInv)'
  BY GroupStepTypes, JoinedStep
<1>3. JoinedInv => JoinedIsLogged
  BY DEF JoinedInv, SessionsFounded, Founded, LoggedCommit, JoinedIsLogged,
         Members
<1> QED BY <1>1, <1>2, <1>3, PTL DEF GroupSpec

-----------------------------------------------------------------------------
(* Group: one history *)

\* The epochs of devices, commits and welcomes are sequences of commits.
LEMMA Epochs ==
  ASSUME TypesInv
  PROVE  /\ Path \in Seq(Commit) /\ last.by \in Device
         /\ \A d \in Device : disk[d] # Nothing => disk[d].epoch \in Seq(Commit)
         /\ \A d \in Device : live[d] # Nothing => live[d].epoch \in Seq(Commit)
         /\ \A s \in seals : /\ s.by \in Device /\ s.session \in Sessions
                             /\ s.session.epoch \in Seq(Commit)
         /\ \A k \in Logged :
              /\ k \in 1 .. Len(entries) /\ entries[k] \in Commits
              /\ entries[k].by \in Device /\ disk[entries[k].by] # Nothing
         /\ \A p \in polls : p.at # "pull" =>
              /\ p.held \in Commits /\ p.held.by = p.by
              /\ p.by \in Device /\ disk[p.by] # Nothing
         /\ \A e \in Commits :
              /\ e.epoch \in Seq(Commit) /\ Len(e.epoch) \in Nat
              /\ e.what \in Commit /\ Leads(e) \in Seq(Commit)
              /\ IsPrefix(e.epoch, Leads(e))
              /\ Len(Leads(e)) = Len(e.epoch) + 1
              /\ Leads(e)[Len(e.epoch) + 1] = e.what
         /\ \A i \in Invite : \A n \in DOMAIN toInvitee[i] :
              toInvitee[i][n].epoch \in Seq(Commit)
<1>1. Path \in Seq(Commit) /\ last.by \in Device
  BY Typing DEF Path, Epoch
<1>2. /\ \A d \in Device : disk[d] # Nothing => disk[d].epoch \in Seq(Commit)
      /\ \A d \in Device : live[d] # Nothing => live[d].epoch \in Seq(Commit)
  BY Typing, SessionTypes
<1>3. \A s \in seals : /\ s.by \in Device /\ s.session \in Sessions
                       /\ s.session.epoch \in Seq(Commit)
  BY Typing, SessionTypes DEF Seals
<1>4. ASSUME NEW e \in Commits
      PROVE  /\ e.epoch \in Seq(Commit) /\ Len(e.epoch) \in Nat
             /\ e.what \in Commit /\ Leads(e) \in Seq(Commit)
             /\ IsPrefix(e.epoch, Leads(e))
             /\ Len(Leads(e)) = Len(e.epoch) + 1
             /\ Leads(e)[Len(e.epoch) + 1] = e.what
  <2>1. PICK s \in Seq(Commit), x \in Commit : s = e.epoch /\ x = e.what
    BY EntryTypes
  <2>2. Append(s, x)[Len(s) + 1] = x /\ Len(s) \in Nat
    OBVIOUS
  <2> QED BY <2>1, <2>2, PrefixAppend DEF Leads
<1>5. ASSUME NEW k \in Logged
      PROVE  /\ k \in 1 .. Len(entries) /\ entries[k] \in Commits
             /\ entries[k].by \in Device /\ disk[entries[k].by] # Nothing
  <2>1. k \in DOMAIN entries /\ entries[k].kind = "commit"
    BY DEF Logged
  <2>2. k \in 1 .. Len(entries) /\ entries[k] \in Commits \cup Texts
    BY <2>1, Typing
  <2> QED BY <2>1, <2>2, EntryTypes DEF TypesInv, Shape, MembersWrite
<1>6. ASSUME NEW p \in polls, p.at # "pull"
      PROVE  /\ p.held \in Commits /\ p.held.by = p.by
             /\ p.by \in Device /\ disk[p.by] # Nothing
  BY <1>6, PollTypes DEF PollFits
<1>7. \A i \in Invite : \A n \in DOMAIN toInvitee[i] :
        toInvitee[i][n].epoch \in Seq(Commit)
  BY WelcomedTypes DEF TypesInv, Epoch
<1> QED BY <1>1, <1>2, <1>3, <1>4, <1>5, <1>6, <1>7

\* What lies on the path: a commit is the one the path has at its place.
LEMMA OnTheWay ==
  ASSUME TypesInv, NEW e \in Commits, IsPrefix(Leads(e), Path)
  PROVE  /\ Len(e.epoch) \in Nat /\ Len(Path) \in Nat
         /\ Len(e.epoch) < Len(Path)
         /\ IsPrefix(e.epoch, Path)
         /\ Path[Len(e.epoch) + 1] = e.what
<1>1. /\ e.epoch \in Seq(Commit) /\ Len(e.epoch) \in Nat
      /\ Leads(e) \in Seq(Commit) /\ IsPrefix(e.epoch, Leads(e))
      /\ Len(Leads(e)) = Len(e.epoch) + 1
      /\ Leads(e)[Len(e.epoch) + 1] = e.what
      /\ Path \in Seq(Commit)
  BY Epochs
<1>2. Len(Path) \in Nat
  BY <1>1
<1>3. /\ Len(Leads(e)) <= Len(Path)
      /\ \A n \in 1 .. Len(Leads(e)) : Leads(e)[n] = Path[n]
  BY <1>1, PrefixDef
<1>4. PICK m \in Nat : m = Len(e.epoch)
  BY <1>1
<1>5. m + 1 \in 1 .. Len(Leads(e)) /\ m < Len(Path)
  BY <1>1, <1>2, <1>3, <1>4
<1>6. IsPrefix(e.epoch, Path)
  BY <1>1, PrefixTrans
<1> QED BY <1>1, <1>2, <1>3, <1>4, <1>5, <1>6

\* What lies on the path and is as long is its end.
LEMMA EndOfPath ==
  ASSUME TypesInv, NEW t \in Seq(Commit), IsPrefix(t, Path)
  PROVE  /\ Len(t) \in Nat /\ Len(Path) \in Nat /\ Len(t) <= Len(Path)
         /\ ~(Len(t) \in 0 .. Len(Path) - 1) => t = Path
<1>1. Path \in Seq(Commit) /\ IsPrefix(Path, Path)
  BY Epochs, PrefixRefl
<1>2. Len(t) \in Nat /\ Len(Path) \in Nat /\ Len(t) <= Len(Path)
  BY <1>1, PrefixDef
<1>3. Len(t) = Len(Path) => t = Path
  BY <1>1, PrefixesOfOne
<1> QED BY <1>2, <1>3

\* The commits of the log and those on their way lie on the path.
LEMMA CommitsOnPath ==
  ASSUME TypesInv, OnPath
  PROVE  /\ \A k \in Logged : /\ Len(entries[k].epoch) \in Nat
                              /\ Len(entries[k].epoch) < Len(Path)
                              /\ IsPrefix(entries[k].epoch, Path)
                              /\ Path[Len(entries[k].epoch) + 1] = entries[k].what
         /\ \A p \in Committed : /\ Len(p.held.epoch) \in Nat
                                 /\ Len(p.held.epoch) < Len(Path)
                                 /\ Path[Len(p.held.epoch) + 1] = p.held.what
         /\ Len(Path) \in Nat
<1>1. ASSUME NEW k \in Logged
      PROVE  entries[k] \in Commits /\ IsPrefix(Leads(entries[k]), Path)
  BY Epochs DEF OnPath
<1>2. ASSUME NEW p \in Committed
      PROVE  p.held \in Commits /\ IsPrefix(Leads(p.held), Path)
  <2>1. p \in polls /\ p.at # "pull"
    BY DEF Committed
  <2> QED BY <2>1, Epochs DEF OnPath
<1>3. Len(Path) \in Nat
  BY Epochs
<1> QED BY <1>1, <1>2, <1>3, OnTheWay

\* The hook lets go of sessions, or goes on in the same epochs.
SameLive ==
  \A d \in Device : live'[d] # Nothing =>
    live[d] # Nothing /\ live'[d].epoch = live[d].epoch

LEMMA HookStays ==
  ASSUME TypesInv, Hooked, UNCHANGED <<entries, last>>,
         Committed' \subseteq Committed, SameLive
  PROVE  Hooked'
<1>1. Path' = Path /\ Logged' = Logged
  BY DEF Path, Logged
<1>2. \A k \in Logged : entries[k].by \in Device
  BY Epochs
<1>3. \A p \in Committed : p.by \in Device
  BY Epochs DEF Committed
<1> QED BY <1>1, <1>2, <1>3 DEF Hooked, SameLive, Merges

LEMMA AddsStay ==
  ASSUME TypesInv, TypesInv', OneAdds, UNCHANGED last, polls' \subseteq polls,
         SameLive
  PROVE  OneAdds'
<1>1. Path' = Path /\ Committed' \subseteq Committed
  BY DEF Path, Committed
<1>2. ASSUME NEW p \in polls', p.at = "pull", p.live
      PROVE  live'[p.by].epoch = Path
  <2>1. p \in polls /\ p.by \in Device
    BY PollTypes
  <2>2. PollFits(p)'
    BY DEF TypesInv, Shape
  <2>3. live'[p.by] # Nothing
    BY <1>2, <2>2 DEF PollFits
  <2> QED BY <1>2, <2>1, <2>3 DEF OneAdds, SameLive
<1>3. ASSUME NEW p \in polls', p.at = "pull", ~p.live
      PROVE  live'[p.by] = Nothing /\ p.held.epoch = Path
  <2>1. p \in polls /\ p.by \in Device
    BY PollTypes
  <2> QED BY <1>3, <2>1 DEF OneAdds, SameLive
<1>4. \A p, q \in polls' : p # q => p.by = q.by /\ p.tag # Nothing
  BY DEF OneAdds
<1>5. \A p \in Committed' : p.by = last.by
  BY <1>1 DEF OneAdds
<1> QED BY <1>1, <1>2, <1>3, <1>4, <1>5 DEF OneAdds

\* The steps that add no commit, neither to the log nor on the way there.
LEMMA TaleStays ==
  ASSUME TypesInv, Tale, UNCHANGED <<entries, last>>, Committed' = Committed,
         \A p \in polls' : p.at # "pull" => p \in polls,
         \A d \in Device : disk'[d] # Nothing => IsPrefix(disk'[d].epoch, Path),
         \A s \in seals' : IsPrefix(s.session.epoch, Path),
         \A i \in Invite : \A n \in DOMAIN toInvitee'[i] :
           IsPrefix(toInvitee'[i][n].epoch, Path),
         OneAdds', Hooked', Merged', Follows'
  PROVE  Tale'
<1>1. Path' = Path /\ Logged' = Logged
  BY DEF Path, Logged
<1>2. OnPath'
  BY <1>1 DEF Tale, OnPath
<1>3. Signed'
  BY <1>1 DEF Tale, Signed
<1>4. Rising'
  BY <1>1 DEF Tale, Rising
<1> QED BY <1>2, <1>3, <1>4 DEF Tale

\* The steps that change nothing that is sealed.
LEMMA QuietTale ==
  ASSUME TypesInv, Tale, UNCHANGED <<entries, last, disk, toInvitee>>,
         polls' \subseteq polls, Committed \subseteq polls',
         \A p \in Committed : Sealing(p.held) => Sealing(p.held)',
         \A s \in seals' \ seals :
           /\ IsPrefix(s.session.epoch, Path)
           /\ s.entry # Nothing => s.entry.kind # "commit",
         OneAdds', Hooked', Follows'
  PROVE  Tale'
<1>1. Committed' = Committed /\ Logged' = Logged
  BY DEF Committed, Logged
<1>2. Merged'
  BY <1>1 DEF Tale, Merged
<1>3. \A s \in seals' : IsPrefix(s.session.epoch, Path)
  BY DEF Tale, OnPath
<1>4. /\ \A d \in Device : disk'[d] # Nothing => IsPrefix(disk'[d].epoch, Path)
      /\ \A i \in Invite : \A n \in DOMAIN toInvitee'[i] :
           IsPrefix(toInvitee'[i][n].epoch, Path)
  BY DEF Tale, OnPath
<1> QED BY <1>1, <1>2, <1>3, <1>4, TaleStays

\* Whoever stays open hears what it heard, in the epoch it was in.
LEMMA FollowsStays ==
  ASSUME TypesInv, Follows, UNCHANGED entries, open' \subseteq open,
         excused \subseteq excused',
         \A d \in open' : /\ socket'[d] = socket[d]
                          /\ live[d] # Nothing =>
                               /\ live'[d] # Nothing
                               /\ live'[d].epoch = live[d].epoch
  PROVE  Follows'
<1>1. Logged' = Logged
  BY DEF Logged
<1> QED BY <1>1 DEF Follows, Merges

\* What is under way to a device lies beyond what it has taken.
LEMMA UnderWay ==
  ASSUME TypesInv, NEW d \in open, NEW k \in Range(socket[d])
  PROVE  k \in maxSeq[d] + 1 .. Len(entries)
<1>1. Orderly(socket[d], maxSeq[d], Len(entries))
  BY DEF TypesInv, Ordered
<1> QED BY <1>1 DEF Orderly, Range

\* A log that is sent from where a device stopped brings what it had under way.
LEMMA FollowsAgain ==
  ASSUME TypesInv, Follows, NEW d \in Device, NEW since \in Nat,
         since <= Len(entries), d \in open => since = maxSeq[d],
         d \notin open => since = 0,
         UNCHANGED <<entries, live>>, excused \subseteq excused',
         open' \subseteq open \cup {d},
         socket' = [socket EXCEPT ![d] = Backlog(since)]
  PROVE  Follows'
<1> SUFFICES ASSUME NEW c \in open' \ excused', NEW k \in Logged',
                    entries'[k].by # c,
                    live'[c] # Nothing => ~Merges(live'[c], entries'[k])
             PROVE  k \in Range(socket'[c])
  BY DEF Follows
<1>1. k \in Logged /\ k \in 1 .. Len(entries) /\ Len(entries) \in Nat
  BY Typing DEF Logged
<1>2. c \in Device /\ c \notin excused
  BY Typing
<1>3. CASE c = d
  <2>1. socket'[c] = Backlog(since)
    BY <1>2, <1>3, Typing
  <2>2. Range(Backlog(since)) = since + 1 .. Len(entries)
    BY Typing, Backlogs
  <2>3. CASE d \in open
    <3>1. k \in Range(socket[d])
      BY <1>1, <1>2, <1>3, <2>3 DEF Follows
    <3> QED BY <2>1, <2>2, <2>3, <3>1, UnderWay
  <2>4. CASE d \notin open
    BY <1>1, <2>1, <2>2, <2>4
  <2> QED BY <2>3, <2>4
<1>4. CASE c # d
  <2>1. c \in open /\ socket'[c] = socket[c]
    BY <1>2, <1>4, Typing
  <2> QED BY <1>1, <1>2, <2>1 DEF Follows
<1> QED BY <1>3, <1>4

\* Select has the whole log sent.
LEMMA TaleSelect ==
  ASSUME TypesInv, TypesInv', Tale, NEW d \in Device, Select(d)
  PROVE  Tale'
<1>1. /\ d \notin open /\ open' = open \cup {d}
      /\ socket' = [socket EXCEPT ![d] = Backlog(0)]
      /\ UNCHANGED <<entries, toInvitee, disk, seals, last, polls, live,
                     excused>>
  BY DEF Select, server, store, page, history
<1>2. Follows'
  BY <1>1, FollowsAgain, Typing DEF Tale
<1>3. SameLive
  BY <1>1 DEF SameLive
<1>4. OneAdds' /\ Hooked'
  BY <1>1, <1>3, AddsStay, HookStays DEF Tale, Committed
<1> QED BY <1>1, <1>2, <1>4, QuietTale DEF Committed, Sealing

\* Reconnect has the log sent from maxSeq on, and brings what was lost.
LEMMA TaleReconnect ==
  ASSUME TypesInv, TypesInv', Tale, NEW d \in Device, Reconnect(d)
  PROVE  Tale'
<1>1. /\ d \in open
      /\ socket' = [socket EXCEPT ![d] = Backlog(maxSeq[d])]
      /\ UNCHANGED <<entries, toInvitee, disk, seals, last, polls, live,
                     excused, open>>
  BY DEF Reconnect, server, store, page
<1>2. Follows'
  BY <1>1, FollowsAgain, Typing DEF Tale
<1>3. SameLive
  BY <1>1 DEF SameLive
<1>4. OneAdds' /\ Hooked'
  BY <1>1, <1>3, AddsStay, HookStays DEF Tale, Committed
<1> QED BY <1>1, <1>2, <1>4, QuietTale DEF Committed, Sealing

\* Load brings the sealed session, when no poll is under way with another copy.
LEMMA TaleLoad ==
  ASSUME TypesInv, TypesInv', Tale, NEW d \in Device, Load(d), ~raced'
  PROVE  Tale'
<1>1. /\ live[d] = Nothing
      /\ live' = [live EXCEPT ![d] = disk[d]] /\ PollsOf(d) = {}
      /\ excused \subseteq excused'
      /\ UNCHANGED <<entries, toInvitee, disk, seals, last, polls, socket, open>>
  BY DEF Load, server, store, page
<1>2. \A c \in Device : live'[c] = IF c = d THEN disk[d] ELSE live[c]
  BY <1>1, Typing
<1>3. Path' = Path /\ Logged' = Logged /\ Committed' = Committed
  BY <1>1 DEF Path, Logged, Committed
<1>4. \A p \in polls : p.by # d /\ p.by \in Device
  BY <1>1, PollTypes DEF PollsOf
<1>5. OneAdds'
  BY <1>1, <1>2, <1>3, <1>4 DEF Tale, OneAdds
<1>6. Hooked'
  <2>1. \A c \in Device : live'[c] # Nothing => IsPrefix(live'[c].epoch, Path)
    BY <1>2 DEF Tale, OnPath, Hooked
  <2>2. ASSUME NEW k \in Logged, live'[entries[k].by] # Nothing
        PROVE  Merges(live'[entries[k].by], entries[k])
    <3>1. entries[k].by \in Device
      BY Epochs
    <3> QED BY <1>2, <2>2, <3>1 DEF Tale, Hooked, Merged
  <2>3. \A p \in Committed : live'[p.by] # Nothing => Merges(live'[p.by], p.held)
    BY <1>2, <1>4 DEF Tale, Hooked, Committed
  <2> QED BY <1>1, <1>3, <2>1, <2>2, <2>3 DEF Hooked
<1>7. Follows'
  <2>1. \A c \in open' : /\ socket'[c] = socket[c]
                         /\ live[c] # Nothing => live'[c] = live[c]
    BY <1>1, <1>2, Typing
  <2> QED BY <1>1, <2>1, FollowsStays DEF Tale
<1> QED BY <1>1, <1>5, <1>6, <1>7, QuietTale DEF Committed, Sealing

\* Reload drops polls, of which none is about to push a commit, and seals.
LEMMA TaleReload ==
  ASSUME TypesInv, TypesInv', Tale, NEW d \in Device, Reload(d), ~raced'
  PROVE  Tale'
<1>1. /\ live' = [live EXCEPT ![d] = Nothing] /\ open' = open \ {d}
      /\ socket' = [socket EXCEPT ![d] = Nothing]
      /\ seals' = {s \in seals : s.by # d}
      /\ polls' = polls \ PollsOf(d)
      /\ UNCHANGED <<entries, toInvitee, disk, last>>
  BY DEF Reload, server
<1>2. excused \subseteq excused'
  <2>1. \E l \in Forgetting(d) : \E forgot \in BOOLEAN :
          excused' = IF forgot THEN excused \cup {d} ELSE excused
    BY DEF Reload
  <2> QED BY <2>1
<1>3. ~ \E p \in PollsOf(d) : p.at = "commit"
  BY DEF Reload
<1>4. \A c \in Device : live'[c] = IF c = d THEN Nothing ELSE live[c]
  BY <1>1, Typing
<1>5. SameLive
  BY <1>4 DEF SameLive
<1>6. \A c \in open' : socket'[c] = socket[c] /\ live'[c] = live[c]
  BY <1>1, <1>4, Typing
<1>7. Follows'
  BY <1>1, <1>2, <1>6, FollowsStays DEF Tale
<1>8. Committed' = Committed
  BY <1>1, <1>3 DEF Committed
<1>9. OneAdds' /\ Hooked'
  BY <1>1, <1>5, <1>8, AddsStay, HookStays DEF Tale
<1>10. ASSUME NEW p \in Committed, Sealing(p.held)
       PROVE  Sealing(p.held)'
  <2>1. p.by # d /\ p.held.by = p.by
    BY <1>3, Epochs DEF Committed, PollsOf
  <2> QED BY <1>1, <1>10, <2>1 DEF Sealing
<1>11. Committed \subseteq polls'
  BY <1>8 DEF Committed
<1> QED BY <1>1, <1>7, <1>9, <1>10, <1>11, QuietTale

\* Invites and requests to join concern no epoch.
LEMMA TaleInvites ==
  ASSUME TypesInv, TypesInv', Tale, NEW d \in Device, NEW i \in Invite,
         MakeInvite(d, i) \/ RequestToJoin(d, i)
  PROVE  Tale'
<1>1. UNCHANGED <<entries, toInvitee, disk, seals, last, polls, live, excused,
                  open, socket>>
  BY DEF MakeInvite, RequestToJoin, server, store, hook, history
<1>2. SameLive
  BY <1>1 DEF SameLive
<1>3. OneAdds' /\ Hooked'
  BY <1>1, <1>2, AddsStay, HookStays DEF Tale, Committed
<1>4. Follows'
  BY <1>1, FollowsStays DEF Tale
<1> QED BY <1>1, <1>3, <1>4, QuietTale DEF Committed, Sealing

\* A text is sealed with the session of the hook.
LEMMA TaleSend ==
  ASSUME TypesInv, TypesInv', Tale, NEW d \in Device, NEW t \in Text,
         SendMessage(d, t)
  PROVE  Tale'
<1> DEFINE e == [kind |-> "text", by |-> d, epoch |-> live[d].epoch, what |-> t]
<1>1. /\ live[d] # Nothing
      /\ seals' = seals \cup {Seal(d, live[d], e)}
      /\ UNCHANGED <<entries, toInvitee, disk, last, polls, live, excused, open,
                     socket>>
  BY DEF SendMessage, server, hook
<1>2. /\ Seal(d, live[d], e).session = live[d]
      /\ Seal(d, live[d], e).entry.kind = "text"
      /\ IsPrefix(live[d].epoch, Path)
  BY <1>1 DEF Seal, Tale, Hooked
<1> HIDE DEF e
<1>3. SameLive
  BY <1>1 DEF SameLive
<1>4. OneAdds' /\ Hooked'
  BY <1>1, <1>3, AddsStay, HookStays DEF Tale, Committed
<1>5. Follows'
  BY <1>1, FollowsStays DEF Tale
<1>6. \A s \in seals' \ seals : /\ IsPrefix(s.session.epoch, Path)
                                /\ s.entry # Nothing => s.entry.kind # "commit"
  BY <1>1, <1>2
<1> QED BY <1>1, <1>4, <1>5, <1>6, QuietTale DEF Committed, Sealing

\* What fails is no commit.
LEMMA TaleFails ==
  ASSUME TypesInv, TypesInv', Tale, PushFails, ~raced'
  PROVE  Tale'
<1>1. /\ UNCHANGED <<entries, toInvitee, disk, seals, last, live, excused, open,
                     socket>>
      /\ polls' \subseteq polls
      /\ \A p \in polls : p.at = "commit" => p \in polls'
  BY PushFailsTypes
<1>2. SameLive
  BY <1>1 DEF SameLive
<1>3. Committed' \subseteq Committed /\ Committed \subseteq polls'
  BY <1>1 DEF Committed
<1>4. OneAdds' /\ Hooked'
  BY <1>1, <1>2, <1>3, AddsStay, HookStays DEF Tale
<1>5. Follows'
  BY <1>1, FollowsStays DEF Tale
<1> QED BY <1>1, <1>3, <1>4, <1>5, QuietTale DEF Sealing

\* A refused key package ends its poll.
LEMMA TaleAddRefused ==
  ASSUME TypesInv, TypesInv', Tale, NEW p \in polls, AddMember(p),
         polls' = polls \ {p}, UNCHANGED <<live, seals, last>>
  PROVE  Tale'
<1>1. /\ p.at = "pull"
      /\ UNCHANGED <<entries, toInvitee, disk, open, socket, excused>>
  BY Adding
<1>2. SameLive
  BY DEF SameLive
<1>3. Committed' \subseteq Committed /\ Committed \subseteq polls'
  BY <1>1 DEF Committed
<1>4. OneAdds' /\ Hooked'
  BY <1>1, <1>2, <1>3, AddsStay, HookStays DEF Tale
<1>5. Follows'
  BY <1>1, FollowsStays DEF Tale
<1> QED BY <1>1, <1>3, <1>4, <1>5, QuietTale DEF Sealing

\* The session of a welcome is on the path when it is being sealed.
LEMMA TaleWelcome ==
  ASSUME TypesInv, TypesInv', Tale, NEW d \in Device, PollForWelcome(d)
  PROVE  Tale'
<1>1. UNCHANGED <<entries, toInvitee, disk, live, open, socket, polls, last,
                  excused>>
  BY Welcoming
<1>2. SameLive
  BY <1>1 DEF SameLive
<1>3. OneAdds' /\ Hooked'
  BY <1>1, <1>2, AddsStay, HookStays DEF Tale, Committed
<1>4. Follows'
  BY <1>1, FollowsStays DEF Tale
<1>5. /\ seals \subseteq seals'
      /\ \A s \in seals' \ seals : /\ IsPrefix(s.session.epoch, Path)
                                   /\ s.entry = Nothing
  <2>1. CASE UNCHANGED seals
    BY <2>1
  <2>2. CASE \E i \in Invite : \E n \in DOMAIN toInvitee[i] :
               seals' = seals \cup
                 {Seal(d, Welcomed(toInvitee[i][n].epoch), Nothing)}
    <3>1. PICK i \in Invite : \E n \in DOMAIN toInvitee[i] :
            seals' = seals \cup
              {Seal(d, Welcomed(toInvitee[i][n].epoch), Nothing)}
      BY <2>2
    <3>2. PICK n \in DOMAIN toInvitee[i] :
            seals' = seals \cup
              {Seal(d, Welcomed(toInvitee[i][n].epoch), Nothing)}
      BY <3>1
    <3>3. PICK epoch \in Epoch : epoch = toInvitee[i][n].epoch
      BY WelcomedTypes DEF TypesInv
    <3>4. IsPrefix(epoch, Path)
      BY <3>3 DEF Tale, OnPath
    <3>5. /\ Seal(d, Welcomed(epoch), Nothing).session.epoch = epoch
          /\ Seal(d, Welcomed(epoch), Nothing).entry = Nothing
      BY WelcomedTypes DEF Seal
    <3> QED BY <3>2, <3>3, <3>4, <3>5
  <2> QED BY <2>1, <2>2, Welcoming
<1> QED BY <1>1, <1>3, <1>4, <1>5, QuietTale DEF Committed, Sealing

\* A session on the path that has not lost a commit of its device has merged
\* every one that the sealed session had.
LEMMA NotForgotten ==
  ASSUME TypesInv, Tale, NEW s \in seals, NEW e \in Commits,
         IsPrefix(Leads(e), Path), e.what[1] = s.by,
         disk[s.by] # Nothing, Merges(disk[s.by], e), ~Forgets(s)
  PROVE  Merges(s.session, e)
<1>1. PICK old \in Seq(Commit), new \in Seq(Commit) :
        old = disk[s.by].epoch /\ new = s.session.epoch
  BY Epochs
<1>2. PICK m \in Nat : m = Len(e.epoch)
  BY Epochs
<1>3. IsPrefix(old, Path) /\ m < Len(old) /\ Path \in Seq(Commit)
  BY <1>1, <1>2, Epochs DEF Tale, OnPath, Merges
<1>4. /\ Len(old) \in Nat /\ Len(new) \in Nat
      /\ \A n \in 1 .. Len(old) : old[n] = Path[n]
  BY <1>3, PrefixDef
<1>5. m + 1 \in 1 .. Len(old) /\ Path[m + 1] = e.what
  BY <1>2, <1>3, <1>4, OnTheWay
<1>6. old[m + 1][1] = s.by
  BY <1>4, <1>5
<1>7. ~(m + 1 \in Len(new) + 1 .. Len(old))
  BY <1>1, <1>6 DEF Forgets
<1>8. m < Len(new)
  BY <1>4, <1>5, <1>7
<1> QED BY <1>1, <1>2, <1>8 DEF Merges

\* A seal that lands leaves no commit of its device unmerged.
LEMMA Landing ==
  ASSUME TypesInv, Tale, NEW s \in seals, disk' = [disk EXCEPT ![s.by] = s.session],
         seals' \subseteq seals, seals \ {s} \subseteq seals',
         disk[s.by] # Nothing => ~Forgets(s),
         UNCHANGED <<entries, toInvitee, last, polls>>,
         OneAdds', Hooked', Follows'
  PROVE  Tale'
<1>1. s.by \in Device /\ s.session \in Sessions
  BY Epochs
<1>2. \A c \in Device : disk'[c] = IF c = s.by THEN s.session ELSE disk[c]
  BY <1>1, Typing
<1>3. Committed' = Committed /\ Logged' = Logged
  BY DEF Committed, Logged
<1>4. \A c \in Device : disk'[c] # Nothing => IsPrefix(disk'[c].epoch, Path)
  BY <1>2 DEF Tale, OnPath
<1>5. ASSUME NEW k \in Logged
      PROVE  Merges(disk'[entries[k].by], entries[k])
  <2>1. /\ entries[k] \in Commits /\ entries[k].by \in Device
        /\ disk[entries[k].by] # Nothing /\ IsPrefix(Leads(entries[k]), Path)
        /\ entries[k].what[1] = entries[k].by
        /\ Merges(disk[entries[k].by], entries[k])
    BY Epochs DEF Tale, OnPath, Signed, Merged
  <2>2. CASE entries[k].by = s.by
    BY <1>2, <2>1, <2>2, NotForgotten
  <2>3. CASE entries[k].by # s.by
    BY <1>2, <2>1, <2>3
  <2> QED BY <2>2, <2>3
<1>6. ASSUME NEW p \in Committed, ~Sealing(p.held)'
      PROVE  Merges(disk'[p.by], p.held)
  <2>1. /\ p \in polls /\ p.at # "pull" /\ p.held \in Commits
        /\ p.by \in Device /\ p.held.by = p.by /\ disk[p.by] # Nothing
        /\ IsPrefix(Leads(p.held), Path) /\ p.held.what[1] = p.by
    BY Epochs DEF Committed, Tale, OnPath, Signed
  <2>2. CASE ~Sealing(p.held)
    <3>1. Merges(disk[p.by], p.held)
      BY <2>2 DEF Tale, Merged
    <3>2. CASE p.by = s.by
      BY <1>2, <2>1, <3>1, <3>2, NotForgotten
    <3>3. CASE p.by # s.by
      BY <1>2, <2>1, <3>1, <3>3
    <3> QED BY <3>2, <3>3
  <2>3. CASE Sealing(p.held)
    <3>1. s.by = p.by /\ s.entry = p.held
      BY <1>6, <2>1, <2>3 DEF Sealing
    <3>2. s.entry # Nothing /\ s.entry.kind = "commit"
      BY <2>1, <3>1, EntryTypes, Absence
    <3>3. s.session.epoch = Leads(p.held)
      BY <3>1, <3>2 DEF Tale, Merged
    <3>4. Len(p.held.epoch) < Len(Leads(p.held))
      BY <2>1, Epochs
    <3> QED BY <1>2, <2>1, <3>1, <3>3, <3>4 DEF Merges
  <2> QED BY <2>2, <2>3
<1>7. Merged'
  <2>1. \A t \in seals' : t.entry # Nothing /\ t.entry.kind = "commit" =>
          t.session.epoch = Leads(t.entry)
    BY DEF Tale, Merged
  <2> QED BY <1>3, <1>5, <1>6, <2>1 DEF Merged
<1>8. /\ \A t \in seals' : IsPrefix(t.session.epoch, Path)
      /\ \A i \in Invite : \A n \in DOMAIN toInvitee'[i] :
           IsPrefix(toInvitee'[i][n].epoch, Path)
  BY DEF Tale, OnPath
<1> QED BY <1>3, <1>4, <1>7, <1>8, TaleStays

\* SealLands.
LEMMA TaleLands ==
  ASSUME TypesInv, TypesInv', Tale, NEW s \in seals, SealLands(s), ~raced'
  PROVE  Tale'
<1>1. /\ disk' = [disk EXCEPT ![s.by] = s.session] /\ seals' = seals \ {s}
      /\ ~Forgets(s) /\ excused \subseteq excused'
      /\ UNCHANGED <<entries, toInvitee, last, polls, live, open, socket>>
  BY DEF SealLands, Sealed, server, hook
<1>2. SameLive
  BY <1>1 DEF SameLive
<1>3. OneAdds' /\ Hooked'
  BY <1>1, <1>2, AddsStay, HookStays DEF Tale, Committed
<1>4. Follows'
  BY <1>1, FollowsStays DEF Tale
<1> QED BY <1>1, <1>3, <1>4, Landing

\* Whoever joins is on the path and is sent the whole log.
LEMMA TaleJoined ==
  ASSUME TypesInv, TypesInv', Tale, NEW s \in seals, NEW again \in BOOLEAN,
         Joined(s, again), ~raced'
  PROVE  Tale'
<1>1. /\ s.by \in Device /\ disk' = [disk EXCEPT ![s.by] = s.session]
      /\ seals' \subseteq seals /\ seals \ {s} \subseteq seals'
      /\ disk[s.by] # Nothing => ~Forgets(s)
      /\ excused \subseteq excused' /\ open' = open \cup {s.by}
      /\ socket' = IF s.by \in open THEN socket
                   ELSE [socket EXCEPT ![s.by] = Backlog(0)]
      /\ UNCHANGED <<entries, toInvitee, last, polls, live>>
  BY Joining
<1>2. SameLive
  BY <1>1 DEF SameLive
<1>3. OneAdds' /\ Hooked'
  BY <1>1, <1>2, AddsStay, HookStays DEF Tale, Committed
<1>4. Follows'
  <2>1. CASE s.by \in open
    <3>1. open' \subseteq open /\ UNCHANGED socket
      BY <1>1, <2>1
    <3> QED BY <1>1, <3>1, FollowsStays DEF Tale
  <2>2. CASE s.by \notin open
    <3>1. socket' = [socket EXCEPT ![s.by] = Backlog(0)]
      BY <1>1, <2>2
    <3>2. 0 \in Nat /\ 0 <= Len(entries) /\ open' \subseteq open \cup {s.by}
      BY <1>1, Typing
    <3>3. UNCHANGED <<entries, live>>
      BY <1>1
    <3> QED BY <1>1, <2>2, <3>1, <3>2, <3>3, FollowsAgain DEF Tale
  <2> QED BY <2>1, <2>2
<1> QED BY <1>1, <1>3, <1>4, Landing

\* Leave hands the session of the hook to the polls that use it.
LEMMA TaleLeave ==
  ASSUME TypesInv, TypesInv', Tale, NEW d \in Device, Leave(d)
  PROVE  Tale'
<1>1. /\ open' = open \ {d}
      /\ socket' = [socket EXCEPT ![d] = Nothing]
      /\ polls' = Orphaned(d)
      /\ live' = [live EXCEPT ![d] = Nothing]
      /\ UNCHANGED <<entries, toInvitee, disk, seals, last, excused>>
  BY DEF Leave, server, store
<1>2. \A c \in Device : live'[c] = IF c = d THEN Nothing ELSE live[c]
  BY <1>1, Typing
<1>3. Path' = Path /\ SameLive
  BY <1>1, <1>2 DEF Path, SameLive
<1> DEFINE Lets(q) == q.by = d /\ q.live /\ q.at = "pull"
           Let(q) == [q EXCEPT !.live = FALSE, !.held = live[d]]
<1>4. ASSUME NEW q \in polls, Lets(q)
      PROVE  /\ Let(q).by = d /\ Let(q).at = "pull" /\ Let(q).tag = q.tag
             /\ Let(q).live = FALSE /\ Let(q).held = live[d]
  <2>1. q \in Polls({"pull"}, Sessions \cup {Nothing})
    BY <1>4, PollTypes
  <2> QED BY <1>4, <2>1 DEF Polls
<1>5. \A p \in polls' : \E q \in polls :
        IF Lets(q) THEN p = Let(q) ELSE p = q
  BY <1>1 DEF Orphaned
<1>6. \A q \in polls : ~Lets(q) => q \in polls'
  BY <1>1 DEF Orphaned
<1> HIDE DEF Let
<1>7. \A p \in polls' : p.at # "pull" => p \in polls
  BY <1>4, <1>5
<1>8. Committed' = Committed
  BY <1>4, <1>6, <1>7 DEF Committed
<1>9. \A p \in polls' : \E q \in polls :
        /\ p.by = q.by /\ p.at = q.at /\ p.tag = q.tag
        /\ IF Lets(q) THEN p = Let(q) ELSE p = q
  BY <1>4, <1>5
<1>10. OneAdds'
  <2>1. ASSUME NEW p \in polls', NEW q \in polls', p # q
        PROVE  p.by = q.by /\ p.tag # Nothing
    <3>1. PICK pp \in polls : /\ p.by = pp.by /\ p.tag = pp.tag
                              /\ IF Lets(pp) THEN p = Let(pp) ELSE p = pp
      BY <1>9
    <3>2. PICK qq \in polls : /\ q.by = qq.by
                              /\ IF Lets(qq) THEN q = Let(qq) ELSE q = qq
      BY <1>9
    <3>3. pp # qq
      BY <2>1, <3>1, <3>2
    <3> QED BY <3>1, <3>2, <3>3 DEF Tale, OneAdds
  <2>2. ASSUME NEW p \in polls', p.at = "pull", p.live
        PROVE  live'[p.by].epoch = Path
    <3>1. PICK q \in polls : IF Lets(q) THEN p = Let(q) ELSE p = q
      BY <1>5
    <3>2. p = q /\ ~Lets(q) /\ q.by \in Device
      BY <1>4, <2>2, <3>1, PollTypes
    <3> QED BY <1>2, <2>2, <3>2 DEF Tale, OneAdds
  <2>3. ASSUME NEW p \in polls', p.at = "pull", ~p.live
        PROVE  live'[p.by] = Nothing /\ p.held.epoch = Path
    <3>1. PICK q \in polls : IF Lets(q) THEN p = Let(q) ELSE p = q
      BY <1>5
    <3>2. CASE Lets(q)
      <4>1. p.by = d /\ p.held = live[d]
        BY <1>4, <3>1, <3>2
      <4>2. live[d].epoch = Path
        BY <3>2 DEF Tale, OneAdds
      <4> QED BY <1>2, <4>1, <4>2
    <3>3. CASE ~Lets(q)
      <4>1. p = q /\ q.by \in Device
        BY <3>1, <3>3, PollTypes
      <4> QED BY <1>2, <2>3, <4>1 DEF Tale, OneAdds
    <3> QED BY <3>2, <3>3
  <2>4. \A p \in Committed' : p.by = last.by
    BY <1>8 DEF Tale, OneAdds
  <2> QED BY <1>1, <1>3, <2>1, <2>2, <2>3, <2>4 DEF OneAdds
<1>11. Hooked'
  BY <1>1, <1>3, <1>8, HookStays DEF Tale
<1>12. \A c \in open' : socket'[c] = socket[c] /\ live'[c] = live[c]
  BY <1>1, <1>2, Typing
<1>13. Follows'
  BY <1>1, <1>12, FollowsStays DEF Tale
<1>14. /\ \A c \in Device : disk'[c] # Nothing => IsPrefix(disk'[c].epoch, Path)
       /\ \A s \in seals' : IsPrefix(s.session.epoch, Path)
       /\ \A i \in Invite : \A n \in DOMAIN toInvitee'[i] :
            IsPrefix(toInvitee'[i][n].epoch, Path)
  BY <1>1 DEF Tale, OnPath
<1>15. Merged'
  <2>1. Logged' = Logged
    BY <1>1 DEF Logged
  <2> QED BY <1>1, <1>8, <2>1 DEF Tale, Merged, Sealing
<1> QED BY <1>1, <1>7, <1>8, <1>10, <1>11, <1>13, <1>14, <1>15, TaleStays

\* A device that has heard everything is where the group is, as long as none of
\* the commits that lead there is still to be pushed.
LEMMA HeardIsAhead ==
  ASSUME TypesInv, Tale, NEW d \in Device, Heard(d), Committed = {}
  PROVE  live[d].epoch = Path
<1>1. /\ live[d] # Nothing /\ d \in open \ excused /\ socket[d] = <<>>
      /\ live[d].epoch \in Seq(Commit) /\ IsPrefix(live[d].epoch, Path)
  BY Typing, Epochs DEF Heard, Tale, Hooked
<1>2. Range(socket[d]) = {}
  BY <1>1 DEF Range
<1>3. ASSUME NEW k \in Logged
      PROVE  Len(entries[k].epoch) # Len(live[d].epoch)
  <2>1. Merges(live[d], entries[k])
    <3>1. CASE entries[k].by = d
      BY <1>1, <3>1 DEF Tale, Hooked
    <3>2. CASE entries[k].by # d
      BY <1>1, <1>2, <3>2 DEF Tale, Follows
    <3> QED BY <3>1, <3>2
  <2>2. Len(entries[k].epoch) \in Nat /\ Len(live[d].epoch) \in Nat
    BY <1>1, CommitsOnPath DEF Tale
  <2> QED BY <2>1, <2>2 DEF Merges
<1>4. ~(Len(live[d].epoch) \in 0 .. Len(Path) - 1)
  BY <1>3 DEF Tale, Rising
<1> QED BY <1>1, <1>4, EndOfPath

\* Whoever added the last member is where the group is, in every session that
\* has merged the commits of the device.
LEMMA LastIsAhead ==
  ASSUME TypesInv, Tale, NEW epoch \in Seq(Commit), IsPrefix(epoch, Path),
         \A k \in Logged : entries[k].by = last.by =>
           Len(entries[k].epoch) < Len(epoch),
         \A p \in Committed : p.by = last.by => Len(p.held.epoch) < Len(epoch)
  PROVE  epoch = Path
<1>1. Len(epoch) \in Nat /\ Len(Path) \in Nat /\ Len(epoch) <= Len(Path)
  BY EndOfPath
<1>2. CASE Path = <<>>
  <2>1. Len(Path) = 0
    BY <1>2
  <2> QED BY <1>1, <2>1, EndOfPath
<1>3. CASE Path # <<>>
  <2>1. Path \in Seq(Commit)
    BY Epochs
  <2>2. PICK m \in Nat : Len(Path) = m + 1
    <3>1. Len(Path) # 0
      BY <1>3, <2>1
    <3>2. Len(Path) - 1 \in Nat /\ Len(Path) = (Len(Path) - 1) + 1
      BY <1>1, <3>1
    <3> QED BY <3>2
  <2>3. m \in 0 .. Len(Path) - 1 /\ Path[m + 1][1] = last.by
    BY <1>3, <2>2 DEF Tale, Signed
  <2>4. m < Len(epoch)
    <3>1. CASE \E k \in Logged : Len(entries[k].epoch) = m
      <4>1. PICK k \in Logged : Len(entries[k].epoch) = m
        BY <3>1
      <4>2. Path[m + 1] = entries[k].what
        BY <4>1, CommitsOnPath DEF Tale
      <4>3. entries[k].what[1] = entries[k].by
        BY DEF Tale, Signed
      <4> QED BY <2>3, <4>1, <4>2, <4>3
    <3>2. CASE \E p \in Committed : Len(p.held.epoch) = m
      <4>1. PICK p \in Committed : Len(p.held.epoch) = m
        BY <3>2
      <4>2. p.by = last.by
        BY DEF Tale, OneAdds
      <4> QED BY <4>1, <4>2
    <3> QED BY <2>3, <3>1, <3>2 DEF Tale, Rising
  <2>5. ~(Len(epoch) \in 0 .. Len(Path) - 1)
    BY <1>1, <2>2, <2>4
  <2> QED BY <2>5, EndOfPath
<1> QED BY <1>2, <1>3

\* A poll begins on the device that is at the end of the path.
LEMMA TalePoll ==
  ASSUME TypesInv, TypesInv', Tale, NEW d \in Device, NEW i \in Invite,
         Poll(d, i), ~raced'
  PROVE  Tale'
<1> DEFINE new == NewPoll(d, i)
<1>1. /\ list[d] # Nothing
      /\ d \in open => live[d] # Nothing
      /\ polls' = polls \cup {new}
      /\ \A p \in polls : p.by = d /\ p.live /\ d \in open
      /\ last.by = d \/ Heard(d)
      /\ UNCHANGED <<entries, toInvitee, disk, seals, live, open, socket, last,
                     excused>>
  BY DEF Poll, NewPoll, server, store, hook
<1>2. /\ new.by = d /\ new.at = "pull"
      /\ d \in open => new.tag = d
      /\ new.live = (d \in open)
      /\ d \notin open => new.held = disk[d]
  BY DEF NewPoll
<1> HIDE DEF new
<1>3. Committed' = Committed
  BY <1>1, <1>2 DEF Committed
<1>4. \A p \in Committed : p.by = last.by /\ d \in open /\ p.by = d
  BY <1>1 DEF Tale, OneAdds, Committed
<1>5. Heard(d) /\ last.by # d => d \in open /\ live[d].epoch = Path
  <2>1. Heard(d) => d \in open
    BY Typing DEF Heard
  <2>2. last.by # d => Committed = {}
    BY <1>4
  <2> QED BY <2>1, <2>2, HeardIsAhead
<1>6. disk[d] # Nothing /\ disk[d].epoch \in Seq(Commit)
      /\ IsPrefix(disk[d].epoch, Path)
  BY <1>1, Typing, Epochs DEF Tale, OnPath
<1>7. ASSUME d \in open PROVE OneAdds'
  <2>1. live[d].epoch = Path
    <3>1. CASE last.by = d
      <4>1. live[d].epoch \in Seq(Commit) /\ IsPrefix(live[d].epoch, Path)
        BY <1>1, <1>7, Epochs DEF Tale, Hooked
      <4>2. /\ \A k \in Logged : entries[k].by = last.by =>
                 Len(entries[k].epoch) < Len(live[d].epoch)
            /\ \A p \in Committed : p.by = last.by =>
                 Len(p.held.epoch) < Len(live[d].epoch)
        BY <1>1, <1>7, <3>1 DEF Tale, Hooked, Merges
      <4> QED BY <4>1, <4>2, LastIsAhead
    <3> QED BY <1>1, <1>5, <3>1
  <2>2. OneAdds'
    <3>1. ASSUME NEW p \in polls', NEW q \in polls', p # q
          PROVE  p.by = q.by /\ p.tag # Nothing
      BY <1>1, <1>2, <1>7, <3>1, PollTypes, Absence DEF PollFits
    <3>2. \A p \in polls' : p.at = "pull" /\ p.live => live[p.by].epoch = Path
      BY <1>1, <1>2, <2>1
    <3>3. \A p \in polls' : p.live
      BY <1>1, <1>2, <1>7
    <3>4. Path' = Path /\ \A p \in Committed' : p.by = last.by
      BY <1>1, <1>3, <1>4 DEF Path
    <3> QED BY <1>1, <3>1, <3>2, <3>3, <3>4 DEF OneAdds
  <2> QED BY <2>2
<1>8. ASSUME d \notin open PROVE OneAdds'
  <2>1. polls = {} /\ last.by = d
    BY <1>1, <1>5, <1>8
  <2>2. disk[d].epoch = Path
    <3>1. /\ \A k \in Logged : entries[k].by = last.by =>
               Len(entries[k].epoch) < Len(disk[d].epoch)
          /\ \A p \in Committed : p.by = last.by =>
               Len(p.held.epoch) < Len(disk[d].epoch)
      BY <2>1 DEF Tale, Merged, Merges, Committed
    <3> QED BY <1>6, <3>1, LastIsAhead
  <2>3. live[d] = Nothing
    BY <1>8, Typing
  <2>4. Path' = Path /\ polls' = {new} /\ Committed' = {}
    BY <1>1, <1>3, <2>1 DEF Path, Committed
  <2>5. ~new.live /\ new.by = d /\ new.held = disk[d]
    BY <1>2, <1>8
  <2>6. /\ \A p, q \in polls' : p = q
        /\ \A p \in polls' : ~p.live
        /\ \A p \in polls' : live'[p.by] = Nothing /\ p.held.epoch = Path'
        /\ \A p \in Committed' : p.by = last'.by
    BY <1>1, <2>2, <2>3, <2>4, <2>5
  <2> QED BY <2>6 DEF OneAdds
<1>9. OneAdds'
  BY <1>7, <1>8
<1>10. Hooked' /\ Follows'
  <2>1. SameLive
    BY <1>1 DEF SameLive
  <2> QED BY <1>1, <1>3, <2>1, HookStays, FollowsStays DEF Tale
<1>11. /\ \A c \in Device : disk'[c] # Nothing => IsPrefix(disk'[c].epoch, Path)
       /\ \A s \in seals' : IsPrefix(s.session.epoch, Path)
       /\ \A j \in Invite : \A n \in DOMAIN toInvitee'[j] :
            IsPrefix(toInvitee'[j][n].epoch, Path)
  BY <1>1 DEF Tale, OnPath
<1>12. Merged'
  <2>1. Logged' = Logged
    BY <1>1 DEF Logged
  <2> QED BY <1>1, <1>3, <2>1 DEF Tale, Merged, Sealing
<1>13. \A p \in polls' : p.at # "pull" => p \in polls
  BY <1>1, <1>2
<1> QED BY <1>1, <1>3, <1>9, <1>10, <1>11, <1>12, <1>13, TaleStays

\* The welcome of a commit on the path is on it.
LEMMA TalePushWelcome ==
  ASSUME TypesInv, TypesInv', Tale, NEW p \in polls, PushWelcome(p)
  PROVE  Tale'
<1>1. /\ polls' = polls \ {p}
      /\ UNCHANGED <<entries, disk, seals, live, open, socket, last, excused>>
  BY DEF PushWelcome, store, hook, history
<1>2. p.at = "welcome" /\ p.invite \in Invite /\ p.held \in Commits
  BY PushWelcomeTypes
<1>3. PICK w \in Welcomes :
        /\ w.epoch = Append(p.held.epoch, p.held.what)
        /\ toInvitee' = [toInvitee EXCEPT ![p.invite] = Append(@, w)]
  BY PushWelcomeTypes
<1>4. Committed' = Committed /\ Logged' = Logged
  BY <1>1, <1>2 DEF Committed, Logged
<1>5. SameLive
  BY <1>1 DEF SameLive
<1>6. OneAdds' /\ Hooked' /\ Follows'
  BY <1>1, <1>4, <1>5, AddsStay, HookStays, FollowsStays DEF Tale
<1>7. ASSUME NEW i \in Invite, NEW n \in DOMAIN toInvitee'[i]
      PROVE  IsPrefix(toInvitee'[i][n].epoch, Path)
  <2>1. PICK q \in Seq(Welcomes) : q = toInvitee[i]
    BY DEF TypesInv, GroupTypeOK
  <2>2. toInvitee'[i] = IF i = p.invite THEN Append(q, w) ELSE q
    BY <1>3, <2>1 DEF TypesInv, GroupTypeOK
  <2>3. IsPrefix(w.epoch, Path)
    BY <1>2, <1>3 DEF Tale, OnPath, Leads
  <2>4. \A m \in DOMAIN q : IsPrefix(q[m].epoch, Path)
    BY <2>1 DEF Tale, OnPath
  <2>5. Append(q, w) \in Seq(Welcomes)
    OBVIOUS
  <2>6. PICK r \in Seq(Welcomes) : r = Append(q, w)
    BY <2>5
  <2>7. \A m \in DOMAIN r : \/ m \in DOMAIN q /\ r[m] = q[m]
                            \/ r[m] = w
    BY <2>6
  <2> QED BY <2>1, <2>2, <2>3, <2>4, <2>6, <2>7
<1>8. /\ \A c \in Device : disk'[c] # Nothing => IsPrefix(disk'[c].epoch, Path)
      /\ \A s \in seals' : IsPrefix(s.session.epoch, Path)
  BY <1>1 DEF Tale, OnPath
<1>9. Merged'
  BY <1>1, <1>4 DEF Tale, Merged, Sealing
<1>10. \A q \in polls' : q.at # "pull" => q \in polls
  BY <1>1
<1> QED BY <1>1, <1>4, <1>6, <1>7, <1>8, <1>9, <1>10, TaleStays

\* The commits of the log when an entry is pushed.
LEMMA LoggedByPush ==
  ASSUME TypesInv, NEW e \in Commits \cup Texts, NEW tag, Push(e, tag)
  PROVE  /\ Len(entries) + 1 \notin Logged /\ Logged \subseteq 1 .. Len(entries)
         /\ Logged' = Logged \cup
              (IF e.kind = "commit" THEN {Len(entries) + 1} ELSE {})
         /\ \A k \in Logged : entries'[k] = entries[k]
         /\ entries'[Len(entries) + 1] = e
         /\ \A d \in open :
              /\ Range(socket[d]) \subseteq Range(socket'[d])
              /\ d # tag => Len(entries) + 1 \in Range(socket'[d])
<1>1. /\ entries \in Seq(Commits \cup Texts) /\ Len(entries) \in Nat
      /\ entries' \in Seq(Commits \cup Texts)
      /\ Len(entries') = Len(entries) + 1
      /\ entries'[Len(entries) + 1] = e
      /\ \A k \in 1 .. Len(entries) : entries'[k] = entries[k]
      /\ \A d \in open :
           /\ Range(socket[d]) \subseteq Range(socket'[d])
           /\ d # tag => Len(entries) + 1 \in Range(socket'[d])
  <2>1. entries \in Seq(Commits \cup Texts) /\ Len(entries) \in Nat
    BY Typing
  <2>2. /\ entries' \in Seq(Commits \cup Texts)
        /\ Len(entries') = Len(entries) + 1
        /\ entries'[Len(entries) + 1] = e
        /\ \A k \in 1 .. Len(entries) : entries'[k] = entries[k]
        /\ \A d \in open :
             /\ Range(socket[d]) \subseteq Range(socket'[d])
             /\ d # tag => Len(entries) + 1 \in Range(socket'[d])
    BY Pushing, Zenon
  <2> QED BY <2>1, <2>2
<1>2. /\ DOMAIN entries = 1 .. Len(entries)
      /\ DOMAIN entries' = 1 .. Len(entries) + 1
  BY <1>1
<1>3. DOMAIN entries' = DOMAIN entries \cup {Len(entries) + 1}
  <2>1. \A n \in Nat : 1 .. n + 1 = (1 .. n) \cup {n + 1}
    OBVIOUS
  <2> QED BY <1>1, <1>2, <2>1
<1>4. /\ Len(entries) + 1 \notin Logged /\ Logged \subseteq 1 .. Len(entries)
      /\ \A k \in Logged : entries'[k] = entries[k]
  BY <1>1, <1>2 DEF Logged
<1>5. Logged' = Logged \cup
        (IF e.kind = "commit" THEN {Len(entries) + 1} ELSE {})
  <2>1. \A k : k \in Logged' <=>
          k \in DOMAIN entries' /\ entries'[k].kind = "commit"
    BY DEF Logged
  <2>2. \A k : k \in Logged <=>
          k \in DOMAIN entries /\ entries[k].kind = "commit"
    BY DEF Logged
  <2>3. CASE e.kind = "commit"
    BY <1>1, <1>2, <1>3, <2>1, <2>2, <2>3
  <2>4. CASE e.kind # "commit"
    BY <1>1, <1>2, <1>3, <2>1, <2>2, <2>4
  <2> QED BY <2>3, <2>4
<1> QED BY <1>1, <1>4, <1>5

\* A text in the log is no commit.
LEMMA TalePushText ==
  ASSUME TypesInv, TypesInv', Tale, NEW e \in sending, PushText(e)
  PROVE  Tale'
<1>1. /\ Push(e, e.by)
      /\ UNCHANGED <<toInvitee, disk, seals, live, open, polls, last, excused>>
  BY DEF PushText, store, history
<1>2. e \in Commits \cup Texts /\ e.kind # "commit"
  BY EntryTypes DEF TypesInv, GroupTypeOK
<1>3. /\ Logged' = Logged /\ \A k \in Logged : entries'[k] = entries[k]
      /\ \A d \in open : Range(socket[d]) \subseteq Range(socket'[d])
  BY <1>1, <1>2, LoggedByPush
<1>4. Path' = Path /\ Committed' = Committed
  BY <1>1 DEF Path, Committed
<1>5. OnPath'
  BY <1>1, <1>3, <1>4 DEF Tale, OnPath
<1>6. OneAdds' /\ Signed'
  BY <1>1, <1>3, <1>4 DEF Tale, OneAdds, Signed
<1>7. Rising'
  BY <1>3, <1>4 DEF Tale, Rising
<1>8. Hooked'
  BY <1>1, <1>3, <1>4 DEF Tale, Hooked, Merges
<1>9. Merged'
  BY <1>1, <1>3, <1>4 DEF Tale, Merged, Merges, Sealing
<1>10. Follows'
  BY <1>1, <1>3 DEF Tale, Follows, Merges
<1> QED BY <1>5, <1>6, <1>7, <1>8, <1>9, <1>10 DEF Tale

\* The commit that is pushed is the next of the path, and is sent to everybody
\* but the device that has merged it.
LEMMA TalePushCommit ==
  ASSUME TypesInv, TypesInv', Tale, NEW p \in polls, PushCommit(p), ~raced'
  PROVE  Tale'
<1> DEFINE q == [p EXCEPT !.at = "welcome"]
           new == Len(entries) + 1
<1>1. /\ p.at = "commit" /\ Push(p.held, p.tag) /\ ~Sealing(p.held)
      /\ polls' = (polls \ {p}) \cup {q}
      /\ \A r \in polls :
           ~(r.at = "commit" /\ Len(r.held.epoch) < Len(p.held.epoch))
      /\ UNCHANGED <<toInvitee, disk, seals, live, open, last, excused>>
  BY DEF PushCommit, store
<1>2. /\ p.held \in Commits /\ q.held = p.held /\ q.at = "welcome"
      /\ q.by = p.by /\ q.tag = p.tag
  BY PushCommitTypes
<1> HIDE DEF q
<1>3. /\ new \notin Logged /\ Logged' = Logged \cup {new}
      /\ \A k \in Logged : k < new /\ entries'[k] = entries[k]
      /\ entries'[new] = p.held
      /\ \A d \in open : /\ Range(socket[d]) \subseteq Range(socket'[d])
                         /\ d # p.tag => new \in Range(socket'[d])
  <2>1. p.held \in Commits \cup Texts /\ p.held.kind = "commit"
    BY <1>2, EntryTypes
  <2>2. /\ new \notin Logged /\ Logged \subseteq 1 .. Len(entries)
        /\ Logged' = Logged \cup {new}
        /\ \A k \in Logged : entries'[k] = entries[k]
        /\ entries'[new] = p.held
        /\ \A d \in open : /\ Range(socket[d]) \subseteq Range(socket'[d])
                           /\ d # p.tag => new \in Range(socket'[d])
    BY <1>1, <2>1, LoggedByPush
  <2>3. \A k \in 1 .. Len(entries) : k < new
    BY Typing
  <2> QED BY <2>2, <2>3
<1> HIDE DEF new
<1>4. Path' = Path
  BY <1>1 DEF Path
<1>5. p \in Committed /\ Committed' = Committed \ {p}
  BY <1>1, <1>2 DEF Committed
<1>6. p.held.by = p.by /\ p.tag \in {p.by, Nothing} /\ p.by \in Device
  BY <1>1, PollTypes DEF PollFits
<1>7. OnPath'
  <2>1. \A k \in Logged' : IsPrefix(Leads(entries'[k]), Path)
    BY <1>1, <1>3 DEF Tale, OnPath
  <2>2. \A r \in polls' : r.at # "pull" => IsPrefix(Leads(r.held), Path)
    BY <1>1, <1>2 DEF Tale, OnPath
  <2> QED BY <1>1, <1>4, <2>1, <2>2 DEF Tale, OnPath
<1>8. OneAdds'
  <2>1. ASSUME NEW r \in polls', NEW s \in polls', r # s
        PROVE  r.by = s.by /\ r.tag # Nothing
    <3>1. CASE r = q
      BY <1>1, <1>2, <2>1, <3>1 DEF Tale, OneAdds
    <3>2. CASE s = q
      BY <1>1, <1>2, <2>1, <3>2 DEF Tale, OneAdds
    <3>3. CASE r # q /\ s # q
      BY <1>1, <2>1, <3>3 DEF Tale, OneAdds
    <3> QED BY <3>1, <3>2, <3>3
  <2>2. \A r \in polls' : r.at = "pull" => r \in polls
    BY <1>1, <1>2
  <2>3. /\ \A r \in polls' : r.at = "pull" /\ r.live => live'[r.by].epoch = Path
        /\ \A r \in polls' : r.at = "pull" /\ ~r.live =>
             live'[r.by] = Nothing /\ r.held.epoch = Path
    BY <1>1, <2>2 DEF Tale, OneAdds
  <2>4. \A r \in Committed' : r.by = last'.by
    BY <1>1, <1>5 DEF Tale, OneAdds
  <2> QED BY <1>4, <2>1, <2>3, <2>4 DEF OneAdds
<1>9. Signed'
  <2>1. \A k \in Logged' : entries'[k].what[1] = entries'[k].by
    BY <1>1, <1>3, <1>6 DEF Tale, Signed
  <2>2. \A r \in polls' : r.at # "pull" => r.held.what[1] = r.by
    BY <1>1, <1>2 DEF Tale, Signed
  <2> QED BY <1>1, <1>4, <2>1, <2>2 DEF Tale, Signed
<1>10. /\ \A k \in Logged : Len(entries[k].epoch) \in Nat
       /\ \A r \in Committed : Len(r.held.epoch) \in Nat
  BY CommitsOnPath DEF Tale
<1>11. Rising'
  <2>1. ASSUME NEW k \in Logged', NEW l \in Logged', k < l
        PROVE  Len(entries'[k].epoch) < Len(entries'[l].epoch)
    <3>1. k \in Logged
      <4>1. ~(new < new) /\ \A m \in Logged : ~(new < m)
        BY <1>3, Typing DEF Logged, new
      <4> QED BY <1>3, <2>1, <4>1
    <3> QED BY <1>3, <1>5, <2>1, <3>1 DEF Tale, Rising
  <2>2. ASSUME NEW k \in Logged', NEW r \in Committed'
        PROVE  Len(entries'[k].epoch) < Len(r.held.epoch)
    <3>1. r \in Committed /\ r \in polls /\ r.at = "commit" /\ r # p
      BY <1>5 DEF Committed
    <3>2. CASE k \in Logged
      BY <1>3, <3>1, <3>2 DEF Tale, Rising
    <3>3. CASE k = new
      <4>1. ~(Len(r.held.epoch) < Len(p.held.epoch))
        BY <1>1, <3>1
      <4>2. Len(r.held.epoch) # Len(p.held.epoch)
        BY <1>5, <3>1 DEF Tale, Rising
      <4> QED BY <1>3, <1>5, <1>10, <3>1, <3>3, <4>1, <4>2
    <3> QED BY <1>3, <3>2, <3>3
  <2>3. ASSUME NEW n \in 0 .. Len(Path) - 1
        PROVE  \/ \E k \in Logged' : Len(entries'[k].epoch) = n
               \/ \E r \in Committed' : Len(r.held.epoch) = n
    <3>1. CASE \E k \in Logged : Len(entries[k].epoch) = n
      BY <1>3, <3>1
    <3>2. CASE \E r \in Committed : Len(r.held.epoch) = n
      BY <1>3, <1>5, <3>2
    <3> QED BY <3>1, <3>2 DEF Tale, Rising
  <2> QED BY <1>4, <1>5, <2>1, <2>2, <2>3 DEF Tale, Rising
<1>12. Hooked'
  <2>1. \A k \in Logged' : live'[entries'[k].by] # Nothing =>
          Len(entries'[k].epoch) < Len(live'[entries'[k].by].epoch)
    BY <1>1, <1>3, <1>5, <1>6 DEF Tale, Hooked, Merges
  <2> QED BY <1>1, <1>4, <1>5, <2>1 DEF Tale, Hooked, Merges
<1>13. Merged'
  <2>1. \A k \in Logged' :
          Len(entries'[k].epoch) < Len(disk'[entries'[k].by].epoch)
    BY <1>1, <1>3, <1>5, <1>6 DEF Tale, Merged, Merges
  <2> QED BY <1>1, <1>5, <2>1 DEF Tale, Merged, Merges, Sealing
<1>14. Follows'
  <2> SUFFICES ASSUME NEW d \in open \ excused, NEW k \in Logged',
                      entries'[k].by # d,
                      live[d] # Nothing => ~Merges(live[d], entries'[k])
               PROVE  k \in Range(socket'[d])
    BY <1>1 DEF Follows, Merges
  <2>1. CASE k \in Logged
    BY <1>3, <2>1 DEF Tale, Follows
  <2>2. CASE k = new
    <3>1. d \in Device /\ d # p.by
      BY <1>3, <1>6, <2>2, Typing
    <3> QED BY <1>3, <1>6, <2>2, <3>1, Absence
  <2> QED BY <1>3, <2>1, <2>2
<1> QED BY <1>7, <1>8, <1>9, <1>11, <1>12, <1>13, <1>14 DEF Tale

\* The commit of a member that is added prolongs the path.
LEMMA TaleAdded ==
  ASSUME TypesInv, TypesInv', Tale, NEW p \in polls, AddMember(p),
         NEW s \in Sessions, NEW x \in Commit, Added(p, s, x)
  PROVE  Tale'
<1> DEFINE N == Grown(s, x)
           E == Entry(p, s, x)
           c == Committing(p, s, x)
<1>1. /\ p.at = "pull" /\ p.by \in Device
      /\ UNCHANGED <<entries, toInvitee, disk, open, socket, excused>>
  BY Adding, PollTypes
<1>2. /\ s = (IF p.live THEN live[p.by] ELSE p.held) /\ x[1] = p.by
      /\ polls' = {c} \cup
           {IF SameSession(p, q) THEN Holding(q, N) ELSE q : q \in polls \ {p}}
      /\ live' = IF p.live THEN [live EXCEPT ![p.by] = N] ELSE live
      /\ seals' = seals \cup {Seal(p.by, N, E)}
      /\ last' = [by |-> p.by, epoch |-> Append(s.epoch, x)]
  BY DEF Added
<1>3. /\ N.epoch = Append(s.epoch, x)
      /\ E \in Commits /\ E.epoch = s.epoch /\ E.what = x /\ E.by = p.by
      /\ c.held = E /\ c.at = "commit" /\ c.by = p.by /\ c.tag = p.tag
      /\ p.live => live[p.by] # Nothing /\ live[p.by] = s
      /\ ~p.live => p.held = s
  BY AddedTypes DEF NewOnes
<1>4. \A q \in polls : SameSession(p, q) =>
        /\ Holding(q, N).at = "pull" /\ Holding(q, N).by = p.by
        /\ Holding(q, N).tag = q.tag /\ Holding(q, N).held = N
        /\ Holding(q, N).live = FALSE
  BY AddedTypes DEF Rebased
<1>5. /\ Seal(p.by, N, E).by = p.by /\ Seal(p.by, N, E).session = N
      /\ Seal(p.by, N, E).entry = E
  BY DEF Seal
<1> HIDE DEF N, E, c
<1>6. s.epoch = Path
  BY <1>1, <1>3 DEF Tale, OneAdds
<1>7. Path \in Seq(Commit) /\ Len(Path) \in Nat
  BY Epochs
<1>8. PICK far \in Seq(Commit) :
        /\ far = Append(Path, x) /\ Len(far) = Len(Path) + 1
        /\ IsPrefix(Path, far) /\ IsPrefix(far, far)
        /\ far[Len(Path) + 1] = x
  <2>1. PICK path \in Seq(Commit) : path = Path
    BY <1>7
  <2>2. Append(path, x)[Len(path) + 1] = x
    OBVIOUS
  <2> QED BY <2>1, <2>2, PrefixAppend, PrefixRefl
<1>9. /\ N.epoch = far /\ E.epoch = Path /\ Leads(E) = far
      /\ Path' = far
  BY <1>2, <1>3, <1>6, <1>8 DEF Leads, Path
<1>10. \A d \in Device : live'[d] = IF p.live /\ d = p.by THEN N ELSE live[d]
  BY <1>2, Typing
<1>11. \A r \in polls' : r # c =>
         \E q \in polls : /\ q # p
                          /\ IF SameSession(p, q) THEN r = Holding(q, N)
                                                  ELSE r = q
  BY <1>2
<1>12. \A q \in polls : q # p /\ ~SameSession(p, q) => q \in polls'
  BY <1>2
<1>13. c \in polls'
  BY <1>2
<1>14. ASSUME NEW q \in polls, q # p
       PROVE  q.by = p.by /\ q.tag # Nothing /\ p.tag # Nothing
  BY <1>14 DEF Tale, OneAdds
<1>15. ASSUME NEW r \in polls', r # c
       PROVE  r.by = p.by /\ r.tag # Nothing /\ p.tag # Nothing
  BY <1>4, <1>11, <1>14, <1>15
<1>16. ASSUME NEW r \in polls', r.at # "pull"
       PROVE  r = c \/ r \in polls
  BY <1>4, <1>11, <1>16
<1>17. Committed' = Committed \cup {c}
  <2>1. \A r \in Committed' : r = c \/ r \in Committed
    BY <1>16 DEF Committed
  <2>2. \A q \in Committed : q \in polls'
    BY <1>1, <1>12 DEF Committed, SameSession
  <2> QED BY <1>3, <1>13, <2>1, <2>2 DEF Committed
<1>18. Logged' = Logged
  BY <1>1 DEF Logged
<1>19. ASSUME NEW t \in Seq(Commit), IsPrefix(t, Path)
       PROVE  IsPrefix(t, far)
  BY <1>7, <1>8, <1>19, PrefixTrans
<1>20. OnPath'
  <2>1. ASSUME NEW d \in Device, disk[d] # Nothing
        PROVE  IsPrefix(disk[d].epoch, far)
    BY <1>19, <2>1, Epochs DEF Tale, OnPath
  <2>2. ASSUME NEW t \in seals'
        PROVE  IsPrefix(t.session.epoch, far)
    <3>1. CASE t \in seals
      BY <1>19, <3>1, Epochs DEF Tale, OnPath
    <3>2. CASE t \notin seals
      BY <1>2, <1>5, <1>8, <1>9, <3>2
    <3> QED BY <3>1, <3>2
  <2>3. ASSUME NEW k \in Logged
        PROVE  IsPrefix(Leads(entries[k]), far)
    BY <1>19, Epochs DEF Tale, OnPath
  <2>4. ASSUME NEW r \in polls', r.at # "pull"
        PROVE  IsPrefix(Leads(r.held), far)
    <3>1. CASE r = c
      BY <1>3, <1>8, <1>9, <3>1
    <3>2. CASE r \in polls
      BY <1>19, <2>4, <3>2, Epochs DEF Tale, OnPath
    <3> QED BY <1>16, <2>4, <3>1, <3>2
  <2>5. ASSUME NEW i \in Invite, NEW n \in DOMAIN toInvitee[i]
        PROVE  IsPrefix(toInvitee[i][n].epoch, far)
    BY <1>19, Epochs DEF Tale, OnPath
  <2> QED BY <1>1, <1>9, <1>18, <2>1, <2>2, <2>3, <2>4, <2>5 DEF OnPath
<1>21. OneAdds'
  <2>1. ASSUME NEW r \in polls', NEW t \in polls', r # t
        PROVE  r.by = t.by /\ r.tag # Nothing
    BY <1>3, <1>15, <2>1
  <2>2. ASSUME NEW r \in polls', r.at = "pull", r.live
        PROVE  live'[r.by].epoch = far
    <3>1. r # c
      BY <1>3, <2>2
    <3>2. PICK q \in polls : /\ q # p
                             /\ IF SameSession(p, q) THEN r = Holding(q, N)
                                                     ELSE r = q
      BY <1>11, <3>1
    <3>3. r = q /\ r.by = p.by
      BY <1>4, <1>14, <2>2, <3>2
    <3>4. live[p.by] # Nothing
      BY <2>2, <3>3, PollTypes DEF PollFits
    <3>5. p.live
      BY <1>1, <3>4 DEF Tale, OneAdds
    <3> QED BY <1>1, <1>9, <1>10, <3>3, <3>5
  <2>3. ASSUME NEW r \in polls', r.at = "pull", ~r.live
        PROVE  live'[r.by] = Nothing /\ r.held.epoch = far
    <3>1. r # c
      BY <1>3, <2>3
    <3>2. PICK q \in polls : /\ q # p
                             /\ IF SameSession(p, q) THEN r = Holding(q, N)
                                                     ELSE r = q
      BY <1>11, <3>1
    <3>3. CASE SameSession(p, q)
      <4>1. r.by = p.by /\ r.held = N
        BY <1>4, <3>2, <3>3
      <4>2. ~p.live /\ live[p.by] = Nothing
        BY <1>1, <3>3 DEF SameSession, Tale, OneAdds
      <4> QED BY <1>1, <1>9, <1>10, <4>1, <4>2
    <3>4. CASE ~SameSession(p, q)
      <4>1. q.at = "pull" /\ ~q.live
        BY <2>3, <3>2, <3>4
      <4>2. q.by = p.by /\ q.tag # Nothing /\ p.tag # Nothing
        BY <1>14, <3>2
      <4>3. live[p.by] = Nothing
        BY <4>1, <4>2 DEF Tale, OneAdds
      <4>4. ~p.live
        BY <1>3, <4>3
      <4> QED BY <3>4, <4>1, <4>2, <4>4 DEF SameSession
    <3> QED BY <3>3, <3>4
  <2>4. ASSUME NEW r \in Committed'
        PROVE  r.by = last'.by
    BY <1>2, <1>3, <1>15 DEF Committed
  <2> QED BY <1>9, <2>1, <2>2, <2>3, <2>4 DEF OneAdds
<1>22. Signed'
  <2>1. \A r \in polls' : r.at # "pull" => r.held.what[1] = r.by
    BY <1>2, <1>3, <1>16 DEF Tale, Signed
  <2>2. Path'[Len(Path')][1] = last'.by
    BY <1>2, <1>8, <1>9
  <2> QED BY <1>1, <1>18, <2>1, <2>2 DEF Tale, Signed
<1>23. /\ \A k \in Logged : Len(entries[k].epoch) < Len(Path)
       /\ \A q \in Committed : Len(q.held.epoch) < Len(Path)
       /\ \A k \in Logged : Len(entries[k].epoch) \in Nat
       /\ \A q \in Committed : Len(q.held.epoch) \in Nat
  BY CommitsOnPath DEF Tale
<1>24. c.held.epoch = Path
  BY <1>3, <1>9
<1>25. Rising'
  <2>1. \A k, l \in Logged :
          k < l => Len(entries[k].epoch) < Len(entries[l].epoch)
    BY DEF Tale, Rising
  <2>2. \A k \in Logged, r \in Committed' :
          Len(entries[k].epoch) < Len(r.held.epoch)
    BY <1>17, <1>23, <1>24 DEF Tale, Rising
  <2>3. ASSUME NEW r \in Committed', NEW t \in Committed',
               Len(r.held.epoch) = Len(t.held.epoch)
        PROVE  r = t
    <3>1. \A q \in Committed : Len(q.held.epoch) # Len(c.held.epoch)
      BY <1>7, <1>23, <1>24
    <3> QED BY <1>17, <2>3, <3>1 DEF Tale, Rising
  <2>4. ASSUME NEW n \in 0 .. Len(far) - 1
        PROVE  \/ \E k \in Logged : Len(entries[k].epoch) = n
               \/ \E r \in Committed' : Len(r.held.epoch) = n
    <3>1. CASE n = Len(Path)
      BY <1>17, <1>24, <3>1
    <3>2. CASE n # Len(Path)
      <4>1. n \in 0 .. Len(Path) - 1
        BY <1>7, <1>8, <3>2
      <4> QED BY <1>17, <4>1 DEF Tale, Rising
    <3> QED BY <3>1, <3>2
  <2> QED BY <1>1, <1>9, <1>18, <2>1, <2>2, <2>3, <2>4 DEF Rising
<1>26. Hooked'
  <2>1. ASSUME NEW d \in Device, live'[d] # Nothing
        PROVE  IsPrefix(live'[d].epoch, far)
    <3>1. CASE p.live /\ d = p.by
      BY <1>8, <1>9, <1>10, <3>1
    <3>2. CASE ~(p.live /\ d = p.by)
      BY <1>10, <1>19, <2>1, <3>2, Epochs DEF Tale, Hooked
    <3> QED BY <3>1, <3>2
  <2>2. ASSUME NEW k \in Logged, live'[entries[k].by] # Nothing
        PROVE  Len(entries[k].epoch) < Len(live'[entries[k].by].epoch)
    <3>1. entries[k].by \in Device
      BY Epochs
    <3>2. CASE p.live /\ entries[k].by = p.by
      BY <1>1, <1>7, <1>8, <1>9, <1>10, <1>23, <3>2
    <3>3. CASE ~(p.live /\ entries[k].by = p.by)
      BY <1>10, <2>2, <3>1, <3>3 DEF Tale, Hooked, Merges
    <3> QED BY <3>2, <3>3
  <2>3. ASSUME NEW r \in Committed', live'[r.by] # Nothing
        PROVE  Len(r.held.epoch) < Len(live'[r.by].epoch)
    <3>1. r.by = p.by
      BY <1>3, <1>15 DEF Committed
    <3>2. CASE p.live
      <4>1. live'[r.by].epoch = far
        BY <1>1, <1>9, <1>10, <3>1, <3>2
      <4>2. Len(r.held.epoch) \in Nat /\ Len(r.held.epoch) <= Len(Path)
        BY <1>7, <1>17, <1>23, <1>24
      <4> QED BY <1>7, <1>8, <4>1, <4>2
    <3>3. CASE ~p.live
      <4>1. live[p.by] = Nothing
        BY <1>1, <3>3 DEF Tale, OneAdds
      <4> QED BY <1>1, <1>10, <2>3, <3>1, <3>3, <4>1
    <3> QED BY <3>2, <3>3
  <2> QED BY <1>1, <1>9, <1>18, <2>1, <2>2, <2>3 DEF Hooked, Merges
<1>27. Merged'
  <2>1. ASSUME NEW r \in Committed', ~Sealing(r.held)'
        PROVE  Merges(disk[r.by], r.held)
    <3>1. r # c
      BY <1>2, <1>3, <1>5, <2>1 DEF Sealing
    <3>2. ~Sealing(r.held)
      BY <1>2, <2>1 DEF Sealing
    <3> QED BY <1>17, <3>1, <3>2 DEF Tale, Merged
  <2>2. ASSUME NEW t \in seals', t.entry # Nothing, t.entry.kind = "commit"
        PROVE  t.session.epoch = Leads(t.entry)
    <3>1. CASE t \in seals
      BY <2>2, <3>1 DEF Tale, Merged
    <3>2. CASE t \notin seals
      BY <1>2, <1>5, <1>9, <3>2
    <3> QED BY <3>1, <3>2
  <2>3. \A k \in Logged : Merges(disk[entries[k].by], entries[k])
    BY DEF Tale, Merged
  <2> QED BY <1>1, <1>18, <2>1, <2>2, <2>3 DEF Merged, Merges
<1>28. Follows'
  <2> SUFFICES ASSUME NEW d \in open \ excused, NEW k \in Logged,
                      entries[k].by # d,
                      live'[d] # Nothing =>
                        ~(Len(entries[k].epoch) < Len(live'[d].epoch))
               PROVE  k \in Range(socket[d])
    BY <1>1, <1>18 DEF Follows, Merges
  <2>1. d \in Device
    BY Typing
  <2>2. CASE p.live /\ d = p.by
    <3>1. live'[d] # Nothing
      <4>1. N # Nothing
        BY AddedTypes, Absence DEF NewOnes, N
      <4> QED BY <1>10, <2>1, <2>2, <4>1
    <3> QED BY <1>7, <1>8, <1>9, <1>10, <1>23, <2>1, <2>2, <3>1
  <2>3. CASE ~(p.live /\ d = p.by)
    BY <1>10, <2>1, <2>3 DEF Tale, Follows, Merges
  <2> QED BY <2>2, <2>3
<1> QED BY <1>20, <1>21, <1>22, <1>25, <1>26, <1>27, <1>28 DEF Tale

\* AddMember, whether the key package is taken or refused.
LEMMA TaleAdd ==
  ASSUME TypesInv, TypesInv', Tale, NEW p \in polls, AddMember(p)
  PROVE  Tale'
BY Adding, TaleAdded, TaleAddRefused

\* A commit of another that a device drops is one it has merged: the ones before
\* it in the log have all reached the device.
LEMMA DroppedIsPast ==
  ASSUME TypesInv, Tale, fits["commit"], NEW d \in open \ excused,
         NEW seq \in Logged, Takes(d, seq), live[d] # Nothing,
         ~Processes(d, live[d], entries[seq]), entries[seq].by # d
  PROVE  Merges(live[d], entries[seq])
<1> DEFINE e == entries[seq]
<1>1. /\ e \in Commits /\ e.kind = "commit" /\ e.what \in Commit
      /\ e.by \in Device /\ e.epoch \in Seq(Commit)
  BY Epochs, EntryTypes
<1>2. /\ d \in Device /\ live[d] \in Sessions
      /\ live[d].epoch \in Seq(Commit) /\ IsPrefix(live[d].epoch, Path)
  BY Typing, Epochs DEF Tale, Hooked
<1>3. e.what \notin live[d].used
  BY <1>1, <1>2, SessionTypes, GroupAssumption
<1>4. e.epoch # live[d].epoch
  BY <1>1, <1>2, <1>3 DEF Processes
<1> SUFFICES ASSUME ~(Len(e.epoch) < Len(live[d].epoch))
             PROVE  FALSE
  BY DEF Merges
<1>5. PICK n \in Nat : n = Len(live[d].epoch)
  BY <1>2
<1>6. Len(e.epoch) # n
  <2>1. IsPrefix(e.epoch, Path) /\ Path \in Seq(Commit)
    BY Epochs, CommitsOnPath DEF Tale
  <2> QED BY <1>1, <1>2, <1>4, <1>5, <2>1, PrefixesOfOne
<1>7. Len(e.epoch) \in Nat /\ n < Len(e.epoch)
  BY <1>1, <1>5, <1>6
<1>8. Len(e.epoch) < Len(Path) /\ Len(Path) \in Nat
  BY CommitsOnPath DEF Tale
<1>9. n \in 0 .. Len(Path) - 1
  BY <1>7, <1>8
<1>10. CASE \E p \in Committed : Len(p.held.epoch) = n
  BY <1>7, <1>10 DEF Tale, Rising
<1>11. CASE \E k \in Logged : Len(entries[k].epoch) = n
  <2>1. PICK k \in Logged : Len(entries[k].epoch) = n
    BY <1>11
  <2>2. k \in 1 .. Len(entries) /\ seq \in 1 .. Len(entries)
    BY Epochs
  <2>3. ~(seq < k)
    BY <1>7, <2>1 DEF Tale, Rising
  <2>4. k # seq
    BY <1>7, <2>1
  <2>5. k < seq
    BY <2>2, <2>3, <2>4, Typing
  <2>6. ~Merges(live[d], entries[k])
    BY <1>5, <2>1 DEF Merges
  <2>7. entries[k].by # d
    BY <2>6 DEF Tale, Hooked
  <2>8. k \in Range(socket[d])
    BY <2>6, <2>7 DEF Tale, Follows
  <2>9. k \in Range(Tail(socket[d])) /\ Orderly(Tail(socket[d]), seq,
                                                Len(entries))
    BY <2>4, <2>8 DEF Takes
  <2>10. k \in seq + 1 .. Len(entries)
    BY <2>9 DEF Orderly, Range
  <2> QED BY <2>2, <2>5, <2>10
<1> QED BY <1>9, <1>10, <1>11 DEF Tale, Rising

\* What is still to be followed when a device has taken an entry.
LEMMA FollowsOn ==
  ASSUME TypesInv, Tale, NEW d \in open, NEW seq \in 1 .. Len(entries),
         Takes(d, seq), UNCHANGED <<entries, open>>,
         \A c \in Device : c # d => live'[c] = live[c],
         live[d] # Nothing =>
           /\ live'[d] # Nothing
           /\ \A k \in Logged :
                Merges(live[d], entries[k]) => Merges(live'[d], entries[k]),
         d \notin excused' /\ seq \in Logged /\ entries[seq].by # d =>
           live'[d] # Nothing /\ Merges(live'[d], entries[seq])
  PROVE  Follows'
<1>1. /\ socket' = [socket EXCEPT ![d] = Tail(@)]
      /\ Range(socket[d]) = Range(Tail(socket[d])) \cup {seq}
      /\ excused \subseteq excused'
  BY DEF Takes
<1>2. Logged' = Logged
  BY DEF Logged
<1> SUFFICES ASSUME NEW c \in open \ excused', NEW k \in Logged,
                    entries[k].by # c,
                    live'[c] # Nothing => ~Merges(live'[c], entries[k])
             PROVE  k \in Range(socket'[c])
  BY <1>2 DEF Follows, Merges
<1>3. c \in Device /\ c \in open \ excused
  BY <1>1, Typing
<1>4. CASE c # d
  BY <1>1, <1>3, <1>4, Typing DEF Tale, Follows
<1>5. CASE c = d
  <2>1. k \in Range(socket[d])
    BY <1>3, <1>5 DEF Tale, Follows
  <2>2. k # seq
    BY <1>3, <1>5
  <2>3. socket'[d] = Tail(socket[d])
    BY <1>1, <1>3, <1>5, Typing
  <2> QED BY <1>1, <1>5, <2>1, <2>2, <2>3
<1> QED BY <1>4, <1>5

\* An entry that is dropped was none to be followed.
LEMMA TaleSkip ==
  ASSUME TypesInv, TypesInv', Tale, fits["commit"], NEW d \in open,
         NEW seq \in 1 .. Len(entries), Takes(d, seq), Skips(d, entries[seq]),
         UNCHANGED <<entries, toInvitee, disk, open, polls, last>>
  PROVE  Tale'
<1>1. /\ UNCHANGED <<live, seals>>
      /\ live[d] # Nothing => ~Processes(d, live[d], entries[seq])
  BY DEF Skips
<1>2. excused' = IF live[d] = Nothing THEN excused \cup {d} ELSE excused
  BY DEF Takes
<1>3. ASSUME d \notin excused', seq \in Logged, entries[seq].by # d
      PROVE  live[d] # Nothing /\ Merges(live[d], entries[seq])
  <2>1. live[d] # Nothing /\ d \in open \ excused
    BY <1>2, <1>3
  <2> QED BY <1>1, <1>3, <2>1, DroppedIsPast
<1>4. Follows'
  BY <1>1, <1>3, FollowsOn
<1>5. SameLive
  BY <1>1 DEF SameLive
<1>6. OneAdds' /\ Hooked'
  BY <1>5, AddsStay, HookStays DEF Tale, Committed
<1> QED BY <1>1, <1>4, <1>6, QuietTale DEF Committed, Sealing

\* A commit that is processed takes the device one epoch further on the path.
LEMMA TaleRead ==
  ASSUME TypesInv, TypesInv', Tale, NEW d \in open, NEW seq \in 1 .. Len(entries),
         Takes(d, seq), NEW s \in Sessions, Reads(d, entries[seq], s),
         UNCHANGED <<entries, toInvitee, disk, open, polls, last>>
  PROVE  Tale'
<1> DEFINE e == entries[seq]
<1>1. /\ live[d] \in Sessions /\ e.epoch = live[d].epoch /\ e.by # d
      /\ s.epoch = IF e.kind = "commit" THEN Append(live[d].epoch, e.what)
                                        ELSE live[d].epoch
      /\ live' = [live EXCEPT ![d] = s] /\ seals' = seals \cup {Seal(d, s, e)}
  BY DEF Reads, Processes
<1>2. /\ d \in Device /\ live[d] # Nothing /\ s # Nothing
      /\ live[d].epoch \in Seq(Commit) /\ IsPrefix(live[d].epoch, Path)
  BY <1>1, Typing, Absence, Epochs DEF Tale, Hooked
<1>3. \A c \in Device : live'[c] = IF c = d THEN s ELSE live[c]
  BY <1>1, Typing
<1>4. /\ Seal(d, s, e).by = d /\ Seal(d, s, e).session = s
      /\ Seal(d, s, e).entry = e
  BY DEF Seal
<1>5. CASE e.kind = "commit"
  <2>1. seq \in Logged
    BY <1>5, Typing DEF Logged
  <2>2. e \in Commits /\ IsPrefix(Leads(e), Path) /\ s.epoch = Leads(e)
    BY <1>1, <1>5, <2>1, Epochs DEF Tale, OnPath, Leads
  <2>3. /\ Len(e.epoch) \in Nat /\ Len(s.epoch) = Len(e.epoch) + 1
        /\ Len(e.epoch) < Len(Path) /\ Len(Path) \in Nat
    BY <2>2, Epochs, OnTheWay
  <2>4. live[d].epoch # Path
    BY <1>1, <2>3
  <2>5. \A p \in polls : p.at = "pull" => p.by # d
    BY <1>2, <2>4 DEF Tale, OneAdds
  <2>6. /\ Path' = Path /\ Logged' = Logged /\ Committed' = Committed
        /\ \A p \in polls : p.by \in Device
    BY PollTypes DEF Path, Logged, Committed
  <2>7. OneAdds'
    BY <1>3, <2>5, <2>6 DEF Tale, OneAdds
  <2>8. ASSUME NEW t \in Commits, Merges(live[d], t)
        PROVE  Merges(s, t)
    <3>1. Len(t.epoch) \in Nat
      BY Epochs
    <3> QED BY <1>1, <2>3, <2>8, <3>1 DEF Merges
  <2>9. Hooked'
    <3>1. \A c \in Device : live'[c] # Nothing => IsPrefix(live'[c].epoch, Path)
      BY <1>3, <2>2 DEF Tale, Hooked
    <3>2. ASSUME NEW k \in Logged, live'[entries[k].by] # Nothing
          PROVE  Merges(live'[entries[k].by], entries[k])
      <4>1. entries[k] \in Commits /\ entries[k].by \in Device
        BY Epochs
      <4> QED BY <1>2, <1>3, <2>8, <3>2, <4>1 DEF Tale, Hooked
    <3>3. ASSUME NEW p \in Committed, live'[p.by] # Nothing
          PROVE  Merges(live'[p.by], p.held)
      <4>1. p.held \in Commits /\ p.by \in Device
        BY Epochs DEF Committed
      <4> QED BY <1>2, <1>3, <2>8, <3>3, <4>1 DEF Tale, Hooked
    <3> QED BY <2>6, <3>1, <3>2, <3>3 DEF Hooked, Merges
  <2>10. Merged'
    <3>1. \A t \in seals' : t.entry # Nothing /\ t.entry.kind = "commit" =>
            t.session.epoch = Leads(t.entry)
      BY <1>1, <1>4, <2>2 DEF Tale, Merged
    <3> QED BY <1>1, <2>6, <3>1 DEF Tale, Merged, Merges, Sealing
  <2>11. Follows'
    <3>1. live'[d] = s /\ Merges(s, e)
      BY <1>2, <1>3, <2>3 DEF Merges
    <3>2. \A k \in Logged : Merges(live[d], entries[k]) => Merges(s, entries[k])
      BY <2>8, Epochs
    <3> QED BY <1>2, <1>3, <3>1, <3>2, FollowsOn
  <2>12. \A t \in seals' : IsPrefix(t.session.epoch, Path)
    BY <1>1, <1>4, <2>2 DEF Tale, OnPath
  <2>13. /\ \A c \in Device : disk'[c] # Nothing => IsPrefix(disk'[c].epoch, Path)
         /\ \A i \in Invite : \A n \in DOMAIN toInvitee'[i] :
              IsPrefix(toInvitee'[i][n].epoch, Path)
    BY DEF Tale, OnPath
  <2> QED BY <2>6, <2>7, <2>9, <2>10, <2>11, <2>12, <2>13, TaleStays
<1>6. CASE e.kind # "commit"
  <2>1. s.epoch = live[d].epoch /\ seq \notin Logged
    BY <1>1, <1>6 DEF Logged
  <2>2. SameLive
    BY <1>2, <1>3, <2>1 DEF SameLive
  <2>3. OneAdds' /\ Hooked'
    BY <2>2, AddsStay, HookStays DEF Tale, Committed
  <2>4. Follows'
    <3>1. live'[d] = s
      BY <1>2, <1>3
    <3> QED BY <1>2, <1>3, <2>1, <3>1, FollowsOn DEF Merges
  <2>5. /\ seals \subseteq seals'
        /\ \A t \in seals' \ seals :
             /\ IsPrefix(t.session.epoch, Path)
             /\ t.entry # Nothing => t.entry.kind # "commit"
    BY <1>1, <1>2, <1>4, <1>6, <2>1
  <2> QED BY <2>3, <2>4, <2>5, QuietTale DEF Committed, Sealing
<1> QED BY <1>5, <1>6

\* ProcessEntry, whether the entry is dropped or processed.
LEMMA TaleProcess ==
  ASSUME TypesInv, TypesInv', Tale, fits["commit"], NEW d \in Device,
         ProcessEntry(d)
  PROVE  Tale'
<1>1. PICK seq \in 1 .. Len(entries) :
        /\ Takes(d, seq)
        /\ \/ Skips(d, entries[seq])
           \/ \E s \in Sessions : Reads(d, entries[seq], s)
  BY Processing
<1>2. d \in open
  BY <1>1 DEF Takes
<1>3. UNCHANGED <<entries, toInvitee, disk, open, polls, last>>
  BY DEF ProcessEntry, server, page
<1> QED BY <1>1, <1>2, <1>3, TaleSkip, TaleRead

\* At the beginning the creator is alone and nothing is on its way.
LEMMA TaleInit ==
  ASSUME GroupInit
  PROVE  Tale
<1> DEFINE founder == Session(<<>>, 0)
<1>1. /\ entries = <<>> /\ polls = {} /\ seals = {} /\ live = disk
      /\ last = [by |-> Creator, epoch |-> <<>>]
      /\ disk = [d \in Device |-> IF d = Creator THEN founder ELSE Nothing]
      /\ toInvitee = [i \in Invite |-> <<>>]
  BY DEF GroupInit
<1>2. founder.epoch = <<>> /\ <<>> \in Seq(Commit)
  BY DEF Session
<1> HIDE DEF founder
<1>3. /\ Path = <<>>
      /\ \A d \in Device : disk[d] # Nothing => disk[d].epoch = <<>>
  BY <1>1, <1>2 DEF Path
<1>4. Logged = {} /\ Committed = {}
  BY <1>1 DEF Logged, Committed
<1>5. IsPrefix(<<>>, Path)
  BY <1>2, <1>3, PrefixRefl
<1>6. OnPath
  BY <1>1, <1>3, <1>4, <1>5 DEF OnPath
<1>7. OneAdds /\ Signed
  BY <1>1, <1>3, <1>4 DEF OneAdds, Signed
<1>8. Rising
  <2>1. ~ \E n \in 0 .. Len(Path) - 1 : TRUE
    BY <1>3
  <2> QED BY <1>4, <2>1 DEF Rising
<1>9. Hooked
  BY <1>1, <1>3, <1>4, <1>5 DEF Hooked
<1>10. Merged /\ Follows
  BY <1>1, <1>4 DEF Merged, Follows
<1> QED BY <1>6, <1>7, <1>8, <1>9, <1>10 DEF Tale

\* What a step needs to have gone well, went well before it.
LEMMA PushFailsRaced ==
  ASSUME PushFails, ~raced'
  PROVE  ~raced /\ fits' = fits
<1>1. fits' = fits
  BY DEF PushFails
<1>2. CASE \E e \in sending : UNCHANGED raced
  BY <1>1, <1>2
<1>3. CASE \E p \in polls : raced' = (raced \/ p.at = "commit")
  <2>1. PICK p \in polls : raced' = (raced \/ p.at = "commit")
    BY <1>3
  <2> QED BY <1>1, <2>1
<1>4. \/ \E e \in sending : UNCHANGED raced
      \/ \E p \in polls : raced' = (raced \/ p.at = "commit")
  BY DEF PushFails
<1> QED BY <1>1, <1>2, <1>3, <1>4

\* What raced has raced for good, and no blob changes its size.
LEMMA NotRacedBefore ==
  ASSUME [GroupNext]_groupVars, ~raced'
  PROVE  ~raced /\ fits' = fits
<1>1. ASSUME NEW d \in Device, Select(d) PROVE ~raced /\ fits' = fits
  BY <1>1 DEF Select, history
<1>2. ASSUME NEW d \in Device, Leave(d) PROVE ~raced /\ fits' = fits
  BY <1>2 DEF Leave
<1>3. ASSUME NEW d \in Device, Load(d) PROVE ~raced /\ fits' = fits
  BY <1>3 DEF Load
<1>4. ASSUME NEW d \in Device, Reconnect(d) PROVE ~raced /\ fits' = fits
  BY <1>4 DEF Reconnect
<1>5. ASSUME NEW d \in Device, ProcessEntry(d) PROVE ~raced /\ fits' = fits
  BY <1>5 DEF ProcessEntry
<1>6. ASSUME NEW d \in Device, Reload(d) PROVE ~raced /\ fits' = fits
  BY <1>6 DEF Reload
<1>7. ASSUME NEW d \in Device, PollForWelcome(d)
      PROVE  ~raced /\ fits' = fits
  BY <1>7 DEF PollForWelcome, history
<1>8. ASSUME NEW d \in Device, NEW t \in Text, SendMessage(d, t)
      PROVE  ~raced /\ fits' = fits
  BY <1>8 DEF SendMessage
<1>9. ASSUME NEW d \in Device, NEW i \in Invite,
             MakeInvite(d, i) \/ RequestToJoin(d, i)
      PROVE  ~raced /\ fits' = fits
  <2>1. CASE MakeInvite(d, i)
    BY <2>1 DEF MakeInvite, history
  <2>2. CASE RequestToJoin(d, i)
    BY <2>2 DEF RequestToJoin, history
  <2> QED BY <1>9, <2>1, <2>2
<1>10. ASSUME NEW d \in Device, NEW i \in Invite, Poll(d, i)
       PROVE  ~raced /\ fits' = fits
  <2>1. /\ raced' = \/ raced
                    \/ \E p \in polls : p.by # d \/ ~p.live \/ d \notin open
                    \/ last.by # d /\ ~Heard(d)
        /\ fits' = fits
    BY <1>10 DEF Poll
  <2> QED BY <2>1
<1>11. ASSUME NEW e \in sending, PushText(e) PROVE ~raced /\ fits' = fits
  BY <1>11 DEF PushText, history
<1>12. ASSUME NEW p \in polls, AddMember(p) PROVE ~raced /\ fits' = fits
  BY <1>12 DEF AddMember
<1>13. ASSUME NEW p \in polls, PushCommit(p) PROVE ~raced /\ fits' = fits
  BY <1>13 DEF PushCommit
<1>14. ASSUME NEW p \in polls, PushWelcome(p) PROVE ~raced /\ fits' = fits
  BY <1>14 DEF PushWelcome, history
<1>15. ASSUME PushFails PROVE ~raced /\ fits' = fits
  BY <1>15, PushFailsRaced
<1>16. CASE UNCHANGED groupVars
  BY <1>16 DEF groupVars, history
<1>17. ASSUME NEW s \in seals, SealLands(s) PROVE ~raced /\ fits' = fits
  BY <1>17 DEF SealLands
<1>18. ASSUME NEW s \in seals, NEW again \in BOOLEAN, Joined(s, again)
       PROVE  ~raced /\ fits' = fits
  <2>1. raced' = raced \/ raced' = (raced \/ Forgets(s))
    BY <1>18 DEF Joined
  <2>2. fits' = fits
    BY <1>18 DEF Joined
  <2>3. CASE UNCHANGED raced
    BY <2>2, <2>3
  <2>4. CASE raced' = (raced \/ Forgets(s))
    BY <2>2, <2>4
  <2> QED BY <2>1, <2>3, <2>4
<1> QED
  BY <1>1, <1>2, <1>3, <1>4, <1>5, <1>6, <1>7, <1>8, <1>9, <1>10, <1>11, <1>12,
     <1>13, <1>14, <1>15, <1>16, <1>17, <1>18 DEF GroupNext

\* As long as nothing races, every step leaves the group on one path.
LEMMA TaleStep ==
  ASSUME TypesInv, TypesInv', Tale, fits["commit"], ~raced',
         [GroupNext]_groupVars
  PROVE  Tale'
<1>1. ASSUME NEW d \in Device,
             \/ Select(d) \/ Leave(d) \/ Load(d) \/ Reconnect(d)
             \/ ProcessEntry(d) \/ Reload(d) \/ PollForWelcome(d)
             \/ \E t \in Text : SendMessage(d, t)
             \/ \E i \in Invite :
                  MakeInvite(d, i) \/ RequestToJoin(d, i) \/ Poll(d, i)
      PROVE  Tale'
  <2>1. CASE Select(d) \/ Leave(d) \/ Load(d) \/ Reconnect(d)
    BY <2>1, TaleSelect, TaleLeave, TaleLoad, TaleReconnect
  <2>2. CASE ProcessEntry(d) \/ Reload(d) \/ PollForWelcome(d)
    BY <2>2, TaleProcess, TaleReload, TaleWelcome
  <2>3. CASE \E t \in Text : SendMessage(d, t)
    BY <2>3, TaleSend
  <2>4. CASE \E i \in Invite :
               MakeInvite(d, i) \/ RequestToJoin(d, i) \/ Poll(d, i)
    BY <2>4, TaleInvites, TalePoll
  <2> QED BY <1>1, <2>1, <2>2, <2>3, <2>4
<1>2. CASE \/ \E e \in sending : PushText(e)
           \/ \E s \in seals :
                SealLands(s) \/ \E again \in BOOLEAN : Joined(s, again)
  BY <1>2, TalePushText, TaleLands, TaleJoined
<1>3. CASE \E p \in polls : AddMember(p) \/ PushCommit(p) \/ PushWelcome(p)
  BY <1>3, TaleAdd, TalePushCommit, TalePushWelcome
<1>4. CASE PushFails
  BY <1>4, TaleFails
<1>5. CASE UNCHANGED groupVars
  <2>1. UNCHANGED <<entries, toInvitee, disk, seals, last, polls, live, excused,
                    open, socket>>
    BY <1>5 DEF groupVars, server, store, hook, page, history
  <2>2. SameLive
    BY <2>1 DEF SameLive
  <2>3. OneAdds' /\ Hooked'
    BY <2>1, <2>2, AddsStay, HookStays DEF Tale, Committed
  <2>4. Follows'
    BY <2>1, FollowsStays DEF Tale
  <2> QED BY <2>1, <2>3, <2>4, QuietTale DEF Committed, Sealing
<1> QED BY <1>1, <1>2, <1>3, <1>4, <1>5 DEF GroupNext

\* The epochs of any two devices are on one path, whatever the order in which
\* sealed sessions land, unless members were added at the same time, unheard or
\* out of order, a commit could not be read, or one was lost, on its way to the
\* log or from a sealed session (group.ts:136, :244, useGroupTransport.ts:63).
THEOREM OneHistory == GroupSpec => []OneHistoryUnlessRaced
<1>1. GroupInit => TypesInv /\ HistoryInv
  BY GroupInitTypes, TaleInit DEF HistoryInv
<1>2. TypesInv /\ HistoryInv /\ [GroupNext]_groupVars =>
        (TypesInv /\ HistoryInv)'
  <2> SUFFICES ASSUME TypesInv, HistoryInv, [GroupNext]_groupVars
               PROVE  TypesInv' /\ HistoryInv'
    OBVIOUS
  <2>1. TypesInv'
    BY GroupStepTypes
  <2>2. ASSUME ~raced', fits'["commit"]
        PROVE  Tale'
    <3>1. ~raced /\ fits["commit"]
      BY <2>2, NotRacedBefore
    <3> QED BY <2>1, <2>2, <3>1, TaleStep DEF HistoryInv
  <2> QED BY <2>1, <2>2 DEF HistoryInv
<1>3. TypesInv /\ HistoryInv => OneHistoryUnlessRaced
  <2> SUFFICES ASSUME TypesInv, Tale, NEW c \in Members, NEW d \in Members
               PROVE  \/ IsPrefix(disk[c].epoch, disk[d].epoch)
                      \/ IsPrefix(disk[d].epoch, disk[c].epoch)
    BY DEF HistoryInv, OneHistoryUnlessRaced
  <2>1. /\ disk[c].epoch \in Seq(Commit) /\ IsPrefix(disk[c].epoch, Path)
        /\ disk[d].epoch \in Seq(Commit) /\ IsPrefix(disk[d].epoch, Path)
        /\ Path \in Seq(Commit)
    BY Epochs DEF Members, Tale, OnPath
  <2> QED BY <2>1, PrefixesOfOne
<1> QED BY <1>1, <1>2, <1>3, PTL DEF GroupSpec
=============================================================================
