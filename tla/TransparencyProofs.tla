------------------------- MODULE TransparencyProofs -------------------------
(***************************************************************************)
(* The safety properties of Transparency, for any events, sizes, limits    *)
(* and numbers of rewrites and faults, and what they rest on: the trees    *)
(* and the consistency proofs, for any leaves.                             *)
(*                                                                         *)
(* The trees are recursive functions, over slices and places.  That such a *)
(* function exists, and so meets its equation, follows from the induction  *)
(* of WellFoundedInduction, with sets in the place of predicates           *)
(* (Induction, Recursion, Universe).  Then                                 *)
(*                                                                         *)
(* - the tree that LeanIMT builds level by level has the root of the one   *)
(*   that mth splits at powers of two (ShapesAgree);                       *)
(* - seen from the top, the way of the verifier splits as the tree does    *)
(*   (ClimbSplit), and so the proof of subProof has just the hashes that   *)
(*   lead from the root of the old leaves to that of all (ProofVerifies);  *)
(* - the cache is a prefix of the log, and a head is of the log it was     *)
(*   signed for (LogInv), so roots tell logs apart (NoRewriteUnnoticed,    *)
(*   ProofsDecide);                                                        *)
(* - while the log is not rewritten, it continues every log the monitor    *)
(*   has had a head of (QuietInv), which leaves nothing to raise an alarm  *)
(*   about (NoFalseAlarm).                                                 *)
(***************************************************************************)
EXTENDS Transparency, TLAPS, SequenceTheorems, WellFoundedInduction

-----------------------------------------------------------------------------
(* Recursion *)

\* Induction, for a property of numbers that is the membership in a set.
LEMMA Induction ==
  ASSUME NEW P \in SUBSET Nat,
         \A n \in Nat : (\A m \in 0 .. n - 1 : m \in P) => n \in P
  PROVE  P = Nat
<1> DEFINE R == OpToRel(<, Nat)
<1>1. IsWellFoundedOn(R, Nat)
  BY NatLessThanWellFounded
<1>2. \A x, y \in Nat : <<y, x>> \in R <=> y < x
  BY DEF OpToRel
<1> HIDE DEF R
<1> SUFFICES ASSUME Nat \ P # {} PROVE FALSE
  OBVIOUS
<1>3. PICK x \in Nat \ P : \A y \in Nat \ P : ~(<<y, x>> \in R)
  BY <1>1, WFMin
<1>4. ASSUME NEW m \in 0 .. x - 1 PROVE m \in P
  <2>1. m \in Nat /\ x \in Nat /\ m < x
    OBVIOUS
  <2> QED BY <1>2, <1>3, <2>1
<1> QED BY <1>3, <1>4

\* A step of a recursion: it makes a value of values at smaller arguments.
LooksDown(S, V, rank, step) ==
  \A r \in S : \A f, h \in [S -> V] :
    (\A q \in S : rank[q] < rank[r] => f[q] = h[q])
      => step[<<f, r>>] = step[<<h, r>>]
IsStep(S, V, rank, step) ==
  /\ V # {}
  /\ rank \in [S -> Nat]
  /\ step \in [[S -> V] \X S -> V]
  /\ LooksDown(S, V, rank, step)

\* A function of whose values all are made by the step.
Follows(S, V, step) ==
  \E g \in [S -> V] : \A r \in S : g[r] = step[<<g, r>>]

\* A recursion whose steps look at smaller arguments only has a solution.
LEMMA Recursion ==
  ASSUME NEW S, NEW V, NEW rank, NEW step, IsStep(S, V, rank, step)
  PROVE  Follows(S, V, step)
<1>0. /\ rank \in [S -> Nat]
      /\ step \in [[S -> V] \X S -> V]
      /\ LooksDown(S, V, rank, step)
  BY DEF IsStep
<1> PICK v \in V : TRUE
  BY DEF IsStep
<1> DEFINE Is(f, n) == /\ f \in [S -> V]
                       /\ \A r \in S : rank[r] <= n => f[r] = step[<<f, r>>]
           g(n) == CHOOSE f : Is(f, n)
<1>1. \A r \in S : rank[r] \in Nat
  BY <1>0
<1>2. ASSUME NEW n \in Nat, NEW m \in 0 .. n, NEW f, NEW h, Is(f, m), Is(h, n)
      PROVE  \A r \in S : rank[r] <= m => f[r] = h[r]
  <2> DEFINE P == {i \in Nat : \A r \in S : rank[r] <= m /\ rank[r] = i
                                             => f[r] = h[r]}
  <2>1. ASSUME NEW i \in Nat, \A j \in 0 .. i - 1 : j \in P
        PROVE  i \in P
    <3> SUFFICES ASSUME NEW r \in S, rank[r] <= m, rank[r] = i
                 PROVE  f[r] = h[r]
      OBVIOUS
    <3>1. ASSUME NEW q \in S, rank[q] < rank[r] PROVE f[q] = h[q]
      <4>1. rank[q] \in 0 .. i - 1 /\ rank[q] <= m
        BY <1>1, <3>1
      <4> QED BY <2>1, <4>1
    <3>2. f \in [S -> V] /\ h \in [S -> V]
      BY <1>2
    <3>3. step[<<f, r>>] = step[<<h, r>>]
      BY <1>0, <3>1, <3>2 DEF LooksDown
    <3>4. rank[r] <= n
      BY <1>1
    <3> QED BY <1>2, <3>3, <3>4
  <2>2. P = Nat
    <3> HIDE DEF P
    <3>1. P \in SUBSET Nat
      BY DEF P
    <3> QED BY <2>1, <3>1, Induction
  <2> QED BY <1>1, <2>2
<1>3. ASSUME NEW n \in Nat PROVE \E f : Is(f, n)
  <2> DEFINE P == {i \in Nat : \E f : Is(f, i)}
  <2>1. ASSUME NEW i \in Nat, \A j \in 0 .. i - 1 : j \in P
        PROVE  i \in P
    <3> DEFINE e == IF i = 0 THEN [r \in S |-> v] ELSE g(i - 1)
               f == [r \in S |-> step[<<e, r>>]]
    <3>1. /\ e \in [S -> V]
          /\ \A r \in S : rank[r] < i => e[r] = step[<<e, r>>]
      <4>1. CASE i = 0
        BY <1>1, <4>1
      <4>2. CASE i # 0
        <5>1. i - 1 \in 0 .. i - 1
          BY <4>2
        <5>2. Is(g(i - 1), i - 1)
          BY <2>1, <5>1
        <5>3. \A r \in S : rank[r] < i => rank[r] <= i - 1
          BY <1>1
        <5>4. e = g(i - 1)
          BY <4>2
        <5> HIDE DEF e, g
        <5> QED BY <5>2, <5>3, <5>4
      <4> QED BY <4>1, <4>2
    <3> HIDE DEF e
    <3>2. f \in [S -> V]
      BY <1>0, <3>1
    <3>3. ASSUME NEW r \in S, rank[r] <= i PROVE f[r] = step[<<f, r>>]
      <4> SUFFICES ASSUME NEW q \in S, rank[q] < rank[r]
                   PROVE  f[q] = e[q]
        BY <1>0, <3>1, <3>2 DEF LooksDown
      <4>1. rank[q] < i
        BY <1>1, <3>3
      <4> QED BY <3>1, <4>1
    <3>4. Is(f, i)
      BY <3>2, <3>3
    <3> QED BY <3>4
  <2>2. P = Nat
    <3> HIDE DEF P
    <3>1. P \in SUBSET Nat
      BY DEF P
    <3> QED BY <2>1, <3>1, Induction
  <2> QED BY <2>2
<1>4. ASSUME NEW n \in Nat PROVE Is(g(n), n)
  BY <1>3
<1> HIDE DEF g
<1> DEFINE h == [r \in S |-> g(rank[r])[r]]
<1>5. h \in [S -> V]
  BY <1>1, <1>4
<1>6. ASSUME NEW r \in S PROVE h[r] = step[<<h, r>>]
  <2>1. rank[r] \in Nat /\ Is(g(rank[r]), rank[r])
    BY <1>1, <1>4
  <2>2. h[r] = step[<<g(rank[r]), r>>]
    BY <2>1
  <2>3. ASSUME NEW q \in S, rank[q] < rank[r] PROVE h[q] = g(rank[r])[q]
    <3>1. rank[q] \in 0 .. rank[r] /\ Is(g(rank[q]), rank[q])
      <4>1. rank[q] \in Nat /\ rank[r] \in Nat
        BY <1>1
      <4> HIDE DEF Is
      <4> QED BY <1>4, <2>3, <4>1
    <3>2. g(rank[q])[q] = g(rank[r])[q]
      <4> HIDE DEF Is
      <4>1. \A p \in S : rank[p] <= rank[q] => g(rank[q])[p] = g(rank[r])[p]
        BY <1>2, <2>1, <3>1
      <4> QED BY <1>1, <4>1
    <3> QED BY <3>2
  <2>4. g(rank[r]) \in [S -> V]
    BY <2>1
  <2>5. step[<<h, r>>] = step[<<g(rank[r]), r>>]
    BY <1>0, <1>5, <2>3, <2>4 DEF LooksDown
  <2> QED BY <2>2, <2>5
<1> HIDE DEF h
<1> QED BY <1>5, <1>6 DEF Follows

\* There is a set that has some given values and, with any two, their pair.
LEMMA Universe ==
  ASSUME NEW L
  PROVE  \E V : L \subseteq V /\ \A a, b \in V : <<a, b>> \in V
<1> DEFINE Is(f, n) ==
             f = [i \in 0 .. n |-> IF i = 0 THEN L
                                   ELSE f[i - 1] \cup (f[i - 1] \X f[i - 1])]
           u(n) == CHOOSE f : Is(f, n)
<1>1. ASSUME NEW n \in Nat, NEW m \in 0 .. n, NEW f, NEW h, Is(f, m), Is(h, n)
      PROVE  f[m] = h[m]
  <2> DEFINE P == {i \in Nat : i <= m => f[i] = h[i]}
  <2>1. ASSUME NEW i \in Nat, \A j \in 0 .. i - 1 : j \in P
        PROVE  i \in P
    <3> SUFFICES ASSUME i <= m PROVE f[i] = h[i]
      OBVIOUS
    <3>1. CASE i = 0
      BY <1>1, <3>1
    <3>2. CASE i # 0
      <4>1. i - 1 \in 0 .. i - 1 /\ i - 1 <= m /\ i \in 0 .. m /\ i \in 0 .. n
        BY <3>2
      <4>2. f[i - 1] = h[i - 1]
        BY <2>1, <4>1
      <4>3. f[i] = f[i - 1] \cup (f[i - 1] \X f[i - 1])
        BY <1>1, <3>2, <4>1
      <4>4. h[i] = h[i - 1] \cup (h[i - 1] \X h[i - 1])
        BY <1>1, <3>2, <4>1
      <4> QED BY <4>2, <4>3, <4>4
    <3> QED BY <3>1, <3>2
  <2>2. P = Nat
    <3> HIDE DEF P
    <3>1. P \in SUBSET Nat
      BY DEF P
    <3> QED BY <2>1, <3>1, Induction
  <2> QED BY <2>2
<1>2. ASSUME NEW n \in Nat PROVE \E f : Is(f, n)
  <2> DEFINE P == {i \in Nat : \E f : Is(f, i)}
  <2>1. ASSUME NEW i \in Nat, \A j \in 0 .. i - 1 : j \in P
        PROVE  i \in P
    <3>1. CASE i = 0
      <4> DEFINE f == [j \in 0 .. 0 |-> L]
      <4>1. Is(f, 0)
        OBVIOUS
      <4> QED BY <3>1, <4>1
    <3>2. CASE i # 0
      <4>1. i - 1 \in 0 .. i - 1 /\ i - 1 \in Nat
        BY <3>2
      <4>2. Is(u(i - 1), i - 1)
        BY <2>1, <4>1
      <4> DEFINE e == u(i - 1)
                 f == [j \in 0 .. i |->
                         IF j = i THEN e[i - 1] \cup (e[i - 1] \X e[i - 1])
                         ELSE e[j]]
      <4>3. Is(e, i - 1)
        BY <4>2
      <4> HIDE DEF e
      <4>4. ASSUME NEW j \in 0 .. i
            PROVE  f[j] = IF j = 0 THEN L
                          ELSE f[j - 1] \cup (f[j - 1] \X f[j - 1])
        <5>1. CASE j = i
          <6>1. f[j - 1] = e[j - 1]
            BY <3>2, <5>1
          <6> QED BY <3>2, <5>1, <6>1
        <5>2. CASE j # i
          <6>1. j \in 0 .. i - 1 /\ f[j] = e[j]
            BY <5>2
          <6>2. j # 0 => f[j - 1] = e[j - 1]
            BY <6>1
          <6>3. e[j] = IF j = 0 THEN L ELSE e[j - 1] \cup (e[j - 1] \X e[j - 1])
            BY <4>3, <6>1
          <6> QED BY <6>1, <6>2, <6>3
        <5> QED BY <5>1, <5>2
      <4>5. Is(f, i)
        BY <4>4
      <4> QED BY <4>5
    <3> QED BY <3>1, <3>2
  <2>2. P = Nat
    <3> HIDE DEF P
    <3>1. P \in SUBSET Nat
      BY DEF P
    <3> QED BY <2>1, <3>1, Induction
  <2> QED BY <2>2
<1>3. ASSUME NEW n \in Nat PROVE Is(u(n), n)
  BY <1>2
<1> HIDE DEF u
<1> DEFINE level(n) == u(n)[n]
           V == UNION {level(n) : n \in Nat}
<1>4. level(0) = L
  BY <1>3
<1>5. ASSUME NEW n \in Nat
      PROVE  level(n + 1) = level(n) \cup (level(n) \X level(n))
  <2>1. n \in 0 .. n + 1 /\ n + 1 \in Nat
    OBVIOUS
  <2>2. Is(u(n), n) /\ Is(u(n + 1), n + 1)
    BY <1>3, <2>1
  <2>3. u(n)[n] = u(n + 1)[n]
    <3> HIDE DEF Is
    <3> QED BY <1>1, <2>1, <2>2
  <2>4. u(n + 1)[n + 1] = u(n + 1)[n] \cup (u(n + 1)[n] \X u(n + 1)[n])
    <3>1. n + 1 \in 0 .. n + 1 /\ n + 1 # 0 /\ (n + 1) - 1 = n
      OBVIOUS
    <3> QED BY <2>2, <3>1
  <2> QED BY <2>3, <2>4
<1> HIDE DEF level
<1>6. ASSUME NEW m \in Nat, NEW d \in Nat PROVE level(m) \subseteq level(m + d)
  <2> DEFINE P == {i \in Nat : level(m) \subseteq level(m + i)}
  <2>1. ASSUME NEW i \in Nat, \A j \in 0 .. i - 1 : j \in P
        PROVE  i \in P
    <3>1. CASE i = 0
      BY <3>1
    <3>2. CASE i # 0
      <4>1. i - 1 \in 0 .. i - 1 /\ m + (i - 1) \in Nat
             /\ (m + (i - 1)) + 1 = m + i
        BY <3>2
      <4>2. level(m) \subseteq level(m + (i - 1))
        BY <2>1, <4>1
      <4> QED BY <1>5, <4>1, <4>2
    <3> QED BY <3>1, <3>2
  <2>2. P = Nat
    <3> HIDE DEF P
    <3>1. P \in SUBSET Nat
      BY DEF P
    <3> QED BY <2>1, <3>1, Induction
  <2> QED BY <2>2
<1>7. ASSUME NEW a \in V, NEW b \in V PROVE <<a, b>> \in V
  <2>1. PICK m \in Nat, n \in Nat : a \in level(m) /\ b \in level(n)
    OBVIOUS
  <2>2. a \in level(m + n) /\ b \in level(n + m)
    BY <1>6, <2>1
  <2>3. m + n = n + m /\ m + n \in Nat
    OBVIOUS
  <2>4. <<a, b>> \in level((m + n) + 1)
    BY <1>5, <2>2, <2>3
  <2> QED BY <2>3, <2>4
<1>8. L \subseteq V
  BY <1>4
<1> QED BY <1>7, <1>8

\* Hashes of different terms differ.
LEMMA PairParts ==
  ASSUME NEW a, NEW b, NEW c, NEW d, <<a, b>> = <<c, d>>
  PROVE  a = c /\ b = d
OBVIOUS

-----------------------------------------------------------------------------
(* Powers of two *)

\* The recursion of largestPowerOfTwoBelow has a solution.
LEMMA LargestPower ==
  ASSUME NEW n \in Nat
  PROVE  \E f : /\ \A k \in Nat \ {0} : f[k] = IF k * 2 < n THEN f[k * 2] ELSE k
                /\ largestPowerOfTwoBelow(n) = f[1]
<1> DEFINE S == Nat \ {0}
           Def(f, k) == IF k * 2 < n THEN f[k * 2] ELSE k
           rank == [k \in S |-> IF k < n THEN n - k ELSE 0]
           step == [p \in [S -> S] \X S |-> Def(p[1], p[2])]
           F == CHOOSE f : f = [k \in S |-> Def(f, k)]
<1>1. 1 \in S /\ rank \in [S -> Nat] /\ \A k \in S : k * 2 \in S
  OBVIOUS
<1>2. step \in [[S -> S] \X S -> S]
  BY <1>1
<1>3. LooksDown(S, S, rank, step)
  <2> SUFFICES ASSUME NEW k \in S, NEW f \in [S -> S], NEW h \in [S -> S],
                      \A q \in S : rank[q] < rank[k] => f[q] = h[q]
               PROVE  step[<<f, k>>] = step[<<h, k>>]
    BY DEF LooksDown
  <2>1. k * 2 < n => rank[k * 2] < rank[k]
    BY <1>1
  <2>2. Def(f, k) = Def(h, k)
    BY <1>1, <2>1
  <2> QED BY <2>2
<1> HIDE DEF rank
<1>4. PICK g \in [S -> S] : \A k \in S : g[k] = step[<<g, k>>]
  <2>1. IsStep(S, S, rank, step)
    BY <1>1, <1>2, <1>3 DEF IsStep
  <2> HIDE DEF step, S
  <2> QED BY <2>1, Recursion DEF Follows
<1>5. g = [k \in S |-> Def(g, k)]
  BY <1>4
<1>6. F = [k \in S |-> Def(F, k)]
  <2> HIDE DEF Def
  <2> QED BY <1>5
<1>7. largestPowerOfTwoBelow(n) = F[1]
  BY DEF largestPowerOfTwoBelow
<1> HIDE DEF F
<1> QED BY <1>6, <1>7

\* It is below n, and its double is not.
LEMMA LargestBelow ==
  ASSUME NEW n \in Nat, n >= 2
  PROVE  /\ largestPowerOfTwoBelow(n) \in Nat \ {0}
         /\ largestPowerOfTwoBelow(n) < n
         /\ n <= 2 * largestPowerOfTwoBelow(n)
<1>1. PICK f : /\ \A k \in Nat \ {0} : f[k] = IF k * 2 < n THEN f[k * 2] ELSE k
               /\ largestPowerOfTwoBelow(n) = f[1]
  BY LargestPower
<1> DEFINE P == {d \in Nat : \A j \in 1 .. n - 1 : n - j = d =>
                   f[j] \in Nat \ {0} /\ f[j] < n /\ n <= 2 * f[j]}
<1>2. ASSUME NEW d \in Nat, \A c \in 0 .. d - 1 : c \in P
      PROVE  d \in P
  <2> SUFFICES ASSUME NEW j \in 1 .. n - 1, n - j = d
               PROVE  f[j] \in Nat \ {0} /\ f[j] < n /\ n <= 2 * f[j]
    OBVIOUS
  <2>1. CASE j * 2 < n
    <3>1. n - j * 2 \in 0 .. d - 1 /\ j * 2 \in 1 .. n - 1
      BY <2>1
    <3>2. f[j] = f[j * 2]
      BY <1>1, <2>1
    <3> QED BY <1>2, <3>1, <3>2
  <2>2. CASE ~(j * 2 < n)
    <3>1. f[j] = j
      BY <1>1, <2>2
    <3> QED BY <2>2, <3>1
  <2> QED BY <2>1, <2>2
<1>3. P = Nat
  <2> HIDE DEF P
  <2>1. P \in SUBSET Nat
    BY DEF P
  <2> QED BY <1>2, <2>1, Induction
<1>4. 1 \in 1 .. n - 1 /\ n - 1 \in P
  <2> HIDE DEF P
  <2> QED BY <1>3
<1> QED BY <1>1, <1>4

\* The power of two below two leaves.
LEMMA LargestBelowTwo == largestPowerOfTwoBelow(2) = 1
<1>1. PICK f : /\ \A k \in Nat \ {0} : f[k] = IF k * 2 < 2 THEN f[k * 2] ELSE k
               /\ largestPowerOfTwoBelow(2) = f[1]
  BY LargestPower
<1> QED BY <1>1

\* It doubles with n, and with n rounded up to an even number.
LEMMA LargestDoubles ==
  ASSUME NEW d \in Nat, d >= 2, NEW n \in {2 * d - 1, 2 * d}
  PROVE  largestPowerOfTwoBelow(n) = 2 * largestPowerOfTwoBelow(d)
<1>1. n \in Nat
  OBVIOUS
<1>2. PICK f : /\ \A k \in Nat \ {0} : f[k] = IF k * 2 < n THEN f[k * 2] ELSE k
               /\ largestPowerOfTwoBelow(n) = f[1]
  BY <1>1, LargestPower
<1>3. PICK g : /\ \A k \in Nat \ {0} : g[k] = IF k * 2 < d THEN g[k * 2] ELSE k
               /\ largestPowerOfTwoBelow(d) = g[1]
  BY LargestPower
<1> DEFINE P == {i \in Nat : \A j \in 1 .. d - 1 : d - j = i =>
                   f[2 * j] = 2 * g[j]}
<1>4. ASSUME NEW i \in Nat, \A c \in 0 .. i - 1 : c \in P
      PROVE  i \in P
  <2> SUFFICES ASSUME NEW j \in 1 .. d - 1, d - j = i
               PROVE  f[2 * j] = 2 * g[j]
    OBVIOUS
  <2>1. CASE j * 2 < d
    <3>1. d - j * 2 \in 0 .. i - 1 /\ j * 2 \in 1 .. d - 1
      BY <2>1
    <3>2. f[2 * (j * 2)] = 2 * g[j * 2]
      BY <1>4, <3>1
    <3>3. g[j] = g[j * 2]
      BY <1>3, <2>1
    <3>4. f[2 * j] = f[2 * (j * 2)]
      <4>1. 2 * j \in Nat \ {0} /\ (2 * j) * 2 < n /\ (2 * j) * 2 = 2 * (j * 2)
        BY <2>1
      <4> QED BY <1>2, <4>1
    <3> QED BY <3>2, <3>3, <3>4
  <2>2. CASE ~(j * 2 < d)
    <3>1. g[j] = j
      BY <1>3, <2>2
    <3>2. f[2 * j] = 2 * j
      <4>1. 2 * j \in Nat \ {0} /\ ~((2 * j) * 2 < n)
        BY <2>2
      <4> QED BY <1>2, <4>1
    <3> QED BY <3>1, <3>2
  <2> QED BY <2>1, <2>2
<1>5. P = Nat
  <2> HIDE DEF P
  <2>1. P \in SUBSET Nat
    BY DEF P
  <2> QED BY <1>4, <2>1, Induction
<1>6. f[2 * 1] = 2 * g[1]
  <2>1. 1 \in 1 .. d - 1 /\ d - 1 \in P
    <3> HIDE DEF P
    <3> QED BY <1>5
  <2> QED BY <2>1
<1>7. f[1] = f[2 * 1]
  BY <1>2
<1> QED BY <1>2, <1>3, <1>6, <1>7

-----------------------------------------------------------------------------
(* The Merkle tree hash *)

\* The equation of the Merkle tree hash (mth).
LEMMA HashOfSlice ==
  ASSUME NEW leaves, NEW lo \in Nat, NEW hi \in Nat, lo < hi
  PROVE  mth(leaves, lo, hi) =
           IF hi - lo = 1 THEN leaves[hi]
           ELSE LET k == largestPowerOfTwoBelow(hi - lo)
                IN  <<mth(leaves, lo, lo + k), mth(leaves, lo + k, hi)>>
<1> DEFINE split(r) == largestPowerOfTwoBelow(r[2] - r[1])
           left(r) == <<r[1], r[1] + split(r)>>
           right(r) == <<r[1] + split(r), r[2]>>
           Def(h, r) == IF r[2] - r[1] = 1 THEN leaves[r[2]]
                        ELSE ktCombine(h[left(r)], h[right(r)])
           rank == [r \in Slices |-> r[2] - r[1]]
           hash == CHOOSE h : h = [r \in Slices |-> Def(h, r)]
<1>1. /\ \A r \in Slices : r[1] \in Nat /\ r[2] \in Nat /\ r[1] < r[2]
      /\ rank \in [Slices -> Nat]
  BY DEF Slices
<1>2. ASSUME NEW r \in Slices, r[2] - r[1] # 1
      PROVE  /\ left(r) \in Slices /\ right(r) \in Slices
             /\ rank[left(r)] < rank[r] /\ rank[right(r)] < rank[r]
  <2>1. r[2] - r[1] \in Nat /\ r[2] - r[1] >= 2
    BY <1>1, <1>2
  <2>2. split(r) \in Nat \ {0} /\ split(r) < r[2] - r[1]
    BY <2>1, LargestBelow
  <2> HIDE DEF split
  <2>3. left(r) \in Slices /\ right(r) \in Slices
    BY <1>1, <2>2 DEF Slices
  <2> QED BY <1>1, <2>2, <2>3
<1> HIDE DEF rank, left, right
<1> DEFINE L == {leaves[i] : i \in Nat}
<1>3. PICK V : L \subseteq V /\ \A a, b \in V : <<a, b>> \in V
  <2> HIDE DEF L
  <2> QED BY Universe
<1> DEFINE step == [p \in [Slices -> V] \X Slices |-> Def(p[1], p[2])]
<1>4. step \in [[Slices -> V] \X Slices -> V]
  <2> SUFFICES ASSUME NEW h \in [Slices -> V], NEW r \in Slices
               PROVE  Def(h, r) \in V
    OBVIOUS
  <2>1. CASE r[2] - r[1] = 1
    BY <1>1, <1>3, <2>1
  <2>2. CASE r[2] - r[1] # 1
    BY <1>2, <1>3, <2>2 DEF ktCombine
  <2> QED BY <2>1, <2>2
<1>5. LooksDown(Slices, V, rank, step)
  <2> SUFFICES ASSUME NEW r \in Slices,
                      NEW f \in [Slices -> V], NEW h \in [Slices -> V],
                      \A q \in Slices : rank[q] < rank[r] => f[q] = h[q]
               PROVE  step[<<f, r>>] = step[<<h, r>>]
    BY DEF LooksDown
  <2>1. Def(f, r) = Def(h, r)
    BY <1>2
  <2> QED BY <2>1
<1>6. leaves[1] \in V
  BY <1>3
<1>7. PICK g \in [Slices -> V] : \A r \in Slices : g[r] = step[<<g, r>>]
  <2> HIDE DEF step
  <2>1. IsStep(Slices, V, rank, step)
    BY <1>1, <1>4, <1>5, <1>6 DEF IsStep
  <2> QED BY <2>1, Recursion DEF Follows
<1>8. g = [r \in Slices |-> Def(g, r)]
  BY <1>7
<1>9. hash = [r \in Slices |-> Def(hash, r)]
  <2> HIDE DEF Def
  <2> QED BY <1>8
<1>10. \A a, b : mth(leaves, a, b) = hash[<<a, b>>]
  BY DEF mth, left, right
<1> HIDE DEF hash
<1>11. <<lo, hi>> \in Slices
  BY DEF Slices
<1>12. hash[<<lo, hi>>] = Def(hash, <<lo, hi>>)
  BY <1>9, <1>11
<1> QED BY <1>10, <1>12 DEF left, right, ktCombine

\* It depends on the leaves of the slice.
LEMMA HashLocal ==
  ASSUME NEW s, NEW t, NEW lo \in Nat, NEW hi \in Nat, lo < hi,
         \A i \in lo + 1 .. hi : s[i] = t[i]
  PROVE  mth(s, lo, hi) = mth(t, lo, hi)
<1> DEFINE P == {d \in Nat : \A a, b \in lo .. hi : a < b /\ b - a = d =>
                   mth(s, a, b) = mth(t, a, b)}
<1>1. ASSUME NEW d \in Nat, \A c \in 0 .. d - 1 : c \in P
      PROVE  d \in P
  <2> SUFFICES ASSUME NEW a \in lo .. hi, NEW b \in lo .. hi, a < b, b - a = d
               PROVE  mth(s, a, b) = mth(t, a, b)
    OBVIOUS
  <2>1. a \in Nat /\ b \in Nat
    OBVIOUS
  <2>2. CASE d = 1
    <3>1. mth(s, a, b) = s[b] /\ mth(t, a, b) = t[b]
      BY <2>1, <2>2, HashOfSlice
    <3> QED BY <3>1
  <2>3. CASE d # 1
    <3> DEFINE k == largestPowerOfTwoBelow(b - a)
    <3>1. d \in Nat /\ d >= 2
      BY <2>3
    <3>2. k \in Nat \ {0} /\ k < d
      BY <3>1, LargestBelow
    <3>3. /\ mth(s, a, b) = <<mth(s, a, a + k), mth(s, a + k, b)>>
          /\ mth(t, a, b) = <<mth(t, a, a + k), mth(t, a + k, b)>>
      BY <2>1, <2>3, HashOfSlice
    <3> HIDE DEF k
    <3>4. /\ a + k \in lo .. hi /\ a < a + k /\ a + k < b
          /\ (a + k) - a \in 0 .. d - 1 /\ b - (a + k) \in 0 .. d - 1
      BY <3>2
    <3>5. mth(s, a, a + k) = mth(t, a, a + k)
      BY <1>1, <3>4
    <3>6. mth(s, a + k, b) = mth(t, a + k, b)
      BY <1>1, <3>4
    <3> QED BY <3>3, <3>5, <3>6
  <2> QED BY <2>2, <2>3
<1>2. P = Nat
  <2> HIDE DEF P
  <2>1. P \in SUBSET Nat
    BY DEF P
  <2> QED BY <1>1, <2>1, Induction
<1>3. hi - lo \in P /\ lo \in lo .. hi /\ hi \in lo .. hi
  <2> HIDE DEF P
  <2> QED BY <1>2
<1> QED BY <1>3

\* It tells the leaves.
LEMMA HashInjective ==
  ASSUME NEW s, NEW t, NEW lo \in Nat, NEW hi \in Nat, lo < hi,
         mth(s, lo, hi) = mth(t, lo, hi)
  PROVE  \A i \in lo + 1 .. hi : s[i] = t[i]
<1> DEFINE P == {d \in Nat : \A a, b \in lo .. hi :
                   a < b /\ b - a = d /\ mth(s, a, b) = mth(t, a, b) =>
                     \A i \in a + 1 .. b : s[i] = t[i]}
<1>1. ASSUME NEW d \in Nat, \A c \in 0 .. d - 1 : c \in P
      PROVE  d \in P
  <2> SUFFICES ASSUME NEW a \in lo .. hi, NEW b \in lo .. hi, a < b, b - a = d,
                      mth(s, a, b) = mth(t, a, b), NEW i \in a + 1 .. b
               PROVE  s[i] = t[i]
    OBVIOUS
  <2>0. mth(s, a, b) = mth(t, a, b)
    OBVIOUS
  <2>1. a \in Nat /\ b \in Nat
    OBVIOUS
  <2>2. CASE d = 1
    <3>1. mth(s, a, b) = s[b] /\ mth(t, a, b) = t[b]
      BY <2>1, <2>2, HashOfSlice
    <3>2. i = b
      BY <2>2
    <3> QED BY <3>1, <3>2
  <2>3. CASE d # 1
    <3> DEFINE k == largestPowerOfTwoBelow(b - a)
    <3>1. d \in Nat /\ d >= 2
      BY <2>3
    <3>2. k \in Nat \ {0} /\ k < d
      BY <3>1, LargestBelow
    <3>3. /\ mth(s, a, b) = <<mth(s, a, a + k), mth(s, a + k, b)>>
          /\ mth(t, a, b) = <<mth(t, a, a + k), mth(t, a + k, b)>>
      BY <2>1, <2>3, HashOfSlice
    <3> HIDE DEF k
    <3>4. /\ a + k \in lo .. hi /\ a < a + k /\ a + k < b
          /\ (a + k) - a \in 0 .. d - 1 /\ b - (a + k) \in 0 .. d - 1
      BY <3>2
    <3>5. /\ mth(s, a, a + k) = mth(t, a, a + k)
          /\ mth(s, a + k, b) = mth(t, a + k, b)
      <4> DEFINE x == mth(s, a, a + k)
                 y == mth(s, a + k, b)
                 u == mth(t, a, a + k)
                 v == mth(t, a + k, b)
      <4>1. <<x, y>> = <<u, v>>
        BY <2>0, <3>3
      <4> HIDE DEF x, y, u, v
      <4>2. x = u /\ y = v
        BY <4>1, PairParts
      <4> QED BY <4>2 DEF x, y, u, v
    <3>6. CASE i <= a + k
      <4>1. i \in a + 1 .. a + k
        BY <3>2, <3>6
      <4> QED BY <1>1, <3>4, <3>5, <4>1
    <3>7. CASE i > a + k
      <4>1. i \in a + k + 1 .. b
        BY <3>2, <3>7
      <4> QED BY <1>1, <3>4, <3>5, <4>1
    <3> QED BY <3>2, <3>6, <3>7
  <2> QED BY <2>2, <2>3
<1>2. P = Nat
  <2> HIDE DEF P
  <2>1. P \in SUBSET Nat
    BY DEF P
  <2> QED BY <1>1, <2>1, Induction
<1>3. hi - lo \in P /\ lo \in lo .. hi /\ hi \in lo .. hi
  <2> HIDE DEF P
  <2> QED BY <1>2
<1> QED BY <1>3

-----------------------------------------------------------------------------
(* The tree of LeanIMT *)

\* With any two values, a set has their pair.
Paired(V) == \A a, b \in V : <<a, b>> \in V

\* A level is half as long as the one below it, rounded up.
LEMMA UpFacts ==
  ASSUME NEW V, Paired(V), NEW s \in Seq(V)
  PROVE  /\ Up(s) \in Seq(V)
         /\ Len(Up(s)) = (Len(s) + 1) \div 2
         /\ \A i \in 1 .. (Len(s) + 1) \div 2 :
              Up(s)[i] = IF 2 * i <= Len(s) THEN <<s[2 * i - 1], s[2 * i]>>
                         ELSE s[2 * i - 1]
<1> DEFINE n == Len(s)
           m == (n + 1) \div 2
           up(i) == IF 2 * i <= n THEN <<s[2 * i - 1], s[2 * i]>>
                    ELSE s[2 * i - 1]
<1>1. n \in Nat /\ m \in Nat /\ m * 2 <= n + 1
  OBVIOUS
<1>2. ASSUME NEW i \in 1 .. m PROVE up(i) \in V
  <2>1. CASE 2 * i <= n
    <3>1. 2 * i - 1 \in 1 .. n /\ 2 * i \in 1 .. n
      BY <1>1, <2>1
    <3>2. s[2 * i - 1] \in V /\ s[2 * i] \in V
      BY <3>1
    <3> QED BY <2>1, <3>2 DEF Paired
  <2>2. CASE ~(2 * i <= n)
    <3>1. 2 * i - 1 \in 1 .. n
      BY <1>1, <2>2
    <3>2. s[2 * i - 1] \in V
      BY <3>1
    <3> QED BY <2>2, <3>2
  <2> QED BY <2>1, <2>2
<1>3. Up(s) = [i \in 1 .. m |-> up(i)]
  BY DEF Up, ktCombine
<1> HIDE DEF up, m
<1>4. Up(s) \in Seq(V) /\ Len(Up(s)) = m
  BY <1>1, <1>2, <1>3
<1>5. \A i \in 1 .. m : Up(s)[i] = up(i)
  BY <1>3
<1> QED BY <1>4, <1>5 DEF up, m

\* The hash of a slice is that of the pairs of its leaves.
LEMMA HashOfUp ==
  ASSUME NEW V, Paired(V), NEW s \in Seq(V),
         NEW lo \in Nat, NEW hi \in Nat, lo < hi, hi <= (Len(s) + 1) \div 2
  PROVE  mth(Up(s), lo, hi) =
           mth(s, 2 * lo, IF 2 * hi <= Len(s) THEN 2 * hi ELSE Len(s))
<1> DEFINE n == Len(s)
           top(b) == IF 2 * b <= n THEN 2 * b ELSE n
           P == {d \in Nat : \A a, b \in 0 .. hi : a < b /\ b - a = d =>
                   mth(Up(s), a, b) = mth(s, 2 * a, top(b))}
<1>1. n \in Nat /\ hi <= (n + 1) \div 2
  OBVIOUS
<1>2. ASSUME NEW d \in Nat, \A c \in 0 .. d - 1 : c \in P
      PROVE  d \in P
  <2> SUFFICES ASSUME NEW a \in 0 .. hi, NEW b \in 0 .. hi, a < b, b - a = d
               PROVE  mth(Up(s), a, b) = mth(s, 2 * a, top(b))
    OBVIOUS
  <2>1. /\ a \in Nat /\ b \in Nat /\ 2 * a \in Nat /\ top(b) \in Nat
        /\ 2 * a < top(b) /\ top(b) - 2 * a \in {2 * d - 1, 2 * d}
        /\ 2 * b <= n + 1
    BY <1>1
  <2>2. CASE d = 1
    <3>1. mth(Up(s), a, b) = Up(s)[b]
      BY <2>1, <2>2, HashOfSlice
    <3>2. b \in 1 .. (n + 1) \div 2
      BY <1>1, <2>1
    <3>3. Up(s)[b] = IF 2 * b <= n THEN <<s[2 * b - 1], s[2 * b]>>
                     ELSE s[2 * b - 1]
      BY <3>2, UpFacts
    <3>4. CASE 2 * b <= n
      <4>1. top(b) - 2 * a = 2 /\ 2 * a + 1 \in Nat /\ 2 * a < 2 * a + 1
            /\ 2 * a + 1 < top(b)
        BY <2>1, <2>2, <3>4
      <4>5. 2 * a + 1 = 2 * b - 1 /\ top(b) = 2 * b
        BY <2>2, <3>4
      <4> HIDE DEF top
      <4>2. mth(s, 2 * a, top(b)) = <<mth(s, 2 * a, 2 * a + 1),
                                      mth(s, 2 * a + 1, top(b))>>
        <5>1. top(b) - 2 * a # 1
          BY <4>1
        <5>2. largestPowerOfTwoBelow(top(b) - 2 * a) = 1
          BY <4>1, LargestBelowTwo
        <5> QED BY <2>1, <5>1, <5>2, HashOfSlice
      <4>3. mth(s, 2 * a, 2 * a + 1) = s[2 * a + 1]
        <5>1. (2 * a + 1) - 2 * a = 1
          BY <2>1
        <5> QED BY <2>1, <4>1, <5>1, HashOfSlice
      <4>4. mth(s, 2 * a + 1, top(b)) = s[top(b)]
        <5>1. top(b) - (2 * a + 1) = 1
          BY <2>1, <4>1
        <5> QED BY <2>1, <4>1, <5>1, HashOfSlice
      <4> QED BY <3>1, <3>3, <3>4, <4>2, <4>3, <4>4, <4>5
    <3>5. CASE ~(2 * b <= n)
      <4>1. top(b) - 2 * a = 1 /\ top(b) = 2 * b - 1
        BY <2>1, <2>2, <3>5
      <4> HIDE DEF top
      <4>2. mth(s, 2 * a, top(b)) = s[top(b)]
        BY <2>1, <4>1, HashOfSlice
      <4> QED BY <3>1, <3>3, <3>5, <4>1, <4>2
    <3> QED BY <3>4, <3>5
  <2>3. CASE d # 1
    <3> DEFINE k == largestPowerOfTwoBelow(d)
    <3>1. d >= 2
      BY <2>3
    <3>2. k \in Nat \ {0} /\ k < d
      BY <3>1, LargestBelow
    <3>3. largestPowerOfTwoBelow(top(b) - 2 * a) = 2 * k
      BY <2>1, <3>1, LargestDoubles
    <3>4. mth(s, 2 * a, top(b)) = <<mth(s, 2 * a, 2 * a + 2 * k),
                                    mth(s, 2 * a + 2 * k, top(b))>>
      <4>1. top(b) - 2 * a # 1
        BY <2>1, <3>1
      <4> HIDE DEF top, k
      <4> QED BY <2>1, <3>3, <4>1, HashOfSlice
    <3>5. mth(Up(s), a, b) = <<mth(Up(s), a, a + k), mth(Up(s), a + k, b)>>
      BY <2>1, <2>3, HashOfSlice
    <3> HIDE DEF k
    <3>6. /\ a + k \in 0 .. hi /\ a < a + k /\ a + k < b
          /\ (a + k) - a \in 0 .. d - 1 /\ b - (a + k) \in 0 .. d - 1
      BY <2>1, <3>2
    <3>7. mth(Up(s), a, a + k) = mth(s, 2 * a, top(a + k))
      <4> HIDE DEF top
      <4> QED BY <1>2, <3>6
    <3>8. mth(Up(s), a + k, b) = mth(s, 2 * (a + k), top(b))
      <4> HIDE DEF top
      <4> QED BY <1>2, <3>6
    <3>9. top(a + k) = 2 * a + 2 * k /\ 2 * (a + k) = 2 * a + 2 * k
      BY <2>1, <3>2, <3>6
    <3> HIDE DEF top
    <3> QED BY <3>4, <3>5, <3>7, <3>8, <3>9
  <2> QED BY <2>2, <2>3
<1>3. P = Nat
  <2> HIDE DEF P
  <2>1. P \in SUBSET Nat
    BY DEF P
  <2> QED BY <1>2, <2>1, Induction
<1>4. hi - lo \in P /\ lo \in 0 .. hi /\ hi \in 0 .. hi
  <2> HIDE DEF P
  <2> QED BY <1>3
<1> QED BY <1>4

\* The recursion of the levels has a solution.
LEMMA Levels ==
  ASSUME NEW V, Paired(V), NEW leaves \in Seq(V)
  PROVE  \E level : /\ \A k \in Nat : level[k] = IF k = 0 THEN leaves
                                                 ELSE Up(level[k - 1])
                    /\ LeanRoot(leaves) = level[Len(leaves)][1]
<1> DEFINE Def(f, k) == IF k = 0 THEN leaves ELSE Up(f[k - 1])
           rank == [k \in Nat |-> k]
           step == [p \in [Nat -> Seq(V)] \X Nat |-> Def(p[1], p[2])]
           F == CHOOSE f : f = [k \in Nat |-> Def(f, k)]
<1>1. Seq(V) # {} /\ rank \in [Nat -> Nat]
  OBVIOUS
<1>2. step \in [[Nat -> Seq(V)] \X Nat -> Seq(V)]
  <2> SUFFICES ASSUME NEW f \in [Nat -> Seq(V)], NEW k \in Nat
               PROVE  Def(f, k) \in Seq(V)
    OBVIOUS
  <2>1. k # 0 => f[k - 1] \in Seq(V)
    OBVIOUS
  <2> QED BY <2>1, UpFacts
<1>3. LooksDown(Nat, Seq(V), rank, step)
  <2> SUFFICES ASSUME NEW k \in Nat,
                      NEW f \in [Nat -> Seq(V)], NEW h \in [Nat -> Seq(V)],
                      \A q \in Nat : rank[q] < rank[k] => f[q] = h[q]
               PROVE  step[<<f, k>>] = step[<<h, k>>]
    BY DEF LooksDown
  <2>1. k # 0 => k - 1 \in Nat /\ rank[k - 1] < rank[k]
    OBVIOUS
  <2>2. Def(f, k) = Def(h, k)
    BY <2>1
  <2> QED BY <2>2
<1> HIDE DEF rank
<1>4. PICK g \in [Nat -> Seq(V)] : \A k \in Nat : g[k] = step[<<g, k>>]
  <2> HIDE DEF step
  <2>1. IsStep(Nat, Seq(V), rank, step)
    BY <1>1, <1>2, <1>3 DEF IsStep
  <2>2. Follows(Nat, Seq(V), step)
    BY <2>1, Recursion
  <2> QED BY <2>2 DEF Follows
<1>5. g = [k \in Nat |-> Def(g, k)]
  BY <1>4
<1>6. F = [k \in Nat |-> Def(F, k)]
  <2> HIDE DEF Def
  <2> QED BY <1>5
<1>7. LeanRoot(leaves) = F[Len(leaves)][1]
  BY DEF LeanRoot
<1> HIDE DEF F
<1> QED BY <1>6, <1>7

\* The tree that is built level by level has the shape of the one that is split
\* at powers of two (merkleConsistency.ts:19, "verified, not assumed").
THEOREM ShapesAgree ==
  \A V : \A leaves \in Seq(V) :
    leaves # <<>> => LeanRoot(leaves) = mth(leaves, 0, Len(leaves))
<1> SUFFICES ASSUME NEW X, NEW leaves \in Seq(X), leaves # <<>>
             PROVE  LeanRoot(leaves) = mth(leaves, 0, Len(leaves))
  OBVIOUS
<1>1. PICK V : X \subseteq V /\ Paired(V)
  BY Universe DEF Paired
<1> DEFINE n == Len(leaves)
<1>2. leaves \in Seq(V) /\ n \in Nat /\ n >= 1
  BY <1>1
<1>3. PICK level : /\ \A k \in Nat : level[k] = IF k = 0 THEN leaves
                                                ELSE Up(level[k - 1])
                   /\ LeanRoot(leaves) = level[n][1]
  BY <1>1, <1>2, Levels
<1> DEFINE Good(s, k) == /\ s \in Seq(V)
                         /\ Len(s) >= 1
                         /\ Len(s) = 1 \/ Len(s) <= n - k
                         /\ mth(s, 0, Len(s)) = mth(leaves, 0, n)
           P == {k \in Nat : Good(level[k], k)}
<1>4. ASSUME NEW k \in Nat, \A c \in 0 .. k - 1 : c \in P
      PROVE  k \in P
  <2>1. CASE k = 0
    <3>1. level[k] = leaves
      BY <1>3, <2>1
    <3> QED BY <1>2, <2>1, <3>1
  <2>2. CASE k # 0
    <3> DEFINE s == level[k - 1]
    <3>1. k - 1 \in 0 .. k - 1 /\ k - 1 \in Nat
      BY <2>2
    <3>2. Good(s, k - 1)
      BY <1>4, <3>1
    <3>3. level[k] = Up(s)
      BY <1>3, <2>2
    <3> HIDE DEF s
    <3>4. Len(s) \in Nat /\ Len(s) >= 1 /\ (Len(s) = 1 \/ Len(s) <= n - (k - 1))
      BY <3>2
    <3>5. Up(s) \in Seq(V) /\ Len(Up(s)) = (Len(s) + 1) \div 2
      BY <1>1, <3>2, UpFacts
    <3>6. Len(Up(s)) >= 1 /\ (Len(Up(s)) = 1 \/ Len(Up(s)) <= n - k)
      <4> DEFINE c == Len(s)
                 h == Len(Up(s))
      <4>1. c \in Nat /\ c >= 1 /\ h = (c + 1) \div 2
        BY <3>4, <3>5
      <4>2. c = 1 \/ c <= n - (k - 1)
        BY <3>4
      <4> HIDE DEF c, h
      <4>3. h >= 1 /\ (c = 1 => h = 1) /\ (c # 1 => h <= c - 1)
        BY <4>1
      <4> QED BY <1>2, <4>1, <4>2, <4>3 DEF h
    <3>7. mth(Up(s), 0, Len(Up(s))) = mth(s, 0, Len(s))
      <4> DEFINE h == (Len(s) + 1) \div 2
      <4>1. h \in Nat /\ 0 < h /\ 2 * h >= Len(s)
        BY <3>4
      <4>2. (IF 2 * h <= Len(s) THEN 2 * h ELSE Len(s)) = Len(s) /\ 2 * 0 = 0
        BY <3>4, <4>1
      <4>3. mth(Up(s), 0, h) =
              mth(s, 2 * 0, IF 2 * h <= Len(s) THEN 2 * h ELSE Len(s))
        BY <1>1, <3>2, <4>1, HashOfUp
      <4> HIDE DEF h
      <4> QED BY <3>5, <4>2, <4>3 DEF h
    <3> QED BY <3>2, <3>3, <3>5, <3>6, <3>7
  <2> QED BY <2>1, <2>2
<1>5. P = Nat
  <2> HIDE DEF P
  <2>1. P \in SUBSET Nat
    BY DEF P
  <2> QED BY <1>4, <2>1, Induction
<1>6. Good(level[n], n)
  BY <1>2, <1>5
<1> HIDE DEF P
<1>7. Len(level[n]) = 1
  BY <1>2, <1>6
<1>8. mth(level[n], 0, 1) = level[n][1]
  BY HashOfSlice
<1> QED BY <1>3, <1>6, <1>7, <1>8

-----------------------------------------------------------------------------
(* Consistency proofs *)

\* Twice k is below what is above k.
LEMMA LargestSame ==
  ASSUME NEW n \in Nat, NEW m \in Nat, n >= 2,
         largestPowerOfTwoBelow(n) < m, m <= n
  PROVE  largestPowerOfTwoBelow(m) = largestPowerOfTwoBelow(n)
<1> DEFINE P == {c \in Nat : c >= 2 => \A i \in Nat :
                   largestPowerOfTwoBelow(c) < i /\ i <= c =>
                     largestPowerOfTwoBelow(i) = largestPowerOfTwoBelow(c)}
<1>1. ASSUME NEW c \in Nat, \A d \in 0 .. c - 1 : d \in P
      PROVE  c \in P
  <2> SUFFICES ASSUME c >= 2, NEW i \in Nat, largestPowerOfTwoBelow(c) < i,
                      i <= c
               PROVE  largestPowerOfTwoBelow(i) = largestPowerOfTwoBelow(c)
    OBVIOUS
  <2>1. CASE c = 2
    <3>1. i = 2
      BY <2>1, LargestBelowTwo
    <3> QED BY <2>1, <3>1
  <2>2. CASE c # 2
    <3> DEFINE d == (c + 1) \div 2
               j == (i + 1) \div 2
    <3>1. d \in Nat /\ d >= 2 /\ d < c /\ c \in {2 * d - 1, 2 * d}
      BY <2>2
    <3>2. largestPowerOfTwoBelow(c) = 2 * largestPowerOfTwoBelow(d)
      BY <3>1, LargestDoubles
    <3>3. largestPowerOfTwoBelow(d) \in Nat \ {0}
      BY <3>1, LargestBelow
    <3>4. i > 2
      BY <3>2, <3>3
    <3>5. j \in Nat /\ j >= 2 /\ i \in {2 * j - 1, 2 * j} /\ j <= d
      BY <3>4
    <3> HIDE DEF d, j
    <3>6. largestPowerOfTwoBelow(i) = 2 * largestPowerOfTwoBelow(j)
      BY <3>5, LargestDoubles
    <3>7. largestPowerOfTwoBelow(d) < j
      BY <3>2, <3>3, <3>5
    <3>8. d \in 0 .. c - 1
      BY <3>1
    <3> QED BY <1>1, <3>1, <3>2, <3>5, <3>6, <3>7, <3>8
  <2> QED BY <2>1, <2>2
<1>2. P = Nat
  <2> HIDE DEF P
  <2>1. P \in SUBSET Nat
    BY DEF P
  <2> QED BY <1>1, <2>1, Induction
<1>3. n \in P
  <2> HIDE DEF P
  <2> QED BY <1>2
<1> QED BY <1>3

Side == {"left", "right"}

\* The level above a pair of places, and the side of the first of them.
Above(p) == <<p[1] \div 2, p[2] \div 2>>
First(p) == IF p[1] % 2 = 1 THEN <<"left">>
            ELSE IF p[1] < p[2] THEN <<"right">> ELSE <<>>

IsStrip(strip) ==
  \A p \in Nat \X Nat :
    strip[p] = IF p[1] % 2 = 1 THEN strip[Above(p)] ELSE p
IsSides(sides) ==
  \A p \in Nat \X Nat :
    sides[p] = IF p[1] = 0 /\ p[2] = 0 THEN <<>>
               ELSE First(p) \o sides[Above(p)]

\* Going up a level ends.
LEMMA AbovePair ==
  ASSUME NEW p \in Nat \X Nat
  PROVE  /\ p[1] \in Nat /\ p[2] \in Nat
         /\ Above(p) \in Nat \X Nat /\ First(p) \in Seq(Side)
         /\ p[1] % 2 = 1 => Above(p)[1] < p[1]
         /\ ~(p[1] = 0 /\ p[2] = 0) => Above(p)[1] + Above(p)[2] < p[1] + p[2]
         /\ p[1] + p[2] \in Nat
<1>1. p[1] \in Nat /\ p[2] \in Nat
  OBVIOUS
<1> DEFINE x == p[1]
           y == p[2]
           u == x \div 2
           v == y \div 2
<1>2. x \in Nat /\ y \in Nat /\ u \in Nat /\ v \in Nat
  BY <1>1
<1>3. Above(p) = <<u, v>>
  BY DEF Above
<1>4. (x > 0 => u < x) /\ (y > 0 => v < y) /\ u <= x /\ v <= y
  BY <1>1
<1>5. x % 2 = 1 => x > 0
  BY <1>1
<1> HIDE DEF x, y, u, v
<1>6. /\ Above(p) \in Nat \X Nat
      /\ x % 2 = 1 => Above(p)[1] < x
      /\ ~(x = 0 /\ y = 0) => Above(p)[1] + Above(p)[2] < x + y
      /\ x + y \in Nat
  BY <1>2, <1>3, <1>4, <1>5
<1>7. First(p) \in Seq(Side)
  <2>1. "left" \in Side /\ "right" \in Side
    BY DEF Side
  <2> HIDE DEF Side
  <2>2. /\ <<"left">> \in Seq(Side) /\ <<"right">> \in Seq(Side)
        /\ <<>> \in Seq(Side)
    BY <2>1
  <2> QED BY <2>2 DEF First
<1> QED BY <1>1, <1>6, <1>7 DEF x, y

\* The recursion that strips the levels has a solution.
LEMMA StripDefined ==
  LET strip[p \in Nat \X Nat] ==
        IF p[1] % 2 = 1 THEN strip[<<p[1] \div 2, p[2] \div 2>>] ELSE p
  IN  IsStrip(strip)
<1> DEFINE S == Nat \X Nat
           Def(f, p) == IF p[1] % 2 = 1 THEN f[<<p[1] \div 2, p[2] \div 2>>]
                        ELSE p
           rank == [p \in S |-> p[1]]
           step == [q \in [S -> S] \X S |-> Def(q[1], q[2])]
           F == CHOOSE f : f = [p \in S |-> Def(f, p)]
<1>1. rank \in [S -> Nat] /\ S # {}
  <2>1. <<0, 0>> \in S
    OBVIOUS
  <2>2. \A p \in S : p[1] \in Nat
    OBVIOUS
  <2> HIDE DEF S
  <2> QED BY <2>1, <2>2
<1>2. step \in [[S -> S] \X S -> S]
  <2> SUFFICES ASSUME NEW f \in [S -> S], NEW p \in S PROVE Def(f, p) \in S
    OBVIOUS
  <2>1. f[Above(p)] \in S
    BY AbovePair
  <2> QED BY <2>1 DEF Above
<1>3. LooksDown(S, S, rank, step)
  <2> SUFFICES ASSUME NEW p \in S, NEW f \in [S -> S], NEW h \in [S -> S],
                      \A q \in S : rank[q] < rank[p] => f[q] = h[q]
               PROVE  step[<<f, p>>] = step[<<h, p>>]
    BY DEF LooksDown
  <2>1. p[1] % 2 = 1 => f[Above(p)] = h[Above(p)]
    BY AbovePair
  <2>2. Def(f, p) = Def(h, p)
    BY <2>1 DEF Above
  <2> QED BY <2>2
<1> HIDE DEF rank
<1>4. PICK g \in [S -> S] : \A p \in S : g[p] = step[<<g, p>>]
  <2>1. IsStep(S, S, rank, step)
    BY <1>1, <1>2, <1>3 DEF IsStep
  <2> HIDE DEF step, S
  <2>2. Follows(S, S, step)
    BY <2>1, Recursion
  <2> QED BY <2>2 DEF Follows
<1>5. g = [p \in S |-> Def(g, p)]
  BY <1>4
<1>6. F = [p \in S |-> Def(F, p)]
  <2> HIDE DEF Def
  <2> QED BY <1>5
<1>7. IsStrip(F)
  <2> HIDE DEF F
  <2> QED BY <1>6 DEF IsStrip, Above
<1> QED BY <1>7

\* So has the one that lists the sides.
LEMMA SidesDefined ==
  LET sides[p \in Nat \X Nat] ==
        IF p[1] = 0 /\ p[2] = 0 THEN <<>>
        ELSE (IF p[1] % 2 = 1 THEN <<"left">>
              ELSE IF p[1] < p[2] THEN <<"right">> ELSE <<>>)
             \o sides[<<p[1] \div 2, p[2] \div 2>>]
  IN  IsSides(sides) /\ sides \in [Nat \X Nat -> Seq(Side)]
<1> DEFINE S == Nat \X Nat
           V == Seq(Side)
           Def(f, p) ==
             IF p[1] = 0 /\ p[2] = 0 THEN <<>>
             ELSE (IF p[1] % 2 = 1 THEN <<"left">>
                   ELSE IF p[1] < p[2] THEN <<"right">> ELSE <<>>)
                  \o f[<<p[1] \div 2, p[2] \div 2>>]
           rank == [p \in S |-> p[1] + p[2]]
           step == [q \in [S -> V] \X S |-> Def(q[1], q[2])]
           F == CHOOSE f : f = [p \in S |-> Def(f, p)]
<1>0. <<>> \in V
  OBVIOUS
<1>1. rank \in [S -> Nat] /\ V # {}
  <2>1. \A p \in S : p[1] + p[2] \in Nat
    BY AbovePair
  <2> HIDE DEF S, V
  <2> QED BY <1>0, <2>1
<1>2. \A f, p : Def(f, p) = IF p[1] = 0 /\ p[2] = 0 THEN <<>>
                            ELSE First(p) \o f[Above(p)]
  BY DEF First, Above
<1> HIDE DEF Def
<1>3. step \in [[S -> V] \X S -> V]
  <2> SUFFICES ASSUME NEW f \in [S -> V], NEW p \in S PROVE Def(f, p) \in V
    OBVIOUS
  <2>1. f[Above(p)] \in V /\ First(p) \in V
    BY AbovePair
  <2>2. First(p) \o f[Above(p)] \in V
    BY <2>1
  <2> HIDE DEF V
  <2> QED BY <1>0, <1>2, <2>2
<1>4. LooksDown(S, V, rank, step)
  <2> SUFFICES ASSUME NEW p \in S, NEW f \in [S -> V], NEW h \in [S -> V],
                      \A q \in S : rank[q] < rank[p] => f[q] = h[q]
               PROVE  step[<<f, p>>] = step[<<h, p>>]
    BY DEF LooksDown
  <2>1. ~(p[1] = 0 /\ p[2] = 0) => f[Above(p)] = h[Above(p)]
    BY AbovePair
  <2>2. Def(f, p) = Def(h, p)
    BY <1>2, <2>1
  <2> QED BY <2>2
<1> HIDE DEF rank
<1>5. PICK g \in [S -> V] : \A p \in S : g[p] = step[<<g, p>>]
  <2>1. IsStep(S, V, rank, step)
    BY <1>1, <1>3, <1>4 DEF IsStep
  <2> HIDE DEF step, S, V
  <2>2. Follows(S, V, step)
    BY <2>1, Recursion
  <2> QED BY <2>2 DEF Follows
<1>6. g = [p \in S |-> Def(g, p)]
  BY <1>5
<1>7. F = [p \in S |-> Def(F, p)]
  BY <1>6
<1> HIDE DEF F
<1>8. IsSides(F)
  BY <1>2, <1>7 DEF IsSides
<1>9. F \in [S -> V]
  <2> DEFINE P == {d \in Nat : \A p \in S : rank[p] = d => F[p] \in V}
  <2>1. ASSUME NEW d \in Nat, \A c \in 0 .. d - 1 : c \in P
        PROVE  d \in P
    <3> SUFFICES ASSUME NEW p \in S, rank[p] = d PROVE F[p] \in V
      OBVIOUS
    <3>1. CASE p[1] = 0 /\ p[2] = 0
      <4>1. F[p] = <<>>
        BY <1>8, <3>1 DEF IsSides
      <4> HIDE DEF V
      <4> QED BY <1>0, <4>1
    <3>2. CASE ~(p[1] = 0 /\ p[2] = 0)
      <4>1. Above(p) \in S /\ rank[Above(p)] \in 0 .. d - 1
        BY <3>2, AbovePair DEF rank
      <4>2. F[Above(p)] \in V
        BY <2>1, <4>1
      <4>3. First(p) \in V
        BY AbovePair
      <4>4. F[p] = First(p) \o F[Above(p)]
        BY <1>8, <3>2 DEF IsSides
      <4>5. First(p) \o F[Above(p)] \in V
        BY <4>2, <4>3
      <4> HIDE DEF V
      <4> QED BY <4>4, <4>5
    <3> QED BY <3>1, <3>2
  <2>2. P = Nat
    <3> HIDE DEF P
    <3>1. P \in SUBSET Nat
      BY DEF P
    <3> QED BY <2>1, <3>1, Induction
  <2>3. \A p \in S : F[p] \in V
    BY <1>1, <2>2
  <2>4. DOMAIN F = S /\ F = [p \in S |-> F[p]]
    BY <1>7
  <2> HIDE DEF P, V, S
  <2> QED BY <2>3, <2>4
<1> QED BY <1>8, <1>9 DEF F, Def

\* The way up from an even number of leaves is that of their pairs; that from
\* an odd number begins at a leaf.
LEMMA ClimbFacts ==
  \E sides \in [Nat \X Nat -> Seq(Side)] :
    /\ IsSides(sides)
    /\ \A m, n \in Nat \ {0} :
         Climb(m, n) = IF m % 2 = 0 THEN Climb(m \div 2, (n + 1) \div 2)
                       ELSE [atEdge |-> m = 1,
                             sides |-> sides[<<m - 1, n - 1>>]]
<1> DEFINE strip[p \in Nat \X Nat] ==
             IF p[1] % 2 = 1 THEN strip[<<p[1] \div 2, p[2] \div 2>>] ELSE p
           sides[p \in Nat \X Nat] ==
             IF p[1] = 0 /\ p[2] = 0 THEN <<>>
             ELSE (IF p[1] % 2 = 1 THEN <<"left">>
                   ELSE IF p[1] < p[2] THEN <<"right">> ELSE <<>>)
                  \o sides[<<p[1] \div 2, p[2] \div 2>>]
<1>1. IsStrip(strip)
  BY StripDefined
<1>2. IsSides(sides) /\ sides \in [Nat \X Nat -> Seq(Side)]
  BY SidesDefined
<1>3. \A m, n : Climb(m, n) = [atEdge |-> strip[<<m - 1, n - 1>>][1] = 0,
                               sides |-> sides[strip[<<m - 1, n - 1>>]]]
  BY DEF Climb
<1> HIDE DEF strip, sides
<1>4. ASSUME NEW m \in Nat \ {0}, NEW n \in Nat \ {0}
      PROVE  Climb(m, n) = IF m % 2 = 0 THEN Climb(m \div 2, (n + 1) \div 2)
                           ELSE [atEdge |-> m = 1,
                                 sides |-> sides[<<m - 1, n - 1>>]]
  <2>1. <<m - 1, n - 1>> \in Nat \X Nat
    OBVIOUS
  <2>2. CASE m % 2 = 0
    <3>1. (m - 1) % 2 = 1
      BY <2>2
    <3>2. /\ (m - 1) \div 2 = m \div 2 - 1
          /\ (n - 1) \div 2 = (n + 1) \div 2 - 1
      BY <2>2
    <3>3. strip[<<m - 1, n - 1>>]
            = strip[<<m \div 2 - 1, (n + 1) \div 2 - 1>>]
      BY <1>1, <2>1, <3>1, <3>2 DEF IsStrip, Above
    <3> QED BY <1>3, <2>2, <3>3
  <2>3. CASE m % 2 # 0
    <3>1. (m - 1) % 2 # 1
      BY <2>3
    <3>2. strip[<<m - 1, n - 1>>] = <<m - 1, n - 1>>
      BY <1>1, <2>1, <3>1 DEF IsStrip
    <3>3. m - 1 = 0 <=> m = 1
      OBVIOUS
    <3> QED BY <1>3, <2>3, <3>2, <3>3
  <2> QED BY <2>2, <2>3
<1> QED BY <1>2, <1>4

\* The way up is a sequence of sides.
LEMMA ClimbType ==
  ASSUME NEW m \in Nat \ {0}, NEW n \in Nat \ {0}
  PROVE  Climb(m, n).sides \in Seq(Side) /\ Climb(m, n).atEdge \in BOOLEAN
<1>1. PICK sides \in [Nat \X Nat -> Seq(Side)] :
        \A i, j \in Nat \ {0} :
          Climb(i, j) = IF i % 2 = 0 THEN Climb(i \div 2, (j + 1) \div 2)
                        ELSE [atEdge |-> i = 1,
                              sides |-> sides[<<i - 1, j - 1>>]]
  BY ClimbFacts
<1> DEFINE Good(i, j) == /\ Climb(i, j).sides \in Seq(Side)
                         /\ Climb(i, j).atEdge \in BOOLEAN
           P == {i \in Nat : i > 0 => \A j \in Nat \ {0} : Good(i, j)}
<1>2. ASSUME NEW i \in Nat, \A c \in 0 .. i - 1 : c \in P
      PROVE  i \in P
  <2> SUFFICES ASSUME i > 0, NEW j \in Nat \ {0} PROVE Good(i, j)
    OBVIOUS
  <2>0. Climb(i, j) = IF i % 2 = 0 THEN Climb(i \div 2, (j + 1) \div 2)
                      ELSE [atEdge |-> i = 1, sides |-> sides[<<i - 1, j - 1>>]]
    <3> HIDE DEF P
    <3>1. i \in Nat \ {0} /\ j \in Nat \ {0}
      OBVIOUS
    <3> QED BY <1>1, <3>1
  <2>1. CASE i % 2 = 0
    <3>1. /\ i \div 2 \in 0 .. i - 1 /\ i \div 2 > 0
          /\ (j + 1) \div 2 \in Nat \ {0}
      BY <2>1
    <3>2. Good(i \div 2, (j + 1) \div 2)
      BY <1>2, <3>1
    <3>3. Climb(i, j) = Climb(i \div 2, (j + 1) \div 2)
      BY <2>0, <2>1
    <3> QED BY <3>2, <3>3
  <2>2. CASE i % 2 # 0
    <3>1. <<i - 1, j - 1>> \in Nat \X Nat
      OBVIOUS
    <3>2. sides[<<i - 1, j - 1>>] \in Seq(Side)
      BY <3>1
    <3>3. Climb(i, j) = [atEdge |-> i = 1, sides |-> sides[<<i - 1, j - 1>>]]
      BY <2>0, <2>2
    <3> QED BY <3>2, <3>3
  <2> QED BY <2>1, <2>2
<1>3. P = Nat
  <2> HIDE DEF P
  <2>1. P \in SUBSET Nat
    BY DEF P
  <2> QED BY <1>2, <2>1, Induction
<1>4. m \in P
  <2> HIDE DEF P
  <2> QED BY <1>3
<1> QED BY <1>4

\* Two sequences and an element.
LEMMA ConcatAppend ==
  ASSUME NEW X, NEW s \in Seq(X), NEW t \in Seq(X), NEW x \in X
  PROVE  s \o Append(t, x) = Append(s \o t, x)
OBVIOUS

\* Seen from the top: the sides of a place in the left part, which is full, and
\* of one in the right part.
LEMMA SidesSplit ==
  ASSUME NEW sides \in [Nat \X Nat -> Seq(Side)], IsSides(sides),
         NEW n \in Nat, n >= 2, NEW a \in 0 .. n - 1
  PROVE  LET k == largestPowerOfTwoBelow(n)
         IN  sides[<<a, n - 1>>] =
               IF a < k THEN Append(sides[<<a, k - 1>>], "right")
               ELSE Append(sides[<<a - k, n - 1 - k>>], "left")
<1>1. ASSUME NEW x \in Nat, NEW y \in Nat
      PROVE  /\ sides[<<x, y>>]
                  = First(<<x, y>>) \o sides[<<x \div 2, y \div 2>>]
             /\ sides[<<x \div 2, y \div 2>>] \in Seq(Side)
             /\ First(<<x, y>>) \in Seq(Side)
  <2>1. <<x, y>> \in Nat \X Nat /\ <<x \div 2, y \div 2>> \in Nat \X Nat
    OBVIOUS
  <2>2. /\ sides[<<x \div 2, y \div 2>>] \in Seq(Side)
        /\ First(<<x, y>>) \in Seq(Side)
    BY <2>1, AbovePair
  <2>3. CASE x = 0 /\ y = 0
    <3>1. sides[<<x, y>>] = <<>> /\ x \div 2 = 0 /\ y \div 2 = 0
      BY <2>1, <2>3 DEF IsSides
    <3>2. First(<<x, y>>) = <<>>
      BY <2>3 DEF First
    <3> QED BY <2>2, <2>3, <3>1, <3>2
  <2>4. CASE ~(x = 0 /\ y = 0)
    BY <2>1, <2>2, <2>4 DEF IsSides, Above
  <2> QED BY <2>3, <2>4
<1>2. sides[<<0, 0>>] = <<>>
  BY DEF IsSides
<1> DEFINE Right(i, j, k) == sides[<<i, j - 1>>]
                               = Append(sides[<<i, k - 1>>], "right")
           Left(i, j, k) == sides[<<i, j - 1>>]
                              = Append(sides[<<i - k, j - 1 - k>>], "left")
           P == {j \in Nat : j >= 2 => \A i \in 0 .. j - 1 :
                   LET k == largestPowerOfTwoBelow(j)
                   IN  IF i < k THEN Right(i, j, k) ELSE Left(i, j, k)}
<1>3. ASSUME NEW j \in Nat, \A c \in 0 .. j - 1 : c \in P
      PROVE  j \in P
  <2> DEFINE k == largestPowerOfTwoBelow(j)
  <2> SUFFICES ASSUME j >= 2, NEW i \in 0 .. j - 1
               PROVE  IF i < k THEN Right(i, j, k) ELSE Left(i, j, k)
    OBVIOUS
  <2>1. k \in Nat \ {0} /\ k < j /\ j <= 2 * k
    BY LargestBelow
  <2>2. CASE j = 2
    <3>1. k = 1
      BY <2>2, LargestBelowTwo
    <3>2. First(<<0, 1>>) = <<"right">> /\ First(<<1, 1>>) = <<"left">>
      BY DEF First
    <3>3. /\ sides[<<0, 1>>] = First(<<0, 1>>) \o sides[<<0, 0>>]
          /\ sides[<<1, 1>>] = First(<<1, 1>>) \o sides[<<0, 0>>]
      <4>1. 0 \div 2 = 0 /\ 1 \div 2 = 0 /\ 0 \in Nat /\ 1 \in Nat
        OBVIOUS
      <4>2. sides[<<0, 1>>] = First(<<0, 1>>) \o sides[<<0 \div 2, 1 \div 2>>]
        BY <1>1, <4>1
      <4>3. sides[<<1, 1>>] = First(<<1, 1>>) \o sides[<<1 \div 2, 1 \div 2>>]
        BY <1>1, <4>1
      <4> QED BY <4>1, <4>2, <4>3
    <3>4. sides[<<0, 1>>] = Append(<<>>, "right")
          /\ sides[<<1, 1>>] = Append(<<>>, "left")
      BY <1>2, <3>2, <3>3
    <3>5. i = 0 \/ i = 1
      BY <2>2
    <3> HIDE DEF k
    <3>6. CASE i = 0
      BY <1>2, <2>2, <3>1, <3>4, <3>6
    <3>7. CASE i = 1
      <4>1. j - 1 = 1 /\ i - k = 0 /\ j - 1 - k = 0 /\ ~(i < k)
        BY <2>2, <3>1, <3>7
      <4> QED BY <1>2, <3>4, <3>7, <4>1
    <3> QED BY <3>5, <3>6, <3>7
  <2>3. CASE j # 2
    <3> DEFINE d == (j + 1) \div 2
               l == largestPowerOfTwoBelow(d)
    <3>1. d \in Nat /\ d >= 2 /\ d < j /\ j \in {2 * d - 1, 2 * d}
      BY <2>3
    <3>2. k = 2 * l
      BY <3>1, LargestDoubles
    <3>3. l \in Nat \ {0} /\ l < d
      BY <3>1, LargestBelow
    <3> HIDE DEF k, l, d
    <3>4. (j - 1) \div 2 = d - 1 /\ (k - 1) \div 2 = l - 1
      BY <3>1, <3>2, <3>3
    <3>5. i \div 2 \in 0 .. d - 1
      BY <3>1
    <3>6. d \in 0 .. j - 1
      BY <3>1
    <3>7. IF i \div 2 < l THEN Right(i \div 2, d, l) ELSE Left(i \div 2, d, l)
      BY <1>3, <3>1, <3>5, <3>6 DEF l
    <3>8. CASE i < k
      <4>1. i \div 2 < l
        BY <3>2, <3>3, <3>8
      <4>2. First(<<i, j - 1>>) = First(<<i, k - 1>>)
        <5>1. i < j - 1 \/ i % 2 = 1
          BY <2>1, <3>2, <3>3, <3>8
        <5>2. i < k - 1 \/ i % 2 = 1
          BY <3>2, <3>3, <3>8
        <5> QED BY <5>1, <5>2 DEF First
      <4>3. /\ sides[<<i, j - 1>>]
                 = First(<<i, j - 1>>) \o sides[<<i \div 2, d - 1>>]
            /\ sides[<<i, k - 1>>]
                 = First(<<i, k - 1>>) \o sides[<<i \div 2, l - 1>>]
            /\ First(<<i, k - 1>>) \in Seq(Side)
            /\ sides[<<i \div 2, l - 1>>] \in Seq(Side)
        <5>1. i \in Nat /\ j - 1 \in Nat /\ k - 1 \in Nat
          BY <2>1
        <5> QED BY <1>1, <3>4, <5>1
      <4>4. sides[<<i \div 2, d - 1>>]
              = Append(sides[<<i \div 2, l - 1>>], "right")
        BY <3>7, <4>1
      <4>5. "right" \in Side
        BY DEF Side
      <4>6. Right(i, j, k)
        <5> DEFINE s == First(<<i, j - 1>>)
                   t == sides[<<i \div 2, l - 1>>]
        <5>1. s \in Seq(Side) /\ t \in Seq(Side)
          BY <4>2, <4>3
        <5>2. sides[<<i, j - 1>>] = s \o Append(t, "right")
          BY <4>3, <4>4
        <5>3. sides[<<i, k - 1>>] = s \o t
          BY <4>2, <4>3
        <5> HIDE DEF s, t
        <5>4. s \o Append(t, "right") = Append(s \o t, "right")
          BY <4>5, <5>1, ConcatAppend
        <5> QED BY <5>2, <5>3, <5>4
      <4> QED BY <3>8, <4>6
    <3>9. CASE ~(i < k)
      <4>1. ~(i \div 2 < l) /\ i - k \in Nat /\ j - 1 - k \in Nat
            /\ (i - k) \div 2 = i \div 2 - l
            /\ (j - 1 - k) \div 2 = d - 1 - l
        BY <2>1, <3>1, <3>2, <3>3, <3>9
      <4>2. First(<<i, j - 1>>) = First(<<i - k, j - 1 - k>>)
        <5>1. i % 2 = 1 <=> (i - k) % 2 = 1
          BY <3>2, <3>3, <3>9
        <5>2. i < j - 1 <=> i - k < j - 1 - k
          BY <2>1
        <5> QED BY <5>1, <5>2 DEF First
      <4>3. /\ sides[<<i, j - 1>>]
                 = First(<<i, j - 1>>) \o sides[<<i \div 2, d - 1>>]
            /\ sides[<<i - k, j - 1 - k>>] = First(<<i - k, j - 1 - k>>)
                 \o sides[<<i \div 2 - l, d - 1 - l>>]
            /\ First(<<i - k, j - 1 - k>>) \in Seq(Side)
            /\ sides[<<i \div 2 - l, d - 1 - l>>] \in Seq(Side)
        <5>1. i \in Nat /\ j - 1 \in Nat
          OBVIOUS
        <5>2. sides[<<i, j - 1>>]
                = First(<<i, j - 1>>) \o sides[<<i \div 2, (j - 1) \div 2>>]
          BY <1>1, <5>1
        <5> DEFINE x == i - k
                   y == j - 1 - k
        <5>3. x \in Nat /\ y \in Nat /\ x \div 2 = i \div 2 - l
              /\ y \div 2 = d - 1 - l
          BY <4>1
        <5> HIDE DEF x, y
        <5>4. /\ sides[<<x, y>>]
                   = First(<<x, y>>) \o sides[<<x \div 2, y \div 2>>]
              /\ sides[<<x \div 2, y \div 2>>] \in Seq(Side)
              /\ First(<<x, y>>) \in Seq(Side)
          BY <1>1, <5>3
        <5> QED BY <3>4, <5>2, <5>3, <5>4 DEF x, y
      <4>4. sides[<<i \div 2, d - 1>>]
              = Append(sides[<<i \div 2 - l, d - 1 - l>>], "left")
        BY <3>7, <4>1
      <4>5. "left" \in Side
        BY DEF Side
      <4>6. Left(i, j, k)
        <5> DEFINE s == First(<<i, j - 1>>)
                   t == sides[<<i \div 2 - l, d - 1 - l>>]
        <5>1. s \in Seq(Side) /\ t \in Seq(Side)
          BY <4>2, <4>3
        <5>2. sides[<<i, j - 1>>] = s \o Append(t, "left")
          BY <4>3, <4>4
        <5>3. sides[<<i - k, j - 1 - k>>] = s \o t
          BY <4>2, <4>3
        <5> HIDE DEF s, t
        <5>4. s \o Append(t, "left") = Append(s \o t, "left")
          BY <4>5, <5>1, ConcatAppend
        <5> QED BY <5>2, <5>3, <5>4
      <4> QED BY <3>9, <4>6
    <3> QED BY <3>8, <3>9
  <2> QED BY <2>2, <2>3
<1>4. P = Nat
  <2> HIDE DEF P
  <2>1. P \in SUBSET Nat
    BY DEF P
  <2> QED BY <1>3, <2>1, Induction
<1>5. n \in P
  <2> HIDE DEF P
  <2> QED BY <1>4
<1> QED BY <1>5

\* The way of the verifier, seen from the top.
LEMMA ClimbSplit ==
  ASSUME NEW n \in Nat, n >= 2
  PROVE  LET k == largestPowerOfTwoBelow(n)
         IN  /\ Climb(k, k) = [atEdge |-> TRUE, sides |-> <<>>]
             /\ \A m \in 1 .. n - 1 :
                  Climb(m, n) =
                    IF m <= k
                    THEN [atEdge |-> Climb(m, k).atEdge,
                          sides |-> Append(Climb(m, k).sides, "right")]
                    ELSE [atEdge |-> FALSE,
                          sides |-> Append(Climb(m - k, n - k).sides, "left")]
<1>1. PICK sides \in [Nat \X Nat -> Seq(Side)] :
        /\ IsSides(sides)
        /\ \A i, j \in Nat \ {0} :
             Climb(i, j) = IF i % 2 = 0 THEN Climb(i \div 2, (j + 1) \div 2)
                           ELSE [atEdge |-> i = 1,
                                 sides |-> sides[<<i - 1, j - 1>>]]
  BY ClimbFacts
<1>2. ASSUME NEW i \in Nat \ {0}, NEW j \in Nat \ {0}, i % 2 = 0
      PROVE  Climb(i, j) = Climb(i \div 2, (j + 1) \div 2)
  BY <1>1, <1>2
<1>3. ASSUME NEW i \in Nat \ {0}, NEW j \in Nat \ {0}, i % 2 # 0
      PROVE  Climb(i, j) = [atEdge |-> i = 1, sides |-> sides[<<i - 1, j - 1>>]]
  BY <1>1, <1>3
<1> DEFINE Full(k) == Climb(k, k) = [atEdge |-> TRUE, sides |-> <<>>]
           Split(i, j, k) ==
             Climb(i, j) =
               IF i <= k
               THEN [atEdge |-> Climb(i, k).atEdge,
                     sides |-> Append(Climb(i, k).sides, "right")]
               ELSE [atEdge |-> FALSE,
                     sides |-> Append(Climb(i - k, j - k).sides, "left")]
           P == {j \in Nat : j >= 2 =>
                   LET k == largestPowerOfTwoBelow(j)
                   IN  Full(k) /\ \A i \in 1 .. j - 1 : Split(i, j, k)}
<1>4. ASSUME NEW j \in Nat, \A c \in 0 .. j - 1 : c \in P
      PROVE  j \in P
  <2> DEFINE k == largestPowerOfTwoBelow(j)
             d == (j + 1) \div 2
             l == largestPowerOfTwoBelow(d)
  <2> SUFFICES ASSUME j >= 2
               PROVE  Full(k) /\ \A i \in 1 .. j - 1 : Split(i, j, k)
    OBVIOUS
  <2>1. k \in Nat \ {0} /\ k < j /\ j <= 2 * k
    BY LargestBelow
  <2>2. CASE j = 2
    <3>1. k = 1
      BY <2>2, LargestBelowTwo
    <3>2. sides[<<0, 0>>] = <<>>
      BY <1>1 DEF IsSides
    <3>3. Climb(1, 1) = [atEdge |-> TRUE, sides |-> <<>>]
      <4>1. 1 \in Nat \ {0} /\ 1 % 2 # 0
        OBVIOUS
      <4>2. Climb(1, 1) = [atEdge |-> 1 = 1, sides |-> sides[<<1 - 1, 1 - 1>>]]
        BY <1>3, <4>1
      <4>3. (1 = 1) = TRUE /\ sides[<<1 - 1, 1 - 1>>] = <<>>
        BY <3>2
      <4> QED BY <4>2, <4>3
    <3>4. Climb(1, 2) = [atEdge |-> TRUE, sides |-> sides[<<0, 1>>]]
      <4>1. 1 \in Nat \ {0} /\ 2 \in Nat \ {0} /\ 1 % 2 # 0
        OBVIOUS
      <4>2. Climb(1, 2) = [atEdge |-> 1 = 1, sides |-> sides[<<1 - 1, 2 - 1>>]]
        BY <1>3, <4>1
      <4>3. (1 = 1) = TRUE /\ <<1 - 1, 2 - 1>> = <<0, 1>>
        OBVIOUS
      <4> QED BY <4>2, <4>3
    <3>5. sides[<<0, 1>>] = Append(<<>>, "right")
      <4> DEFINE b == 2
                 p == largestPowerOfTwoBelow(b)
      <4>1. 0 \in 0 .. b - 1 /\ b \in Nat /\ b >= 2
        OBVIOUS
      <4>2. p = 1 /\ b - 1 = 1
        BY LargestBelowTwo
      <4> HIDE DEF b
      <4>3. sides[<<0, b - 1>>] =
              IF 0 < p THEN Append(sides[<<0, p - 1>>], "right")
              ELSE Append(sides[<<0 - p, b - 1 - p>>], "left")
        BY <1>1, <4>1, SidesSplit
      <4> HIDE DEF p
      <4>4. 0 < p /\ p - 1 = 0
        BY <4>2
      <4> QED BY <3>2, <4>2, <4>3, <4>4
    <3>6. Split(1, 2, 1)
      <4>1. Climb(1, 1).atEdge = TRUE /\ Climb(1, 1).sides = <<>> /\ 1 <= 1
        BY <3>3
      <4> QED BY <3>4, <3>5, <4>1
    <3> HIDE DEF k, Split
    <3>7. \A i \in 1 .. j - 1 : i = 1
      BY <2>2
    <3> QED BY <2>2, <3>1, <3>3, <3>6, <3>7
  <2>3. CASE j # 2
    <3>1. d \in Nat /\ d >= 2 /\ d < j /\ j \in {2 * d - 1, 2 * d}
      BY <2>3
    <3>2. k = 2 * l
      BY <3>1, LargestDoubles
    <3>3. l \in Nat \ {0} /\ l < d
      BY <3>1, LargestBelow
    <3>4. d \in 0 .. j - 1
      BY <3>1
    <3>5. Full(l) /\ \A i \in 1 .. d - 1 : Split(i, d, l)
      <4> HIDE DEF Full, Split, d
      <4> QED BY <1>4, <3>1, <3>4
    <3> HIDE DEF k, l, d
    <3>6. k % 2 = 0 /\ k \div 2 = l /\ (k + 1) \div 2 = l
      BY <3>2, <3>3
    <3>7. Full(k)
      <4>1. Climb(k, k) = Climb(l, l)
        BY <1>1, <2>1, <3>6
      <4> QED BY <3>5, <4>1
    <3>8. ASSUME NEW i \in 1 .. j - 1 PROVE Split(i, j, k)
      <4>0. i \in Nat \ {0} /\ j \in Nat \ {0}
        OBVIOUS
      <4>1. CASE i % 2 = 0
        <5> DEFINE h == i \div 2
        <5>1. h \in 1 .. d - 1 /\ (j + 1) \div 2 = d /\ (i <= k <=> h <= l)
          BY <3>1, <3>2, <3>3, <4>1
        <5>2. Split(h, d, l)
          BY <3>5, <5>1
        <5>3. Climb(i, j) = Climb(h, d)
          BY <1>1, <4>0, <4>1, <5>1
        <5>4. Climb(i, k) = Climb(h, l)
          BY <1>2, <2>1, <3>6, <4>0, <4>1
        <5>5. ASSUME ~(i <= k) PROVE Climb(i - k, j - k) = Climb(h - l, d - l)
          <6>1. /\ i - k \in Nat \ {0} /\ j - k \in Nat \ {0}
                /\ (i - k) % 2 = 0 /\ (i - k) \div 2 = h - l
                /\ (j - k + 1) \div 2 = d - l
            BY <2>1, <3>2, <3>3, <4>1, <5>1, <5>5
          <6> QED BY <1>2, <6>1
        <5> HIDE DEF h
        <5> QED BY <5>1, <5>2, <5>3, <5>4, <5>5
      <4>2. CASE i % 2 # 0
        <5> DEFINE a == i - 1
        <5>1. a \in 0 .. j - 1 /\ (a < k <=> i <= k)
          BY <2>1
        <5>2. sides[<<a, j - 1>>] =
                IF a < k THEN Append(sides[<<a, k - 1>>], "right")
                ELSE Append(sides[<<a - k, j - 1 - k>>], "left")
          BY <1>1, <5>1, SidesSplit DEF k
        <5>3. Climb(i, j) = [atEdge |-> i = 1, sides |-> sides[<<a, j - 1>>]]
          BY <1>1, <4>0, <4>2
        <5>4. Climb(i, k) = [atEdge |-> i = 1, sides |-> sides[<<a, k - 1>>]]
          BY <1>1, <2>1, <4>0, <4>2
        <5>5. ASSUME ~(i <= k)
              PROVE  Climb(i - k, j - k)
                       = [atEdge |-> i - k = 1,
                          sides |-> sides[<<a - k, j - 1 - k>>]]
          <6>1. /\ i - k \in Nat \ {0} /\ j - k \in Nat \ {0}
                /\ (i - k) % 2 # 0 /\ i - k - 1 = a - k
                /\ j - k - 1 = j - 1 - k
            BY <2>1, <3>2, <3>3, <4>2, <5>5
          <6> QED BY <1>1, <6>1
        <5>6. ~(i <= k) => (i = 1 <=> FALSE)
          BY <2>1
        <5> HIDE DEF a
        <5> DEFINE edge == i = 1
                   X == sides[<<a, j - 1>>]
                   Y == sides[<<a, k - 1>>]
                   Z == sides[<<a - k, j - 1 - k>>]
        <5>7. CASE i <= k
          <6>1. X = Append(Y, "right")
            BY <5>1, <5>2, <5>7
          <6>2. Climb(i, k) = [atEdge |-> edge, sides |-> Y]
            BY <5>4
          <6>3. Climb(i, j) = [atEdge |-> edge, sides |-> X]
            BY <5>3
          <6> HIDE DEF edge, X, Y
          <6>4. Climb(i, k).atEdge = edge /\ Climb(i, k).sides = Y
            BY <6>2
          <6> QED BY <5>7, <6>1, <6>3, <6>4
        <5>8. CASE ~(i <= k)
          <6>1. X = Append(Z, "left")
            BY <5>1, <5>2, <5>8
          <6>2. Climb(i, j) = [atEdge |-> FALSE, sides |-> X]
            BY <5>3, <5>6, <5>8
          <6>3. Climb(i - k, j - k).sides = Z
            BY <5>5, <5>8
          <6> HIDE DEF X, Z
          <6> QED BY <5>8, <6>1, <6>2, <6>3
        <5> QED BY <5>7, <5>8
      <4> QED BY <4>1, <4>2
    <3> HIDE DEF Full, Split
    <3> QED BY <3>7, <3>8
  <2> QED BY <2>2, <2>3
<1>5. P = Nat
  <2> HIDE DEF P
  <2>1. P \in SUBSET Nat
    BY DEF P
  <2> QED BY <1>4, <2>1, Induction
<1>6. n \in P
  <2> HIDE DEF P
  <2> QED BY <1>5
<1> QED BY <1>6

\* A set that has all hashes of some leaves.
Holds(V, leaves) == Paired(V) /\ \A i \in Nat : leaves[i] \in V

\* Such a set has the hash of every slice.
LEMMA HashHeld ==
  ASSUME NEW V, NEW leaves, Holds(V, leaves),
         NEW lo \in Nat, NEW hi \in Nat, lo < hi
  PROVE  mth(leaves, lo, hi) \in V
<1> DEFINE P == {d \in Nat : \A a, b \in lo .. hi : a < b /\ b - a = d =>
                   mth(leaves, a, b) \in V}
<1>1. ASSUME NEW d \in Nat, \A c \in 0 .. d - 1 : c \in P
      PROVE  d \in P
  <2> SUFFICES ASSUME NEW a \in lo .. hi, NEW b \in lo .. hi, a < b, b - a = d
               PROVE  mth(leaves, a, b) \in V
    OBVIOUS
  <2>1. a \in Nat /\ b \in Nat
    OBVIOUS
  <2>2. CASE d = 1
    <3>1. mth(leaves, a, b) = leaves[b]
      BY <2>1, <2>2, HashOfSlice
    <3> QED BY <2>1, <3>1 DEF Holds
  <2>3. CASE d # 1
    <3> DEFINE k == largestPowerOfTwoBelow(b - a)
    <3>1. d \in Nat /\ d >= 2
      BY <2>3
    <3>2. k \in Nat \ {0} /\ k < d
      BY <3>1, LargestBelow
    <3>3. mth(leaves, a, b) = <<mth(leaves, a, a + k), mth(leaves, a + k, b)>>
      BY <2>1, <2>3, HashOfSlice
    <3> HIDE DEF k
    <3>4. /\ a + k \in lo .. hi /\ a < a + k /\ a + k < b
          /\ (a + k) - a \in 0 .. d - 1 /\ b - (a + k) \in 0 .. d - 1
      BY <3>2
    <3>5. mth(leaves, a, a + k) \in V
      BY <1>1, <3>4
    <3>6. mth(leaves, a + k, b) \in V
      BY <1>1, <3>4
    <3> QED BY <3>3, <3>5, <3>6 DEF Holds, Paired
  <2> QED BY <2>2, <2>3
<1>2. P = Nat
  <2> HIDE DEF P
  <2>1. P \in SUBSET Nat
    BY DEF P
  <2> QED BY <1>1, <2>1, Induction
<1>3. hi - lo \in P /\ lo \in lo .. hi /\ hi \in lo .. hi
  <2> HIDE DEF P
  <2> QED BY <1>2
<1> QED BY <1>3

\* What a part of the leaves is made of.
LEMMA PartFacts ==
  ASSUME NEW r \in Parts
  PROVE  /\ r[1] \in Nat /\ r[2] \in Nat /\ r[3] \in Nat /\ r[4] \in BOOLEAN
         /\ 0 < r[1] /\ r[1] <= r[3] - r[2]
         /\ r[3] - r[2] \in Nat /\ r[2] < r[3]
<1>1. /\ r[1] \in Nat /\ r[2] \in Nat /\ r[3] \in Nat /\ r[4] \in BOOLEAN
      /\ 0 < r[1] /\ r[1] <= r[3] - r[2]
  BY DEF Parts
<1> QED BY <1>1

\* The arguments of subProof are a part.
LEMMA PartOf ==
  ASSUME NEW m \in Nat, NEW lo \in Nat, NEW hi \in Nat, NEW b \in BOOLEAN,
         0 < m, m <= hi - lo
  PROVE  <<m, lo, hi, b>> \in Parts
BY DEF Parts

\* What subProof gives for a part of the leaves.
SubAt(leaves, sub, m, lo, hi, b) ==
  LET k == largestPowerOfTwoBelow(hi - lo)
  IN  sub[<<m, lo, hi, b>>] =
        IF m = hi - lo THEN IF b THEN <<>> ELSE <<mth(leaves, lo, hi)>>
        ELSE IF m <= k
        THEN Append(sub[<<m, lo, lo + k, b>>], mth(leaves, lo + k, hi))
        ELSE Append(sub[<<m - k, lo + k, hi, FALSE>>], mth(leaves, lo, lo + k))

IsSub(leaves, sub) ==
  \A m, lo, hi \in Nat : \A b \in BOOLEAN :
    0 < m /\ m <= hi - lo => SubAt(leaves, sub, m, lo, hi, b)

\* There is such a function, and it gives the proof.
LEMMA SubProof ==
  ASSUME NEW V, NEW leaves, Holds(V, leaves)
  PROVE  \E sub :
    /\ IsSub(leaves, sub)
    /\ \A m : consistencyProof(m, leaves) = sub[<<m, 0, Len(leaves), TRUE>>]
<1> DEFINE k(r) == largestPowerOfTwoBelow(r[3] - r[2])
           left(r) == <<r[1], r[2], r[2] + k(r), r[4]>>
           right(r) == <<r[1] - k(r), r[2] + k(r), r[3], FALSE>>
           Def(f, r) ==
             IF r[1] = r[3] - r[2]
             THEN IF r[4] THEN <<>> ELSE <<mth(leaves, r[2], r[3])>>
             ELSE IF r[1] <= k(r)
             THEN Append(f[left(r)], mth(leaves, r[2] + k(r), r[3]))
             ELSE Append(f[right(r)], mth(leaves, r[2], r[2] + k(r)))
           rank == [r \in Parts |-> r[3] - r[2]]
           step == [p \in [Parts -> Seq(V)] \X Parts |-> Def(p[1], p[2])]
           F == CHOOSE f : f = [r \in Parts |-> Def(f, r)]
<1>1. rank \in [Parts -> Nat] /\ Seq(V) # {} /\ <<>> \in Seq(V)
  <2>1. \A r \in Parts : r[3] - r[2] \in Nat
    BY PartFacts
  <2>2. rank \in [Parts -> Nat]
    BY <2>1
  <2>3. <<>> \in Seq(V)
    OBVIOUS
  <2> HIDE DEF rank
  <2> QED BY <2>2, <2>3
<1>2. ASSUME NEW r \in Parts, r[1] # r[3] - r[2]
      PROVE  /\ k(r) \in Nat \ {0} /\ k(r) < r[3] - r[2]
             /\ r[1] <= k(r) => left(r) \in Parts /\ rank[left(r)] < rank[r]
             /\ ~(r[1] <= k(r)) =>
                  right(r) \in Parts /\ rank[right(r)] < rank[r]
             /\ mth(leaves, r[2] + k(r), r[3]) \in V
             /\ mth(leaves, r[2], r[2] + k(r)) \in V
  <2>1. /\ r[1] \in Nat /\ r[2] \in Nat /\ r[3] \in Nat /\ r[4] \in BOOLEAN
        /\ 0 < r[1] /\ r[1] <= r[3] - r[2] /\ r[3] - r[2] \in Nat
    BY PartFacts
  <2>2. r[3] - r[2] >= 2
    BY <1>2, <2>1
  <2>3. k(r) \in Nat \ {0} /\ k(r) < r[3] - r[2]
    BY <2>1, <2>2, LargestBelow
  <2> HIDE DEF k
  <2>4. /\ r[2] + k(r) \in Nat /\ r[2] < r[2] + k(r) /\ r[2] + k(r) < r[3]
        /\ (r[2] + k(r)) - r[2] = k(r)
        /\ r[3] - (r[2] + k(r)) = (r[3] - r[2]) - k(r)
    BY <2>1, <2>3
  <2>5. ASSUME r[1] <= k(r) PROVE left(r) \in Parts /\ rank[left(r)] < rank[r]
    <3>1. left(r) \in Parts
      BY <2>1, <2>3, <2>4, <2>5, PartOf
    <3>2. rank[left(r)] = k(r)
      BY <2>4, <3>1
    <3> QED BY <2>3, <3>1, <3>2
  <2>6. ASSUME ~(r[1] <= k(r))
        PROVE  right(r) \in Parts /\ rank[right(r)] < rank[r]
    <3>1. right(r) \in Parts
      <4>1. r[1] - k(r) \in Nat /\ 0 < r[1] - k(r)
            /\ r[1] - k(r) <= r[3] - (r[2] + k(r))
        BY <2>1, <2>3, <2>4, <2>6
      <4> QED BY <2>1, <2>4, <4>1, PartOf
    <3>2. rank[right(r)] = (r[3] - r[2]) - k(r)
      BY <2>4, <3>1
    <3> QED BY <2>1, <2>3, <3>1, <3>2
  <2>7. /\ mth(leaves, r[2] + k(r), r[3]) \in V
        /\ mth(leaves, r[2], r[2] + k(r)) \in V
    BY <2>1, <2>4, HashHeld
  <2> QED BY <2>3, <2>5, <2>6, <2>7
<1>3. ASSUME NEW r \in Parts PROVE <<mth(leaves, r[2], r[3])>> \in Seq(V)
  <2>1. mth(leaves, r[2], r[3]) \in V
    BY PartFacts, HashHeld
  <2> QED BY <2>1
<1> HIDE DEF rank, left, right, k
<1>4. step \in [[Parts -> Seq(V)] \X Parts -> Seq(V)]
  <2> SUFFICES ASSUME NEW f \in [Parts -> Seq(V)], NEW r \in Parts
               PROVE  Def(f, r) \in Seq(V)
    OBVIOUS
  <2>1. CASE r[1] = r[3] - r[2]
    BY <1>1, <1>3, <2>1
  <2>2. CASE r[1] # r[3] - r[2] /\ r[1] <= k(r)
    <3>1. f[left(r)] \in Seq(V)
      BY <1>2, <2>2
    <3>2. Append(f[left(r)], mth(leaves, r[2] + k(r), r[3])) \in Seq(V)
      BY <1>2, <2>2, <3>1
    <3> QED BY <2>2, <3>2
  <2>3. CASE r[1] # r[3] - r[2] /\ ~(r[1] <= k(r))
    <3>1. f[right(r)] \in Seq(V)
      BY <1>2, <2>3
    <3>2. Append(f[right(r)], mth(leaves, r[2], r[2] + k(r))) \in Seq(V)
      BY <1>2, <2>3, <3>1
    <3> QED BY <2>3, <3>2
  <2> QED BY <2>1, <2>2, <2>3
<1>5. LooksDown(Parts, Seq(V), rank, step)
  <2> SUFFICES ASSUME NEW r \in Parts,
                      NEW f \in [Parts -> Seq(V)], NEW h \in [Parts -> Seq(V)],
                      \A q \in Parts : rank[q] < rank[r] => f[q] = h[q]
               PROVE  step[<<f, r>>] = step[<<h, r>>]
    BY DEF LooksDown
  <2>1. Def(f, r) = Def(h, r)
    BY <1>2
  <2> QED BY <2>1
<1>6. PICK g \in [Parts -> Seq(V)] : \A r \in Parts : g[r] = step[<<g, r>>]
  <2>1. IsStep(Parts, Seq(V), rank, step)
    BY <1>1, <1>4, <1>5 DEF IsStep
  <2> HIDE DEF step
  <2>2. Follows(Parts, Seq(V), step)
    BY <2>1, Recursion
  <2> QED BY <2>2 DEF Follows
<1>7. g = [r \in Parts |-> Def(g, r)]
  BY <1>6
<1>8. F = [r \in Parts |-> Def(F, r)]
  <2> HIDE DEF Def
  <2> QED BY <1>7
<1>9. \A m : consistencyProof(m, leaves) = F[<<m, 0, Len(leaves), TRUE>>]
  BY DEF consistencyProof, left, right, k
<1> HIDE DEF F
<1>10. ASSUME NEW m \in Nat, NEW lo \in Nat, NEW hi \in Nat, NEW b \in BOOLEAN,
              0 < m, m <= hi - lo
       PROVE  SubAt(leaves, F, m, lo, hi, b)
  <2> DEFINE r == <<m, lo, hi, b>>
             p == largestPowerOfTwoBelow(hi - lo)
  <2>1. r \in Parts
    BY <1>10, PartOf
  <2>2. r[1] = m /\ r[2] = lo /\ r[3] = hi /\ r[4] = b
    OBVIOUS
  <2>3. k(r) = p
    BY <2>2 DEF k
  <2> HIDE DEF r
  <2>4. /\ left(r) = <<m, lo, lo + p, b>>
        /\ right(r) = <<m - p, lo + p, hi, FALSE>>
    BY <2>2, <2>3 DEF left, right
  <2>5. F[r] = Def(F, r)
    <3> HIDE DEF Def
    <3> QED BY <1>8, <2>1
  <2> HIDE DEF p
  <2>6. F[r] = IF m = hi - lo
               THEN IF b THEN <<>> ELSE <<mth(leaves, lo, hi)>>
               ELSE IF m <= p
               THEN Append(F[<<m, lo, lo + p, b>>], mth(leaves, lo + p, hi))
               ELSE Append(F[<<m - p, lo + p, hi, FALSE>>],
                           mth(leaves, lo, lo + p))
    BY <2>2, <2>3, <2>4, <2>5
  <2> QED BY <2>6 DEF r, p, SubAt
<1> QED BY <1>9, <1>10, Zenon DEF IsSub

\* The recursion of the old root has a solution.
LEMMA OldRootDefined ==
  ASSUME NEW base, NEW used, NEW sides
  PROVE  \E fr :
    /\ \A i \in Nat : fr[i] = IF i = 0 THEN base
                              ELSE IF sides[i] = "left" THEN <<used[i], fr[i - 1]>>
                              ELSE fr[i - 1]
    /\ oldRoot(base, used, sides) = fr[Len(sides)]
<1> DEFINE Def(f, i) == IF i = 0 THEN base
                        ELSE IF sides[i] = "left" THEN ktCombine(used[i], f[i - 1])
                        ELSE f[i - 1]
           rank == [i \in Nat |-> i]
           F == CHOOSE f : f = [i \in Nat |-> Def(f, i)]
           L == {base} \cup {used[i] : i \in Nat}
<1>1. PICK V : L \subseteq V /\ \A a, b \in V : <<a, b>> \in V
  <2> HIDE DEF L
  <2> QED BY Universe
<1> DEFINE step == [p \in [Nat -> V] \X Nat |-> Def(p[1], p[2])]
<1>2. rank \in [Nat -> Nat] /\ base \in V
  BY <1>1
<1>3. step \in [[Nat -> V] \X Nat -> V]
  <2> SUFFICES ASSUME NEW f \in [Nat -> V], NEW i \in Nat PROVE Def(f, i) \in V
    OBVIOUS
  <2>1. used[i] \in V /\ (i # 0 => f[i - 1] \in V)
    BY <1>1
  <2> QED BY <1>1, <1>2, <2>1 DEF ktCombine
<1>4. LooksDown(Nat, V, rank, step)
  <2> SUFFICES ASSUME NEW i \in Nat, NEW f \in [Nat -> V], NEW h \in [Nat -> V],
                      \A q \in Nat : rank[q] < rank[i] => f[q] = h[q]
               PROVE  step[<<f, i>>] = step[<<h, i>>]
    BY DEF LooksDown
  <2>1. i # 0 => i - 1 \in Nat /\ rank[i - 1] < rank[i]
    OBVIOUS
  <2>2. Def(f, i) = Def(h, i)
    BY <2>1
  <2> QED BY <2>2
<1> HIDE DEF rank
<1>5. PICK g \in [Nat -> V] : \A i \in Nat : g[i] = step[<<g, i>>]
  <2>1. IsStep(Nat, V, rank, step)
    BY <1>2, <1>3, <1>4 DEF IsStep
  <2> HIDE DEF step
  <2>2. Follows(Nat, V, step)
    BY <2>1, Recursion
  <2> QED BY <2>2 DEF Follows
<1>6. g = [i \in Nat |-> Def(g, i)]
  BY <1>5
<1>7. F = [i \in Nat |-> Def(F, i)]
  <2> HIDE DEF Def
  <2> QED BY <1>6
<1>8. oldRoot(base, used, sides) = F[Len(sides)]
  BY DEF oldRoot
<1> HIDE DEF F
<1> QED BY <1>7, <1>8 DEF ktCombine

\* The old root takes one more hash of the proof, if it is on the left.
LEMMA OldRootFacts ==
  ASSUME NEW base, NEW V, NEW used \in Seq(V), NEW sides \in Seq(Side),
         Len(used) = Len(sides), NEW h \in V, NEW side \in Side
  PROVE  oldRoot(base, Append(used, h), Append(sides, side)) =
           IF side = "left" THEN <<h, oldRoot(base, used, sides)>>
           ELSE oldRoot(base, used, sides)
<1> DEFINE n == Len(used)
           used2 == Append(used, h)
           sides2 == Append(sides, side)
<1>3. /\ n \in Nat /\ Len(sides) = n /\ Len(sides2) = n + 1
      /\ used2[n + 1] = h /\ sides2[n + 1] = side
      /\ \A i \in 1 .. n : used2[i] = used[i] /\ sides2[i] = sides[i]
  OBVIOUS
<1> HIDE DEF n, used2, sides2
<1>1. PICK f : /\ \A i \in Nat :
                     f[i] = IF i = 0 THEN base
                            ELSE IF sides[i] = "left" THEN <<used[i], f[i - 1]>>
                            ELSE f[i - 1]
               /\ oldRoot(base, used, sides) = f[Len(sides)]
  BY OldRootDefined
<1>2. PICK g : /\ \A i \in Nat :
                     g[i] = IF i = 0 THEN base
                            ELSE IF sides2[i] = "left" THEN <<used2[i], g[i - 1]>>
                            ELSE g[i - 1]
               /\ oldRoot(base, used2, sides2) = g[Len(sides2)]
  BY OldRootDefined
<1> DEFINE P == {i \in Nat : i <= n => f[i] = g[i]}
<1>4. ASSUME NEW i \in Nat, \A c \in 0 .. i - 1 : c \in P
      PROVE  i \in P
  <2> SUFFICES ASSUME i <= n PROVE f[i] = g[i]
    OBVIOUS
  <2>1. CASE i = 0
    BY <1>1, <1>2, <2>1
  <2>2. CASE i # 0
    <3>1. i \in 1 .. n /\ i - 1 \in 0 .. i - 1 /\ i - 1 <= n
      BY <1>3, <2>2
    <3>2. f[i - 1] = g[i - 1]
      BY <1>4, <3>1
    <3>3. used2[i] = used[i] /\ sides2[i] = sides[i]
      BY <1>3, <3>1
    <3>4. f[i] = IF sides[i] = "left" THEN <<used[i], f[i - 1]>> ELSE f[i - 1]
      BY <1>1, <2>2
    <3>5. g[i] = IF sides2[i] = "left" THEN <<used2[i], g[i - 1]>> ELSE g[i - 1]
      BY <1>2, <2>2
    <3> QED BY <3>2, <3>3, <3>4, <3>5
  <2> QED BY <2>1, <2>2
<1>5. P = Nat
  <2> HIDE DEF P
  <2>1. P \in SUBSET Nat
    BY DEF P
  <2> QED BY <1>4, <2>1, Induction
<1>6. f[n] = g[n]
  BY <1>3, <1>5
<1>7. n + 1 \in Nat /\ n + 1 # 0 /\ (n + 1) - 1 = n
  BY <1>3
<1>8. g[n + 1] = IF sides2[n + 1] = "left" THEN <<used2[n + 1], g[n]>>
                 ELSE g[n]
  BY <1>2, <1>7
<1>9. oldRoot(base, used2, sides2) =
        IF side = "left" THEN <<h, oldRoot(base, used, sides)>>
        ELSE oldRoot(base, used, sides)
  BY <1>1, <1>2, <1>3, <1>6, <1>8
<1> QED BY <1>9 DEF used2, sides2

\* The old root of an empty way is where it starts.
LEMMA OldRootEmpty ==
  ASSUME NEW base, NEW used
  PROVE  oldRoot(base, used, <<>>) = base
<1>1. PICK f : /\ f[0] = base
               /\ oldRoot(base, used, <<>>) = f[Len(<<>>)]
  <2>1. PICK f : /\ \A i \in Nat :
                       f[i] = IF i = 0 THEN base
                              ELSE IF <<>>[i] = "left" THEN <<used[i], f[i - 1]>>
                              ELSE f[i - 1]
                 /\ oldRoot(base, used, <<>>) = f[Len(<<>>)]
    BY OldRootDefined
  <2> QED BY <2>1
<1> QED BY <1>1

\* The recursion of the new root has a solution.
LEMMA NewRootDefined ==
  ASSUME NEW base, NEW used, NEW sides
  PROVE  \E fr :
    /\ \A i \in Nat : fr[i] = IF i = 0 THEN base
                              ELSE IF sides[i] = "left" THEN <<used[i], fr[i - 1]>>
                              ELSE <<fr[i - 1], used[i]>>
    /\ newRoot(base, used, sides) = fr[Len(sides)]
<1> DEFINE Def(f, i) == IF i = 0 THEN base
                        ELSE IF sides[i] = "left" THEN ktCombine(used[i], f[i - 1])
                        ELSE ktCombine(f[i - 1], used[i])
           rank == [i \in Nat |-> i]
           F == CHOOSE f : f = [i \in Nat |-> Def(f, i)]
           L == {base} \cup {used[i] : i \in Nat}
<1>1. PICK V : L \subseteq V /\ \A a, b \in V : <<a, b>> \in V
  <2> HIDE DEF L
  <2> QED BY Universe
<1> DEFINE step == [p \in [Nat -> V] \X Nat |-> Def(p[1], p[2])]
<1>2. rank \in [Nat -> Nat] /\ base \in V
  BY <1>1
<1>3. step \in [[Nat -> V] \X Nat -> V]
  <2> SUFFICES ASSUME NEW f \in [Nat -> V], NEW i \in Nat PROVE Def(f, i) \in V
    OBVIOUS
  <2>1. used[i] \in V /\ (i # 0 => f[i - 1] \in V)
    BY <1>1
  <2> QED BY <1>1, <1>2, <2>1 DEF ktCombine
<1>4. LooksDown(Nat, V, rank, step)
  <2> SUFFICES ASSUME NEW i \in Nat, NEW f \in [Nat -> V], NEW h \in [Nat -> V],
                      \A q \in Nat : rank[q] < rank[i] => f[q] = h[q]
               PROVE  step[<<f, i>>] = step[<<h, i>>]
    BY DEF LooksDown
  <2>1. i # 0 => i - 1 \in Nat /\ rank[i - 1] < rank[i]
    OBVIOUS
  <2>2. Def(f, i) = Def(h, i)
    BY <2>1
  <2> QED BY <2>2
<1> HIDE DEF rank
<1>5. PICK g \in [Nat -> V] : \A i \in Nat : g[i] = step[<<g, i>>]
  <2>1. IsStep(Nat, V, rank, step)
    BY <1>2, <1>3, <1>4 DEF IsStep
  <2> HIDE DEF step
  <2>2. Follows(Nat, V, step)
    BY <2>1, Recursion
  <2> QED BY <2>2 DEF Follows
<1>6. g = [i \in Nat |-> Def(g, i)]
  BY <1>5
<1>7. F = [i \in Nat |-> Def(F, i)]
  <2> HIDE DEF Def
  <2> QED BY <1>6
<1>8. newRoot(base, used, sides) = F[Len(sides)]
  BY DEF newRoot
<1> HIDE DEF F
<1> QED BY <1>7, <1>8 DEF ktCombine

\* The new root takes every hash of the proof.
LEMMA NewRootFacts ==
  ASSUME NEW base, NEW V, NEW used \in Seq(V), NEW sides \in Seq(Side),
         Len(used) = Len(sides), NEW h \in V, NEW side \in Side
  PROVE  newRoot(base, Append(used, h), Append(sides, side)) =
           IF side = "left" THEN <<h, newRoot(base, used, sides)>>
           ELSE <<newRoot(base, used, sides), h>>
<1> DEFINE n == Len(used)
           used2 == Append(used, h)
           sides2 == Append(sides, side)
<1>3. /\ n \in Nat /\ Len(sides) = n /\ Len(sides2) = n + 1
      /\ used2[n + 1] = h /\ sides2[n + 1] = side
      /\ \A i \in 1 .. n : used2[i] = used[i] /\ sides2[i] = sides[i]
  OBVIOUS
<1> HIDE DEF n, used2, sides2
<1>1. PICK f : /\ \A i \in Nat :
                     f[i] = IF i = 0 THEN base
                            ELSE IF sides[i] = "left" THEN <<used[i], f[i - 1]>>
                            ELSE <<f[i - 1], used[i]>>
               /\ newRoot(base, used, sides) = f[Len(sides)]
  BY NewRootDefined
<1>2. PICK g : /\ \A i \in Nat :
                     g[i] = IF i = 0 THEN base
                            ELSE IF sides2[i] = "left" THEN <<used2[i], g[i - 1]>>
                            ELSE <<g[i - 1], used2[i]>>
               /\ newRoot(base, used2, sides2) = g[Len(sides2)]
  BY NewRootDefined
<1> DEFINE P == {i \in Nat : i <= n => f[i] = g[i]}
<1>4. ASSUME NEW i \in Nat, \A c \in 0 .. i - 1 : c \in P
      PROVE  i \in P
  <2> SUFFICES ASSUME i <= n PROVE f[i] = g[i]
    OBVIOUS
  <2>1. CASE i = 0
    BY <1>1, <1>2, <2>1
  <2>2. CASE i # 0
    <3>1. i \in 1 .. n /\ i - 1 \in 0 .. i - 1 /\ i - 1 <= n
      BY <1>3, <2>2
    <3>2. f[i - 1] = g[i - 1]
      BY <1>4, <3>1
    <3>3. used2[i] = used[i] /\ sides2[i] = sides[i]
      BY <1>3, <3>1
    <3>4. f[i] = IF sides[i] = "left" THEN <<used[i], f[i - 1]>>
                 ELSE <<f[i - 1], used[i]>>
      BY <1>1, <2>2
    <3>5. g[i] = IF sides2[i] = "left" THEN <<used2[i], g[i - 1]>>
                 ELSE <<g[i - 1], used2[i]>>
      BY <1>2, <2>2
    <3> QED BY <3>2, <3>3, <3>4, <3>5
  <2> QED BY <2>1, <2>2
<1>5. P = Nat
  <2> HIDE DEF P
  <2>1. P \in SUBSET Nat
    BY DEF P
  <2> QED BY <1>4, <2>1, Induction
<1>6. f[n] = g[n]
  BY <1>3, <1>5
<1>7. n + 1 \in Nat /\ n + 1 # 0 /\ (n + 1) - 1 = n
  BY <1>3
<1>8. g[n + 1] = IF sides2[n + 1] = "left" THEN <<used2[n + 1], g[n]>>
                 ELSE <<g[n], used2[n + 1]>>
  BY <1>2, <1>7
<1>9. newRoot(base, used2, sides2) =
        IF side = "left" THEN <<h, newRoot(base, used, sides)>>
        ELSE <<newRoot(base, used, sides), h>>
  BY <1>1, <1>2, <1>3, <1>6, <1>8
<1> QED BY <1>9 DEF used2, sides2

\* The new root of an empty way is where it starts.
LEMMA NewRootEmpty ==
  ASSUME NEW base, NEW used
  PROVE  newRoot(base, used, <<>>) = base
<1>1. PICK f : /\ f[0] = base
               /\ newRoot(base, used, <<>>) = f[Len(<<>>)]
  <2>1. PICK f : /\ \A i \in Nat :
                       f[i] = IF i = 0 THEN base
                              ELSE IF <<>>[i] = "left" THEN <<used[i], f[i - 1]>>
                              ELSE <<f[i - 1], used[i]>>
                 /\ newRoot(base, used, <<>>) = f[Len(<<>>)]
    BY NewRootDefined
  <2> QED BY <2>1
<1> QED BY <1>1

\* What a verifier makes of a part of the leaves: from the right root, and the
\* hashes that are used, the roots of the first m leaves and of them all.
Leads(V, leaves, sub, m, lo, hi, base, used) ==
  LET way == Climb(m, hi - lo)
  IN  /\ base \in V /\ used \in Seq(V)
      /\ sub[<<m, lo, hi, FALSE>>] = <<base>> \o used
      /\ sub[<<m, lo, hi, TRUE>>] =
           IF way.atEdge THEN used ELSE <<base>> \o used
      /\ way.atEdge => base = mth(leaves, lo, lo + m)
      /\ Len(used) = Len(way.sides)
      /\ oldRoot(base, used, way.sides) = mth(leaves, lo, lo + m)
      /\ newRoot(base, used, way.sides) = mth(leaves, lo, hi)

\* The hash of two leaves or more is that of two parts.
LEMMA HashSplit ==
  ASSUME NEW leaves, NEW lo \in Nat, NEW hi \in Nat, hi - lo >= 2,
         NEW k, k = largestPowerOfTwoBelow(hi - lo)
  PROVE  mth(leaves, lo, hi) =
           <<mth(leaves, lo, lo + k), mth(leaves, lo + k, hi)>>
<1>1. lo < hi /\ hi - lo # 1
  OBVIOUS
<1> QED BY <1>1, HashOfSlice

\* The small tree is all of the leaves.
LEMMA LeadsWhole ==
  ASSUME NEW V, NEW leaves, Holds(V, leaves), NEW sub, IsSub(leaves, sub),
         NEW lo \in Nat, NEW hi \in Nat, lo < hi,
         Climb(hi - lo, hi - lo) = [atEdge |-> TRUE, sides |-> <<>>]
  PROVE  Leads(V, leaves, sub, hi - lo, lo, hi, mth(leaves, lo, hi), <<>>)
<1> DEFINE m == hi - lo
           root == mth(leaves, lo, hi)
<1>1. m \in Nat /\ 0 < m /\ m <= hi - lo /\ lo + m = hi /\ m = hi - lo
  OBVIOUS
<1>2. root \in V
  BY HashHeld
<1>3. mth(leaves, lo, lo + m) = root
  BY <1>1
<1> HIDE DEF root, m
<1>4. sub[<<m, lo, hi, FALSE>>] = <<root>> /\ sub[<<m, lo, hi, TRUE>>] = <<>>
  BY <1>1 DEF IsSub, SubAt, root
<1>5. Climb(m, hi - lo).atEdge = TRUE /\ Climb(m, hi - lo).sides = <<>>
  BY DEF m
<1>6. <<root>> \o <<>> = <<root>> /\ <<>> \in Seq(V) /\ Len(<<>>) = Len(<<>>)
  BY <1>2
<1>7. oldRoot(root, <<>>, <<>>) = root /\ newRoot(root, <<>>, <<>>) = root
  BY OldRootEmpty, NewRootEmpty
<1>8. Leads(V, leaves, sub, m, lo, hi, root, <<>>)
  BY <1>2, <1>3, <1>4, <1>5, <1>6, <1>7 DEF Leads, root
<1> QED BY <1>8 DEF root, m

\* One more hash, of the leaves on the right of the part that was split.
LEMMA LeadsLeft ==
  ASSUME NEW V, NEW leaves, Holds(V, leaves), NEW sub, IsSub(leaves, sub),
         NEW m \in Nat, NEW lo \in Nat, NEW hi \in Nat, 0 < m, m < hi - lo,
         NEW k, k = largestPowerOfTwoBelow(hi - lo), m <= k,
         NEW base, NEW used, Leads(V, leaves, sub, m, lo, lo + k, base, used)
  PROVE  Leads(V, leaves, sub, m, lo, hi, base,
               Append(used, mth(leaves, lo + k, hi)))
<1> DEFINE h == mth(leaves, lo + k, hi)
           way == Climb(m, hi - lo)
           short == Climb(m, k)
<1>1. hi - lo \in Nat /\ hi - lo >= 2 /\ m \in 1 .. (hi - lo) - 1
  OBVIOUS
<1>2. k \in Nat \ {0} /\ k < hi - lo /\ (lo + k) - lo = k
  BY <1>1, LargestBelow
<1>3. way = [atEdge |-> short.atEdge, sides |-> Append(short.sides, "right")]
  BY <1>1, ClimbSplit
<1>4. short.sides \in Seq(Side) /\ short.atEdge \in BOOLEAN
  BY <1>2, ClimbType
<1>5. h \in V
  BY <1>2, HashHeld
<1>6. ASSUME NEW b \in BOOLEAN
      PROVE  sub[<<m, lo, hi, b>>] = Append(sub[<<m, lo, lo + k, b>>], h)
  <2>1. 0 < m /\ m <= hi - lo /\ m # hi - lo
    OBVIOUS
  <2>2. SubAt(leaves, sub, m, lo, hi, b)
    BY <2>1, Zenon DEF IsSub
  <2> QED BY <2>1, <2>2, Zenon DEF SubAt
<1>7. mth(leaves, lo, hi) = <<mth(leaves, lo, lo + k), h>>
  BY <1>1, HashSplit
<1>0. h = mth(leaves, lo + k, hi) /\ way = Climb(m, hi - lo)
  OBVIOUS
<1>00. short = Climb(m, (lo + k) - lo)
  BY <1>2
<1> HIDE DEF h, way, short
<1>8. /\ base \in V /\ used \in Seq(V)
      /\ sub[<<m, lo, lo + k, FALSE>>] = <<base>> \o used
      /\ sub[<<m, lo, lo + k, TRUE>>] =
           IF short.atEdge THEN used ELSE <<base>> \o used
      /\ short.atEdge => base = mth(leaves, lo, lo + m)
      /\ Len(used) = Len(short.sides)
      /\ oldRoot(base, used, short.sides) = mth(leaves, lo, lo + m)
      /\ newRoot(base, used, short.sides) = mth(leaves, lo, lo + k)
  BY <1>00 DEF Leads
<1>9. /\ way.atEdge = short.atEdge /\ way.sides = Append(short.sides, "right")
      /\ "right" \in Side /\ "right" # "left"
  BY <1>3 DEF Side
<1>10. /\ Append(used, h) \in Seq(V) /\ <<base>> \in Seq(V)
       /\ <<base>> \o Append(used, h) = Append(<<base>> \o used, h)
  BY <1>5, <1>8, ConcatAppend
<1>11. Len(Append(used, h)) = Len(way.sides)
  BY <1>4, <1>5, <1>8, <1>9
<1>12. /\ oldRoot(base, Append(used, h), way.sides) = mth(leaves, lo, lo + m)
       /\ newRoot(base, Append(used, h), way.sides) = mth(leaves, lo, hi)
  BY <1>4, <1>5, <1>7, <1>8, <1>9, OldRootFacts, NewRootFacts
<1>13. /\ sub[<<m, lo, hi, FALSE>>] = <<base>> \o Append(used, h)
       /\ sub[<<m, lo, hi, TRUE>>] =
            IF way.atEdge THEN Append(used, h) ELSE <<base>> \o Append(used, h)
  BY <1>6, <1>8, <1>9, <1>10
<1>14. Leads(V, leaves, sub, m, lo, hi, base, Append(used, h))
  BY <1>0, <1>8, <1>9, <1>10, <1>11, <1>12, <1>13 DEF Leads
<1> QED BY <1>0, <1>14

\* One more hash, of the leaves on the left of the part that was split.
LEMMA LeadsRight ==
  ASSUME NEW V, NEW leaves, Holds(V, leaves), NEW sub, IsSub(leaves, sub),
         NEW m \in Nat, NEW lo \in Nat, NEW hi \in Nat, 0 < m, m < hi - lo,
         NEW k, k = largestPowerOfTwoBelow(hi - lo), ~(m <= k),
         NEW base, NEW used,
         Leads(V, leaves, sub, m - k, lo + k, hi, base, used)
  PROVE  Leads(V, leaves, sub, m, lo, hi, base,
               Append(used, mth(leaves, lo, lo + k)))
<1> DEFINE h == mth(leaves, lo, lo + k)
           way == Climb(m, hi - lo)
           short == Climb(m - k, (hi - lo) - k)
<1>1. hi - lo \in Nat /\ hi - lo >= 2 /\ m \in 1 .. (hi - lo) - 1
  OBVIOUS
<1>2. /\ k \in Nat \ {0} /\ k < hi - lo /\ hi - (lo + k) = (hi - lo) - k
      /\ m - k \in Nat \ {0} /\ (hi - lo) - k \in Nat \ {0}
      /\ (lo + k) + (m - k) = lo + m
  BY <1>1, LargestBelow
<1>3. way = [atEdge |-> FALSE, sides |-> Append(short.sides, "left")]
  BY <1>1, ClimbSplit
<1>4. short.sides \in Seq(Side) /\ short.atEdge \in BOOLEAN
  BY <1>2, ClimbType
<1>5. h \in V
  BY <1>2, HashHeld
<1>6. ASSUME NEW b \in BOOLEAN
      PROVE  sub[<<m, lo, hi, b>>] =
               Append(sub[<<m - k, lo + k, hi, FALSE>>], h)
  <2>1. 0 < m /\ m <= hi - lo /\ m # hi - lo
    OBVIOUS
  <2>2. SubAt(leaves, sub, m, lo, hi, b)
    BY <2>1, Zenon DEF IsSub
  <2> QED BY <2>1, <2>2, Zenon DEF SubAt
<1>7. mth(leaves, lo, hi) = <<h, mth(leaves, lo + k, hi)>>
  BY <1>1, HashSplit
<1>15. mth(leaves, lo, lo + m) = <<h, mth(leaves, lo + k, lo + m)>>
  <2> DEFINE d == hi - lo
             top == lo + m
  <2>1. d \in Nat /\ d >= 2 /\ largestPowerOfTwoBelow(d) < m /\ m <= d
    BY <1>1, <1>2
  <2>2. largestPowerOfTwoBelow(m) = largestPowerOfTwoBelow(d)
    <3> HIDE DEF d
    <3> QED BY <2>1, LargestSame
  <2>3. top - lo = m /\ top - lo >= 2 /\ top \in Nat
    BY <1>2
  <2>4. k = largestPowerOfTwoBelow(top - lo)
    BY <2>2, <2>3
  <2> HIDE DEF top
  <2>5. mth(leaves, lo, top) =
          <<mth(leaves, lo, lo + k), mth(leaves, lo + k, top)>>
    BY <2>3, <2>4, HashSplit
  <2> QED BY <2>5 DEF top
<1>0. h = mth(leaves, lo, lo + k) /\ way = Climb(m, hi - lo)
  OBVIOUS
<1>00. short = Climb(m - k, hi - (lo + k))
  BY <1>2
<1> HIDE DEF h, way, short
<1>8. /\ base \in V /\ used \in Seq(V)
      /\ sub[<<m - k, lo + k, hi, FALSE>>] = <<base>> \o used
      /\ Len(used) = Len(short.sides)
      /\ oldRoot(base, used, short.sides) = mth(leaves, lo + k, lo + m)
      /\ newRoot(base, used, short.sides) = mth(leaves, lo + k, hi)
  BY <1>00, <1>2 DEF Leads
<1>9. /\ way.atEdge = FALSE /\ way.sides = Append(short.sides, "left")
      /\ "left" \in Side
  BY <1>3 DEF Side
<1>10. /\ Append(used, h) \in Seq(V) /\ <<base>> \in Seq(V)
       /\ <<base>> \o Append(used, h) = Append(<<base>> \o used, h)
  BY <1>5, <1>8, ConcatAppend
<1>11. Len(Append(used, h)) = Len(way.sides)
  BY <1>4, <1>5, <1>8, <1>9
<1>12. /\ oldRoot(base, Append(used, h), way.sides) = mth(leaves, lo, lo + m)
       /\ newRoot(base, Append(used, h), way.sides) = mth(leaves, lo, hi)
  <2>1. oldRoot(base, Append(used, h), Append(short.sides, "left"))
          = <<h, oldRoot(base, used, short.sides)>>
    BY <1>4, <1>5, <1>8, <1>9, OldRootFacts
  <2>2. newRoot(base, Append(used, h), Append(short.sides, "left"))
          = <<h, newRoot(base, used, short.sides)>>
    BY <1>4, <1>5, <1>8, <1>9, NewRootFacts
  <2> QED BY <1>7, <1>8, <1>9, <1>15, <2>1, <2>2
<1>13. /\ sub[<<m, lo, hi, FALSE>>] = <<base>> \o Append(used, h)
       /\ sub[<<m, lo, hi, TRUE>>] = <<base>> \o Append(used, h)
  BY <1>6, <1>8, <1>10
<1>14. Leads(V, leaves, sub, m, lo, hi, base, Append(used, h))
  BY <1>0, <1>8, <1>9, <1>10, <1>11, <1>12, <1>13 DEF Leads
<1> QED BY <1>0, <1>14

\* From the top to the bottom.
LEMMA LeadsToRoots ==
  ASSUME NEW V, NEW leaves, Holds(V, leaves), NEW sub, IsSub(leaves, sub),
         NEW m \in Nat, NEW n \in Nat, 0 < m, m < n
  PROVE  \E base, used : Leads(V, leaves, sub, m, 0, n, base, used)
<1> DEFINE Whole(i, d) ==
             i = d /\ Climb(d, d) = [atEdge |-> TRUE, sides |-> <<>>]
           P == {d \in Nat : \A i, lo, hi \in Nat :
                   hi - lo = d /\ 0 < i /\ (i < d \/ Whole(i, d)) =>
                     \E base, used :
                       Leads(V, leaves, sub, i, lo, hi, base, used)}
<1>1. ASSUME NEW d \in Nat, \A c \in 0 .. d - 1 : c \in P
      PROVE  d \in P
  <2> SUFFICES ASSUME NEW i \in Nat, NEW lo \in Nat, NEW hi \in Nat,
                      hi - lo = d, 0 < i, i < d \/ Whole(i, d)
               PROVE  \E base, used :
                        Leads(V, leaves, sub, i, lo, hi, base, used)
    OBVIOUS
  <2>1. CASE Whole(i, d)
    <3>1. lo < hi /\ i = hi - lo
      BY <2>1
    <3>2. Climb(hi - lo, hi - lo) = [atEdge |-> TRUE, sides |-> <<>>]
      BY <2>1
    <3>3. Leads(V, leaves, sub, hi - lo, lo, hi, mth(leaves, lo, hi), <<>>)
      BY <3>1, <3>2, LeadsWhole
    <3> HIDE DEF P
    <3> QED BY <3>1, <3>3
  <2>2. CASE i < d
    <3> DEFINE k == largestPowerOfTwoBelow(hi - lo)
    <3>1. d >= 2 /\ i < hi - lo /\ k = largestPowerOfTwoBelow(d)
      BY <2>2
    <3>2. k \in Nat \ {0} /\ k < d
      BY <3>1, LargestBelow
    <3>3. Climb(k, k) = [atEdge |-> TRUE, sides |-> <<>>]
      BY <3>1, ClimbSplit
    <3>4. k = largestPowerOfTwoBelow(hi - lo)
      OBVIOUS
    <3> HIDE DEF k
    <3>5. CASE i <= k
      <4>1. PICK base, used : Leads(V, leaves, sub, i, lo, lo + k, base, used)
        <5>1. k \in 0 .. d - 1 /\ lo + k \in Nat /\ (lo + k) - lo = k
          BY <3>2
        <5>2. i < k \/ Whole(i, k)
          BY <3>3, <3>5, <3>2
        <5>3. k \in P
          BY <1>1, <5>1
        <5> QED BY <5>1, <5>2, <5>3
      <4>2. Leads(V, leaves, sub, i, lo, hi, base,
                  Append(used, mth(leaves, lo + k, hi)))
        <5> HIDE DEF P
        <5> QED BY <3>1, <3>4, <3>5, <4>1, LeadsLeft
      <4> QED BY <4>2
    <3>6. CASE ~(i <= k)
      <4>1. PICK base, used :
              Leads(V, leaves, sub, i - k, lo + k, hi, base, used)
        <5>1. /\ d - k \in 0 .. d - 1 /\ lo + k \in Nat /\ hi - (lo + k) = d - k
              /\ i - k \in Nat /\ 0 < i - k /\ i - k < d - k
          BY <2>2, <3>2, <3>6
        <5>2. d - k \in P
          BY <1>1, <5>1
        <5> QED BY <5>1, <5>2
      <4>2. Leads(V, leaves, sub, i, lo, hi, base,
                  Append(used, mth(leaves, lo, lo + k)))
        <5> HIDE DEF P
        <5> QED BY <3>1, <3>4, <3>6, <4>1, LeadsRight
      <4> QED BY <4>2
    <3> QED BY <3>5, <3>6
  <2> QED BY <2>1, <2>2
<1>2. P = Nat
  <2> HIDE DEF P
  <2>1. P \in SUBSET Nat
    BY DEF P
  <2> QED BY <1>1, <2>1, Induction
<1>3. n \in P
  <2> HIDE DEF P
  <2> QED BY <1>2
<1>4. n - 0 = n
  OBVIOUS
<1> QED BY <1>3, <1>4

\* The new root tells the hash that it starts from, and all that it takes.
LEMMA NewRootInjective ==
  ASSUME NEW a, NEW b, NEW used, NEW other, NEW sides, Len(sides) \in Nat,
         newRoot(a, used, sides) = newRoot(b, other, sides)
  PROVE  a = b /\ \A i \in 1 .. Len(sides) : used[i] = other[i]
<1>1. PICK f : /\ \A i \in Nat :
                     f[i] = IF i = 0 THEN a
                            ELSE IF sides[i] = "left" THEN <<used[i], f[i - 1]>>
                            ELSE <<f[i - 1], used[i]>>
               /\ newRoot(a, used, sides) = f[Len(sides)]
  BY NewRootDefined
<1>2. PICK g : /\ \A i \in Nat :
                     g[i] = IF i = 0 THEN b
                            ELSE IF sides[i] = "left" THEN <<other[i], g[i - 1]>>
                            ELSE <<g[i - 1], other[i]>>
               /\ newRoot(b, other, sides) = g[Len(sides)]
  BY NewRootDefined
<1> DEFINE Same(i) == a = b /\ \A c \in 1 .. i : used[c] = other[c]
           P == {i \in Nat : f[i] = g[i] => Same(i)}
<1>3. ASSUME NEW i \in Nat, \A c \in 0 .. i - 1 : c \in P
      PROVE  i \in P
  <2> SUFFICES ASSUME f[i] = g[i] PROVE Same(i)
    OBVIOUS
  <2>1. CASE i = 0
    <3>1. f[i] = a /\ g[i] = b
      BY <1>1, <1>2, <2>1
    <3>2. \A c \in 1 .. i : FALSE
      BY <2>1
    <3> QED BY <3>1, <3>2
  <2>2. CASE i # 0
    <3>1. i - 1 \in 0 .. i - 1
      BY <2>2
    <3>2. f[i] = IF sides[i] = "left" THEN <<used[i], f[i - 1]>>
                 ELSE <<f[i - 1], used[i]>>
      BY <1>1, <2>2
    <3>3. g[i] = IF sides[i] = "left" THEN <<other[i], g[i - 1]>>
                 ELSE <<g[i - 1], other[i]>>
      BY <1>2, <2>2
    <3>4. f[i - 1] = g[i - 1] /\ used[i] = other[i]
      <4> DEFINE x == f[i - 1]
                 y == g[i - 1]
                 u == used[i]
                 v == other[i]
      <4>1. <<u, x>> = <<v, y>> \/ <<x, u>> = <<y, v>>
        BY <3>2, <3>3
      <4> HIDE DEF x, y, u, v
      <4>2. x = y /\ u = v
        BY <4>1, PairParts
      <4> QED BY <4>2 DEF x, y, u, v
    <3>5. Same(i - 1)
      BY <1>3, <3>1, <3>4
    <3>6. \A c \in 1 .. i : c \in 1 .. i - 1 \/ c = i
      OBVIOUS
    <3> QED BY <3>4, <3>5, <3>6
  <2> QED BY <2>1, <2>2
<1>4. P = Nat
  <2> HIDE DEF P
  <2>1. P \in SUBSET Nat
    BY DEF P
  <2> QED BY <1>3, <2>1, Induction
<1>5. Len(sides) \in P
  <2> HIDE DEF P
  <2> QED BY <1>4
<1> QED BY <1>1, <1>2, <1>5

\* A proof that begins with a given hash, taken apart.
LEMMA FirstAndRest ==
  ASSUME NEW V, NEW base \in V, NEW used \in Seq(V)
  PROVE  /\ <<base>> \o used # <<>>
         /\ (<<base>> \o used)[1] = base
         /\ Tail(<<base>> \o used) = used
<1> DEFINE s == <<base>> \o used
<1>1. s \in Seq(V) /\ Len(s) = Len(used) + 1 /\ s[1] = base
      /\ \A i \in 1 .. Len(used) : s[i + 1] = used[i]
  OBVIOUS
<1> HIDE DEF s
<1>2. Len(s) \in Nat /\ s # <<>>
  BY <1>1
<1>3. Tail(s) \in Seq(V) /\ Len(Tail(s)) = Len(used)
      /\ \A i \in 1 .. Len(used) : Tail(s)[i] = s[i + 1]
  BY <1>1, <1>2
<1>4. Tail(s) = used
  BY <1>1, <1>3
<1> QED BY <1>1, <1>2, <1>4 DEF s

\* A proof is a sequence of hashes.
LEMMA ProofsAreSequences ==
  ASSUME NEW X, NEW leaves \in Seq(X), NEW m \in 1 .. Len(leaves) - 1
  PROVE  \E W : consistencyProof(m, leaves) \in Seq(W)
<1> DEFINE n == Len(leaves)
<1>1. m \in Nat /\ n \in Nat /\ 0 < m /\ m < n
  OBVIOUS
<1>2. PICK V : Holds(V, leaves)
  <2> DEFINE L == {leaves[i] : i \in Nat}
  <2>1. PICK V : L \subseteq V /\ \A a, b \in V : <<a, b>> \in V
    <3> HIDE DEF L
    <3> QED BY Universe
  <2>2. Holds(V, leaves)
    BY <2>1 DEF Holds, Paired
  <2> QED BY <2>2
<1>3. PICK sub : /\ IsSub(leaves, sub)
                 /\ consistencyProof(m, leaves) = sub[<<m, 0, n, TRUE>>]
  BY <1>2, SubProof
<1>4. PICK base, used : Leads(V, leaves, sub, m, 0, n, base, used)
  <2> HIDE DEF n
  <2> QED BY <1>1, <1>2, <1>3, LeadsToRoots
<1>5. base \in V /\ used \in Seq(V)
      /\ sub[<<m, 0, n, TRUE>>] \in {used, <<base>> \o used}
  BY <1>4 DEF Leads
<1>6. <<base>> \o used \in Seq(V)
  BY <1>5
<1> QED BY <1>3, <1>5, <1>6

\* A verifier that has the root of n leaves accepts one root of the first m of
\* them, the right one, and with one proof, whatever it is given: the root of
\* other leaves never verifies (merkleConsistency.ts:38, "a proof built against
\* one tree's root can never verify against a genuinely DIFFERENT root").
THEOREM ProofVerifies ==
  \A V : \A leaves \in Seq(V) : \A m \in 1 .. Len(leaves) - 1 :
    \A rootM : \A W : \A proof \in Seq(W) :
      verifyConsistency(m, Len(leaves), rootM, mth(leaves, 0, Len(leaves)), proof)
        <=> rootM = mth(leaves, 0, m) /\ proof = consistencyProof(m, leaves)
<1> SUFFICES ASSUME NEW X, NEW leaves \in Seq(X),
                    NEW m \in 1 .. Len(leaves) - 1, NEW rootM,
                    NEW W, NEW proof \in Seq(W)
             PROVE  verifyConsistency(m, Len(leaves), rootM,
                                      mth(leaves, 0, Len(leaves)), proof)
                      <=> /\ rootM = mth(leaves, 0, m)
                          /\ proof = consistencyProof(m, leaves)
  OBVIOUS
<1> DEFINE n == Len(leaves)
           right == consistencyProof(m, leaves)
           way == Climb(m, n)
           rootN == mth(leaves, 0, n)
           firstM == mth(leaves, 0, m)
<1>1. m \in Nat /\ n \in Nat /\ 0 < m /\ m < n /\ m # n
  OBVIOUS
<1>2. PICK V : Holds(V, leaves)
  <2> DEFINE L == {leaves[i] : i \in Nat}
  <2>1. PICK V : L \subseteq V /\ \A a, b \in V : <<a, b>> \in V
    <3> HIDE DEF L
    <3> QED BY Universe
  <2>2. Holds(V, leaves)
    BY <2>1 DEF Holds, Paired
  <2> QED BY <2>2
<1>3. PICK sub : IsSub(leaves, sub) /\ right = sub[<<m, 0, n, TRUE>>]
  BY <1>2, SubProof
<1>4. PICK base, used : Leads(V, leaves, sub, m, 0, n, base, used)
  <2> HIDE DEF n
  <2> QED BY <1>1, <1>2, <1>3, LeadsToRoots
<1>5. way.sides \in Seq(Side) /\ way.atEdge \in BOOLEAN /\ Len(way.sides) \in Nat
  BY <1>1, ClimbType
<1>6. 0 + m = m /\ n - 0 = n
  BY <1>1
<1>7. /\ base \in V /\ used \in Seq(V)
      /\ right = IF way.atEdge THEN used ELSE <<base>> \o used
      /\ way.atEdge => base = firstM
      /\ Len(used) = Len(way.sides)
      /\ oldRoot(base, used, way.sides) = firstM
      /\ newRoot(base, used, way.sides) = rootN
  <2>1. /\ base \in V /\ used \in Seq(V)
        /\ sub[<<m, 0, n, TRUE>>] =
             IF Climb(m, n - 0).atEdge THEN used ELSE <<base>> \o used
        /\ Climb(m, n - 0).atEdge => base = mth(leaves, 0, 0 + m)
        /\ Len(used) = Len(Climb(m, n - 0).sides)
        /\ oldRoot(base, used, Climb(m, n - 0).sides) = mth(leaves, 0, 0 + m)
        /\ newRoot(base, used, Climb(m, n - 0).sides) = mth(leaves, 0, n)
    <3> HIDE DEF n
    <3> QED BY <1>4 DEF Leads
  <2> QED BY <1>3, <1>6, <2>1
<1>8. verifyConsistency(m, n, rootM, rootN, proof) <=>
        LET given == IF way.atEdge THEN proof ELSE Tail(proof)
            start == IF way.atEdge THEN rootM ELSE proof[1]
        IN  /\ way.atEdge \/ proof # <<>>
            /\ Len(given) = Len(way.sides)
            /\ oldRoot(start, given, way.sides) = rootM
            /\ newRoot(start, given, way.sides) = rootN
  <2> HIDE DEF n, rootN
  <2> QED BY <1>1 DEF verifyConsistency
<1> HIDE DEF n, right, way, rootN, firstM
\* Nothing else leads to the new root.
<1>9. ASSUME NEW start, NEW given \in Seq(W), Len(given) = Len(way.sides),
             newRoot(start, given, way.sides) = rootN
      PROVE  start = base /\ given = used
  <2>1. /\ start = base
        /\ \A i \in 1 .. Len(way.sides) : given[i] = used[i]
    BY <1>5, <1>7, <1>9, NewRootInjective
  <2>2. given = used
    <3>1. given \in Seq(V \cup W) /\ used \in Seq(V \cup W)
      BY <1>7, <1>9, SeqMonotonic
    <3>2. Len(given) = Len(used)
      BY <1>7, <1>9
    <3>3. \A i \in 1 .. Len(given) : given[i] = used[i]
      BY <1>9, <2>1
    <3> QED BY <3>1, <3>2, <3>3, SeqEqual
  <2> QED BY <2>1, <2>2
<1>10. CASE way.atEdge
  <2>1. right = used /\ base = firstM
    BY <1>7, <1>10
  <2>2. verifyConsistency(m, n, rootM, rootN, proof) <=>
          /\ Len(proof) = Len(way.sides)
          /\ oldRoot(rootM, proof, way.sides) = rootM
          /\ newRoot(rootM, proof, way.sides) = rootN
    BY <1>8, <1>10
  <2>3. verifyConsistency(m, n, rootM, rootN, proof)
          => rootM = firstM /\ proof = right
    BY <1>9, <2>1, <2>2
  <2>4. rootM = firstM /\ proof = right
          => verifyConsistency(m, n, rootM, rootN, proof)
    BY <1>7, <2>1, <2>2
  <2> QED BY <2>3, <2>4 DEF n, right, rootN, firstM
<1>11. CASE ~way.atEdge
  <2>1. right = <<base>> \o used
    BY <1>7, <1>11
  <2>2. right # <<>> /\ right[1] = base /\ Tail(right) = used
    BY <1>7, <2>1, FirstAndRest
  <2>3. verifyConsistency(m, n, rootM, rootN, proof) <=>
          /\ proof # <<>>
          /\ Len(Tail(proof)) = Len(way.sides)
          /\ oldRoot(proof[1], Tail(proof), way.sides) = rootM
          /\ newRoot(proof[1], Tail(proof), way.sides) = rootN
    BY <1>8, <1>11
  <2>4. ASSUME verifyConsistency(m, n, rootM, rootN, proof)
        PROVE  rootM = firstM /\ proof = right
    <3>1. proof # <<>> /\ Tail(proof) \in Seq(W)
      BY <2>3, <2>4
    <3>2. proof[1] = base /\ Tail(proof) = used
      BY <1>9, <2>3, <2>4, <3>1
    <3>3. proof = <<proof[1]>> \o Tail(proof)
      BY <3>1
    <3> QED BY <1>7, <2>1, <2>3, <2>4, <3>2, <3>3
  <2>5. rootM = firstM /\ proof = right
          => verifyConsistency(m, n, rootM, rootN, proof)
    BY <1>7, <2>2, <2>3
  <2> QED BY <2>4, <2>5 DEF n, right, rootN, firstM
<1> QED BY <1>5, <1>10, <1>11

-----------------------------------------------------------------------------
(* The log and the monitor *)

Leaves == {Leaf(event, seq) : event \in Event, seq \in Nat}

\* The root that is signed for a log of these leaves.
RootOf(leaves) == IF leaves = <<>> THEN <<>> ELSE LeanRoot(leaves)

TypeOK ==
  /\ kt_entries \in Seq(Leaves)
  /\ kt_tree_cache \in Seq(Leaves)
  /\ seen \in Seq(Leaves)
  /\ inHand \in Seq(Leaves)
  /\ rewrites \in Nat

\* The tree that is cached is of the first entries of the log.
CacheOfTheLog == IsPrefix(kt_tree_cache, kt_entries)

\* The heads that the monitor has are those of the logs it had them of.
HeadsOfLogs ==
  /\ lastVerified # None => lastVerified = signSth(Len(seen), RootOf(seen))
  /\ head # None => /\ lastVerified # None
                    /\ head = signSth(Len(inHand), RootOf(inHand))
                    /\ Len(seen) < Len(inHand)

LogInv == TypeOK /\ CacheOfTheLog /\ HeadsOfLogs

\* A prefix is what agrees as far as it goes.
LEMMA PrefixFacts ==
  ASSUME NEW X, NEW s \in Seq(X), NEW t \in Seq(X)
  PROVE  IsPrefix(s, t) <=> /\ Len(s) <= Len(t)
                            /\ \A i \in 1 .. Len(s) : s[i] = t[i]
<1>1. CASE Len(s) <= Len(t)
  <2> DEFINE a == SubSeq(s, 1, Len(s))
             b == SubSeq(t, 1, Len(s))
  <2>1. /\ a \in Seq(X) /\ Len(a) = Len(s)
        /\ \A i \in 1 .. Len(s) : a[i] = s[i]
    OBVIOUS
  <2>2. /\ b \in Seq(X) /\ Len(b) = Len(s)
        /\ \A i \in 1 .. Len(s) : b[i] = t[i]
    BY <1>1
  <2> HIDE DEF a, b
  <2>3. a = b <=> \A i \in 1 .. Len(s) : a[i] = b[i]
    BY <2>1, <2>2
  <2> QED BY <1>1, <2>1, <2>2, <2>3 DEF IsPrefix, a, b
<1>2. CASE ~(Len(s) <= Len(t))
  BY <1>2 DEF IsPrefix
<1> QED BY <1>1, <1>2

\* A log continues itself.
LEMMA PrefixRefl ==
  ASSUME NEW X, NEW s \in Seq(X)
  PROVE  IsPrefix(s, s)
BY PrefixFacts

\* A prefix of the same length is the whole.
LEMMA SamePrefix ==
  ASSUME NEW X, NEW s \in Seq(X), NEW t \in Seq(X), IsPrefix(s, t),
         Len(s) = Len(t)
  PROVE  s = t
<1>1. \A i \in 1 .. Len(s) : s[i] = t[i]
  BY PrefixFacts
<1> QED BY <1>1

\* A root tells the leaves, of which it is known how many they are.
LEMMA RootTells ==
  ASSUME NEW X, NEW s \in Seq(X), NEW t \in Seq(X), Len(s) = Len(t),
         RootOf(s) = RootOf(t)
  PROVE  s = t
<1>1. CASE s = <<>>
  BY <1>1
<1>2. CASE s # <<>>
  <2> DEFINE n == Len(s)
  <2>1. n \in Nat /\ 0 < n /\ t # <<>>
    BY <1>2
  <2>2. LeanRoot(s) = LeanRoot(t)
    BY <1>2, <2>1 DEF RootOf
  <2>3. mth(s, 0, n) = mth(t, 0, n)
    BY <1>2, <2>1, <2>2, ShapesAgree
  <2>4. \A i \in 0 + 1 .. n : s[i] = t[i]
    BY <2>1, <2>3, HashInjective
  <2> QED BY <2>4
<1> QED BY <1>1, <1>2

\* A root tells whether the log it is of begins another one.
LEMMA RootOfFirst ==
  ASSUME NEW X, NEW s \in Seq(X), NEW t \in Seq(X), s # <<>>,
         Len(s) <= Len(t)
  PROVE  RootOf(s) = mth(t, 0, Len(s)) <=> IsPrefix(s, t)
<1> DEFINE n == Len(s)
<1>1. n \in Nat /\ 0 < n
  OBVIOUS
<1>2. RootOf(s) = mth(s, 0, n)
  BY ShapesAgree DEF RootOf
<1>3. ASSUME RootOf(s) = mth(t, 0, n) PROVE IsPrefix(s, t)
  <2>1. \A i \in 0 + 1 .. n : s[i] = t[i]
    BY <1>1, <1>2, <1>3, HashInjective
  <2> QED BY <2>1, PrefixFacts
<1>4. ASSUME IsPrefix(s, t) PROVE RootOf(s) = mth(t, 0, n)
  <2>1. \A i \in 0 + 1 .. n : s[i] = t[i]
    BY <1>4, PrefixFacts
  <2> QED BY <1>1, <1>2, <2>1, HashLocal
<1> QED BY <1>3, <1>4

\* Of two logs that a third one continues, one continues the other.
LEMMA PrefixOfBoth ==
  ASSUME NEW X, NEW s \in Seq(X), NEW t \in Seq(X), NEW u \in Seq(X),
         IsPrefix(s, u), IsPrefix(t, u), Len(s) <= Len(t)
  PROVE  IsPrefix(s, t)
<1>1. \A i \in 1 .. Len(s) : s[i] = u[i]
  BY PrefixFacts
<1>2. \A i \in 1 .. Len(t) : t[i] = u[i]
  BY PrefixFacts
<1>3. \A i \in 1 .. Len(s) : s[i] = t[i]
  BY <1>1, <1>2
<1> QED BY <1>3, PrefixFacts

\* The tree that is loaded for the size of the log is that of the log.
LEMMA LoadsTheLog ==
  ASSUME LogInv
  PROVE  /\ loadTreeForSize(Len(kt_entries)) = kt_entries
         /\ handleSth = signSth(Len(kt_entries), RootOf(kt_entries))
<1>1. loadTreeForSize(Len(kt_entries)) = kt_entries
  BY SamePrefix DEF LogInv, TypeOK, CacheOfTheLog, loadTreeForSize
<1> QED BY <1>1 DEF handleSth, currentRoot, RootOf

\* At first there is no log, and no head of it.
LEMMA LogInit == Init => LogInv
<1> SUFFICES ASSUME Init PROVE LogInv
  OBVIOUS
<1> USE DEF Init
<1>1. TypeOK
  BY DEF TypeOK
<1>2. CacheOfTheLog
  BY <1>1, PrefixRefl DEF CacheOfTheLog, TypeOK
<1>3. HeadsOfLogs
  BY DEF HeadsOfLogs
<1> QED BY <1>1, <1>2, <1>3 DEF LogInv

\* A log that is longer by one entry goes on from what it was.
LEMMA Appending ==
  ASSUME NEW X, NEW s \in Seq(X), NEW t \in Seq(X), NEW x \in X, IsPrefix(s, t)
  PROVE  /\ Append(t, x) \in Seq(X)
         /\ Len(Append(t, x)) = Len(t) + 1
         /\ IsPrefix(s, Append(t, x))
<1>1. Len(s) <= Len(t) /\ \A i \in 1 .. Len(s) : s[i] = t[i]
  BY PrefixFacts
<1>2. /\ Append(t, x) \in Seq(X) /\ Len(Append(t, x)) = Len(t) + 1
      /\ \A i \in 1 .. Len(t) : Append(t, x)[i] = t[i]
  OBVIOUS
<1>3. \A i \in 1 .. Len(s) : s[i] = Append(t, x)[i]
  BY <1>1, <1>2
<1>4. Len(s) <= Len(Append(t, x))
  BY <1>1, <1>2
<1> QED BY <1>2, <1>3, <1>4, PrefixFacts

\* What is appended is a leaf.
LEMMA NewLeaf ==
  ASSUME LogInv, NEW event \in Event
  PROVE  Leaf(event, Len(kt_entries) + 1) \in Leaves
<1>1. Len(kt_entries) + 1 \in Nat
  BY DEF LogInv, TypeOK
<1> QED BY <1>1 DEF Leaves

\* handleAppend keeps the cache a tree of the log, and only appends.
LEMMA HandleAppendStep ==
  ASSUME LogInv, NEW event \in Event, HandleAppend(event)
  PROVE  LogInv' /\ IsPrefix(kt_entries, kt_entries')
<1> DEFINE leaf == Leaf(event, Len(kt_entries) + 1)
<1>1. leaf \in Leaves
  BY NewLeaf
<1> HIDE DEF leaf
<1>2. kt_entries' = Append(kt_entries, leaf) /\ kt_tree_cache' = kt_entries'
  BY LoadsTheLog DEF HandleAppend, leaf
<1>3. UNCHANGED <<lastVerified, head, seen, inHand, rewrites>>
  BY DEF HandleAppend, monitor
<1>4. IsPrefix(kt_entries, kt_entries') /\ kt_entries' \in Seq(Leaves)
  BY <1>1, <1>2, PrefixRefl, Appending DEF LogInv, TypeOK
<1>5. TypeOK'
  BY <1>2, <1>3, <1>4 DEF LogInv, TypeOK
<1>6. CacheOfTheLog'
  BY <1>2, <1>4, PrefixRefl DEF CacheOfTheLog
<1>7. HeadsOfLogs'
  BY <1>3 DEF LogInv, HeadsOfLogs
<1> QED BY <1>4, <1>5, <1>6, <1>7 DEF LogInv

\* So it does when the cache is not written.
LEMMA AppendUncachedStep ==
  ASSUME LogInv, NEW event \in Event, AppendUncached(event)
  PROVE  LogInv' /\ IsPrefix(kt_entries, kt_entries')
<1> DEFINE leaf == Leaf(event, Len(kt_entries) + 1)
<1>1. leaf \in Leaves
  BY NewLeaf
<1> HIDE DEF leaf
<1>2. kt_entries' = Append(kt_entries, leaf) /\ kt_tree_cache' = kt_tree_cache
  BY DEF AppendUncached, leaf
<1>3. UNCHANGED <<lastVerified, head, seen, inHand, rewrites>>
  BY DEF AppendUncached, monitor
<1>4. IsPrefix(kt_entries, kt_entries') /\ kt_entries' \in Seq(Leaves)
  BY <1>1, <1>2, PrefixRefl, Appending DEF LogInv, TypeOK
<1>5. TypeOK'
  BY <1>2, <1>3, <1>4 DEF LogInv, TypeOK
<1>6. CacheOfTheLog'
  BY <1>1, <1>2, Appending DEF LogInv, TypeOK, CacheOfTheLog
<1>7. HeadsOfLogs'
  BY <1>3 DEF LogInv, HeadsOfLogs
<1> QED BY <1>4, <1>5, <1>6, <1>7 DEF LogInv

\* A rewrite cuts log and cache alike.
LEMMA RewriteStep ==
  ASSUME LogInv, NEW k \in 0 .. Len(kt_entries) - 1, Rewrite(k)
  PROVE  LogInv'
<1> DEFINE n == Len(kt_tree_cache)
           c == Min({k, n})
<1>1. /\ kt_entries \in Seq(Leaves) /\ kt_tree_cache \in Seq(Leaves)
      /\ k \in Nat /\ k <= Len(kt_entries) /\ n \in Nat
      /\ \A i \in 1 .. n : kt_tree_cache[i] = kt_entries[i]
  BY PrefixFacts DEF LogInv, TypeOK, CacheOfTheLog
<1>2. c = IF k <= n THEN k ELSE n
  <2>1. \E x \in {k, n} : \A y \in {k, n} : x <= y
    BY <1>1
  <2>2. c \in {k, n} /\ \A y \in {k, n} : c <= y
    BY <2>1 DEF Min
  <2> QED BY <1>1, <2>2
<1>3. kt_entries' = SubSeq(kt_entries, 1, k)
      /\ kt_tree_cache' = SubSeq(kt_tree_cache, 1, c)
      /\ rewrites' = rewrites + 1
  BY DEF Rewrite
<1>4. UNCHANGED <<lastVerified, head, seen, inHand>>
  BY DEF Rewrite, monitor
<1> HIDE DEF c
<1>5. /\ kt_entries' \in Seq(Leaves) /\ Len(kt_entries') = k
      /\ \A i \in 1 .. k : kt_entries'[i] = kt_entries[i]
  BY <1>1, <1>3
<1>6. /\ kt_tree_cache' \in Seq(Leaves) /\ Len(kt_tree_cache') = c
      /\ \A i \in 1 .. c : kt_tree_cache'[i] = kt_tree_cache[i]
  BY <1>1, <1>2, <1>3
<1>7. TypeOK'
  BY <1>3, <1>4, <1>5, <1>6 DEF LogInv, TypeOK
<1>8. CacheOfTheLog'
  <2>1. c <= k /\ c <= n
    BY <1>1, <1>2
  <2>2. ASSUME NEW i \in 1 .. c PROVE kt_tree_cache'[i] = kt_entries'[i]
    <3>1. c \in Nat
      BY <1>1, <1>2
    <3>2. i \in 1 .. n /\ i \in 1 .. k
      <4> HIDE DEF n
      <4> QED BY <1>1, <2>1, <3>1
    <3> QED BY <1>1, <1>5, <1>6, <3>2
  <2> QED BY <1>5, <1>6, <2>1, <2>2, PrefixFacts DEF CacheOfTheLog
<1>9. HeadsOfLogs'
  BY <1>4 DEF LogInv, HeadsOfLogs
<1> QED BY <1>7, <1>8, <1>9 DEF LogInv

\* A run of the monitor ends with the head of a log, or with none.
LEMMA SavesStep ==
  ASSUME LogInv, UNCHANGED <<kt_entries, kt_tree_cache, rewrites>>,
         NEW leaves \in Seq(Leaves), NEW line,
         Saves(signSth(Len(leaves), RootOf(leaves)), leaves, line)
  PROVE  LogInv' /\ seen' = leaves
<1>1. /\ lastVerified' = signSth(Len(leaves), RootOf(leaves))
      /\ seen' = leaves /\ head' = None /\ inHand' = <<>>
  BY DEF Saves
<1>2. TypeOK'
  BY <1>1 DEF LogInv, TypeOK
<1>3. CacheOfTheLog'
  BY DEF LogInv, CacheOfTheLog
<1>4. HeadsOfLogs'
  BY <1>1 DEF HeadsOfLogs
<1> QED BY <1>1, <1>2, <1>3, <1>4 DEF LogInv

\* A run of the monitor that saves nothing keeps the heads it had.
LEMMA EndsStep ==
  ASSUME LogInv, UNCHANGED <<kt_entries, kt_tree_cache, rewrites>>,
         NEW line, Ends(line)
  PROVE  LogInv' /\ seen' = seen
<1>1. /\ head' = None /\ inHand' = <<>>
      /\ lastVerified' = lastVerified /\ seen' = seen
  BY DEF Ends
<1>2. TypeOK'
  BY <1>1 DEF LogInv, TypeOK
<1>3. CacheOfTheLog'
  BY DEF LogInv, CacheOfTheLog
<1>4. HeadsOfLogs'
  BY <1>1 DEF LogInv, HeadsOfLogs
<1> QED BY <1>1, <1>2, <1>3, <1>4 DEF LogInv

\* What the monitor knows of the log it saw: the log of a head it takes over is
\* a continuation of that.
LEMMA FetchHeadStep ==
  ASSUME LogInv, FetchHead
  PROVE  LogInv' /\ (lastVerified # None => IsPrefix(seen, seen'))
<1> DEFINE sth == signSth(Len(kt_entries), RootOf(kt_entries))
<1>1. handleSth = sth
  BY LoadsTheLog
<1>2. UNCHANGED <<kt_entries, kt_tree_cache, rewrites>>
  BY DEF FetchHead, log
<1>3. /\ kt_entries \in Seq(Leaves) /\ seen \in Seq(Leaves)
      /\ IsPrefix(seen, seen)
  BY PrefixRefl DEF LogInv, TypeOK
<1>4. ASSUME NEW line, Saves(sth, kt_entries, line),
             lastVerified # None =>
               /\ ~(sth.size < lastVerified.size)
               /\ sth.size = lastVerified.size
               /\ SameRoot(lastVerified, sth)
      PROVE  LogInv' /\ (lastVerified # None => IsPrefix(seen, seen'))
  <2>1. LogInv' /\ seen' = kt_entries
    BY <1>2, <1>3, <1>4, SavesStep
  <2>2. ASSUME lastVerified # None PROVE seen = kt_entries
    <3>1. lastVerified = signSth(Len(seen), RootOf(seen))
      BY <2>2 DEF LogInv, HeadsOfLogs
    <3>2. Len(seen) = Len(kt_entries) /\ RootOf(seen) = RootOf(kt_entries)
      BY <1>4, <2>2, <3>1 DEF signSth, SameRoot
    <3> QED BY <1>3, <3>2, RootTells
  <2> QED BY <1>3, <2>1, <2>2
<1>5. ASSUME NEW line, Ends(line)
      PROVE  LogInv' /\ (lastVerified # None => IsPrefix(seen, seen'))
  <2>1. LogInv' /\ seen' = seen
    BY <1>2, <1>5, EndsStep
  <2> QED BY <1>3, <2>1
<1>6. ASSUME lastVerified # None, ~(sth.size < lastVerified.size),
             sth.size # lastVerified.size,
             head' = sth, inHand' = kt_entries,
             UNCHANGED <<lastVerified, verdict, seen>>
      PROVE  LogInv' /\ (lastVerified # None => IsPrefix(seen, seen'))
  <2>1. TypeOK'
    BY <1>2, <1>3, <1>6 DEF LogInv, TypeOK
  <2>2. CacheOfTheLog'
    BY <1>2 DEF LogInv, CacheOfTheLog
  <2>3. Len(seen) < Len(kt_entries)
    <3>1. lastVerified = signSth(Len(seen), RootOf(seen))
      BY <1>6 DEF LogInv, HeadsOfLogs
    <3>2. lastVerified.size = Len(seen) /\ sth.size = Len(kt_entries)
      BY <3>1 DEF signSth
    <3> HIDE DEF sth
    <3> QED BY <1>3, <1>6, <3>2
  <2>4. HeadsOfLogs'
    BY <1>6, <2>3 DEF LogInv, HeadsOfLogs
  <2> QED BY <1>3, <1>6, <2>1, <2>2, <2>4 DEF LogInv
<1> HIDE DEF sth
<1>7. \/ lastVerified = None /\ Saves(sth, kt_entries, "BASELINE")
      \/ Ends("ALARM")
      \/ /\ lastVerified # None /\ ~(sth.size < lastVerified.size)
         /\ sth.size = lastVerified.size
         /\ SameRoot(lastVerified, sth)
         /\ Saves(sth, kt_entries, "OK")
      \/ /\ lastVerified # None /\ ~(sth.size < lastVerified.size)
         /\ sth.size # lastVerified.size
         /\ head' = sth /\ inHand' = kt_entries
         /\ UNCHANGED <<lastVerified, verdict, seen>>
  BY <1>1 DEF FetchHead
<1> QED BY <1>4, <1>5, <1>6, <1>7

\* A head that is saved after a proof is of a log that continues the one before:
\* the roots in the answer are those of the first entries of one log.
LEMMA FetchProofStep ==
  ASSUME LogInv, FetchProof
  PROVE  LogInv' /\ IsPrefix(seen, seen')
<1> DEFINE m == lastVerified.size
           n == head.size
           answer == Consistency(m, n)
<1>1. UNCHANGED <<kt_entries, kt_tree_cache, rewrites>>
  BY DEF FetchProof, log
<1>2. /\ kt_entries \in Seq(Leaves) /\ seen \in Seq(Leaves)
      /\ inHand \in Seq(Leaves) /\ IsPrefix(seen, seen)
  BY PrefixRefl DEF LogInv, TypeOK
<1>3. /\ lastVerified = signSth(Len(seen), RootOf(seen))
      /\ head = signSth(Len(inHand), RootOf(inHand))
      /\ Len(seen) < Len(inHand)
  BY DEF LogInv, HeadsOfLogs, FetchProof
<1>4. /\ m = Len(seen) /\ lastVerified.root = RootOf(seen)
      /\ n = Len(inHand) /\ head.root = RootOf(inHand)
  BY <1>3 DEF signSth
<1>5. ASSUME NEW line, Ends(line) PROVE LogInv' /\ IsPrefix(seen, seen')
  <2>1. LogInv' /\ seen' = seen
    BY <1>1, <1>5, EndsStep
  <2> QED BY <1>2, <2>1
<1>6. ASSUME Accepts(m, n), answer.firstRoot = lastVerified.root,
             answer.secondRoot = head.root, Saves(head, inHand, "OK")
      PROVE  LogInv' /\ IsPrefix(seen, seen')
  <2>1. LogInv' /\ seen' = inHand
    BY <1>1, <1>2, <1>3, <1>6, SavesStep
  <2>2. /\ seen # <<>> /\ inHand # <<>>
        /\ Len(seen) <= Len(kt_entries) /\ Len(inHand) <= Len(kt_entries)
        /\ Len(seen) <= Len(inHand)
    BY <1>2, <1>4, <1>6 DEF Accepts
  <2>3. /\ RootOf(seen) = mth(kt_entries, 0, Len(seen))
        /\ RootOf(inHand) = mth(kt_entries, 0, Len(inHand))
    BY <1>4, <1>6 DEF Consistency
  <2>4. IsPrefix(seen, kt_entries) /\ IsPrefix(inHand, kt_entries)
    BY <1>2, <2>2, <2>3, RootOfFirst
  <2>5. IsPrefix(seen, inHand)
    BY <1>2, <2>2, <2>4, PrefixOfBoth
  <2> QED BY <2>1, <2>5
<1>7. \/ Ends("ERROR") \/ Ends("ALARM")
      \/ /\ Accepts(m, n) /\ answer.firstRoot = lastVerified.root
         /\ answer.secondRoot = head.root /\ Saves(head, inHand, "OK")
  BY DEF FetchProof
<1> QED BY <1>5, <1>6, <1>7

\* Every step keeps the invariant, and rewrites nothing unnoticed.
LEMMA LogStep ==
  ASSUME LogInv, [Next]_vars
  PROVE  LogInv' /\ (lastVerified # None => IsPrefix(seen, seen'))
<1>0. seen \in Seq(Leaves) /\ IsPrefix(seen, seen)
  BY PrefixRefl DEF LogInv, TypeOK
<1>1. ASSUME NEW event \in Event, HandleAppend(event)
      PROVE  LogInv' /\ IsPrefix(seen, seen')
  BY <1>0, <1>1, HandleAppendStep DEF HandleAppend, monitor
<1>2. ASSUME NEW event \in Event, AppendUncached(event)
      PROVE  LogInv' /\ IsPrefix(seen, seen')
  BY <1>0, <1>2, AppendUncachedStep DEF AppendUncached, monitor
<1>3. ASSUME NEW k \in 0 .. Len(kt_entries) - 1, Rewrite(k)
      PROVE  LogInv' /\ IsPrefix(seen, seen')
  BY <1>0, <1>3, RewriteStep DEF Rewrite, monitor
<1>4. ASSUME RequestFails PROVE LogInv' /\ IsPrefix(seen, seen')
  <2>1. Ends("ERROR") /\ UNCHANGED <<kt_entries, kt_tree_cache, rewrites>>
    BY <1>4 DEF RequestFails, log
  <2> QED BY <1>0, <2>1, EndsStep
<1>5. ASSUME EpochTurns \/ UNCHANGED vars
      PROVE  LogInv' /\ IsPrefix(seen, seen')
  <2>1. UNCHANGED <<kt_entries, kt_tree_cache, lastVerified, head, seen, inHand,
                    rewrites>>
    BY <1>5 DEF EpochTurns, vars, log, monitor
  <2> QED BY <1>0, <2>1 DEF LogInv, TypeOK, CacheOfTheLog, HeadsOfLogs
<1> QED BY <1>1, <1>2, <1>3, <1>4, <1>5, FetchHeadStep, FetchProofStep DEF Next

\* What the monitor has is what it was given by the log, and the cache is of
\* the log (loadTreeForSize, kt-monitor.mts saveState).
THEOREM LogInvariance == Spec => []LogInv
<1>1. LogInv /\ [Next]_vars => LogInv'
  BY LogStep
<1> QED BY <1>1, LogInit, PTL DEF Spec

\* The log of a head that the monitor accepts continues the log of the head
\* before, however often, and whenever, the log was rewritten.
THEOREM NoRewriteUnnoticed == Spec => RewriteIsNoticed
<1>1. LogInv /\ [Next]_vars
        => [lastVerified # None => IsPrefix(seen, seen')]_vars
  BY LogStep
<1> QED BY <1>1, LogInvariance, PTL DEF Spec, RewriteIsNoticed

-----------------------------------------------------------------------------
(* What the monitor makes of the proofs *)

\* The first entries of a log.
LEMMA FirstEntries ==
  ASSUME NEW X, NEW s \in Seq(X), NEW n \in 1 .. Len(s)
  PROVE  /\ SubSeq(s, 1, n) \in Seq(X) /\ Len(SubSeq(s, 1, n)) = n
         /\ \A m \in 1 .. n : mth(SubSeq(s, 1, n), 0, m) = mth(s, 0, m)
<1> DEFINE t == SubSeq(s, 1, n)
<1>1. t \in Seq(X) /\ Len(t) = n /\ \A i \in 1 .. n : t[i] = s[i]
  OBVIOUS
<1> HIDE DEF t
<1>2. ASSUME NEW m \in 1 .. n PROVE mth(t, 0, m) = mth(s, 0, m)
  <2>1. m \in Nat /\ 0 < m
    OBVIOUS
  <2>2. \A i \in 0 + 1 .. m : t[i] = s[i]
    BY <1>1
  <2> QED BY <2>1, <2>2, HashLocal
<1> QED BY <1>1, <1>2 DEF t

\* The proof of the object verifies against the root of its first m entries.
LEMMA ConsistencyVerifies ==
  ASSUME NEW m, NEW n, kt_entries \in Seq(Leaves),
         m \in 1 .. Len(kt_entries), n \in 1 .. Len(kt_entries), m < n,
         NEW rootM
  PROVE  verifyConsistency(m, n, rootM, mth(kt_entries, 0, n),
                           Consistency(m, n).proof)
           <=> rootM = mth(kt_entries, 0, m)
<1> DEFINE t == SubSeq(kt_entries, 1, n)
<1>1. /\ t \in Seq(Leaves) /\ Len(t) = n
      /\ mth(t, 0, n) = mth(kt_entries, 0, n)
      /\ mth(t, 0, m) = mth(kt_entries, 0, m)
  BY FirstEntries
<1>2. Consistency(m, n).proof = consistencyProof(m, t)
  BY DEF Consistency
<1> HIDE DEF t
<1>3. m \in 1 .. Len(t) - 1
  BY <1>1
<1>4. verifyConsistency(m, Len(t), rootM, mth(t, 0, Len(t)),
                        consistencyProof(m, t))
        <=> rootM = mth(t, 0, m)
  <2>1. PICK W : consistencyProof(m, t) \in Seq(W)
    BY <1>1, <1>3, ProofsAreSequences
  <2> QED BY <1>1, <1>3, <2>1, ProofVerifies
<1> QED BY <1>1, <1>2, <1>4

\* A proof decides (merkleConsistency.ts:36): the one the object gives verifies
\* against the root the monitor has if and only if the log continues the one it
\* saw.
THEOREM ProofsDecide == Spec => []ProofDecides
<1>1. LogInv => ProofDecides
  <2> SUFFICES ASSUME LogInv, Len(seen) > 0,
                      NEW n \in Len(seen) + 1 .. Len(kt_entries)
               PROVE  verifyConsistency(Len(seen), n, mth(seen, 0, Len(seen)),
                                        mth(kt_entries, 0, n),
                                        Consistency(Len(seen), n).proof)
                        <=> IsPrefix(seen, kt_entries)
    BY DEF ProofDecides
  <2> DEFINE m == Len(seen)
  <2>1. kt_entries \in Seq(Leaves) /\ seen \in Seq(Leaves) /\ seen # <<>>
    BY DEF LogInv, TypeOK
  <2>2. /\ m \in 1 .. Len(kt_entries) /\ n \in 1 .. Len(kt_entries) /\ m < n
        /\ m <= Len(kt_entries)
    BY <2>1
  <2>3. RootOf(seen) = mth(seen, 0, m)
    BY <2>1, ShapesAgree DEF RootOf
  <2>4. mth(seen, 0, m) = mth(kt_entries, 0, m) <=> IsPrefix(seen, kt_entries)
    BY <2>1, <2>2, <2>3, RootOfFirst
  <2> HIDE DEF m
  <2>5. verifyConsistency(m, n, mth(seen, 0, m), mth(kt_entries, 0, n),
                          Consistency(m, n).proof)
          <=> mth(seen, 0, m) = mth(kt_entries, 0, m)
    BY <2>1, <2>2, ConsistencyVerifies
  <2> QED BY <2>4, <2>5 DEF m
<1> QED BY <1>1, LogInvariance, PTL

\* As long as the log is not rewritten, it continues every log that the monitor
\* has had a head of, and there is no alarm.
QuietInv ==
  rewrites = 0 => /\ IsPrefix(seen, kt_entries)
                  /\ IsPrefix(inHand, kt_entries)
                  /\ verdict # "ALARM"

\* Every log continues the empty one.
LEMMA EmptyPrefix ==
  ASSUME NEW X, NEW s \in Seq(X)
  PROVE  IsPrefix(<<>>, s)
<1>1. <<>> \in Seq(X) /\ Len(<<>>) <= Len(s)
  OBVIOUS
<1>2. \A i \in 1 .. Len(<<>>) : <<>>[i] = s[i]
  OBVIOUS
<1> QED BY <1>1, <1>2, PrefixFacts

\* At first there is no log, and no alarm.
LEMMA QuietInit == Init => QuietInv
<1>1. <<>> \in Seq(Leaves)
  OBVIOUS
<1>2. IsPrefix(<<>>, <<>>)
  BY <1>1, EmptyPrefix
<1> QED BY <1>2 DEF Init, QuietInv

\* What continues a continuation continues the first.
LEMMA PrefixTrans ==
  ASSUME NEW X, NEW s \in Seq(X), NEW t \in Seq(X), NEW u \in Seq(X),
         IsPrefix(s, t), IsPrefix(t, u)
  PROVE  IsPrefix(s, u)
<1>1. Len(s) <= Len(t) /\ \A i \in 1 .. Len(s) : s[i] = t[i]
  BY PrefixFacts
<1>2. Len(t) <= Len(u) /\ \A i \in 1 .. Len(t) : t[i] = u[i]
  BY PrefixFacts
<1>3. \A i \in 1 .. Len(s) : s[i] = u[i]
  BY <1>1, <1>2
<1> QED BY <1>1, <1>2, <1>3, PrefixFacts

\* A log that is appended to continues what it continued.
LEMMA QuietAppend ==
  ASSUME LogInv, QuietInv, LogInv', IsPrefix(kt_entries, kt_entries'),
         UNCHANGED <<seen, inHand, verdict, rewrites>>
  PROVE  QuietInv'
<1> SUFFICES ASSUME rewrites = 0
             PROVE  IsPrefix(seen, kt_entries') /\ IsPrefix(inHand, kt_entries')
  BY DEF QuietInv
<1>1. /\ seen \in Seq(Leaves) /\ inHand \in Seq(Leaves)
      /\ kt_entries \in Seq(Leaves) /\ kt_entries' \in Seq(Leaves)
      /\ IsPrefix(seen, kt_entries) /\ IsPrefix(inHand, kt_entries)
  BY DEF LogInv, TypeOK, QuietInv
<1> QED BY <1>1, PrefixTrans

\* A run ends: without an alarm, the file and the log are of one history.
LEMMA QuietEnd ==
  ASSUME LogInv, QuietInv, UNCHANGED <<kt_entries, rewrites>>,
         inHand' = <<>>, seen' \in {seen, inHand, kt_entries},
         rewrites = 0 => verdict' # "ALARM"
  PROVE  QuietInv'
<1> SUFFICES ASSUME rewrites = 0
             PROVE  IsPrefix(seen', kt_entries) /\ IsPrefix(<<>>, kt_entries)
  BY DEF QuietInv
<1>1. kt_entries \in Seq(Leaves)
  BY DEF LogInv, TypeOK
<1> QED BY <1>1, EmptyPrefix, PrefixRefl DEF QuietInv

\* A head of a log that was not rewritten is neither shorter than the one that was
\* verified, nor of its size with another root.
LEMMA QuietFetchHead ==
  ASSUME LogInv, QuietInv, FetchHead
  PROVE  QuietInv'
<1> DEFINE sth == signSth(Len(kt_entries), RootOf(kt_entries))
<1>1. handleSth = sth
  BY LoadsTheLog
<1>2. UNCHANGED <<kt_entries, rewrites>>
  BY DEF FetchHead, log
<1>3. kt_entries \in Seq(Leaves) /\ seen \in Seq(Leaves)
  BY DEF LogInv, TypeOK
<1>4. ASSUME rewrites = 0, lastVerified # None
      PROVE  /\ ~(sth.size < lastVerified.size)
             /\ sth.size = lastVerified.size => SameRoot(lastVerified, sth)
  <2>1. lastVerified = signSth(Len(seen), RootOf(seen))
    BY <1>4 DEF LogInv, HeadsOfLogs
  <2>2. /\ lastVerified.size = Len(seen) /\ lastVerified.root = RootOf(seen)
        /\ sth.size = Len(kt_entries) /\ sth.root = RootOf(kt_entries)
    BY <2>1 DEF signSth
  <2>3. IsPrefix(seen, kt_entries)
    BY <1>4 DEF QuietInv
  <2>4. Len(seen) <= Len(kt_entries)
    BY <1>3, <2>3, PrefixFacts
  <2>5. Len(seen) = Len(kt_entries) => seen = kt_entries
    BY <1>3, <2>3, SamePrefix
  <2> HIDE DEF sth
  <2> QED BY <1>3, <2>2, <2>4, <2>5 DEF SameRoot
<1> HIDE DEF sth
<1>5. \/ Saves(sth, kt_entries, "BASELINE") \/ Saves(sth, kt_entries, "OK")
      \/ /\ lastVerified # None
         /\ \/ sth.size < lastVerified.size
            \/ sth.size = lastVerified.size /\ ~SameRoot(lastVerified, sth)
         /\ Ends("ALARM")
      \/ inHand' = kt_entries /\ UNCHANGED <<verdict, seen>>
  BY <1>1 DEF FetchHead
<1>6. CASE Saves(sth, kt_entries, "BASELINE") \/ Saves(sth, kt_entries, "OK")
  BY <1>2, <1>6, QuietEnd DEF Saves
<1>7. CASE /\ lastVerified # None
           /\ \/ sth.size < lastVerified.size
              \/ sth.size = lastVerified.size /\ ~SameRoot(lastVerified, sth)
           /\ Ends("ALARM")
  <2>1. rewrites # 0
    BY <1>4, <1>7
  <2> QED BY <1>2, <2>1 DEF QuietInv
<1>8. CASE inHand' = kt_entries /\ UNCHANGED <<verdict, seen>>
  <2>1. IsPrefix(kt_entries, kt_entries)
    BY <1>3, PrefixRefl
  <2> QED BY <1>2, <1>8, <2>1 DEF QuietInv
<1> QED BY <1>5, <1>6, <1>7, <1>8

\* Neither is a proof of such a log refused.
LEMMA QuietFetchProof ==
  ASSUME LogInv, QuietInv, FetchProof
  PROVE  QuietInv'
<1> DEFINE m == lastVerified.size
           n == head.size
           answer == Consistency(m, n)
           holds == /\ answer.firstRoot = lastVerified.root
                    /\ answer.secondRoot = head.root
                    /\ verifyConsistency(m, n, lastVerified.root, head.root,
                                         answer.proof)
<1>1. UNCHANGED <<kt_entries, rewrites>>
  BY DEF FetchProof, log
<1>2. ASSUME rewrites = 0, Accepts(m, n) PROVE holds
  <2>1. /\ lastVerified = signSth(Len(seen), RootOf(seen))
        /\ head = signSth(Len(inHand), RootOf(inHand))
        /\ Len(seen) < Len(inHand)
    BY DEF LogInv, HeadsOfLogs, FetchProof
  <2>2. /\ m = Len(seen) /\ lastVerified.root = RootOf(seen)
        /\ n = Len(inHand) /\ head.root = RootOf(inHand)
    BY <2>1 DEF signSth
  <2>3. /\ kt_entries \in Seq(Leaves) /\ seen \in Seq(Leaves)
        /\ inHand \in Seq(Leaves)
    BY DEF LogInv, TypeOK
  <2>4. IsPrefix(seen, kt_entries) /\ IsPrefix(inHand, kt_entries)
    BY <1>2 DEF QuietInv
  <2>5. /\ 0 < Len(seen) /\ Len(seen) < Len(inHand)
        /\ Len(inHand) <= Len(kt_entries)
    BY <1>2, <2>2 DEF Accepts
  <2>6. seen # <<>> /\ inHand # <<>> /\ Len(seen) <= Len(kt_entries)
    BY <2>3, <2>5
  <2>7. /\ RootOf(seen) = mth(kt_entries, 0, Len(seen))
        /\ RootOf(inHand) = mth(kt_entries, 0, Len(inHand))
    BY <2>3, <2>4, <2>5, <2>6, RootOfFirst
  <2> DEFINE i == Len(seen)
             j == Len(inHand)
  <2>8. i \in 1 .. Len(kt_entries) /\ j \in 1 .. Len(kt_entries) /\ i < j
    BY <2>3, <2>5
  <2> HIDE DEF i, j
  <2>9. verifyConsistency(i, j, RootOf(seen), RootOf(inHand),
                          Consistency(i, j).proof)
    <3>1. verifyConsistency(i, j, RootOf(seen), mth(kt_entries, 0, j),
                            Consistency(i, j).proof)
            <=> RootOf(seen) = mth(kt_entries, 0, i)
      BY <2>3, <2>8, ConsistencyVerifies
    <3> QED BY <2>7, <3>1 DEF i, j
  <2>10. /\ Consistency(i, j).firstRoot = RootOf(seen)
         /\ Consistency(i, j).secondRoot = RootOf(inHand)
    BY <2>7 DEF Consistency, i, j
  <2> QED BY <2>2, <2>9, <2>10 DEF i, j
<1>3. \/ Ends("ERROR")
      \/ Accepts(m, n) /\ ~holds /\ Ends("ALARM")
      \/ Saves(head, inHand, "OK")
  BY DEF FetchProof
<1> HIDE DEF m, n, holds
<1>4. CASE Ends("ERROR")
  BY <1>1, <1>4, QuietEnd DEF Ends
<1>5. CASE Accepts(m, n) /\ ~holds /\ Ends("ALARM")
  <2>1. rewrites # 0
    BY <1>2, <1>5
  <2> QED BY <1>1, <2>1 DEF QuietInv
<1>6. CASE Saves(head, inHand, "OK")
  BY <1>1, <1>6, QuietEnd DEF Saves
<1> QED BY <1>3, <1>4, <1>5, <1>6

\* Every step keeps that.
LEMMA QuietStep ==
  ASSUME LogInv, QuietInv, [Next]_vars
  PROVE  QuietInv'
<1>1. ASSUME NEW event \in Event, HandleAppend(event) PROVE QuietInv'
  <2>1. UNCHANGED <<seen, inHand, verdict, rewrites>>
    BY <1>1 DEF HandleAppend, monitor
  <2> QED BY <1>1, <2>1, HandleAppendStep, QuietAppend
<1>2. ASSUME NEW event \in Event, AppendUncached(event) PROVE QuietInv'
  <2>1. UNCHANGED <<seen, inHand, verdict, rewrites>>
    BY <1>2 DEF AppendUncached, monitor
  <2> QED BY <1>2, <2>1, AppendUncachedStep, QuietAppend
<1>3. ASSUME NEW k \in 0 .. Len(kt_entries) - 1, Rewrite(k) PROVE QuietInv'
  <2>1. rewrites' = rewrites + 1 /\ rewrites \in Nat
    BY <1>3 DEF Rewrite, LogInv, TypeOK
  <2>2. rewrites' # 0
    BY <2>1
  <2> QED BY <2>2 DEF QuietInv
<1>4. ASSUME RequestFails PROVE QuietInv'
  <2>1. Ends("ERROR") /\ UNCHANGED <<kt_entries, rewrites>>
    BY <1>4 DEF RequestFails, log
  <2> QED BY <2>1, QuietEnd DEF Ends
<1>5. ASSUME EpochTurns \/ UNCHANGED vars PROVE QuietInv'
  <2>1. UNCHANGED <<kt_entries, seen, inHand, verdict, rewrites>>
    BY <1>5 DEF EpochTurns, vars, log, monitor
  <2> QED BY <2>1 DEF QuietInv
<1> QED BY <1>1, <1>2, <1>3, <1>4, <1>5, QuietFetchHead, QuietFetchProof
        DEF Next

\* The monitor raises no alarm, and the object misses none of its entries in
\* its tree (KeyTransparencyDO.ts:234), unless the log was rewritten.
THEOREM NoFalseAlarm == Spec => []EvidenceForAReason
<1>1. LogInv /\ QuietInv => EvidenceForAReason
  <2>1. ASSUME LogInv, NEW seq \in DOMAIN kt_entries
        PROVE  proofResponse(seq) = "proof"
    <3>1. loadTreeForSize(Len(kt_entries)) = kt_entries
      BY <2>1, LoadsTheLog
    <3>2. kt_entries[seq] \in Range(kt_entries)
      BY <2>1 DEF Range
    <3> QED BY <3>1, <3>2 DEF proofResponse
  <2> QED BY <2>1 DEF EvidenceForAReason, QuietInv
<1>2. LogInv /\ QuietInv /\ [Next]_vars => QuietInv'
  BY QuietStep
<1> QED BY <1>1, <1>2, QuietInit, LogInvariance, PTL DEF Spec

=============================================================================
