---------------------------- MODULE Transparency ----------------------------
(***************************************************************************)
(* The public log of the directory and its auditor: KeyTransparencyDO with *)
(* its tree cache, the signed tree head (sth.ts), the consistency proofs   *)
(* (merkleConsistency.ts), the public routes in front of them (index.ts),  *)
(* and scripts/kt-monitor.mts, which runs again and again against them and *)
(* remembers, in a file of its own, the last head it has verified.         *)
(*                                                                         *)
(* A run of the monitor makes one request for the head and, if the log     *)
(* grew, one for a proof; the log may change in between.  The model adds   *)
(* what the monitor is there to notice: the log is rewritten.              *)
(*                                                                         *)
(* A hash is the term it is computed from: a leaf is a triple, an inner    *)
(* node a pair, so hashes of different terms differ.  Signatures verify.   *)
(***************************************************************************)
EXTENDS Integers, SequencesExt

CONSTANTS
  None,                             \* nothing verified; no head in hand
  Event,                            \* what an entry says: event, name and key
  CONSISTENCY_RATE_LIMIT_PER_EPOCH, \* proofs per pair of sizes in an epoch
  MaxSize,                          \* bound of the model: entries of the log
  MaxRewrites,                      \* bound of the model: times it is cut
  MaxFaults                         \* bound of the model: requests that fail,
                                    \* and writes of the cache that do

ASSUME TransparencyAssumption ==
  /\ CONSISTENCY_RATE_LIMIT_PER_EPOCH \in Nat \ {0}
  /\ MaxSize \in Nat
  /\ MaxRewrites \in Nat
  /\ MaxFaults \in Nat

VARIABLES
  kt_entries,     \* the leaves of the log, in the order of their seq
  kt_tree_cache,  \* the leaves of the tree that is cached; <<>> without a row
  asked,          \* RateGateDO: asked[<<first, second>>] in this epoch, counted
                  \* up to one over the limit
  lastVerified,   \* the head in the monitor's file
  head,           \* the head of this run, while it awaits the proof
  verdict,        \* the last line of the monitor's history
  seen,           \* history: the log of which lastVerified was the head
  inHand,         \* history: the log of which head was
  rewrites,       \* history: number of rewrites
  faults          \* history: number of faults

log == <<kt_entries, kt_tree_cache>>
monitor == <<lastVerified, head, verdict, seen, inHand>>
vars == <<log, asked, monitor, rewrites, faults>>

Sizes == 0 .. MaxSize

Init ==
  /\ kt_entries = <<>>
  /\ kt_tree_cache = <<>>
  /\ asked = [p \in Sizes \X Sizes |-> 0]
  /\ lastVerified = None
  /\ head = None
  /\ verdict = "NONE"
  /\ seen = <<>>
  /\ inHand = <<>>
  /\ rewrites = 0
  /\ faults = 0

-----------------------------------------------------------------------------
(* Trees *)

\* The preimage of a leaf has the seq of its entry.
Leaf(event, seq) == <<"leaf", event, seq>>

ktCombine(a, b) == <<a, b>>

largestPowerOfTwoBelow(n) ==
  LET f[k \in Nat \ {0}] == IF k * 2 < n THEN f[k * 2] ELSE k IN f[1]

\* The level above a level of the tree: a node without a right sibling is
\* carried up.
Up(s) ==
  [i \in 1 .. (Len(s) + 1) \div 2 |->
     IF 2 * i <= Len(s) THEN ktCombine(s[2 * i - 1], s[2 * i]) ELSE s[2 * i - 1]]

\* LeanIMT: level by level.
LeanRoot(leaves) ==
  LET level[k \in Nat] == IF k = 0 THEN leaves ELSE Up(level[k - 1])
  IN  level[Len(leaves)][1]

\* An empty list of leaves has no hash.
Slices == {r \in Nat \X Nat : r[1] < r[2]}

\* The Merkle tree hash of leaves lo + 1 .. hi.
mth(leaves, lo, hi) ==
  LET hash[r \in Slices] ==
        LET k == largestPowerOfTwoBelow(r[2] - r[1])
        IN  IF r[2] - r[1] = 1 THEN leaves[r[2]]
            ELSE ktCombine(hash[<<r[1], r[1] + k>>], hash[<<r[1] + k, r[2]>>])
  IN  hash[<<lo, hi>>]

\* A part of some leaves, not none, and whether the verifier has its root.
Parts == {r \in Nat \X Nat \X Nat \X BOOLEAN : 0 < r[1] /\ r[1] <= r[3] - r[2]}

\* consistencyProof, with subProof: the subtrees that lead from the root of the
\* first m leaves to the root of them all.  The verifier has the root of the
\* small tree as long as that has not been split.
consistencyProof(m, leaves) ==
  LET sub[r \in Parts] ==
        LET lo == r[2]  hi == r[3]
            k  == largestPowerOfTwoBelow(hi - lo)
        IN  IF r[1] = hi - lo
            THEN IF r[4] THEN <<>> ELSE <<mth(leaves, lo, hi)>>
            ELSE IF r[1] <= k
            THEN Append(sub[<<r[1], lo, lo + k, r[4]>>],
                        mth(leaves, lo + k, hi))
            ELSE Append(sub[<<r[1] - k, lo + k, hi, FALSE>>],
                        mth(leaves, lo, lo + k))
  IN  sub[<<m, 0, Len(leaves), TRUE>>]

\* The way from leaf m - 1 of n up to the root, after the levels where it is a
\* right child: the side on which each hash of the proof is combined.
Climb(m, n) ==
  LET strip[p \in Nat \X Nat] ==
        IF p[1] % 2 = 1 THEN strip[<<p[1] \div 2, p[2] \div 2>>] ELSE p
      sides[p \in Nat \X Nat] ==
        IF p[1] = 0 /\ p[2] = 0 THEN <<>>
        ELSE (IF p[1] % 2 = 1 THEN <<"left">>
              ELSE IF p[1] < p[2] THEN <<"right">> ELSE <<>>)
             \o sides[<<p[1] \div 2, p[2] \div 2>>]
      start == strip[<<m - 1, n - 1>>]
  IN  [atEdge |-> start[1] = 0, sides |-> sides[start]]

\* The old root takes the hashes on the left only.
oldRoot(base, used, sides) ==
  LET fr[i \in Nat] == IF i = 0 THEN base
                       ELSE IF sides[i] = "left" THEN ktCombine(used[i], fr[i - 1])
                       ELSE fr[i - 1]
  IN  fr[Len(sides)]

newRoot(base, used, sides) ==
  LET sr[i \in Nat] == IF i = 0 THEN base
                       ELSE IF sides[i] = "left" THEN ktCombine(used[i], sr[i - 1])
                       ELSE ktCombine(sr[i - 1], used[i])
  IN  sr[Len(sides)]

\* Both roots are computed from the bottom up.
verifyConsistency(m, n, rootM, rootN, proof) ==
  LET way  == Climb(m, n)
      used == IF way.atEdge THEN proof ELSE Tail(proof)
      base == IF way.atEdge THEN rootM ELSE proof[1]
  IN  /\ 0 < m /\ m <= n
      /\ IF m = n THEN proof = <<>> /\ rootM = rootN
         ELSE /\ way.atEdge \/ proof # <<>>
              /\ Len(used) = Len(way.sides)
              /\ oldRoot(base, used, way.sides) = rootM
              /\ newRoot(base, used, way.sides) = rootN

-----------------------------------------------------------------------------
(* KeyTransparencyDO *)

\* Mutant: whatever tree is cached.
TreeAsCached(n) == IF kt_tree_cache # <<>> THEN kt_tree_cache ELSE kt_entries

\* The cached tree if it is of the size that is asked for, or one that is built
\* from the table.
loadTreeForSize(n) ==
  IF Len(kt_tree_cache) = n THEN kt_tree_cache ELSE kt_entries

\* A signature is of the size and the root together, and verifies for no others.
signSth(size, root) == [size |-> size, root |-> root]

\* The root of the log as it is now.
currentRoot ==
  IF kt_entries = <<>> THEN <<>> ELSE LeanRoot(loadTreeForSize(Len(kt_entries)))

\* GET /sth: the head of the log, signed.
handleSth == signSth(Len(kt_entries), currentRoot)

\* GET /proof/:seq and /latest/:key: an entry is proved to be in the tree.
proofResponse(seq) ==
  IF kt_entries[seq] \in Range(loadTreeForSize(Len(kt_entries)))
  THEN "proof" ELSE "append-only invariant violated"

\* handleAppend, called by AliasDO.
HandleAppend(event) ==
  /\ Len(kt_entries) < MaxSize
  /\ LET leaf == Leaf(event, Len(kt_entries) + 1)
     IN  /\ kt_entries' = Append(kt_entries, leaf)
         /\ kt_tree_cache' = Append(loadTreeForSize(Len(kt_entries)), leaf)
  /\ UNCHANGED <<asked, monitor, rewrites, faults>>

\* The entry is in the table, and then the tree is too long for a row or the
\* write fails otherwise: AliasDO is told of an error.
AppendUncached(event) ==
  /\ faults < MaxFaults
  /\ Len(kt_entries) < MaxSize
  /\ kt_entries' = Append(kt_entries, Leaf(event, Len(kt_entries) + 1))
  /\ faults' = faults + 1
  /\ UNCHANGED <<kt_tree_cache, asked, monitor, rewrites>>

\* The log is cut after its first k entries, and goes on from there.
Rewrite(k) ==
  /\ rewrites < MaxRewrites
  /\ kt_entries' = SubSeq(kt_entries, 1, k)
  /\ kt_tree_cache' = SubSeq(kt_tree_cache, 1, Min({k, Len(kt_tree_cache)}))
  /\ rewrites' = rewrites + 1
  /\ UNCHANGED <<asked, monitor, faults>>

\* Mutant: the entries that were appended since are part of the proof.
ConsistencyOfNow(first, second) ==
  [firstRoot  |-> mth(kt_entries, 0, first),
   secondRoot |-> mth(kt_entries, 0, Len(kt_entries)),
   proof      |-> consistencyProof(first, kt_entries)]

\* handleConsistency for sizes that it accepts: of the entries, not the cache.
Consistency(first, second) ==
  [firstRoot  |-> mth(kt_entries, 0, first),
   secondRoot |-> mth(kt_entries, 0, second),
   proof      |-> consistencyProof(first, SubSeq(kt_entries, 1, second))]

\* Mutant: the whole log is too much.
AcceptsShorter(first, second) ==
  0 < first /\ first < second /\ second < Len(kt_entries)

Accepts(first, second) ==
  0 < first /\ first < second /\ second <= Len(kt_entries)

-----------------------------------------------------------------------------
(* The monitor *)

\* A run ends without touching its file: with an alarm, or because a request
\* failed.  The next run starts over from the same file.
Ends(line) ==
  /\ verdict' = line
  /\ head' = None /\ inHand' = <<>>
  /\ UNCHANGED <<lastVerified, seen>>

\* A run ends and saves the head it has verified.
Saves(sth, leaves, line) ==
  /\ lastVerified' = sth
  /\ seen' = leaves
  /\ verdict' = line
  /\ head' = None /\ inHand' = <<>>

\* Mutant: a size that did not change needs no look at the root.
SameSize(prev, sth) == TRUE

\* At an unchanged size, the root must be the one that was verified.
SameRoot(prev, sth) == sth.root = prev.root

\* The run fetches the head of the log.
FetchHead ==
  /\ head = None
  /\ LET prev == lastVerified
         sth  == handleSth
     IN  IF prev = None THEN Saves(sth, kt_entries, "BASELINE")
         ELSE IF sth.size < prev.size THEN Ends("ALARM")
         ELSE IF sth.size = prev.size
         THEN IF SameRoot(prev, sth) THEN Saves(sth, kt_entries, "OK")
                                     ELSE Ends("ALARM")
         ELSE /\ head' = sth /\ inHand' = kt_entries
              /\ UNCHANGED <<lastVerified, verdict, seen>>
  /\ UNCHANGED <<log, asked, rewrites, faults>>

\* GET /transparency/consistency counts the requests for a pair of sizes.
Allowed(sizes) == asked[sizes] < CONSISTENCY_RATE_LIMIT_PER_EPOCH

\* The log grew, and the run demands a proof.  The route may refuse; the object
\* refuses sizes it does not have, and an old size of none.
FetchProof ==
  /\ head # None
  /\ LET prev  == lastVerified
         sizes == <<prev.size, head.size>>
         answer == Consistency(prev.size, head.size)
     IN  IF ~Allowed(sizes)
         THEN Ends("ERROR") /\ UNCHANGED asked
         ELSE /\ asked' = [asked EXCEPT ![sizes] = @ + 1]
              /\ IF ~Accepts(prev.size, head.size) THEN Ends("ERROR")
                 ELSE IF /\ answer.firstRoot = prev.root
                         /\ answer.secondRoot = head.root
                         /\ verifyConsistency(prev.size, head.size, prev.root,
                                              head.root, answer.proof)
                 THEN Saves(head, inHand, "OK")
                 ELSE Ends("ALARM")
  /\ UNCHANGED <<log, rewrites, faults>>

\* A request of the run fails.
RequestFails ==
  /\ faults < MaxFaults
  /\ faults' = faults + 1
  /\ Ends("ERROR")
  /\ UNCHANGED <<log, asked, rewrites>>

\* The counters are those of an object per epoch.
EpochTurns ==
  /\ asked' = [p \in Sizes \X Sizes |-> 0]
  /\ UNCHANGED <<log, monitor, rewrites, faults>>

Next ==
  \/ \E event \in Event : HandleAppend(event) \/ AppendUncached(event)
  \/ \E k \in 0 .. Len(kt_entries) - 1 : Rewrite(k)
  \/ FetchHead \/ FetchProof \/ RequestFails \/ EpochTurns

\* The monitor is run again and again, and the epochs turn.
Fairness ==
  WF_vars(FetchHead) /\ WF_vars(FetchProof) /\ WF_vars(EpochTurns)

Spec == Init /\ [][Next]_vars /\ Fairness

-----------------------------------------------------------------------------
(* Properties *)

\* There is evidence against the log only if it was rewritten: neither does
\* the monitor raise an alarm, nor does the object miss an entry in its own
\* tree ("append-only invariant violated", KeyTransparencyDO.ts:234), because
\* the log grew between two requests, a write of the cache failed, or the tree
\* of the cache and the tree of the proofs have different shapes.
EvidenceForAReason ==
  rewrites = 0 =>
    /\ verdict # "ALARM"
    /\ \A seq \in DOMAIN kt_entries : proofResponse(seq) = "proof"

\* A rewritten log is noticed (kt-monitor.mts:143): the log of a head that the
\* monitor accepts is a continuation of the log of the head before, whenever
\* the rewrite happened.
RewriteIsNoticed == [][lastVerified # None => IsPrefix(seen, seen')]_vars

\* A proof decides (merkleConsistency.ts:36, "a genuine append-only prefix"):
\* one that the object gives for the size that was verified last, and a later
\* one, verifies against the root the monitor has, if and only if the log
\* continues the one it saw.
ProofDecides ==
  LET m == Len(seen)
  IN  \A n \in m + 1 .. Len(kt_entries) :
        m > 0 =>
          (verifyConsistency(m, n, mth(seen, 0, m), mth(kt_entries, 0, n),
                             Consistency(m, n).proof)
             <=> IsPrefix(seen, kt_entries))

\* The monitor catches up with the log, whatever requests failed, or were
\* refused in an epoch: unless the log was rewritten, or the monitor was first
\* run on an empty log, of which no proof is ever given
\* (KeyTransparencyDO.ts:265).
CatchesUpUnlessBaselineEmpty ==
  <>[](\/ rewrites > 0
       \/ /\ lastVerified # None
          /\ lastVerified.size \in {0, Len(kt_entries)})

=============================================================================
