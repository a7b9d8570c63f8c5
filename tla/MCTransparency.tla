--------------------------- MODULE MCTransparency ---------------------------
\* The instance of Transparency for TLC.  The algorithms, which its small logs
\* reach in few sizes only, are compared on longer ones as well.
EXTENDS Transparency

\* A log of n entries that was rewritten after the first k.
LogOf(n, k) == [i \in 1 .. n |-> Leaf(IF i <= k THEN "old" ELSE "new", i)]

\* LeanIMT and the Merkle tree hash agree on the shape of every tree, and a
\* proof of a log verifies against the head of another iff that is its prefix.
ASSUME AlgorithmsAgree ==
  \A n \in 1 .. 9 :
    LET leaves == LogOf(n, 0)
    IN  /\ LeanRoot(leaves) = mth(leaves, 0, n)
        /\ \A m \in 1 .. n - 1, k \in 0 .. 9 :
             verifyConsistency(m, n, mth(LogOf(m, k), 0, m), mth(leaves, 0, n),
                               consistencyProof(m, leaves))
               <=> k = 0

=============================================================================
