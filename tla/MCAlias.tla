------------------------------- MODULE MCAlias -------------------------------
\* The instance of Alias for TLC: owners are interchangeable.
EXTENDS Alias, TLC

OwnerSymmetry == Permutations(Owner)

=============================================================================
