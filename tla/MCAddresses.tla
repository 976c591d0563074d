----------------------------- MODULE MCAddresses -----------------------------
EXTENDS Addresses, TLC

Symmetry ==
  Permutations(Names) \cup Permutations(Shares)
    \cup Permutations(Fees) \cup Permutations(Mints)

=============================================================================
