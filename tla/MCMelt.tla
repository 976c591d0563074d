------------------------------- MODULE MCMelt -------------------------------
EXTENDS Melt, TLC

Symmetry == Permutations(Notes) \cup Permutations(Hashes)

=============================================================================
