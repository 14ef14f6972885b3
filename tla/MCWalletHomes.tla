---------------------------- MODULE MCWalletHomes ----------------------------
\* Instances of WalletHomes.
EXTENDS WalletHomes, TLC

\* Moves and operations are interchangeable.
Symmetry == Permutations(Moves) \cup Permutations(Ops)
==============================================================================
