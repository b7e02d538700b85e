------------------------------- MODULE MCKeys -------------------------------
EXTENDS KeyService, TLC
Symmetry == Permutations(Client) \cup Permutations(Nonce)
=============================================================================
