-------------------------- MODULE MCPairingServer --------------------------
EXTENDS PairingServer, TLC

\* The threads of one role run the same code and are only told apart.
ThreadSymmetry == Permutations(Leaders) \cup Permutations(Followers)
=============================================================================
