------------------------------ MODULE MCINodeDB ------------------------------
EXTENDS INodeDB, TLC

CONSTANTS c1, c2

MCClient == {c1, c2}
ClientSymmetry == Permutations(MCClient)
=============================================================================
