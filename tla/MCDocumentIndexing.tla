-------------------------- MODULE MCDocumentIndexing --------------------------
EXTENDS DocumentIndexing, TLC

CallSymmetry == Permutations(Calls)
===============================================================================
