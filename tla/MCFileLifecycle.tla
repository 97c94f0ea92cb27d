---------------------------- MODULE MCFileLifecycle ----------------------------
EXTENDS FileLifecycle, TLC

CallSymmetry == Permutations(Calls)
================================================================================
