----------------------------- MODULE MCAuthSessions -----------------------------
EXTENDS AuthSessions, TLC

CallSymmetry == Permutations(Calls)
================================================================================
