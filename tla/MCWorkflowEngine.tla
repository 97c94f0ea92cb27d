--------------------------- MODULE MCWorkflowEngine ---------------------------
EXTENDS WorkflowEngine, TLC

Symmetry == Permutations(Calls) \cup Permutations(Runs)
===============================================================================
