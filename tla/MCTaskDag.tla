----------------------------- MODULE MCTaskDag -----------------------------
EXTENDS TaskDag, TLC

TaskSymmetry == Permutations(Task)
=============================================================================
