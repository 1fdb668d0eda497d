----------------------------- MODULE MCExecutor -----------------------------
(***************************************************************************)
(* Small instances of CalmExecutor for TLC.                                *)
(***************************************************************************)
EXTENDS CalmExecutor, TLC

CONSTANTS e1, t1, t2, t3, s1

\* t2 waits for t1; t3 is the change task a reviewer's comment may lead to.
MCParent == [t \in EpicTask |-> e1]
MCBlockers == [t \in EpicTask |-> IF t = t2 THEN {t1} ELSE {}]

WorkerSymmetry == Permutations(Worker)
=============================================================================
