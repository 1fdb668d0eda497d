------------------------------ MODULE MCLease ------------------------------
(***************************************************************************)
(* Small instances of Lease for TLC.  Workers and items are                *)
(* interchangeable, so both are symmetry sets.                             *)
(***************************************************************************)
EXTENDS CalmLease, TLC

Symmetry == Permutations(Worker) \cup Permutations(Item)
=============================================================================
