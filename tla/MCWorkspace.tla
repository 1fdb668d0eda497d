---------------------------- MODULE MCWorkspace ----------------------------
(***************************************************************************)
(* A small instance of Workspace for TLC: an epic with a base branch of    *)
(* its own and a standalone task of the same project.                      *)
(***************************************************************************)
EXTENDS Workspace, TLC

CONSTANTS e1, t1, main, release

MCEpicBase == (e1 :> release) @@ (t1 :> NoBase)
=============================================================================
