------------------------------ MODULE MCStage ------------------------------
(***************************************************************************)
(* A small instance of Stage for TLC: one stage of a walk, whose viewer    *)
(* subscribes to a channel that holds one frame.                           *)
(***************************************************************************)
EXTENDS Stage, TLC
=============================================================================
