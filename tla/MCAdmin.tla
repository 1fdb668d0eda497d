------------------------------ MODULE MCAdmin ------------------------------
(***************************************************************************)
(* A small instance of Admin for TLC: two users, two requests of user      *)
(* management, two that edit settings and one of anybody else at a time;   *)
(* claude and pi, for a slot of planning and one of the pipeline.          *)
(***************************************************************************)
EXTENDS Admin, TLC

AdaAndBob == <<"ada", "bob">>
=============================================================================
