----------------------------- MODULE MCPlanning -----------------------------
(***************************************************************************)
(* Small instances of NodeRuns for TLC: a prototype node and a research    *)
(* node, and one or two nodes that may be drawn.                           *)
(***************************************************************************)
EXTENDS NodeRuns, TLC

CONSTANTS p1, r1, g1

MCKind == [n \in Node |-> CASE n = p1 -> "prototype"
                            [] n = r1 -> "research"
                            [] OTHER -> "grilling"]

MCCaller == Handler \cup Node

\* A decision that edits the document and draws what was in the fog, and one
\* that rules something out and settles the research it no longer needs.
MCBundles ==
    {[NoBundle EXCEPT !.doc = "yes", !.grad = 1, !.fog = "no"],
     [NoBundle EXCEPT !.out = 1, !.upd = {<<r1, "out_of_scope">>}]}
=============================================================================
