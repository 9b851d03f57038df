---------------------------- MODULE MCSpanBuilder ----------------------------
(***************************************************************************)
(* An instance of SpanBuilder for TLC: four spans are a root, two levels   *)
(* below it and a sibling, or two trees; a third task can outlive a second *)
(* one that outlives the first.                                            *)
(***************************************************************************)
EXTENDS SpanBuilder, TLC

Symmetry == Permutations(Spans) \cup Permutations(Tasks)
=============================================================================
