------------------------------ MODULE MCIngest ------------------------------
(***************************************************************************)
(* An instance of Ingest for TLC: a root, its child, the child closed a    *)
(* second time (same row key, other content), the child under another      *)
(* start time, a child with a stale parent hash, and a document whose hash *)
(* does not match.                                                         *)
(***************************************************************************)
EXTENDS Ingest, TLC

DocSet == {"root", "child", "again", "moved", "stale", "broken"}

IdOf == [d \in DocSet |-> IF d \in {"child", "again", "moved"} THEN "child" ELSE d]
RowKeyOf == [d \in DocSet |-> IF d = "again" THEN "child" ELSE d]
HashOf == [d \in DocSet |-> d]
ParentOf == [d \in DocSet |-> IF d \in {"root", "broken"} THEN "none" ELSE "root"]
ParentHashOf == [d \in DocSet |-> IF d \in {"stale", "broken"} THEN "other" ELSE "root"]
DefectOf == [d \in DocSet |-> IF d = "broken" THEN "LE003" ELSE "none"]

BatchSet == {<<"child", "root">>, <<"again", "stale">>, <<"child", "again">>,
             <<"broken", "moved">>}

Symmetry == Permutations(Requests)
=============================================================================
