--------------------------- MODULE MCBoundedQueue ---------------------------
(***************************************************************************)
(* Instances of BoundedQueue for TLC.  Two producers are what the races of *)
(* _handle_full need, two closers what the check-then-set of shutdown()    *)
(* needs; spans are symmetric within their criticality.                    *)
(***************************************************************************)
EXTENDS BoundedQueue, TLC

Symmetry ==
    Permutations(Producers) \cup Permutations(Closers) \cup
    Permutations(Critical) \cup Permutations(Spans \ Critical)
=============================================================================
