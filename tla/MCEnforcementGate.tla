-------------------------- MODULE MCEnforcementGate --------------------------
(***************************************************************************)
(* Instances of EnforcementGate and of HoldQueue for TLC.  Two calls with  *)
(* different failure modes, two reviewers (what a lost update needs), two  *)
(* polls.                                                                  *)
(***************************************************************************)
EXTENDS EnforcementGate, TLC

CONSTANTS open, closed

ModeOf == [c \in Holds |-> IF c = open THEN "fail_open"
                          ELSE IF c = closed THEN "fail_closed" ELSE "fail_to_human"]

Symmetry == Permutations(Reviewers)
=============================================================================
