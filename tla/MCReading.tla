------------------------------ MODULE MCReading ------------------------------
(***************************************************************************)
(* Two worlds.  Four trajectories in one period, of which one moves to an  *)
(* earlier start within it when its root arrives, one to a start before    *)
(* it, three start at the same time, one is of two customers and one of    *)
(* another; a span of each of two of them expires, and may come again.     *)
(* And one trajectory under every regime, with a wrong link, a span stored *)
(* twice and two of most kinds.                                            *)
(***************************************************************************)
EXTENDS Reading, TLC

CONSTANTS a1, a2, c1, d1, e1, e2,
          n1, n2, n3, n4, n5, n6, n7, n8, n9, n10, n11,
          t1, t3, t4, t5, t6, alice, bob, gpt, llama, card1, card2

Listed == {a1, a2, c1, d1, e1, e2}
Noticed == {n1, n2, n3, n4, n5, n6, n7, n8, n9, n10, n11}

MCTraj == [s \in Spans |->
  CASE s \in {a1, a2} -> t1 [] s = c1 -> t3 [] s = d1 -> t4
    [] s \in {e1, e2} -> t5 [] OTHER -> t6]
MCTrajRank == t1 :> 1 @@ t3 :> 3 @@ t4 :> 4 @@ t5 :> 5 @@ t6 :> 6

\* n8 is a second document of the span of n7.
MCSpanId == [s \in Spans |-> IF s = n8 THEN n7 ELSE s]

MCStart == [s \in Spans |->
  CASE s = e1 -> 1 [] s = a1 -> 2 [] s \in {c1, d1, e2} -> 3 [] s = a2 -> 4
    [] OTHER -> 3]
MCRank ==
  e1 :> 1 @@ a1 :> 2 @@ c1 :> 4 @@ d1 :> 5 @@ e2 :> 6 @@ n1 :> 7 @@ n2 :> 8 @@
  n3 :> 9 @@ n4 :> 10 @@ n5 :> 11 @@ n6 :> 12 @@ n7 :> 13 @@ n8 :> 14 @@ n9 :> 15 @@
  n10 :> 16 @@ n11 :> 17 @@ a2 :> 18

MCParent == [s \in Spans |->
  CASE s = a2 -> a1 [] s = e2 -> e1 [] s = n6 -> n2 [] s \in Noticed \ {n1} -> n1 [] OTHER -> None]
\* n4 recorded the hash of something else than its parent.
MCParentHash == [s \in Spans |-> IF s = n4 THEN n2 ELSE MCParent[s]]
MCTenant == [s \in Spans |-> IF s \in {a2, d1} THEN bob ELSE alice]

Span(kind, regimes) == [kind |-> kind, regimes |-> regimes, labelled |-> TRUE]
Call(model, card, reasons) ==
  Span("model_call", {"ECOA", "SR_11-7"}) @@
  [model |-> model, card |-> card, reasons |-> reasons, known |-> TRUE,
   template |-> TRUE, answered |-> TRUE, measured |-> TRUE]
Plan(chosen) == Span("planner_step", {"ECOA"}) @@ [chosen |-> chosen, outcome |-> FALSE]
Check(policy, result) ==
  Span("policy_check", {"BSA_AML"}) @@ [policy |-> policy, result |-> result]
Effect(success) == Span("side_effect", {}) @@ [document |-> TRUE, success |-> success]

MCBody ==
  a1 :> (Span("human_approval", {"ECOA"}) @@ [outcome |-> FALSE]) @@
  a2 :> Call(gpt, card2, {}) @@ c1 :> (Call(llama, None, {}) @@ [outcome |-> FALSE]) @@
  d1 :> (Call(gpt, None, {}) @@ [outcome |-> FALSE]) @@
  e1 :> (Check("aml", "fail") @@ [outcome |-> FALSE]) @@ e2 :> Call(gpt, card1, {}) @@
  n1 :> Plan(FALSE) @@ n2 :> Plan(TRUE) @@
  n3 :> Call(gpt, card1, {"high_dti"}) @@ n4 :> Call(gpt, card1, {"x17"}) @@
  n5 :> (Span("retrieval", {}) @@ [source |-> TRUE]) @@
  n6 :> Check("aml", "pass") @@ n7 :> Check("ecoa", "pass") @@ n8 :> Check("ecoa", "warn") @@
  n9 :> Effect(TRUE) @@ n10 :> Effect(FALSE) @@ n11 :> Span("human_approval", {})

MCRegistry ==
  << [card |-> None, covers |-> {gpt}, fields |-> {"intended_use"}],
     [card |-> card2, covers |-> {}, fields |-> Columns] >>

Ask(kind, scope, tenant) == [kind |-> kind, scope |-> scope, tenant |-> tenant]
MCWorlds ==
  { [posted |-> Listed,
     requests |-> {Ask("list", alice, None), Ask("list", None, alice),
                   Ask("stats", alice, None)}],
    [posted |-> Noticed, requests |-> {}] }
=============================================================================
