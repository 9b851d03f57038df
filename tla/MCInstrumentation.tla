-------------------------- MODULE MCInstrumentation --------------------------
(***************************************************************************)
(* Four runs.  LangGraph: a chain with two model calls, and a call of the  *)
(* agent itself.  CrewAI: a crew, a task in it, a knowledge retrieval and a *)
(* human feedback in that.  LiteLLM: a traced block with two model calls.  *)
(* Two traced blocks that share one object, with a call in each.           *)
(***************************************************************************)
EXTENDS Instrumentation, TLC

CONSTANTS r1, r2, r3, r4, c1, c2

Four(a, b, c, d) == r1 :> a @@ r2 :> b @@ r3 :> c @@ r4 :> d

MCKind == [d \in Deployments |->
  CASE d = "langgraph" -> Four("chain", "llm", "llm", "direct")
    [] d = "crewai" -> Four("crew", "task", "knowledge", "feedback")
    [] d = "litellm" -> Four("traced", "llm", "llm", "unused")
    [] d = "traced" -> Four("traced", "traced", "direct", "direct")]

MCParent == [d \in Deployments |->
  CASE d = "langgraph" -> Four(NoRun, r1, r1, NoRun)
    [] d = "crewai" -> Four(NoRun, r1, r2, r2)
    [] d = "litellm" -> Four(NoRun, r1, r1, NoRun)
    [] d = "traced" -> Four(NoRun, NoRun, r1, r2)]

MCCtx == [d \in Deployments |->
  CASE d = "traced" -> Four(c1, c2, c1, c2)
    [] OTHER -> Four(c1, c1, c1, c1)]
=============================================================================
