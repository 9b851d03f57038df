CONSTANTS
  r1 = r1
  r2 = r2
  r3 = r3
  r4 = r4
  c1 = c1
  c2 = c2
  Deployments = {"langgraph", "crewai", "litellm", "traced"}
  Runs = {r1, r2, r3, r4}
  NoRun = norun
  Kind <- MCKind
  Parent <- MCParent
  Ctx <- MCCtx
  Contexts = {c1, c2}
  Pool = pool
  MaxFailures = 1
  MaxAttempts = 2
SPECIFICATION AdapterSpec
INVARIANTS  SuppressedForAReason 
CHECK_DEADLOCK FALSE
