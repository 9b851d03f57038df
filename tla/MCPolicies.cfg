SPECIFICATION Spec
CONSTANTS
  c1 = c1  c2 = c2
  Calls = {c1, c2}
  SpanOf <- MCSpanOf
  RuleFiles <- MCRuleFiles
  PolicyDocs <- MCPolicyDocs
  MaxWrites = 2
CHECK_DEADLOCK FALSE
INVARIANTS RulesAreFresh VerdictsAgree FloorHolds
