------------------------------- MODULE Rules -------------------------------
(***************************************************************************)
(* Enforcement rules as data: what a rule file must be to load, which of   *)
(* its rules apply to a span, what an evaluator says, and how the verdict  *)
(* service and the advisory path make an answer of it. Both read the same  *)
(* rules of the same attributes, a function from names to values.          *)
(***************************************************************************)
EXTENDS Integers, Sequences

None == "none"      \* an attribute that is absent or null
Empty == ""         \* one that is there and falsy
NullList == {None}  \* a list that is written as null

Evaluators == {"require_attribute", "action_type_allowed", "human_decision_is",
               "always_pass", "always_fail"}

SpanTypes == {"model_call", "tool_call", "retrieval", "planner_step", "sub_agent_invocation",
              "human_approval", "side_effect", "policy_check"}
GatedTypes == {"human_approval", "side_effect"}

\* _parse_rule, for the fields whose values are checked.
WellFormedRule(r) ==
  /\ r.id # Empty
  /\ r.span_type \in SpanTypes
  /\ r.evaluator \in Evaluators
  /\ r.on_fail \in {"fail", "warn"}
  /\ r.mode \in {"advisory", "blocking"}
  /\ r.failure_mode \in {"fail_open", "fail_to_human", "fail_closed"}

\* A file is "missing", "malformed" or a document; one bad rule fails it all.
Loads(doc) ==
  /\ doc.state = "document"
  /\ doc.version # Empty
  /\ \A i \in DOMAIN doc.rules : WellFormedRule(doc.rules[i])
  /\ \A i, j \in DOMAIN doc.rules : doc.rules[i].id = doc.rules[j].id => i = j

Value(attrs, name) == IF name \in DOMAIN attrs THEN attrs[name] ELSE None
ActionType(attrs) == Value(attrs, "action_type")

\* The positions of the rules that apply.
RulesFor(doc, type, action) ==
  {i \in DOMAIN doc.rules :
     /\ doc.rules[i].enabled
     /\ doc.rules[i].span_type = type
     /\ doc.rules[i].action_type = {} \/ action \in doc.rules[i].action_type}

\* "raises": the denylist is written, but as null.
Result(r, attrs) ==
  CASE r.evaluator = "require_attribute" ->
         IF r.params.attribute = Empty THEN "not_applicable"
         ELSE IF Value(attrs, r.params.attribute) \in {None, Empty} THEN "fail" ELSE "pass"
    [] r.evaluator = "action_type_allowed" ->
         LET action == ActionType(attrs) IN
         IF action = None THEN "not_applicable"
         ELSE IF r.params.deny = NullList THEN "raises"
         ELSE IF action \in r.params.deny \/ (r.params.allow # NullList /\ action \notin r.params.allow)
              THEN "fail" ELSE "pass"
    [] r.evaluator = "human_decision_is" ->
         LET decision == Value(attrs, "decision") IN
         IF decision = None THEN "not_applicable"
         ELSE IF decision = r.params.decision THEN "pass" ELSE "fail"
    [] r.evaluator = "always_pass" -> "pass"
    [] r.evaluator = "always_fail" -> "fail"

\* The attributes an evaluator or the filter of a rule looks at.
Reads(r) ==
  {"action_type"} \cup
  CASE r.evaluator = "require_attribute" -> {r.params.attribute}
    [] r.evaluator = "human_decision_is" -> {"decision"}
    [] OTHER -> {}

-----------------------------------------------------------------------------
FailureDecision ==
  [fail_open |-> "allow", fail_to_human |-> "hold", fail_closed |-> "block"]
Severity == [allow |-> 0, hold |-> 1, block |-> 2]

DecisionFor(r, failed) ==
  IF failed /\ r.on_fail = "fail" /\ r.mode = "blocking"
  THEN FailureDecision[r.failure_mode] ELSE "allow"

WorseLast(a, b) == b
Worse(a, b) == IF Severity[b] > Severity[a] THEN b ELSE a

\* The decision after the first rules of the file: the worst of those that apply.
DecisionUpTo(doc, type, attrs) ==
  LET decision[i \in 0..Len(doc.rules)] ==
        IF i = 0 THEN "allow"
        ELSE IF i \notin RulesFor(doc, type, ActionType(attrs)) THEN decision[i - 1]
        ELSE Worse(decision[i - 1],
                   DecisionFor(doc.rules[i], Result(doc.rules[i], attrs) = "fail"))
  IN decision

\* The verdict service: an evaluator that raises takes the request with it.
Decide(doc, type, attrs) ==
  IF \E i \in RulesFor(doc, type, ActionType(attrs)) : Result(doc.rules[i], attrs) = "raises"
  THEN "error" ELSE DecisionUpTo(doc, type, attrs)[Len(doc.rules)]

\* The advisory path: one that raises is a warning.
Recorded(r, attrs) ==
  LET result == Result(r, attrs)
  IN IF result = "raises" THEN "warn" ELSE IF result = "fail" THEN r.on_fail ELSE result
EvaluateRules(doc, type, attrs) ==
  [i \in RulesFor(doc, type, ActionType(attrs)) |->
     [rule |-> doc.rules[i], result |-> Recorded(doc.rules[i], attrs)]]

=============================================================================
