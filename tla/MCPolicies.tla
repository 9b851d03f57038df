----------------------------- MODULE MCPolicies -----------------------------
(* A payment with a free text in which two findings overlap, and an approval *)
(* whose decision is a literal; two rule sets, a broken and a missing file.  *)
EXTENDS Policies

CONSTANTS c1, c2

Leaf(path, place, kind, value, len, hits) ==
  [path |-> path, place |-> place, kind |-> kind, value |-> value, text |-> [i \in 1..len |-> i],
   hits |-> hits, typed |-> place = "attributes"]
Hit(from, to, type, rank) == [from |-> from, to |-> to, type |-> type, rank |-> rank]
Overlapping == {Hit(1, 3, "ssn", 1), Hit(3, 6, "account_number", 3), Hit(8, 9, "micr", 4)}

Payment ==
  [type |-> "side_effect", subject |-> "raw", leaves |->
    [action_type |-> Leaf(<<"action_type">>, "attributes", "text", "mail", 1, {}),
     idempotency_key |-> Leaf(<<"idempotency_key">>, "attributes", "text", Empty, 0, {}),
     ssn |-> Leaf(<<"ssn">>, "inputs", "number", "123456789", 9, {Hit(1, 9, "ssn", 1)}),
     payload |-> Leaf(<<"args", "payload">>, "inputs", "text", "text", 9, Overlapping),
     kind |-> Leaf(<<"args", "kind">>, "inputs", "text", "text", 3, {Hit(1, 2, "ssn", 1)})]]
Approval ==
  [type |-> "human_approval", subject |-> "looks_redacted", leaves |->
    [decision |-> Leaf(<<"decision">>, "attributes", "literal", "rejected", 1, {}),
     signature |-> Leaf(<<"signature">>, "attributes", "null", None, 0, {}),
     note |-> Leaf(<<"note">>, "inputs", "text", "text", 4, {Hit(1, 3, "ssn", 1), Hit(1, 3, "routing_number", 2)})]]
MCSpanOf == c1 :> Payment @@ c2 :> Approval 

Rule(id, type, evaluator, params) ==
  [id |-> id, span_type |-> type, action_type |-> {}, evaluator |-> evaluator, params |-> params,
   on_fail |-> "fail", mode |-> "blocking", failure_mode |-> "fail_closed", enabled |-> TRUE]
Key == [Rule("key", "side_effect", "require_attribute", [attribute |-> "idempotency_key"])
          EXCEPT !.failure_mode = "fail_to_human"]
Mail == Rule("mail", "side_effect", "action_type_allowed", [deny |-> {"mail"}, allow |-> NullList])
Silent == [Rule("silent", "side_effect", "action_type_allowed", [deny |-> NullList, allow |-> NullList])
             EXCEPT !.mode = "advisory", !.action_type = {"mail"}]
Signed == [Rule("signed", "human_approval", "human_decision_is", [decision |-> "approved"])
             EXCEPT !.failure_mode = "fail_open"]
Strict == Rule("strict", "human_approval", "require_attribute", [attribute |-> "signature"])

Rules1 == [state |-> "document", version |-> "1", rules |-> <<Mail, Key, Strict, Signed>>]
Rules2 == [state |-> "document", version |-> "2", rules |-> <<Key, Silent, [Strict EXCEPT !.on_fail = "warn"]>>]
Twice == [state |-> "document", version |-> "3", rules |-> <<Key, Key>>]
Missing == [state |-> "missing"]
MCRuleFiles == {Rules1, Rules2, Twice, Missing}

Policy(default, strategies, fields, patterns) ==
  [version |-> "v", default |-> default, strategies |-> strategies, fields |-> fields, patterns |-> patterns]
Open == "open" :> "pass_through"
MCPolicyDocs ==
  {Policy("open", Open, <<>>, <<>>),
   Policy("full", Open, <<[field |-> "args", strategy |-> "full"], [field |-> "payload", strategy |-> "open"]>>, <<>>),
   Policy("full", "fp" :> "hmac", <<>>, <<[type |-> "ssn", strategy |-> "fp"]>>),
   Policy("full", Open, <<[field |-> "decision", strategy |-> "full"], [field |-> "ssn", strategy |-> "open"]>>, <<>>),
   Policy("full", Open, <<[field |-> "action_type", strategy |-> "full"]>>, <<[type |-> "ssn", strategy |-> "gone"]>>)}
=============================================================================
