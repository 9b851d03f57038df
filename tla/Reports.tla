------------------------------- MODULE Reports -------------------------------
(***************************************************************************)
(* What the readers of a trajectory make of the spans they are given: the  *)
(* five checks of its form and hash chain (reporter, verifier script, two  *)
(* routes of the ledger, manifest), the adverse action notice, and the     *)
(* model inventory.  A span document stands for its bytes; its content     *)
(* hash is the document itself, and an altered document is one whose bytes *)
(* changed after they were hashed.  Nothing here has a state: "S" is the   *)
(* set of documents read, taken in the order of (start_time, span_id).     *)
(***************************************************************************)
EXTENDS Integers, FiniteSets, Sequences, FiniteSetsExt

CONSTANTS
  Spans, None,
  Traj, SpanId,   \* trajectory_id and span_id of each document
  Start, Rank,    \* start_time, and the place in the order (start_time, span_id)
  Parent,         \* parent_span_id, or None
  ParentHash,     \* provenance.parent_content_hash: a document, or None
  Tenant,         \* compliance.end_customer_id
  Body,           \* the content the readers look at, a record per document
  Registry        \* the governance registry: a sequence of entries

Kinds == {"planner_step", "model_call", "retrieval", "policy_check",
          "human_approval", "side_effect", "tool_call"}

ASSUME ReportsAssumption ==
  /\ Start \in [Spans -> Int] /\ Rank \in [Spans -> Nat]
  /\ \A s, u \in Spans : /\ Rank[s] = Rank[u] => s = u
                         /\ Start[s] < Start[u] => Rank[s] < Rank[u]
  /\ \A s \in Spans : Body[s].kind \in Kinds

Earliest(S) == CHOOSE s \in S : \A u \in S : Rank[s] <= Rank[u]
Latest(S) == CHOOSE s \in S : \A u \in S : Rank[u] <= Rank[s]
OfKind(S, k) == {s \in S : Body[s].kind = k}
Declares(S, regime) == \E s \in S : regime \in Body[s].regimes
Ids(S) == {SpanId[s] : s \in S}
Roots(S) == {s \in S : Parent[s] = None}

-----------------------------------------------------------------------------
(* The checks of form and chain.  A dict by span_id keeps the last of two.  *)
ById(S, id) == Latest({s \in S : SpanId[s] = id})
Orphans(S) == {s \in S : Parent[s] # None /\ Parent[s] \notin Ids(S)}
Mislinked(S) ==
  {s \in S \ (Roots(S) \cup Orphans(S)) : ParentHash[s] # ById(S, Parent[s])}
BadRoots(S) == {s \in Roots(S) : ParentHash[s] # None}

\* Mutant: a parent that is missing is not looked for.
LoadsOrphans(S, altered) ==
  /\ S # {}
  /\ Cardinality({Traj[s] : s \in S}) = 1
  /\ \A s, u \in S : SpanId[s] = SpanId[u] => s = u
  /\ Cardinality(Roots(S)) = 1
  /\ S \cap altered = {}
  /\ BadRoots(S) = {}
  /\ Mislinked(S) = {}

\* Trajectory.from_spans: the first check that fails raises.
Loads(S, altered) ==
  /\ S # {}
  /\ Cardinality({Traj[s] : s \in S}) = 1
  /\ \A s, u \in S : SpanId[s] = SpanId[u] => s = u
  /\ Cardinality(Roots(S)) = 1
  /\ Orphans(S) = {}
  /\ S \cap altered = {}
  /\ BadRoots(S) = {}
  /\ Mislinked(S) = {}

\* scripts/verify_trajectory.py: every failure of form and chain is noted.
FormFaults(S, altered) ==
  {f \in {"empty", "roots", "trajectories", "duplicates", "parents",
          "hash", "root hash", "parent hash"} :
     CASE f = "empty" -> S = {}
       [] f = "roots" -> Cardinality(Roots(S)) # 1
       [] f = "trajectories" -> Cardinality({Traj[s] : s \in S}) # 1
       [] f = "duplicates" -> Cardinality(Ids(S)) # Cardinality(S)
       [] f = "parents" -> Orphans(S) # {}
       [] f = "hash" -> S \cap altered # {}
       [] f = "root hash" -> BadRoots(S) # {}
       [] f = "parent hash" -> Mislinked(S) # {}}

\* GET /trajectories/{id}: from the stored hashes alone.
ChainStatus(S) ==
  IF BadRoots(S) # {} \/ Mislinked(S) # {} THEN "broken"
  ELSE IF Orphans(S) # {} THEN "incomplete:pending_parents"
  ELSE "verified"

\* POST /verify/{id}: recomputes the hashes; one finding for a span.
Reverified(S, altered) ==
  \A s \in S : /\ s \notin altered
               /\ s \notin Orphans(S) \cup BadRoots(S) \cup Mislinked(S)

\* provenance.verify_hash_chain, recorded in the manifests.
ChainVerified(S, altered) ==
  \A s \in S : s \notin altered \cup Orphans(S) \cup Mislinked(S)

-----------------------------------------------------------------------------
(* The adverse action notice. *)
\* The span that states the decision: the root, else the first step that chose.
Decides(S) ==
  LET root == Earliest(Roots(S))
      chose == {s \in OfKind(S, "planner_step") : Body[s].chosen}
  IN IF root \in chose \/ Body[root].outcome THEN {root}
     ELSE IF chose = {} THEN {} ELSE {Earliest(chose)}

\* The last model call whose outputs speak of reasons, if they hold any code.
ReasonCall(S) ==
  LET calls == {s \in OfKind(S, "model_call") : Body[s].reasons # None}
  IN IF calls = {} THEN {} ELSE {Latest(calls)}
Reasons(S) == {s \in ReasonCall(S) : Body[s].reasons # {}}

FirstOf(S) == IF S = {} THEN {} ELSE {Earliest(S)}

\* Mutant: the last document effect, sent or not.
DeliveryLast(S) ==
  LET sent == {s \in OfKind(S, "side_effect") : Body[s].document}
  IN IF sent # {} THEN {Latest(sent)} ELSE {}

\* A successful document.* effect, the first, is preferred to the last one.
Delivery(S) ==
  LET sent == {s \in OfKind(S, "side_effect") : Body[s].document}
      good == {s \in sent : Body[s].success}
  IN IF good # {} THEN {Earliest(good)} ELSE IF sent # {} THEN {Latest(sent)} ELSE {}

Required == {"decision", "principal_reasons"}
Counted == Required \cup {"credit_reporting_agency", "protected_class_check",
                          "human_review", "notice_delivery", "model_governance"}

\* The spans each counted section is rendered from; a gap has none.
Evidence(S, sec) ==
  CASE sec = "decision" -> Decides(S)
    [] sec = "principal_reasons" -> Reasons(S)
    [] sec = "model_governance" -> ReasonCall(S)
    [] sec = "credit_reporting_agency" ->
         {s \in OfKind(S, "retrieval") : Body[s].source}
    [] sec = "protected_class_check" ->
         FirstOf({s \in OfKind(S, "policy_check") : Body[s].policy = "ecoa"})
    [] sec = "human_review" -> FirstOf(OfKind(S, "human_approval"))
    [] sec = "notice_delivery" -> Delivery(S)

Issued(S) == \A sec \in Required : Evidence(S, sec) # {}
Rendered(S) == {sec \in Counted : Evidence(S, sec) # {}}
Gaps(S) == Counted \ Rendered(S)

\* A section that is rendered and yet noted as a gap.
NotedGaps(S) ==
  {sec \in Rendered(S) :
     \/ sec = "principal_reasons" /\ \E s \in Reasons(S) : ~Body[s].known
     \/ sec = "notice_delivery" /\ \E s \in Delivery(S) : ~Body[s].success}

-----------------------------------------------------------------------------
(* What the verifier asks of a trajectory for each report. *)
SelfDescribed(S) == \A s \in S : Body[s].labelled

AdverseActionFaults(S) ==
  Declares(S, "ECOA") /\
     \/ OfKind(S, "model_call") = {}
     \/ \E s \in OfKind(S, "model_call") :
          ~Body[s].template \/ Body[s].card = None \/ ~Body[s].answered
     \/ OfKind(S, "retrieval") = {}
     \/ \E s \in OfKind(S, "retrieval") : ~Body[s].source
     \/ \A s \in OfKind(S, "side_effect") : ~(Body[s].document /\ Body[s].success)
     \/ OfKind(S, "policy_check") = {}

ModelRiskFaults(S) ==
  Declares(S, "SR_11-7") /\
     \E s \in OfKind(S, "model_call") :
        ~Body[s].template \/ ~Body[s].measured \/ ~Body[s].answered

LaunderingFaults(S) ==
  Declares(S, "BSA_AML") /\
     \/ \A s \in OfKind(S, "policy_check") : Body[s].policy # "aml"
     \/ OfKind(S, "side_effect") = {}

\* verify(): the process exits 0.
VerifierOK(S, altered) ==
  /\ FormFaults(S, altered) = {}
  /\ SelfDescribed(S)
  /\ ~AdverseActionFaults(S)
  /\ ~ModelRiskFaults(S)
  /\ ~LaunderingFaults(S)

-----------------------------------------------------------------------------
\* Mutant: the sweep stops before the last trajectory.
UsesButLast(corpus, tenant) ==
  {u \in UNION {{[at |-> i, span |-> s] : s \in corpus[i].calls} : i \in 1..(Len(corpus) - 1)} :
     tenant = None \/ Tenant[u.span] = tenant}

(* The model inventory.  A corpus is a sequence of [traj, calls], the model *)
(* calls of each trajectory that start in the period.                       *)
Uses(corpus, tenant) ==
  {u \in UNION {{[at |-> i, span |-> s] : s \in corpus[i].calls} : i \in DOMAIN corpus} :
     tenant = None \/ Tenant[u.span] = tenant}

Models(uses) == {Body[u.span].model : u \in uses}
UsesOf(uses, model) == {u \in uses : Body[u.span].model = model}

\* The first entry for the card, else the first for the identity, else none (0).
MatchOne(hits) == IF hits = {} THEN 0 ELSE Min(hits)
Match(model, card) ==
  LET exact == {i \in DOMAIN Registry : card # None /\ Registry[i].card = card}
      same == {i \in DOMAIN Registry : model \in Registry[i].covers}
  IN IF exact # {} THEN MatchOne(exact) ELSE MatchOne(same)

\* The cards of a model's calls are tried in the order they were first seen.
Cards(S) == {Body[s].card : s \in S} \ {None}
Governance(model, S) ==
  LET seen(card) == Earliest({s \in S : Body[s].card = card})
      tried == {card \in Cards(S) : Match(model, card) # 0}
      card == CHOOSE c \in tried : \A d \in tried : Rank[seen(c)] <= Rank[seen(d)]
  IN IF Cards(S) = {} THEN [source |-> "missing_card", entry |-> 0]
     ELSE IF tried # {} THEN [source |-> "registry", entry |-> Match(model, card)]
     ELSE [source |-> "no_registry_entry", entry |-> 0]

Columns == {"intended_use", "risk_tier", "validation_status", "limitations", "monitoring"}

\* One row of the inventory, with the cells that are gaps.
Row(uses, model) ==
  LET mine == UsesOf(uses, model)
      spans == {u.span : u \in mine}
      gov == Governance(model, spans)
      filled == IF gov.entry = 0 THEN {} ELSE Registry[gov.entry].fields
  IN [uses |-> mine,
      trajectories |-> {Traj[s] : s \in spans},
      cards |-> Cards(spans),
      source |-> gov.source,
      entry |-> gov.entry,
      gaps |-> (Columns \ filled) \cup (IF Cards(spans) = {} THEN {"model_card"} ELSE {}),
      partial |-> \E s \in spans : ~Body[s].measured]

\* Why no inventory is formed, or None.
Refusal(corpus, tenant) ==
  LET tenants == {Tenant[u.span] : u \in Uses(corpus, None)}
  IN IF tenants = {} THEN "no_model_usage"
     ELSE IF tenant # None /\ tenant \notin tenants THEN "tenant_not_present"
     ELSE IF tenant = None /\ Cardinality(tenants) > 1 THEN "ambiguous_tenant"
     ELSE None

Inventory(corpus, tenant) ==
  LET uses == Uses(corpus, tenant)
  IN [m \in Models(uses) |-> Row(uses, m)]
=============================================================================
