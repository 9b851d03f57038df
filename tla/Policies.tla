------------------------------ MODULE Policies ------------------------------
(***************************************************************************)
(* One policy decision, twice: the gate asks the verdict service about a   *)
(* span before its action runs; the span closes, is redacted and shipped;  *)
(* and the ledger evaluates the same rules on what was shipped. Between    *)
(* the two the rule file is rewritten and the HMAC key comes or goes. The  *)
(* service and the ledger each keep the rules they loaded with the mtime   *)
(* of a stat before the load.                                              *)
(***************************************************************************)
EXTENDS Rules, Redaction

CONSTANTS
  Calls,
  SpanOf,     \* [Calls -> a span, as in Redaction]
  RuleFiles,  \* what the rule file may be: documents, malformed or missing
  PolicyDocs, \* the redaction policies the agent may be started with
  MaxWrites   \* bound on the rewrites of the rule file

ASSUME PoliciesAssumption ==
  /\ \A c \in Calls : \A leaf \in Range(SpanOf[c].leaves) : WellFormedLeaf(leaf)
  /\ \A f \in RuleFiles : f.state = "document" => f.rules \in Seq(Range(f.rules))
  /\ \A p \in PolicyDocs : /\ p.fields \in Seq(Range(p.fields))
                           /\ p.patterns \in Seq(Range(p.patterns))

VARIABLES
  writes,   \* every state of the rule file with its mtime; the last is current
  cache,    \* per reader: what it loaded, or NoRules
  reader,   \* per reader: the evaluation it is in
  policy,
  call      \* per call: where it is, and what came of it

vars == <<writes, cache, reader, policy, call>>

Readers == {"service", "ledger"}
NoRules == [mtime |-> 0, read |-> 0]
Reading == [call |-> "none", stat |-> 0]

\* read: the write whose content was evaluated; stat: the write that was last
\* when the file was looked at.
Verdict == [answer |-> "none", read |-> 0, stat |-> 0, verdicts |-> <<>>]

Init ==
  /\ \E f \in RuleFiles : writes = <<[doc |-> f, mtime |-> 1]>>
  /\ cache = [r \in Readers |-> NoRules]
  /\ reader = [r \in Readers |-> Reading]
  /\ policy \in {p \in PolicyDocs : PolicyLoads(p)}
  /\ call = [c \in Calls |->
       [pc |-> "start", gate |-> Verdict, shipped |-> [outcome |-> "none"],
        key |-> FALSE, observed |-> Verdict]]

\* A file is rewritten within the tick of its last change, or later. A rewrite
\* that is not atomic is one to "malformed" and then one to the new content.
RewriteRules ==
  /\ Len(writes) <= MaxWrites
  /\ \E f \in RuleFiles, tick \in 0..1 :
       writes' = Append(writes, [doc |-> f, mtime |-> Last(writes).mtime + tick])
  /\ UNCHANGED <<cache, reader, policy, call>>

-----------------------------------------------------------------------------
Gated(c) == SpanOf[c].type \in GatedTypes

\* What evaluators see: a text that was replaced is a text that is not empty.
Attributes(span, text) ==
  LET own == {n \in DOMAIN span.leaves : span.leaves[n].path = <<n>> /\ span.leaves[n].place = "attributes"}
  IN [n \in own |-> IF text[n] = span.leaves[n].text THEN span.leaves[n].value ELSE "[REDACTED]"]

RawText(span) == [n \in DOMAIN span.leaves |-> span.leaves[n].text]

Conclude(r, c, read, stat) ==
  LET doc == writes[read].doc
      raw == Attributes(SpanOf[c], RawText(SpanOf[c]))
      seen == Attributes(SpanOf[c], call[c].shipped.text)
  IN IF r = "service"
     THEN call' = [call EXCEPT ![c].pc = "answered", ![c].gate =
            [Verdict EXCEPT !.answer = Decide(doc, SpanOf[c].type, raw), !.read = read, !.stat = stat]]
     ELSE call' = [call EXCEPT ![c].pc = "done", ![c].observed =
            [Verdict EXCEPT !.answer = "observed", !.read = read, !.stat = stat,
                            !.verdicts = EvaluateRules(doc, SpanOf[c].type, seen)]]

\* The service answers 500, the ledger logs and goes on without verdicts.
Failed(r, c) ==
  IF r = "service"
  THEN call' = [call EXCEPT ![c].pc = "answered", ![c].gate.answer = "error"]
  ELSE call' = [call EXCEPT ![c].pc = "done", ![c].observed.answer = "error"]

Waits(r, c) ==
  \/ r = "service" /\ call[c].pc = "start" /\ Gated(c)
  \/ r = "ledger" /\ call[c].pc = "shipped" /\ Gated(c)

StatRules(r, c) ==
  /\ reader[r] = Reading
  /\ Waits(r, c)
  /\ LET now == Last(writes) IN
       IF now.doc.state = "missing"
       THEN Failed(r, c) /\ UNCHANGED <<cache, reader>>
       ELSE IF cache[r].mtime = now.mtime
       THEN Conclude(r, c, cache[r].read, Len(writes)) /\ UNCHANGED <<cache, reader>>
       ELSE reader' = [reader EXCEPT ![r] = [call |-> c, stat |-> Len(writes)]]
            /\ UNCHANGED <<cache, call>>
  /\ UNCHANGED <<writes, policy>>

LoadThenStat(r) ==
  /\ reader[r] # Reading
  /\ LET stat == reader[r].stat IN
       IF Loads(writes[stat].doc)
       THEN /\ Conclude(r, reader[r].call, stat, stat)
            /\ cache' = [cache EXCEPT ![r] = [mtime |-> Last(writes).mtime, read |-> stat]]
       ELSE Failed(r, reader[r].call) /\ UNCHANGED cache
  /\ reader' = [reader EXCEPT ![r] = Reading]
  /\ UNCHANGED <<writes, policy>>

LoadRules(r) ==
  /\ reader[r] # Reading
  /\ LET c == reader[r].call
         stat == reader[r].stat IN
       IF Loads(Last(writes).doc)
       THEN /\ Conclude(r, c, Len(writes), stat)
            /\ cache' = [cache EXCEPT ![r] = [mtime |-> writes[stat].mtime, read |-> Len(writes)]]
       ELSE Failed(r, c) /\ UNCHANGED cache
  /\ reader' = [reader EXCEPT ![r] = Reading]
  /\ UNCHANGED <<writes, policy>>

-----------------------------------------------------------------------------
\* The action has run or was refused (EnforcementGate); the span closes. The
\* key is looked up in the environment each time, and may be there or not.
Close(c) ==
  /\ call[c].pc = IF Gated(c) THEN "answered" ELSE "start"
  /\ \E key \in BOOLEAN :
       call' = [call EXCEPT ![c].pc = IF Gated(c) THEN "shipped" ELSE "done", ![c].key = key,
                            ![c].shipped = Apply(policy, key, SpanOf[c])]
  /\ UNCHANGED <<writes, cache, reader, policy>>

Next ==
  \/ RewriteRules
  \/ \E r \in Readers : LoadRules(r) \/ \E c \in Calls : StatRules(r, c)
  \/ \E c \in Calls : Close(c)

Spec == Init /\ [][Next]_vars

-----------------------------------------------------------------------------
(* Rules that were evaluated were in the file when it was looked at or came  *)
(* there since, unless the file changed twice within one tick of its mtime:  *)
(* the cache of a reader is never older than the mtime it is filed under.    *)
Fresh(v) ==
  v.read # 0 => v.read >= v.stat \/ writes[v.read].mtime = writes[v.stat].mtime
RulesAreFresh == \A c \in Calls : Fresh(call[c].gate) /\ Fresh(call[c].observed)

(* Where the service and the ledger evaluated the same rules, and redaction  *)
(* changed no attribute that a rule looks at, the ledger records a failed    *)
(* blocking rule exactly for the calls the service did not simply allow.     *)
Escalates(v) ==
  /\ v.result = "fail"
  /\ v.rule.mode = "blocking" /\ v.rule.failure_mode # "fail_open"
Unchanged(c) ==
  LET doc == writes[call[c].observed.read].doc
      raw == Attributes(SpanOf[c], RawText(SpanOf[c]))
      seen == Attributes(SpanOf[c], call[c].shipped.text)
  IN \A i \in DOMAIN doc.rules : \A n \in Reads(doc.rules[i]) : Value(raw, n) = Value(seen, n)
VerdictsAgree ==
  \A c \in Calls :
    /\ call[c].gate.answer \in {"allow", "hold", "block"}
    /\ call[c].observed.answer = "observed"
    /\ writes[call[c].gate.read].doc = writes[call[c].observed.read].doc
    /\ Unchanged(c)
    => (call[c].gate.answer # "allow" <=>
          \E i \in DOMAIN call[c].observed.verdicts : Escalates(call[c].observed.verdicts[i]))

(* No string that a recognizer flags ships whole and in the clear, whatever  *)
(* the policy, and no subject does, except on the two paths of the fallback: *)
(* a sweep spares what is under a key named kind, and a span whose swept     *)
(* attributes no longer validate ships as it was. That takes a value that    *)
(* is not a string, and a missing key or a rule that hit such a value.       *)
Flagged(span, n) ==
  LET leaf == span.leaves[n] IN
  {h \in leaf.hits : leaf.kind \in {"text", "literal"} /\ h.type \in Floor}
InClear(h, text) == h.from..h.to \subseteq Range(text)
Untyped(span) ==
  \A n \in DOMAIN span.leaves :
    ~span.leaves[n].typed \/ span.leaves[n].kind \notin {"number", "literal", "bool"}
FloorHolds ==
  \A c \in Calls :
    LET span == SpanOf[c]
        out == call[c].shipped
    IN out.outcome # "none" =>
         \/ /\ out.outcome = "original"
            /\ ~Untyped(span)
            /\ call[c].key => \E leaf \in Range(span.leaves) : Misfit(leaf, Redacted(policy, leaf))
         \/ /\ out.subject # "raw"
            /\ \A n \in DOMAIN span.leaves : \A h \in Flagged(span, n) :
                 InClear(h, out.text[n]) =>
                   out.outcome = "swept" /\ "kind" \in Range(span.leaves[n].path)

(* The docstring of the filter: returning the original, un-redacted span as  *)
(* the fallback is not acceptable.                                           *)
OriginalNeverShips == \A c \in Calls : call[c].shipped.outcome # "original"

=============================================================================
