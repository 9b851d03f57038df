----------------------------- MODULE Redaction -----------------------------
(***************************************************************************)
(* The redaction filter as a function of a policy, a span and whether the  *)
(* HMAC key is there. A text is a sequence of cells, the positions of the  *)
(* original; a replacement is one cell, Mark. A leaf is a primitive of the *)
(* dumped span: the keys above it, its text, what the recognizers find in  *)
(* the text (hits, by position, with the recognizer's rank), whether the   *)
(* schema of the attributes types it (typed) and the kind of its value.    *)
(***************************************************************************)
EXTENDS Integers, Sequences, FiniteSets, SequencesExt

Mark == 0
Floor == {"ssn", "routing_number", "account_number", "micr", "date_of_birth"}
Types == {"full", "hmac", "pass_through"}

\* A document of a policy: strategies is a function from names to types.
Strategies(doc) ==
  IF doc.default = "full" /\ "full" \notin DOMAIN doc.strategies
  THEN [s \in DOMAIN doc.strategies \cup {"full"} |->
          IF s = "full" THEN "full" ELSE doc.strategies[s]]
  ELSE doc.strategies

PolicyLoads(doc) ==
  /\ doc.version # ""
  /\ Range(doc.strategies) \subseteq Types
  /\ doc.default \in DOMAIN Strategies(doc)
  /\ \A i \in DOMAIN doc.fields : doc.fields[i].strategy \in DOMAIN Strategies(doc)
  /\ \A i \in DOMAIN doc.patterns : doc.patterns[i].strategy \in DOMAIN Strategies(doc)

Resolve(doc, name) == IF name \in DOMAIN Strategies(doc) THEN Strategies(doc)[name] ELSE "raises"

\* The first rule of the field, or of the type, is the one that counts.
StrategyForField(doc, key) ==
  LET ruled == {i \in DOMAIN doc.fields : doc.fields[i].field = key}
  IN IF ruled = {} THEN "none" ELSE Resolve(doc, doc.fields[Min(ruled)].strategy)

AsPolicySays(doc, type) ==
  LET ruled == {i \in DOMAIN doc.patterns : doc.patterns[i].type = type}
  IN Resolve(doc, IF ruled = {} THEN doc.default ELSE doc.patterns[Min(ruled)].strategy)

StrategyForPattern(doc, type) ==
  IF type \in Floor /\ AsPolicySays(doc, type) = "pass_through" THEN "full"
                                                               ELSE AsPolicySays(doc, type)

-----------------------------------------------------------------------------
\* The strategy a leaf inherits: that of the lowest key above it with a rule.
Inherited(doc, leaf) ==
  LET ruled == {i \in DOMAIN leaf.path : StrategyForField(doc, leaf.path[i]) # "none"}
  IN IF leaf.kind = "null" \/ ruled = {} THEN "none"
     ELSE StrategyForField(doc, leaf.path[Max(ruled)])

Apart(h, k) == h.to < k.from \/ h.from > k.to
Longer(h, k) ==
  LET length(x) == x.to - x.from IN
  \/ length(h) > length(k)
  \/ length(h) = length(k) /\ (h.from < k.from \/ (h.from = k.from /\ h.rank < k.rank))

\* The filter runs the recognizers of the finance pack, whose types are the
\* floor; a recognizer finds nothing twice.
WellFormedLeaf(leaf) ==
  /\ leaf.path \in Seq(Range(leaf.path))
  /\ leaf.text \in Seq(Nat) /\ leaf.text = [i \in 1..Len(leaf.text) |-> i]
  /\ IsFiniteSet(leaf.hits)
  /\ \A h \in leaf.hits :
       /\ h.to \in 1..Len(leaf.text) /\ h.from \in 1..h.to
       /\ h.type \in Floor /\ h.rank \in Nat
  /\ \A h, k \in leaf.hits : h = k \/ Longer(h, k) \/ Longer(k, h)

\* _resolve_overlaps: greedy, the longest first. Place: where a hit comes in
\* that order; KeptUpTo: what is kept of the first.
Place(hits, h) == Cardinality({k \in hits : Longer(k, h)})
KeptUpTo(hits) ==
  LET kept[i \in 0..Cardinality(hits)] ==
        IF i = 0 THEN {}
        ELSE kept[i - 1] \cup {h \in hits : /\ Place(hits, h) = i - 1
                                           /\ \A k \in kept[i - 1] : Apart(h, k)}
  IN kept
Keepers(hits) == KeptUpTo(hits)[Cardinality(hits)]

\* Right to left, so that the positions of what is left to do stay valid:
\* what the text is when the hits from the last i positions are replaced.
Splice(text, h) == SubSeq(text, 1, h.from - 1) \o <<Mark>> \o SubSeq(text, h.to + 1, Len(text))
ReplacedFrom(text, hits) ==
  LET out[i \in 0..Len(text)] ==
        IF i = 0 THEN text
        ELSE LET here == {h \in hits : h.from = Len(text) + 1 - i}
             IN IF here = {} THEN out[i - 1] ELSE Splice(out[i - 1], CHOOSE h \in here : TRUE)
  IN out
Replace(text, hits) == ReplacedFrom(text, hits)[Len(text)]

\* The hits that the pattern pass replaces: it looks at strings only, and at
\* what the field rules have turned into strings.
Replaced(doc, leaf) ==
  IF \/ leaf.kind \in {"text", "literal"} /\ Inherited(doc, leaf) = "none"
     \/ leaf.kind # "null" /\ Inherited(doc, leaf) = "pass_through"
  THEN {h \in Keepers(leaf.hits) : StrategyForPattern(doc, h.type) # "pass_through"}
  ELSE {}

Redacted(doc, leaf) ==
  IF Inherited(doc, leaf) \in {"full", "hmac"} THEN <<Mark>>
                                               ELSE Replace(leaf.text, Replaced(doc, leaf))

Used(doc, leaf) ==
  {Inherited(doc, leaf)} \cup {StrategyForPattern(doc, h.type) : h \in Replaced(doc, leaf)}

\* Revalidation: a number, a boolean or a literal is no longer one.
Misfit(leaf, text) ==
  leaf.typed /\ leaf.kind \in {"number", "bool", "literal"} /\ text # leaf.text

Raises(doc, key, span) ==
  \E leaf \in Range(span.leaves) :
    \/ "hmac" \in Used(doc, leaf) /\ ~key
    \/ "raises" \in Used(doc, leaf)
    \/ Misfit(leaf, Redacted(doc, leaf))

\* _full_redact_tree, which spares what is under a key named kind.
Spares(leaf) == leaf.kind \in {"null", "bool"} \/ "kind" \in Range(leaf.path)
Swept(leaf) == IF Spares(leaf) THEN leaf.text ELSE <<Mark>>
SweepFits(span) == \A leaf \in Range(span.leaves) : ~Misfit(leaf, Swept(leaf))

\* _fingerprint_subject: a value that looks redacted is left as it is.
Fingerprint(subject, key) ==
  IF subject \in {"none", "looks_redacted"} THEN subject
  ELSE IF key THEN "fingerprint" ELSE "full"

Apply(doc, key, span) ==
  IF ~Raises(doc, key, span)
  THEN [outcome |-> "redacted", subject |-> Fingerprint(span.subject, key),
        text |-> [n \in DOMAIN span.leaves |-> Redacted(doc, span.leaves[n])]]
  ELSE IF SweepFits(span)
  THEN [outcome |-> "swept", subject |-> IF span.subject = "none" THEN "none" ELSE "full",
        text |-> [n \in DOMAIN span.leaves |-> Swept(span.leaves[n])]]
  ELSE [outcome |-> "original", subject |-> span.subject,
        text |-> [n \in DOMAIN span.leaves |-> span.leaves[n].text]]

=============================================================================
