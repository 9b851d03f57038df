--------------------------- MODULE Instrumentation ---------------------------
(***************************************************************************)
(* The ways a span gets opened and closed for something that happens in an *)
(* agent: the callbacks of LangGraph, the event bus of CrewAI, the         *)
(* callbacks of LiteLLM, the wrappers of the Anthropic and OpenAI clients, *)
(* and "with traced(...)".  A deployment uses one of them, together with   *)
(* wrapped clients (all but CrewAI).                                       *)
(*                                                                         *)
(* A run is what happens: a chain, a task, a model call.  The framework    *)
(* tells the adapter in events, which are handled in a context (the        *)
(* contextvars of a task or thread) that need not be that of the run, and  *)
(* some of them later and out of order.  SpanBuilder models the builder in *)
(* full; here a closed span waits with its parent and ships when it closes.*)
(***************************************************************************)
EXTENDS Integers, Sequences, FiniteSets

CONSTANTS
  Deployments,          \* among those below
  Runs, NoRun,
  Kind, Parent, Ctx,    \* of a run, by deployment: [Deployments -> [Runs -> ...]]
  Contexts,             \* the contexts of the agent
  Pool,                 \* the context of a background thread
  MaxFailures,          \* bound: calls of open() that raise
  MaxAttempts           \* bound: attempts of one LiteLLM call

LangGraphType == [chain |-> "planner_step", llm |-> "model_call",
                  tool |-> "tool_call", retriever |-> "retrieval"]
CrewType == [crew |-> "planner_step", task |-> "planner_step", agent |-> "sub_agent_invocation",
             tool |-> "tool_call", llm |-> "model_call", memory |-> "retrieval",
             knowledge |-> "retrieval", feedback |-> "human_approval"]

\* The listener has no handler for a failed knowledge retrieval.
CrewFailures == DOMAIN CrewType \ {"knowledge", "feedback"}

FrameworkKinds == DOMAIN LangGraphType \cup DOMAIN CrewType
Kinds == FrameworkKinds \cup {"traced", "direct", "unused"}

ASSUME InstrumentationAssumption ==
  /\ Deployments \subseteq {"langgraph", "crewai", "litellm", "traced"}
  /\ Pool \notin Contexts /\ NoRun \notin Runs
  /\ \A d \in Deployments :
       /\ Kind[d] \in [Runs -> Kinds]
       /\ Parent[d] \in [Runs -> Runs \cup {NoRun}]
       /\ Ctx[d] \in [Runs -> Contexts]
  /\ MaxFailures \in Nat /\ MaxAttempts \in Nat \ {0}

VARIABLES
  deployment,
  phase,      \* run -> "new", "running", "called" or "over"
  attempts,   \* run -> how often it was begun
  inflight,   \* the events that are not handled yet
  open,       \* the adapter's _open: run -> its span, or 0
  cur,        \* _current_parent: context -> a span, or 0
  flag,       \* _suppress_model_call: context -> BOOLEAN
  tokens,     \* _suppress_tokens: run -> the token, or NoToken
  cm,         \* the fields of the one traced object: its span and its scope
  spans,      \* the spans, in the order they were opened
  handled     \* history: what was handled, in order

adapterVars == <<deployment, phase, attempts, inflight, open, cur, flag, tokens, cm, spans, handled>>

NoToken == [ctx |-> Pool, old |-> FALSE, set |-> FALSE]
Unentered == [span |-> 0, ctx |-> Pool, old |-> 0, live |-> FALSE]

AdapterInit ==
  /\ deployment \in Deployments
  /\ phase = [r \in Runs |-> IF Kind[deployment][r] = "unused" THEN "over" ELSE "new"]
  /\ attempts = [r \in Runs |-> 0]
  /\ inflight = {}
  /\ open = [r \in Runs |-> 0]
  /\ cur = [c \in Contexts \cup {Pool} |-> 0]
  /\ flag = [c \in Contexts \cup {Pool} |-> FALSE]
  /\ tokens = [r \in Runs |-> NoToken]
  /\ cm = Unentered
  /\ spans = <<>>
  /\ handled = <<>>

KindOf(r) == Kind[deployment][r]
ParentOf(r) == Parent[deployment][r]
Home(r) == Ctx[deployment][r]
SpanTypeOf(r) == IF deployment = "langgraph" THEN LangGraphType[KindOf(r)]
                 ELSE IF deployment = "crewai" THEN CrewType[KindOf(r)] ELSE "model_call"

-----------------------------------------------------------------------------
\* The builder.

Opened(r, type, parent) ==
  Append(spans, [run |-> r, type |-> type, parent |-> parent,
                 closed |-> FALSE, parked |-> 0, shipped |-> 0])

\* What waits with span i ships, i itself waits with its parent or ships.  A
\* second close of the same span does it all again.
CloseSpan(S, i) ==
  [j \in DOMAIN S |->
     IF j = i
       THEN [S[j] EXCEPT !.closed = TRUE, !.parked = IF S[j].parent = 0 THEN @ ELSE @ + 1,
                         !.shipped = IF S[j].parent = 0 THEN @ + 1 ELSE @]
     ELSE IF S[j].parent = i THEN [S[j] EXCEPT !.shipped = @ + S[j].parked, !.parked = 0]
     ELSE S[j]]

Log(r, what, c) == handled' = Append(handled, [run |-> r, what |-> what, ctx |-> c])

MayFail == Cardinality({i \in DOMAIN handled : handled[i].what = "failed"}) < MaxFailures

-----------------------------------------------------------------------------
\* The framework.

Event(r, what, n) == [run |-> r, what |-> what, attempt |-> n]

\* LangGraph waits for its callbacks, LiteLLM for the one before the call.
Awaited(e) == deployment = "langgraph" \/ (deployment = "litellm" /\ e.what = "start")
Settled(r) == \A e \in inflight : e.run = r => ~Awaited(e)

ParentRuns(r) == \A q \in Runs : ParentOf(r) = q => phase[q] = "running" /\ Settled(q)
ChildrenOver(r) == \A q \in Runs : ParentOf(q) = r => phase[q] = "over" /\ Settled(q)

Begin(r) ==
  /\ phase[r] = "new" /\ KindOf(r) \in FrameworkKinds /\ ParentRuns(r)
  /\ phase' = [phase EXCEPT ![r] = IF KindOf(r) = "feedback" THEN "over" ELSE "running"]
  /\ attempts' = [attempts EXCEPT ![r] = 1]
  /\ inflight' = inflight \cup {Event(r, "start", 1)}
  /\ UNCHANGED <<deployment, open, cur, flag, tokens, cm, spans, handled>>

\* A failed attempt of LiteLLM is repeated under the same litellm_call_id.
Retry(r) ==
  /\ deployment = "litellm" /\ phase[r] = "running" /\ KindOf(r) = "llm" /\ Settled(r)
  /\ attempts[r] < MaxAttempts
  /\ attempts' = [attempts EXCEPT ![r] = @ + 1]
  /\ inflight' = inflight \cup {Event(r, "end", attempts[r]), Event(r, "start", attempts[r] + 1)}
  /\ UNCHANGED <<deployment, phase, open, cur, flag, tokens, cm, spans, handled>>

\* The run completes or fails; only the listener of CrewAI tells them apart here.
Finish(r) ==
  /\ KindOf(r) \in FrameworkKinds /\ Settled(r) /\ ChildrenOver(r)
  /\ phase[r] = IF deployment = "langgraph" /\ KindOf(r) = "llm" THEN "called" ELSE "running"
  /\ phase' = [phase EXCEPT ![r] = "over"]
  /\ \/ inflight' = inflight \cup {Event(r, "end", attempts[r])}
     \/ deployment = "crewai" /\ KindOf(r) \notin CrewFailures /\ UNCHANGED inflight
  /\ UNCHANGED <<deployment, attempts, open, cur, flag, tokens, cm, spans, handled>>

-----------------------------------------------------------------------------
\* call_sync and call_async: the wrapped client, in the context of the run.

WrappedCall(r) ==
  LET c == Home(r) IN
  \/ flag[c] /\ Log(r, "suppressed", c) /\ UNCHANGED spans
  \/ ~flag[c] /\ MayFail /\ Log(r, "failed", c) /\ UNCHANGED spans
  \/ /\ ~flag[c] /\ Log(r, "call", c)
     /\ spans' = CloseSpan(Opened(r, "model_call", cur[c]), Len(spans) + 1)

\* The model call of LangGraph goes through a wrapped client.
CallInside(r) ==
  /\ deployment = "langgraph" /\ KindOf(r) = "llm" /\ phase[r] = "running" /\ Settled(r)
  /\ WrappedCall(r)
  /\ phase' = [phase EXCEPT ![r] = "called"]
  /\ UNCHANGED <<deployment, attempts, inflight, open, cur, flag, tokens, cm>>

\* The agent calls a wrapped client itself.
CallDirect(r) ==
  /\ KindOf(r) = "direct" /\ phase[r] = "new" /\ ParentRuns(r)
  /\ WrappedCall(r)
  /\ phase' = [phase EXCEPT ![r] = "over"]
  /\ attempts' = [attempts EXCEPT ![r] = 1]
  /\ UNCHANGED <<deployment, inflight, open, cur, flag, tokens, cm>>

-----------------------------------------------------------------------------
\* The adapters.  Each handler takes its event from inflight.

Take(r, what, c) ==
  \E e \in inflight :
    /\ e.run = r /\ e.what = what
    /\ inflight' = inflight \ {e}
    /\ UNCHANGED <<deployment, phase, attempts, cur, cm>>

\* Mutant: the span is looked up under its own event, not that of its parent.
OwnSpan(r, c) == IF open[r] # 0 THEN open[r] ELSE cur[c]

\* _start of the LangGraph and CrewAI adapters: the parent by its run, else the
\* current one of the context.
ParentSpan(r, c) ==
  IF ParentOf(r) # NoRun /\ open[ParentOf(r)] # 0 THEN open[ParentOf(r)] ELSE cur[c]

StartSpan(r, c, parent) ==
  \/ MayFail /\ Log(r, "failed", c) /\ UNCHANGED <<open, spans>>
  \/ /\ Log(r, "start", c)
     /\ spans' = Opened(r, SpanTypeOf(r), parent)
     /\ open' = [open EXCEPT ![r] = Len(spans) + 1]

\* Mutant: what is closed stays in the map.
EndSpanKeeps(r, c) ==
  /\ Log(r, "end", c)
  /\ UNCHANGED open
  /\ spans' = IF open[r] = 0 THEN spans ELSE CloseSpan(spans, open[r])

\* _end and _error.
EndSpan(r, c) ==
  /\ Log(r, "end", c)
  /\ open' = [open EXCEPT ![r] = 0]
  /\ spans' = IF open[r] = 0 THEN spans ELSE CloseSpan(spans, open[r])

\* The flag is set whether or not the span could be opened.
LangGraphStart(r, c) ==
  /\ deployment = "langgraph" /\ Take(r, "start", c)
  /\ StartSpan(r, c, ParentSpan(r, c))
  /\ IF KindOf(r) = "llm"
       THEN /\ flag' = [flag EXCEPT ![c] = TRUE]
            /\ tokens' = [tokens EXCEPT ![r] = [ctx |-> c, old |-> flag[c], set |-> TRUE]]
       ELSE UNCHANGED <<flag, tokens>>

\* Mutant: the end of a call leaves the flag as it is.
LangGraphEndFlagged(r, c) ==
  /\ deployment = "langgraph" /\ Take(r, "end", c)
  /\ EndSpan(r, c)
  /\ tokens' = [tokens EXCEPT ![r] = NoToken]
  /\ UNCHANGED flag

\* A token is good only in the context where it was made.
LangGraphEnd(r, c) ==
  /\ deployment = "langgraph" /\ Take(r, "end", c)
  /\ EndSpan(r, c)
  /\ tokens' = [tokens EXCEPT ![r] = NoToken]
  /\ flag' = IF tokens[r].set /\ tokens[r].ctx = c THEN [flag EXCEPT ![c] = tokens[r].old] ELSE flag

CrewStart(r) ==
  /\ deployment = "crewai" /\ KindOf(r) # "feedback" /\ Take(r, "start", Pool)
  /\ StartSpan(r, Pool, ParentSpan(r, Pool))
  /\ UNCHANGED <<flag, tokens>>

CrewEnd(r) ==
  /\ deployment = "crewai" /\ Take(r, "end", Pool)
  /\ EndSpan(r, Pool)
  /\ UNCHANGED <<flag, tokens>>

\* on_human_feedback_received opens a span and closes it.
CrewFeedback(r) ==
  /\ deployment = "crewai" /\ KindOf(r) = "feedback" /\ Take(r, "start", Pool)
  /\ \/ MayFail /\ Log(r, "failed", Pool) /\ UNCHANGED spans
     \/ /\ Log(r, "call", Pool)
        /\ spans' = CloseSpan(Opened(r, SpanTypeOf(r), ParentSpan(r, Pool)), Len(spans) + 1)
  /\ UNCHANGED <<open, flag, tokens>>

\* pre runs before the call, in its context.
LitePre(r) ==
  /\ deployment = "litellm" /\ Take(r, "start", Home(r))
  /\ StartSpan(r, Home(r), cur[Home(r)])
  /\ UNCHANGED <<flag, tokens>>

\* success and failure run later, on a background thread: without the span of
\* pre they open one of their own, under nothing.
LiteEnd(r) ==
  /\ deployment = "litellm" /\ Take(r, "end", Pool)
  /\ \/ EndSpan(r, Pool) /\ open[r] # 0
     \/ open[r] = 0 /\ MayFail /\ Log(r, "failed", Pool) /\ UNCHANGED <<open, spans>>
     \/ /\ open[r] = 0 /\ Log(r, "end", Pool) /\ UNCHANGED open
        /\ spans' = CloseSpan(Opened(r, "model_call", cur[Pool]), Len(spans) + 1)
  /\ UNCHANGED <<flag, tokens>>

-----------------------------------------------------------------------------
\* with traced(...): one object, whose fields every block that uses it shares.
\* The gate of __enter__ is in EnforcementGate.

TracedEnter(r) ==
  /\ KindOf(r) = "traced" /\ phase[r] = "new" /\ ParentRuns(r)
  /\ phase' = [phase EXCEPT ![r] = "running"]
  /\ attempts' = [attempts EXCEPT ![r] = 1]
  /\ LET c == Home(r) IN
     \/ MayFail /\ Log(r, "failed", c) /\ UNCHANGED <<spans, cm, cur>>
     \/ /\ Log(r, "start", c)
        /\ spans' = Opened(r, "traced", cur[c])
        /\ cm' = [span |-> Len(spans) + 1, ctx |-> c, old |-> cur[c], live |-> TRUE]
        /\ cur' = [cur EXCEPT ![c] = Len(spans) + 1]
  /\ UNCHANGED <<deployment, inflight, open, flag, tokens>>

\* __exit__ works on the fields, whoever set them: a scope that was left already
\* is left again without effect, a span that was closed is closed again.
TracedExit(r) ==
  /\ KindOf(r) = "traced" /\ phase[r] = "running" /\ ChildrenOver(r)
  /\ phase' = [phase EXCEPT ![r] = "over"]
  /\ Log(r, "end", Home(r))
  /\ cur' = IF cm.live /\ cm.ctx = Home(r) THEN [cur EXCEPT ![Home(r)] = cm.old] ELSE cur
  /\ cm' = [cm EXCEPT !.live = FALSE]
  /\ spans' = IF cm.span = 0 THEN spans ELSE CloseSpan(spans, cm.span)
  /\ UNCHANGED <<deployment, attempts, inflight, open, flag, tokens>>

RunStep(r) ==
  \/ Begin(r) \/ Retry(r) \/ Finish(r) \/ CallInside(r) \/ CallDirect(r)
  \/ TracedEnter(r) \/ TracedExit(r)

Handler(r) ==
  \/ \E c \in {Home(r), Pool} : LangGraphStart(r, c) \/ LangGraphEnd(r, c)
  \/ CrewStart(r) \/ CrewEnd(r) \/ CrewFeedback(r) \/ LitePre(r) \/ LiteEnd(r)

AdapterNext == \E r \in Runs : RunStep(r) \/ Handler(r)

AdapterSpec == AdapterInit /\ [][AdapterNext]_adapterVars

-----------------------------------------------------------------------------
(* PROPERTIES *)

Done(r) == phase[r] = "over" /\ \A e \in inflight : e.run # r
SpansOf(r) == {i \in DOMAIN spans : spans[i].run = r}
Up(r) == IF r = NoRun THEN NoRun ELSE ParentOf(r)
Lineage(r) == {r, Up(r), Up(Up(r))} \ {NoRun}
When(r, what) == {i \in DOMAIN handled : handled[i].run = r /\ handled[i].what = what}
Marks(r) == When(r, "start") \cup When(r, "end")
Began(r) == When(r, "start") \cup When(r, "failed")

\* The events of a run were handled in their order, one by one, and open() worked:
\* between two starts there is an end, and between two ends a start.
InTurn(A, B) == \A i, j \in A : i < j => \E k \in B : i < k /\ k < j
Alternates(r) ==
  IF KindOf(r) \in {"direct", "feedback"} THEN When(r, "call") # {}
  ELSE LET starts == When(r, "start")
           ends == When(r, "end") IN
       /\ When(r, "failed") = {}
       /\ Cardinality(starts) = attempts[r]
       /\ InTurn(starts, ends) /\ InTurn(ends, starts)
       /\ \A i \in starts : \E k \in ends : i < k
       /\ \A k \in ends : \E i \in starts : i < k

\* Run q began while r was under way, and did not end before r did.
Overlap(r, q) ==
  \E i \in Began(r), j \in Began(q) :
    /\ i < j /\ \A l \in When(r, "end") : l < i \/ j < l
    /\ \A k \in When(q, "end") : j < k => \E l \in When(r, "end") : i < l /\ l < k
Crossed(r, q) == q # r /\ (Overlap(r, q) \/ Overlap(q, r))

\* The callbacks of a run came in its own context, and what a context or the
\* traced object has of it was not taken over by another run: also a block whose
\* __enter__ failed closes what the object holds.
Between(r, q) == \E i \in Marks(q), j, k \in Marks(r) : j < i /\ i < k

Alone(r) ==
  /\ deployment = "langgraph" => \A i \in Marks(r) : handled[i].ctx = Home(r)
  /\ deployment = "langgraph" /\ KindOf(r) = "llm" => \A q \in Runs : KindOf(q) = "llm" => ~Crossed(r, q)
  /\ KindOf(r) = "traced" => \A q \in Runs \ {r} : KindOf(q) = "traced" =>
       When(q, "failed") = {} /\ ~Between(r, q) /\ ~Between(q, r)

Within(r) ==
  ParentOf(r) = NoRun \/
  \A i \in DOMAIN handled : handled[i].run = r =>
    /\ \E j \in When(ParentOf(r), "start") : j < i
    /\ \A j \in When(ParentOf(r), "end") : i < j

\* What was told in order is recorded: one span for each attempt, under the span
\* of the parent, closed and shipped once.  In particular a model call that both
\* an adapter and a wrapped client see is not counted twice, whatever else the
\* process is doing.
OrderlyIsRecorded ==
  \A r \in Runs :
    (attempts[r] > 0 /\ \A q \in Lineage(r) : Done(q) /\ Alternates(q) /\ Alone(q) /\ Within(q)) =>
      /\ Cardinality(SpansOf(r)) = attempts[r]
      /\ \A i \in SpansOf(r) :
           /\ spans[i].closed /\ spans[i].shipped = 1 /\ spans[i].parked = 0
           /\ IF ParentOf(r) = NoRun THEN spans[i].parent = 0
              ELSE spans[i].parent # 0 /\ spans[spans[i].parent].run = ParentOf(r)

\* A call of the agent itself goes unrecorded only while a model call of the
\* framework is under way in its context, or after one whose end was handled
\* elsewhere, or out of step with another.
SuppressedForAReason ==
  \A i \in DOMAIN handled :
    (handled[i].what = "suppressed" /\ KindOf(handled[i].run) = "direct") =>
      \E r \in Runs : /\ KindOf(r) = "llm"
                      /\ \E j \in Began(r) \cup When(r, "end") : j < i /\ handled[j].ctx = handled[i].ctx
                      /\ \/ \A k \in When(r, "end") : k < i => handled[k].ctx # handled[i].ctx
                         \/ \E q \in Runs : KindOf(q) = "llm" /\ q # r /\ Crossed(r, q)

\* When everything is over no span is left open and nothing is left in the map,
\* but for a run whose events came out of order, or never.
LeftOpenForAReason ==
  (\A r \in Runs : Done(r)) =>
    /\ \A i \in DOMAIN spans : ~spans[i].closed =>
         ~Alternates(spans[i].run) \/ (KindOf(spans[i].run) = "traced" /\ ~Alone(spans[i].run))
    /\ \A r \in Runs : open[r] # 0 => ~Alternates(r)
=============================================================================
