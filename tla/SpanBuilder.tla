----------------------------- MODULE SpanBuilder -----------------------------
(***************************************************************************)
(* The tree of spans that the recorder builds (span/builder.py), as the    *)
(* decorator of instrumentation/decorator.py drives it, in the tasks and   *)
(* threads of the agent (context/propagation.py).  A span that closes is   *)
(* parked with its parent, which ships it when it closes itself, because   *)
(* only then is the parent's hash known.  Tasks inherit the current parent *)
(* of the task that spawns them and may outlive it.  The list of parked    *)
(* spans is shared by threads without a lock.                              *)
(***************************************************************************)
EXTENDS Naturals, Sequences

CONSTANTS
    Spans,   \* the spans the agent opens, each one once
    Tasks,   \* asyncio tasks, and threads whose work is bound by bind_context
    None     \* no parent

ASSUME BuilderAssumption == None \notin Spans \cup Tasks

VARIABLES
    state,     \* where each span is between open() and close()
    parent,    \* OpenSpan._parent
    pending,   \* OpenSpan._pending
    cursor,    \* how many of them the loop of _close_impl has shipped
    started,   \* the tasks that have begun
    inherited, \* the value of _current_parent that each began with
    scopes,    \* the span_scope blocks each task is in, the innermost first
    opener,    \* history: the task that opened each span
    shipped,   \* history: the exported spans in order, and whose hash each names
    late       \* history: the spans parked with a parent that ships no more

treeVars == <<parent, opener>>
taskVars == <<started, inherited>>
closeVars == <<pending, cursor, shipped, late>>
vars == <<state, scopes, treeVars, taskVars, closeVars>>

\* "gating": open, the verdict not there yet; "running": the function; "closing":
\* the loop over _pending; "looped": before clear(); "failed": close() gave up;
\* "abandoned": never closed.
Active == {"gating", "running", "closing", "looped"}
States == Active \cup {"unopened", "done", "failed", "abandoned"}

TypeOK ==
    /\ state \in [Spans -> States]
    /\ parent \in [Spans -> Spans \cup {None}]
    /\ pending \in [Spans -> Seq(Spans)]
    /\ cursor \in [Spans -> Nat]
    /\ started \in SUBSET Tasks
    /\ inherited \in [Tasks -> Spans \cup {None}]
    /\ scopes \in [Tasks -> Seq(Spans)]
    /\ opener \in [Spans -> Tasks \cup {None}]
    /\ shipped \in Seq([span : Spans, stamp : Spans \cup {None}])
    /\ late \in SUBSET Spans

Init ==
    /\ state = [s \in Spans |-> "unopened"]
    /\ parent = [s \in Spans |-> None]
    /\ pending = [s \in Spans |-> <<>>]
    /\ cursor = [s \in Spans |-> 0]
    /\ started = {}
    /\ inherited = [t \in Tasks |-> None]
    /\ scopes = [t \in Tasks |-> <<>>]
    /\ opener = [s \in Spans |-> None]
    /\ shipped = <<>>
    /\ late = {}

-----------------------------------------------------------------------------
(* Tasks and the context *)

\* current_parent(), in task t
Current(t) == IF scopes[t] = <<>> THEN inherited[t] ELSE Head(scopes[t])

In(t, st) == scopes[t] # <<>> /\ state[Head(scopes[t])] = st

\* Mutant: the exporter that close() calls opens spans of its own.
InInstrumentedCode(t) ==
    t \in started /\ (scopes[t] = <<>> \/ In(t, "running") \/ In(t, "looped"))

\* The task is in code of the agent, which may open spans and spawn tasks.
InAgentCode(t) == t \in started /\ (scopes[t] = <<>> \/ In(t, "running"))

\* A thread that begins without a context.
Start(t) ==
    /\ t \notin started
    /\ started' = started \cup {t}
    /\ UNCHANGED <<state, scopes, treeVars, inherited, closeVars>>

\* asyncio.create_task, or bind_context and a thread.
Spawn(t, u) ==
    /\ InAgentCode(t)
    /\ u \notin started
    /\ started' = started \cup {u}
    /\ inherited' = [inherited EXCEPT ![u] = Current(t)]
    /\ UNCHANGED <<state, scopes, treeVars, closeVars>>

-----------------------------------------------------------------------------
(* The decorator *)

Goto(s, st) == state' = [state EXCEPT ![s] = st]

\* open() and the entry into span_scope.
Open(t, s) ==
    /\ InAgentCode(t)
    /\ state[s] = "unopened"
    /\ Goto(s, "gating")
    /\ parent' = [parent EXCEPT ![s] = Current(t)]
    /\ opener' = [opener EXCEPT ![s] = t]
    /\ scopes' = [scopes EXCEPT ![t] = <<s>> \o @]
    /\ UNCHANGED <<taskVars, closeVars>>

\* The gate does not block, or the span is of a type that is not gated.
GatePasses(t) ==
    /\ In(t, "gating")
    /\ Goto(Head(scopes[t]), "running")
    /\ UNCHANGED <<scopes, treeVars, taskVars, closeVars>>

\* The end of the span's work: blocked by the gate, or the function returned or
\* raised.  close() begins, and the content hash is computed.
EndsFrom(t, st) ==
    /\ In(t, st)
    /\ Goto(Head(scopes[t]), "closing")
    /\ UNCHANGED <<scopes, treeVars, taskVars, closeVars>>

GateBlocks(t) == EndsFrom(t, "gating")
FunctionEnds(t) == EndsFrom(t, "running")

Leave(t) == scopes' = [scopes EXCEPT ![t] = Tail(@)]

\* The task is cancelled while it waits for the gate: nothing closes the span.
GateCancelled(t) ==
    /\ In(t, "gating")
    /\ Goto(Head(scopes[t]), "abandoned")
    /\ Leave(t)
    /\ UNCHANGED <<treeVars, taskVars, closeVars>>

-----------------------------------------------------------------------------
(* close() *)

Ship(s, stamp) == shipped' = Append(shipped, [span |-> s, stamp |-> stamp])

\* The iterator over _pending sees what other threads append meanwhile.
ShipChild(t) ==
    /\ In(t, "closing")
    /\ LET s == Head(scopes[t]) IN
          /\ cursor[s] < Len(pending[s])
          /\ Ship(pending[s][cursor[s] + 1], s)
          /\ cursor' = [cursor EXCEPT ![s] = @ + 1]
    /\ UNCHANGED <<state, scopes, treeVars, taskVars, pending, late>>

\* Mutant: the loop misses the last one.
LoopEndsEarly(t) ==
    /\ In(t, "closing")
    /\ LET s == Head(scopes[t]) IN
          /\ cursor[s] + 1 >= Len(pending[s])
          /\ Goto(s, "looped")
    /\ UNCHANGED <<scopes, treeVars, taskVars, closeVars>>

LoopEnds(t) ==
    /\ In(t, "closing")
    /\ LET s == Head(scopes[t]) IN
          /\ cursor[s] = Len(pending[s])
          /\ Goto(s, "looped")
    /\ UNCHANGED <<scopes, treeVars, taskVars, closeVars>>

\* Mutant: a span whose parent has closed is shipped at once.
ParkOrShip(s, p) ==
    IF state[p] = "done"
    THEN /\ pending' = [pending EXCEPT ![s] = <<>>]
         /\ Ship(s, None)
         /\ UNCHANGED late
    ELSE /\ pending' = [pending EXCEPT ![s] = <<>>, ![p] = Append(@, s)]
         /\ late' = IF state[p] = "looped" THEN late \cup {s} ELSE late
         /\ UNCHANGED shipped

Park(s, p) ==
    /\ pending' = [pending EXCEPT ![s] = <<>>, ![p] = Append(@, s)]
    /\ late' = IF state[p] \in {"looped", "done"} THEN late \cup {s} ELSE late
    /\ UNCHANGED shipped

ShipRoot(s) ==
    /\ pending' = [pending EXCEPT ![s] = <<>>]
    /\ Ship(s, None)
    /\ UNCHANGED late

\* clear(), then a root ships itself and any other span is parked.
CloseEnds(t) ==
    /\ In(t, "looped")
    /\ LET s == Head(scopes[t]) IN
          /\ Goto(s, "done")
          /\ IF parent[s] = None THEN ShipRoot(s) ELSE Park(s, parent[s])
    /\ Leave(t)
    /\ UNCHANGED <<cursor, treeVars, taskVars>>

\* Validation, redaction, hashing or an export raises, that of the root included:
\* close() logs and returns None, with what is left not shipped.
CloseFails(t) ==
    /\ \/ In(t, "closing")
       \/ In(t, "looped") /\ parent[Head(scopes[t])] = None
    /\ Goto(Head(scopes[t]), "failed")
    /\ Leave(t)
    /\ UNCHANGED <<treeVars, taskVars, closeVars>>

TaskStep(t) ==
    \/ Start(t)
    \/ \E u \in Tasks : Spawn(t, u)
    \/ \E s \in Spans : Open(t, s)
    \/ GatePasses(t) \/ GateBlocks(t) \/ GateCancelled(t) \/ FunctionEnds(t)
    \/ ShipChild(t) \/ LoopEnds(t) \/ CloseEnds(t) \/ CloseFails(t)

Next == \E t \in Tasks : TaskStep(t)

Spec == Init /\ [][Next]_vars

-----------------------------------------------------------------------------
ShippedSpans == {shipped[i].span : i \in 1..Len(shipped)}

\* A span ships at most once and names the hash of the parent it was opened
\* under, and a parent never ships before its child, whichever task closes
\* first (builder.py:14-20, 231-250).
ChainHolds ==
    /\ \A i \in 1..Len(shipped) : shipped[i].stamp = parent[shipped[i].span]
    /\ \A i, j \in 1..Len(shipped) : shipped[i].span = shipped[j].span => i = j
    /\ \A i, j \in 1..Len(shipped) :
          parent[shipped[j].span] = shipped[i].span => j < i

\* A closed span that has not shipped is still to come in the loop of a parent
\* that is not there yet, or it is lost for one of two reasons: the parent's
\* loop was over, or the parent's close failed (builder.py:178-182, 231-250).
LostForAReason ==
    \A s \in Spans : state[s] = "done" /\ s \notin ShippedSpans =>
        \/ s \in late
        \/ state[parent[s]] = "failed"
        \/ /\ state[parent[s]] \in {"running", "closing"}
           /\ \E i \in 1..Len(pending[parent[s]]) :
                 i > cursor[parent[s]] /\ pending[parent[s]][i] = s

\* Code of one task never loses a span by closing it too late: that takes a task
\* that outlives the span it was spawned in (propagation.py:48-60, 87-108;
\* builder.py:140-149, 250).
LateOnlyAcrossTasks == \A s \in late : opener[s] # opener[parent[s]]
=============================================================================
