---------------------------- MODULE BoundedQueue ----------------------------
(***************************************************************************)
(* The recorder's in-process buffer (exporter/queue.py): the agent's       *)
(* threads call export(), one daemon thread drains the queue into the      *)
(* inner exporter, and flush() and shutdown() may be called from any       *)
(* thread (the atexit and the signal handlers of exporter/shutdown.py      *)
(* among them).  One action is one critical section of queue.Queue or one  *)
(* access to the shutdown Event, so every interleaving CPython's threads   *)
(* can take at those points is a behaviour here.  Time is abstracted: a    *)
(* timeout may fire whenever the condition it waits for is still false.    *)
(***************************************************************************)
EXTENDS Integers, Sequences, FiniteSets

CONSTANTS
    Spans,       \* the spans the agent's threads export, each one once
    Critical,    \* those of type human_approval or side_effect
    Producers,   \* threads that call export()
    Closers,     \* threads that call shutdown()
    Flushers,    \* threads that call flush()
    MaxSize,     \* max_size of the queue.Queue
    None         \* the shutdown sentinel that shutdown() puts in the queue

ASSUME QueueAssumption ==
    /\ Critical \subseteq Spans
    /\ None \notin Spans
    /\ MaxSize \in Nat \ {0}

VARIABLES
    queue,            \* self._queue
    unfinished_tasks, \* self._queue.unfinished_tasks
    dropped_count,    \* self._dropped_count
    is_shutdown,      \* the Event self._shutdown
    pc,               \* where each producer is in export()
    calls,            \* the spans each producer has passed to export(), in order
    worker,           \* the drain thread: its state and the item it holds
    closer,           \* where each closer is in shutdown()
    flusher,          \* where each flusher is, and the spans accepted before it
    inner_closed,     \* self._inner.shutdown() has been called
    fate,             \* history: what has become of each span
    handed,           \* history: the spans passed to the inner exporter, in order
    late              \* history: the spans enqueued once is_shutdown was set

prodVars  == <<pc, calls>>
queueVars == <<queue, unfinished_tasks>>
histVars  == <<fate, handed, late>>
vars == <<queue, unfinished_tasks, dropped_count, is_shutdown, pc, calls,
          worker, closer, flusher, inner_closed, fate, handed, late>>

Items == Spans \cup {None}

ProducerState == {"idle", "put", "wait", "evict", "reput"}
WorkerState   == {"get", "export", "exited"}
CloserState   == {"start", "set", "put", "join", "unsignalled", "done"}
FlusherState  == {"idle", "waiting", "drained", "expired"}

\* "held": inside export(); "refused": export() after shutdown; "loud": the
\* AC406 drop; "evicted": removed to make room; "discarded": the second
\* put_nowait of _handle_full found the queue full; "failed": the inner
\* exporter raised; "too_late": handed over after the inner exporter's shutdown.
Fates == {"unsent", "held", "queued", "draining", "delivered", "failed",
          "too_late", "refused", "loud", "evicted", "discarded"}

TypeOK ==
    /\ queue \in Seq(Items)
    /\ Len(queue) <= MaxSize
    /\ unfinished_tasks \in Nat
    /\ dropped_count \in Nat
    /\ is_shutdown \in BOOLEAN
    /\ pc \in [Producers -> ProducerState]
    /\ calls \in [Producers -> Seq(Spans)]
    /\ \A p \in Producers : pc[p] # "idle" => calls[p] # <<>>
    /\ worker \in [state : WorkerState, item : Items]
    /\ worker.state = "export" <=> worker.item \in Spans
    /\ closer \in [Closers -> CloserState]
    /\ flusher \in [Flushers -> [state : FlusherState, owed : SUBSET Spans]]
    /\ inner_closed \in BOOLEAN
    /\ fate \in [Spans -> Fates]
    /\ handed \in Seq(Spans)
    /\ late \in SUBSET Spans

Init ==
    /\ queue = <<>>
    /\ unfinished_tasks = 0
    /\ dropped_count = 0
    /\ is_shutdown = FALSE
    /\ pc = [p \in Producers |-> "idle"]
    /\ calls = [p \in Producers |-> <<>>]
    /\ worker = [state |-> "get", item |-> None]
    /\ closer = [c \in Closers |-> "start"]
    /\ flusher = [f \in Flushers |-> [state |-> "idle", owed |-> {}]]
    /\ inner_closed = FALSE
    /\ fate = [s \in Spans |-> "unsent"]
    /\ handed = <<>>
    /\ late = {}

-----------------------------------------------------------------------------
(* queue.Queue *)

\* Mutant: room for one item too many.
FullOffByOne == Len(queue) > MaxSize

Full == Len(queue) >= MaxSize

\* Mutant: a put jumps the queue.
PutFirst(item) ==
    /\ queue' = <<item>> \o queue
    /\ unfinished_tasks' = unfinished_tasks + 1

Put(item) ==
    /\ queue' = Append(queue, item)
    /\ unfinished_tasks' = unfinished_tasks + 1

\* get() takes the item out of the queue; only task_done() lowers the count.
Get == queue' = Tail(queue)

TaskDone == unfinished_tasks' = unfinished_tasks - 1

-----------------------------------------------------------------------------
(* export(span), by a thread of the agent *)

Current(p) == calls[p][Len(calls[p])]

Fate(s, f) == fate' = [fate EXCEPT ![s] = f]

Goto(p, label) == pc' = [pc EXCEPT ![p] = label]

Enqueue(p) ==
    /\ ~Full
    /\ Put(Current(p))
    /\ Goto(p, "idle")
    /\ Fate(Current(p), "queued")
    /\ late' = IF is_shutdown THEN late \cup {Current(p)} ELSE late
    /\ UNCHANGED <<dropped_count, is_shutdown, calls, worker, closer, flusher,
                   inner_closed, handed>>

Call(p, s) ==
    /\ pc[p] = "idle"
    /\ fate[s] = "unsent"
    /\ calls' = [calls EXCEPT ![p] = Append(@, s)]

\* The Event is set: count the drop and return.
ExportRefused(p, s) ==
    /\ Call(p, s)
    /\ is_shutdown
    /\ Fate(s, "refused")
    /\ dropped_count' = dropped_count + 1
    /\ UNCHANGED <<queueVars, is_shutdown, pc, worker, closer, flusher,
                   inner_closed, handed, late>>

\* The Event is not set: go on to put_nowait, which is a step of its own.
ExportAdmitted(p, s) ==
    /\ Call(p, s)
    /\ ~is_shutdown
    /\ Fate(s, "held")
    /\ Goto(p, "put")
    /\ UNCHANGED <<queueVars, dropped_count, is_shutdown, worker, closer,
                   flusher, inner_closed, handed, late>>

PutNowait(p) == pc[p] = "put" /\ Enqueue(p)

PutNowaitFull(p) ==
    /\ pc[p] = "put"
    /\ Full
    /\ Goto(p, IF Current(p) \in Critical THEN "wait" ELSE "evict")
    /\ UNCHANGED <<queueVars, dropped_count, is_shutdown, calls, worker, closer,
                   flusher, inner_closed, histVars>>

\* Mutant: a critical span that has waited evicts, as any other would.
CriticalEvicts(p) ==
    /\ pc[p] = "wait"
    /\ Full
    /\ Goto(p, "evict")
    /\ UNCHANGED <<queueVars, dropped_count, is_shutdown, calls, worker, closer,
                   flusher, inner_closed, histVars>>

\* put(span, timeout=remaining) of a critical span.
CriticalPut(p) == pc[p] = "wait" /\ Enqueue(p)

\* Mutant: the deadline is computed afresh in the loop, and never passes.
CriticalTimeoutRestarts(p) ==
    /\ pc[p] = "wait"
    /\ Full
    /\ Goto(p, "put")
    /\ UNCHANGED <<queueVars, dropped_count, is_shutdown, calls, worker, closer,
                   flusher, inner_closed, histVars>>

CriticalTimeout(p) ==
    /\ pc[p] = "wait"
    /\ Full
    /\ Fate(Current(p), "loud")
    /\ dropped_count' = dropped_count + 1
    /\ Goto(p, "idle")
    /\ UNCHANGED <<queueVars, is_shutdown, calls, worker, closer, flusher,
                   inner_closed, handed, late>>

\* get_nowait() and _record_drop(): the oldest item goes, whatever it is, and
\* the drop is counted also when the worker has emptied the queue meanwhile.
EvictOldest(p) ==
    /\ pc[p] = "evict"
    /\ Goto(p, "reput")
    /\ dropped_count' = dropped_count + 1
    /\ IF queue = <<>>
          THEN UNCHANGED <<queue, fate>>
          ELSE /\ Get
               /\ fate' = [s \in Spans |->
                             IF s = Head(queue) THEN "evicted" ELSE fate[s]]
    /\ UNCHANGED <<unfinished_tasks, is_shutdown, calls, worker, closer,
                   flusher, inner_closed, handed, late>>

RePut(p) == pc[p] = "reput" /\ Enqueue(p)

\* Another thread has refilled the queue: the Full is swallowed.
RePutFull(p) ==
    /\ pc[p] = "reput"
    /\ Full
    /\ Fate(Current(p), "discarded")
    /\ Goto(p, "idle")
    /\ UNCHANGED <<queueVars, dropped_count, is_shutdown, calls, worker, closer,
                   flusher, inner_closed, handed, late>>

ProducerStep(p) ==
    \/ PutNowait(p) \/ PutNowaitFull(p)
    \/ CriticalPut(p) \/ CriticalTimeout(p)
    \/ EvictOldest(p) \/ RePut(p) \/ RePutFull(p)

-----------------------------------------------------------------------------
(* _drain_loop, the worker thread *)

WorkerGet ==
    /\ worker.state = "get"
    /\ queue # <<>>
    /\ Head(queue) # None
    /\ Get
    /\ worker' = [state |-> "export", item |-> Head(queue)]
    /\ handed' = Append(handed, Head(queue))
    /\ Fate(Head(queue), IF inner_closed THEN "too_late" ELSE "draining")
    /\ UNCHANGED <<unfinished_tasks, dropped_count, is_shutdown, prodVars,
                   closer, flusher, inner_closed, late>>

\* Mutant: an exception of the inner exporter ends the thread.
WorkerExportedDies(outcome) ==
    /\ worker.state = "export"
    /\ worker' = [state |-> IF outcome = "failed" THEN "exited" ELSE "get",
                  item |-> None]
    /\ TaskDone
    /\ Fate(worker.item, outcome)
    /\ UNCHANGED <<queue, dropped_count, is_shutdown, prodVars, closer, flusher,
                   inner_closed, handed, late>>

\* inner.export returned, or raised and was logged (AC405); task_done() in
\* the finally clause either way.
WorkerExported(outcome) ==
    /\ worker.state = "export"
    /\ worker' = [state |-> "get", item |-> None]
    /\ TaskDone
    /\ IF fate[worker.item] = "draining"
          THEN Fate(worker.item, outcome)
          ELSE UNCHANGED fate
    /\ UNCHANGED <<queue, dropped_count, is_shutdown, prodVars, closer, flusher,
                   inner_closed, handed, late>>

WorkerStop ==
    /\ worker.state = "get"
    /\ queue # <<>>
    /\ Head(queue) = None
    /\ Get
    /\ TaskDone
    /\ worker' = [state |-> "exited", item |-> None]
    /\ UNCHANGED <<dropped_count, is_shutdown, prodVars, closer, flusher,
                   inner_closed, histVars>>

WorkerStep ==
    \/ WorkerGet
    \/ WorkerStop
    \/ \E outcome \in {"delivered", "failed"} : WorkerExported(outcome)

-----------------------------------------------------------------------------
(* shutdown(timeout) *)

CloserGoto(c, label) == closer' = [closer EXCEPT ![c] = label]

\* Mutant: go on to the sentinel without setting the Event.
ShutdownCheckOnly(c) ==
    /\ closer[c] = "start"
    /\ CloserGoto(c, IF is_shutdown THEN "done" ELSE "put")
    /\ UNCHANGED <<queueVars, dropped_count, is_shutdown, prodVars, worker,
                   flusher, inner_closed, histVars>>

\* The test and the set of the Event are two steps: two closers can pass.
ShutdownCheck(c) ==
    /\ closer[c] = "start"
    /\ CloserGoto(c, IF is_shutdown THEN "done" ELSE "set")
    /\ UNCHANGED <<queueVars, dropped_count, is_shutdown, prodVars, worker,
                   flusher, inner_closed, histVars>>

ShutdownSet(c) ==
    /\ closer[c] = "set"
    /\ is_shutdown' = TRUE
    /\ CloserGoto(c, "put")
    /\ UNCHANGED <<queueVars, dropped_count, prodVars, worker, flusher,
                   inner_closed, histVars>>

ShutdownPut(c) ==
    /\ closer[c] = "put"
    /\ ~Full
    /\ Put(None)
    /\ CloserGoto(c, "join")
    /\ UNCHANGED <<dropped_count, is_shutdown, prodVars, worker, flusher,
                   inner_closed, histVars>>

\* put(None) timed out on a full queue (AC407): join without a sentinel.
ShutdownPutTimeout(c) ==
    /\ closer[c] = "put"
    /\ Full
    /\ CloserGoto(c, "unsignalled")
    /\ UNCHANGED <<queueVars, dropped_count, is_shutdown, prodVars, worker,
                   flusher, inner_closed, histVars>>

\* join(timeout) returns whether or not the worker has exited; then the inner
\* exporter is shut down.
ShutdownInner(c) ==
    /\ closer[c] \in {"join", "unsignalled"}
    /\ inner_closed' = TRUE
    /\ CloserGoto(c, "done")
    /\ UNCHANGED <<queueVars, dropped_count, is_shutdown, prodVars, worker,
                   flusher, histVars>>

CloserStep(c) ==
    \/ ShutdownCheck(c) \/ ShutdownSet(c) \/ ShutdownPut(c)
    \/ ShutdownPutTimeout(c) \/ ShutdownInner(c)

-----------------------------------------------------------------------------
(* flush(timeout) *)

FlushCall(f) ==
    /\ flusher[f].state = "idle"
    /\ flusher' = [flusher EXCEPT ![f] =
          [state |-> "waiting",
           owed  |-> {s \in Spans : fate[s] \in {"queued", "draining"}}]]
    /\ UNCHANGED <<queueVars, dropped_count, is_shutdown, prodVars, worker,
                   closer, inner_closed, histVars>>

\* Mutant: wait for an empty queue and not for the worker.
FlushWaitedEmpty(f) ==
    /\ flusher[f].state = "waiting"
    /\ flusher' = [flusher EXCEPT ![f].state =
          IF queue = <<>> THEN "drained" ELSE "expired"]
    /\ UNCHANGED <<queueVars, dropped_count, is_shutdown, prodVars, worker,
                   closer, inner_closed, histVars>>

\* The polling loop ends: the count is zero, or the deadline has passed.
FlushWaited(f) ==
    /\ flusher[f].state = "waiting"
    /\ flusher' = [flusher EXCEPT ![f].state =
          IF unfinished_tasks = 0 THEN "drained" ELSE "expired"]
    /\ UNCHANGED <<queueVars, dropped_count, is_shutdown, prodVars, worker,
                   closer, inner_closed, histVars>>

\* inner.flush(), then return.
FlushReturn(f) ==
    /\ flusher[f].state \in {"drained", "expired"}
    /\ flusher' = [flusher EXCEPT ![f] = [state |-> "idle", owed |-> {}]]
    /\ UNCHANGED <<queueVars, dropped_count, is_shutdown, prodVars, worker,
                   closer, inner_closed, histVars>>

FlusherStep(f) == FlushCall(f) \/ FlushWaited(f) \/ FlushReturn(f)

-----------------------------------------------------------------------------
Next ==
    \/ \E p \in Producers :
          \/ \E s \in Spans : ExportRefused(p, s) \/ ExportAdmitted(p, s)
          \/ ProducerStep(p)
    \/ WorkerStep
    \/ \E c \in Closers : CloserStep(c)
    \/ \E f \in Flushers : FlusherStep(f)

Spec == Init /\ [][Next]_vars

\* A thread that has entered export() or shutdown() keeps running, and its
\* timeouts fire; nothing is assumed of the worker or of the inner exporter.
LiveSpec ==
    /\ Spec
    /\ \A p \in Producers : WF_vars(ProducerStep(p))
    /\ \A c \in Closers : WF_vars(CloserStep(c) /\ closer[c] # "start")

-----------------------------------------------------------------------------
Busy == IF worker.state = "export" THEN 1 ELSE 0

\* The unfinished count of the queue never falls below the items that are
\* still queued or in the worker's hands, whatever evictions, sentinels and
\* failures of the inner exporter came between (queue.py:113-120).
TaskAccounting == unfinished_tasks >= Len(queue) + Busy

\* When flush() leaves its polling loop because the count is zero, every span
\* that export() had accepted before the flush has left the queue and the
\* worker: none of them is still to be handed over (queue.py:131-134).
FlushHandsOver ==
    \A f \in Flushers : flusher[f].state = "drained" =>
        \A s \in flusher[f].owed : fate[s] \notin {"queued", "draining"}

\* A worker that exited has drained what was there to drain: a span still in
\* the queue then was enqueued after the shutdown Event was set, by a producer
\* that had tested the Event before (queue.py:66-70, 146-148).
StrandedOnlyLate ==
    worker.state = "exited" =>
        \A i \in 1..Len(queue) : queue[i] \in late \cup {None}

\* The inner exporter sees the spans of one thread in the order in which that
\* thread exported them, each at most once, through evictions, critical waits
\* and second attempts to put (queue.py:65-103).
ProducerOrder ==
    \A p \in Producers : \A i, j \in 1..Len(calls[p]) : \A m, n \in 1..Len(handed) :
        /\ handed[m] = calls[p][i]
        /\ handed[n] = calls[p][j]
        => (i < j <=> m < n)

\* Every call of export() returns, and so does every call of shutdown(), even
\* if the inner exporter never does: "the producer never blocks on the
\* underlying destination's I/O" (queue.py:4-5, 76-94, 147-156).
CallsReturn ==
    /\ \A p \in Producers : pc[p] # "idle" ~> pc[p] = "idle"
    /\ \A c \in Closers : closer[c] # "start" ~> closer[c] = "done"

\* As long as nobody shuts the queue down, an accepted span does not stay in
\* it: provided the drain thread runs and inner.export returns or raises
\* (HTTPExporter's only appends to a buffer), the worker hands it over, or a
\* later span evicts it (queue.py:95-120).
AcceptedLeavesQueue ==
    WF_vars(WorkerStep) =>
        \A s \in Spans : fate[s] = "queued" ~> (fate[s] # "queued" \/ is_shutdown)

-----------------------------------------------------------------------------
(* Strengthenings: what makes FlushHandsOver and StrandedOnlyLate inductive *)

\* Every span in flight is in exactly one place: one producer's hands, one
\* slot of the queue or the worker's hands; and flush() only waits for spans
\* that some export() call had already put (queue.py:65-120).
SpanPlaces ==
    /\ \A p \in Producers : pc[p] # "idle" => fate[Current(p)] = "held"
    /\ \A p, q \in Producers :
          pc[p] # "idle" /\ pc[q] # "idle" /\ Current(p) = Current(q) => p = q
    /\ \A i \in 1..Len(queue) : queue[i] \in Spans => fate[queue[i]] = "queued"
    /\ \A i, j \in 1..Len(queue) :
          queue[i] \in Spans /\ queue[i] = queue[j] => i = j
    /\ \A s \in Spans : fate[s] = "queued" => \E i \in 1..Len(queue) : queue[i] = s
    /\ \A s \in Spans : fate[s] = "draining" => worker.item = s
    /\ \A f \in Flushers : \A s \in flusher[f].owed : fate[s] \notin {"unsent", "held"}

\* A sentinel exists only once the Event is set, so whatever is behind one in
\* the queue is a sentinel or a late span (queue.py:66-70, 142-148).
SentinelFirst ==
    /\ ~is_shutdown =>
          /\ \A i \in 1..Len(queue) : queue[i] # None
          /\ worker.state # "exited"
          /\ \A c \in Closers : closer[c] \in {"start", "set"}
    /\ \A i, j \in 1..Len(queue) :
          i < j /\ queue[i] = None => queue[j] \in late \cup {None}

-----------------------------------------------------------------------------
(* The promise of the buffer, in terms of its threads and its queue *)

InCall(s, label) == \E p \in Producers : pc[p] = label /\ Current(p) = s

\* Where a span is in the eyes of SpanCustody.
PlaceOf(s) ==
    CASE fate[s] = "unsent" -> "agent"
      [] fate[s] = "held"   -> IF InCall(s, "wait") THEN "waiting"
                               ELSE IF InCall(s, "evict") THEN "displacing"
                               ELSE IF InCall(s, "reput") THEN "displaced"
                               ELSE "call"
      [] fate[s] = "queued" -> "buffer"
      [] fate[s] \in {"draining", "delivered", "failed", "too_late"} ->
             IF worker.item = s THEN "hand" ELSE "given"
      [] OTHER -> "lost"

Place == [s \in Spans |-> PlaceOf(s)]

Custody == INSTANCE SpanCustody WITH
    place <- Place,
    closing <- is_shutdown,
    stopped <- (worker.state = "exited")

\* The buffer implements SpanCustody: through every interleaving of exports,
\* evictions, waits, the drain thread, flushes and shutdowns a span only moves
\* forward, one at a time is with the inner exporter, none is taken from the
\* buffer once the worker has stopped, each export displaces at most one
\* buffered span, and a critical one none (queue.py:7-16, 65-156).
CustodyKept == Custody!CustodySpec

-----------------------------------------------------------------------------
(* What the comments of queue.py say, and the code does not do *)

\* queue.py:14 "Critical spans are never silently dropped": a critical span
\* that export() accepted is never removed to make room for another one.
CriticalNeverEvicted == \A s \in Critical : fate[s] # "evicted"

\* queue.py:131 "unfinished_tasks hits 0 only after each task_done": an empty
\* queue and a worker with nothing in its hands leave nothing to wait for.
IdleMeansFinished == queue = <<>> /\ Busy = 0 => unfinished_tasks = 0
=============================================================================
