---------------------------- MODULE HTTPExporter ----------------------------
(***************************************************************************)
(* The recorder's network exporter (exporter/http.py with retry.py): spans *)
(* are appended to a buffer; a worker thread, flush() and the last part of *)
(* shutdown() each swap the buffer for an empty one and post what they     *)
(* took, with retries.  The ledger is the environment: a post may be lost, *)
(* answered with 5xx or 4xx, or taken with its answer lost.  The Event     *)
(* _has_work only shortens a wait that ends by itself, so it is left out.  *)
(***************************************************************************)
EXTENDS Integers, FiniteSets

CONSTANTS
    Spans,        \* the spans passed to export(), each one once
    Producers,    \* threads that call export()
    Worker,       \* the flush thread
    Flushers,     \* threads that call flush()
    Closers,      \* threads that call shutdown()
    BatchSize,    \* batch_size
    MaxAttempts   \* retry_policy.max_attempts

Senders == {Worker} \cup Flushers \cup Closers

ASSUME ExporterAssumption ==
    /\ BatchSize \in Nat \ {0}
    /\ MaxAttempts \in Nat \ {0}
    /\ Worker \notin Flushers \cup Closers
    /\ Flushers \cap Closers = {}
    /\ IsFiniteSet(Spans)

VARIABLES
    buffer,        \* self._buffer
    age,           \* self._first_enqueue_time: none, or young or old by now
    dropped,       \* self._dropped
    is_shutdown,   \* the Event self._shutdown
    client_closed, \* self._client.close() has been called
    holding,       \* the spans in the hands of producers, inside export()
    pc,            \* where each sender is
    batch,         \* the batch each sender has taken and not finished with
    attempts,      \* the failed attempts of that batch
    received,      \* external: how often the ledger has taken each span
    gaveup,        \* history: the spans whose batch was dropped
    ignored,       \* history: the spans export() returned without taking
    appended,      \* history: the spans export() has put in the buffer
    late           \* history: the spans appended once is_shutdown was set

vars == <<buffer, age, dropped, is_shutdown, client_closed, holding, pc, batch,
          attempts, received, gaveup, ignored, appended, late>>

histVars == <<gaveup, ignored, appended, late>>

Ages == {"none", "young", "old"}

\* worker: "wait", "flush" (_maybe_flush), "recheck", "exited"; flusher:
\* "idle"; closer: "start", "set", "join", "close", "done"; all: "send".
SenderState == {"wait", "flush", "recheck", "exited", "idle",
                "start", "set", "join", "close", "done", "send"}

TypeOK ==
    /\ buffer \in SUBSET Spans
    /\ age \in Ages
    /\ dropped \in Nat
    /\ is_shutdown \in BOOLEAN
    /\ client_closed \in BOOLEAN
    /\ holding \in [Producers -> SUBSET Spans]
    /\ pc \in [Senders -> SenderState]
    /\ batch \in [Senders -> SUBSET Spans]
    /\ attempts \in [Senders -> 0..(MaxAttempts - 1)]
    /\ received \in [Spans -> Nat]
    /\ gaveup \in SUBSET Spans
    /\ ignored \in SUBSET Spans
    /\ appended \in SUBSET Spans
    /\ late \in SUBSET Spans

Init ==
    /\ buffer = {}
    /\ age = "none"
    /\ dropped = 0
    /\ is_shutdown = FALSE
    /\ client_closed = FALSE
    /\ holding = [p \in Producers |-> {}]
    /\ pc = [t \in Senders |-> IF t = Worker THEN "wait"
                               ELSE IF t \in Flushers THEN "idle" ELSE "start"]
    /\ batch = [t \in Senders |-> {}]
    /\ attempts = [t \in Senders |-> 0]
    /\ received = [s \in Spans |-> 0]
    /\ gaveup = {}
    /\ ignored = {}
    /\ appended = {}
    /\ late = {}

Goto(t, label) == pc' = [pc EXCEPT ![t] = label]

InHand == UNION {holding[p] : p \in Producers}
Taken  == UNION {batch[t] : t \in Senders}
Shipped == {s \in Spans : received[s] > 0}

-----------------------------------------------------------------------------
(* export(span) *)

Fresh(s) == s \notin InHand \cup appended \cup ignored

\* After shutdown() the span is ignored: not sent, and not counted either.
ExportIgnored(s) ==
    /\ Fresh(s)
    /\ is_shutdown
    /\ ignored' = ignored \cup {s}
    /\ UNCHANGED <<buffer, age, dropped, is_shutdown, client_closed, holding, pc,
                   batch, attempts, received, gaveup, appended, late>>

ExportChecked(p, s) ==
    /\ Fresh(s)
    /\ holding[p] = {}
    /\ ~is_shutdown
    /\ holding' = [holding EXCEPT ![p] = {s}]
    /\ UNCHANGED <<buffer, age, dropped, is_shutdown, client_closed, pc, batch,
                   attempts, received, histVars>>

\* Under the lock; the producer's earlier test of the Event may be stale.
ExportAppend(p) ==
    /\ holding[p] # {}
    /\ buffer' = buffer \cup holding[p]
    /\ holding' = [holding EXCEPT ![p] = {}]
    /\ age' = IF age = "none" THEN "young" ELSE age
    /\ late' = IF is_shutdown THEN late \cup holding[p] ELSE late
    /\ appended' = appended \cup holding[p]
    /\ UNCHANGED <<dropped, is_shutdown, client_closed, pc, batch, attempts,
                   received, gaveup, ignored>>

\* batch_max_wait_s passes after the first span entered the empty buffer.
Tick ==
    /\ age = "young"
    /\ age' = "old"
    /\ UNCHANGED <<buffer, dropped, is_shutdown, client_closed, holding, pc, batch,
                   attempts, received, histVars>>

-----------------------------------------------------------------------------
(* _flush_loop and _maybe_flush, the worker thread *)

Finished == is_shutdown /\ buffer = {}

WorkerLoop(from, next) ==
    /\ pc[Worker] = from
    /\ Goto(Worker, IF Finished THEN "exited" ELSE next)
    /\ UNCHANGED <<buffer, age, dropped, is_shutdown, client_closed, holding, batch,
                   attempts, received, histVars>>

\* The wait ends, by the Event or by its timeout.
WorkerWake    == WorkerLoop("wait", "flush")
WorkerRecheck == WorkerLoop("recheck", "wait")

Take(t) ==
    /\ batch' = [batch EXCEPT ![t] = buffer]
    /\ buffer' = {}
    /\ Goto(t, "send")

\* Mutant: only a full batch is due.
ShouldFlushFull == Cardinality(buffer) >= BatchSize

ShouldFlush == Cardinality(buffer) >= BatchSize \/ age = "old" \/ is_shutdown

WorkerTake ==
    /\ pc[Worker] = "flush"
    /\ buffer # {}
    /\ ShouldFlush
    /\ Take(Worker)
    /\ age' = "none"
    /\ UNCHANGED <<dropped, is_shutdown, client_closed, holding, attempts, received, histVars>>

WorkerNothingDue ==
    /\ pc[Worker] = "flush"
    /\ buffer = {} \/ ~ShouldFlush
    /\ Goto(Worker, "recheck")
    /\ age' = IF buffer = {} THEN "none" ELSE age
    /\ UNCHANGED <<buffer, dropped, is_shutdown, client_closed, holding, batch,
                   attempts, received, histVars>>

-----------------------------------------------------------------------------
(* _send_with_retry, by whichever thread took the batch *)

\* The worker goes back to its loop, flush() returns, shutdown() closes the client.
Finish(t) ==
    /\ Goto(t, IF t = Worker THEN "recheck" ELSE IF t \in Flushers THEN "idle" ELSE "close")
    /\ batch' = [batch EXCEPT ![t] = {}]
    /\ attempts' = [attempts EXCEPT ![t] = 0]

\* Mutant: a dropped batch counts as one drop.
GiveUpCountsOne(t) ==
    /\ Finish(t)
    /\ dropped' = dropped + 1
    /\ gaveup' = gaveup \cup batch[t]

GiveUp(t) ==
    /\ Finish(t)
    /\ dropped' = dropped + Cardinality(batch[t])
    /\ gaveup' = gaveup \cup batch[t]

Retry(t) ==
    IF attempts[t] + 1 = MaxAttempts
       THEN GiveUp(t)
       ELSE /\ attempts' = [attempts EXCEPT ![t] = @ + 1]
            /\ UNCHANGED <<pc, batch, dropped, gaveup>>

LedgerTakes(b) ==
    received' = [s \in Spans |-> received[s] + (IF s \in b THEN 1 ELSE 0)]

\* _serialize raises before the first attempt (AC402).
SerializeFailed(t) ==
    /\ pc[t] = "send"
    /\ attempts[t] = 0
    /\ GiveUp(t)
    /\ UNCHANGED <<buffer, age, is_shutdown, client_closed, holding, received, ignored,
                   appended, late>>

AttemptAccepted(t) ==
    /\ pc[t] = "send"
    /\ ~client_closed
    /\ LedgerTakes(batch[t])
    /\ Finish(t)
    /\ UNCHANGED <<buffer, age, dropped, is_shutdown, client_closed, holding, histVars>>

\* The ledger committed the batch; the answer is lost or times out.
AnswerLost(t) ==
    /\ pc[t] = "send"
    /\ ~client_closed
    /\ LedgerTakes(batch[t])
    /\ Retry(t)
    /\ UNCHANGED <<buffer, age, is_shutdown, client_closed, holding, ignored, appended,
                   late>>

\* A network error, a 5xx, or (RuntimeError) a client that is closed already.
AttemptFailed(t) ==
    /\ pc[t] = "send"
    /\ Retry(t)
    /\ UNCHANGED <<buffer, age, is_shutdown, client_closed, holding, received, ignored,
                   appended, late>>

\* A 4xx is permanent: no further attempt (AC403).
AttemptRejected(t) ==
    /\ pc[t] = "send"
    /\ ~client_closed
    /\ GiveUp(t)
    /\ UNCHANGED <<buffer, age, is_shutdown, client_closed, holding, received, ignored,
                   appended, late>>

SendStep(t) ==
    \/ SerializeFailed(t) \/ AttemptAccepted(t) \/ AnswerLost(t)
    \/ AttemptFailed(t) \/ AttemptRejected(t)

-----------------------------------------------------------------------------
(* flush() and shutdown() *)

\* With an empty buffer flush() returns at once.
FlushTake(f) ==
    /\ pc[f] = "idle"
    /\ buffer # {}
    /\ Take(f)
    /\ age' = "none"
    /\ UNCHANGED <<dropped, is_shutdown, client_closed, holding, attempts, received, histVars>>

ShutdownCheck(c) ==
    /\ pc[c] = "start"
    /\ Goto(c, IF is_shutdown THEN "done" ELSE "set")
    /\ UNCHANGED <<buffer, age, dropped, is_shutdown, client_closed, holding, batch,
                   attempts, received, histVars>>

ShutdownSet(c) ==
    /\ pc[c] = "set"
    /\ is_shutdown' = TRUE
    /\ Goto(c, "join")
    /\ UNCHANGED <<buffer, age, dropped, client_closed, holding, batch, attempts,
                   received, histVars>>

\* join(timeout) has returned, the worker gone or not; the final drain leaves
\* _first_enqueue_time as it is.
ShutdownDrain(c) ==
    /\ pc[c] = "join"
    /\ IF buffer = {} THEN Goto(c, "close") /\ UNCHANGED <<buffer, batch>> ELSE Take(c)
    /\ UNCHANGED <<age, dropped, is_shutdown, client_closed, holding, attempts,
                   received, histVars>>

ShutdownClose(c) ==
    /\ pc[c] = "close"
    /\ client_closed' = TRUE
    /\ Goto(c, "done")
    /\ UNCHANGED <<buffer, age, dropped, is_shutdown, holding, batch, attempts,
                   received, histVars>>

CloserStep(c) == ShutdownCheck(c) \/ ShutdownSet(c) \/ ShutdownDrain(c) \/ ShutdownClose(c)

WorkerStep == WorkerWake \/ WorkerRecheck \/ WorkerTake \/ WorkerNothingDue

Next ==
    \/ \E s \in Spans : ExportIgnored(s) \/ \E p \in Producers : ExportChecked(p, s)
    \/ \E p \in Producers : ExportAppend(p)
    \/ Tick
    \/ WorkerStep
    \/ \E t \in Senders : SendStep(t)
    \/ \E f \in Flushers : FlushTake(f)
    \/ \E c \in Closers : CloserStep(c)

Spec == Init /\ [][Next]_vars

\* Threads keep running and requests end: the HTTP client has a timeout.
LiveSpec ==
    /\ Spec
    /\ WF_vars(Tick)
    /\ WF_vars(WorkerStep)
    /\ \A p \in Producers : WF_vars(ExportAppend(p))
    /\ \A t \in Senders : WF_vars(SendStep(t))
    /\ \A c \in Closers : WF_vars(CloserStep(c) /\ pc[c] # "start")

-----------------------------------------------------------------------------
\* A span that export() has taken is in the buffer, in a thread's batch, with
\* the ledger, or counted as dropped; the counter is exact although three
\* kinds of threads send and give up (http.py:100-104, 117-122, 131-135, 163-221).
Accounted ==
    /\ appended \subseteq buffer \cup Taken \cup Shipped \cup gaveup
    /\ dropped = Cardinality(gaveup)

\* Every span taken before the shutdown reaches the ledger or the drop counter,
\* whatever the ledger answers or loses and whoever takes the buffer: it is not
\* left behind by the worker, flush() or shutdown() (http.py:98-101, 142-166,
\* 196-221).
EverySpanSettled ==
    \A s \in Spans : s \in buffer \ late ~> s \in Shipped \cup gaveup

-----------------------------------------------------------------------------
(* What the documentation says, and the code does not do. *)

\* http.py:16-19 "If the ledger is down for hours, we drop oldest spans rather
\* than queue unboundedly": while the worker retries a batch, what export()
\* goes on buffering stays within the next batch.
BufferBounded == attempts[Worker] > 0 => Cardinality(buffer) <= BatchSize
=============================================================================
