---------------------------- MODULE RecorderExit ----------------------------
(***************************************************************************)
(* How a recorder process ends and what the next one finds: the tenant     *)
(* router in front of one pipeline per tenant, the handlers that           *)
(* install_handlers puts on atexit, SIGTERM and SIGINT, and the spool.     *)
(*                                                                         *)
(* Every thread has a stack of frames, the running one last.  A signal     *)
(* handler runs on the main thread, ON TOP of whatever that thread was     *)
(* doing, which waits until the handler is back: a lock that a lower frame *)
(* holds is never released while the handler waits for it.                 *)
(*                                                                         *)
(* A pipeline is a bounded queue and whether it is closed; its worker      *)
(* ships from the front (BoundedQueue and HTTPExporter model it in full).  *)
(***************************************************************************)
EXTENDS Integers, Sequences, FiniteSets, SequencesExt

CONSTANTS
  Spans, Tenants, Tenant,   \* Tenant \in [Spans -> Tenants]
  Main, Workers,            \* the main thread, the other threads of the agent
  Capacity,                 \* of the queue of a tenant
  Drains,                   \* is drain_unshipped given?
  Nobody, NoSpan,
  MaxSignals, MaxLives      \* bounds: on the signals, and on the processes

Threads == Workers \cup {Main}

ASSUME ExitAssumption ==
  /\ Tenant \in [Spans -> Tenants]
  /\ Main \notin Workers /\ Nobody \notin Threads /\ NoSpan \notin Spans
  /\ Capacity \in Nat \ {0} /\ Drains \in BOOLEAN
  /\ MaxSignals \in Nat /\ MaxLives \in Nat

VARIABLES
  up,         \* is the process running?
  life,       \* which process this is: the name of its spool file
  stack,      \* thread -> its frames
  router,     \* _exporters: tenant -> its entry, see Entry
  lock,       \* the holder of the lock of the router
  exitLock,   \* is the lock of install_handlers held?
  done,       \* state["done"]
  signals,    \* signals so far
  spool,      \* set of files [id, spans, torn]
  taken,      \* history: the spans handed over, by any process
  shipped,    \* history: span -> how often its pipeline shipped it
  lost,       \* history: span -> the causes it was lost for
  early,      \* history: the spans in the queues when the shutdown began
  spoilt,     \* history: what kept the shutdown from finishing its work
  again       \* history: the spans of a file that was replayed and is still there

processVars == <<stack, router, lock, exitLock, done, signals>>
vars == <<up, life, processVars, spool, taken, shipped, lost, early, spoilt, again>>

-----------------------------------------------------------------------------
\* Frames, pipelines and what is in memory.

\* todo: spans of the frame; rest: tenants to close, or files to replay.
Frame(pc) == [pc |-> pc, span |-> NoSpan, sig |-> "none", todo |-> {}, rest |-> {}]
ExportFrame(s) == [Frame("resolve") EXCEPT !.span = s]

Top(th) == Last(stack[th])
At(th, pc) == up /\ stack[th] # <<>> /\ Top(th).pc = pc
Becomes(th, frame) == stack' = [stack EXCEPT ![th] = Append(Front(@), frame)]
Goto(th, pc) == Becomes(th, [Top(th) EXCEPT !.pc = pc])
Return(th) == stack' = [stack EXCEPT ![th] = Front(@)]

Entry(is) == [is |-> is, queue |-> <<>>, closed |-> FALSE]
Live(r) == {t \in Tenants : r[t].is = "pipeline"}
Queued(r) == UNION {ToSet(r[t].queue) : t \in Live(r)}
HeldBy(th) == (UNION {{stack[th][i].span} \cup stack[th][i].todo : i \in DOMAIN stack[th]}) \cap Spans
InMemory == Queued(router) \cup UNION {HeldBy(th) : th \in Threads}
Replayable == UNION {f.spans : f \in {g \in spool : ~g.torn}}

Lose(S, why) == lost' = [s \in Spans |-> IF s \in S THEN lost[s] \cup {why} ELSE lost[s]]

Oldest(files) == CHOOSE f \in files : \A g \in files : f.id <= g.id
BeingFed == UNION {Oldest(stack[Main][i].rest).spans :
                   i \in {j \in DOMAIN stack[Main] : stack[Main][j].pc \in {"feed", "unlink"}}}

ExitFrames == {i \in DOMAIN stack[Main] : stack[Main][i].sig # "none"}

Init ==
  /\ up = TRUE /\ life = 1
  /\ stack = [th \in Threads |-> <<>>]
  /\ router = [t \in Tenants |-> Entry("unresolved")]
  /\ lock = Nobody /\ exitLock = FALSE /\ done = FALSE
  /\ signals = 0
  /\ spool = {} /\ taken = {} /\ again = {}
  /\ shipped = [s \in Spans |-> 0]
  /\ lost = [s \in Spans |-> {}]
  /\ early = {} /\ spoilt = {}

-----------------------------------------------------------------------------
\* TenantRoutingExporter.export, and the pipelines behind it.

HandOver(th, s) ==
  /\ up /\ stack[th] = <<>> /\ s \notin taken
  /\ taken' = taken \cup {s}
  /\ stack' = [stack EXCEPT ![th] = <<ExportFrame(s)>>]
  /\ UNCHANGED <<up, life, router, lock, exitLock, done, signals,
                 spool, shipped, lost, early, spoilt, again>>

TenantOf(th) == Tenant[Top(th).span]

\* The first test, without the lock.
Resolve(th) ==
  /\ At(th, "resolve")
  /\ Goto(th, IF router[TenantOf(th)].is = "unresolved" THEN "lock" ELSE "dispatch")
  /\ UNCHANGED <<router, lock, lost>>

\* Mutant: the second test is dropped.
NotTestedAgain(th) == FALSE

\* The second test, with it.
ResolvedMeanwhile(th) == router[TenantOf(th)].is # "unresolved"

TakeLock(th) ==
  /\ At(th, "lock") /\ lock = Nobody
  /\ IF ResolvedMeanwhile(th)
       THEN lock' = lock /\ Goto(th, "dispatch")
       ELSE lock' = th /\ Goto(th, "factory")
  /\ UNCHANGED <<router, lost>>

\* The factory makes a pipeline, has no token for the tenant, or raises: the
\* last two leave None in the cache.
Factory(th) ==
  /\ At(th, "factory")
  /\ \E made \in {"none", "pipeline"} : router' = [router EXCEPT ![TenantOf(th)] = Entry(made)]
  /\ lock' = Nobody
  /\ Goto(th, "dispatch")
  /\ UNCHANGED lost

\* Without an exporter the span is dropped; dropped_count, which nothing in the
\* recorder reads, is left out.
Dispatch(th) ==
  /\ At(th, "dispatch")
  /\ LET exporter == router[TenantOf(th)] IN
     CASE exporter.is = "none" -> Return(th) /\ Lose({Top(th).span}, "no exporter")
       [] exporter.is # "none" /\ exporter.closed -> Return(th) /\ Lose({Top(th).span}, "late")
       [] OTHER -> Goto(th, "put") /\ UNCHANGED lost
  /\ UNCHANGED <<router, lock>>

\* The queue may have been closed since Dispatch.  A full queue gives up its
\* oldest span, or the new one.
Put(th) ==
  /\ At(th, "put")
  /\ LET t == TenantOf(th)
         q == router[t].queue IN
     IF Len(q) < Capacity
       THEN router' = [router EXCEPT ![t].queue = Append(q, Top(th).span)] /\ UNCHANGED lost
       ELSE \/ /\ router' = [router EXCEPT ![t].queue = Append(Tail(q), Top(th).span)]
               /\ Lose({Head(q)}, "overflow")
            \/ UNCHANGED router /\ Lose({Top(th).span}, "overflow")
  /\ Return(th)
  /\ UNCHANGED <<lock>>

ExportStep(th) ==
  /\ \/ Resolve(th) \/ TakeLock(th) \/ Factory(th)
     \/ Dispatch(th) \/ Put(th)
  /\ UNCHANGED <<up, life, exitLock, done, signals, spool, taken, shipped, early, spoilt, again>>

Ship(t) ==
  /\ up /\ t \in Live(router) /\ router[t].queue # <<>>
  /\ shipped' = [shipped EXCEPT ![Head(router[t].queue)] = @ + 1]
  /\ router' = [router EXCEPT ![t].queue = Tail(@)]
  /\ UNCHANGED <<up, life, stack, lock, exitLock, done, signals,
                 spool, taken, lost, early, spoilt, again>>

-----------------------------------------------------------------------------
\* install_handlers: run_shutdown and the handlers that call it.

ExitFrame(sig) == [Frame("enter") EXCEPT !.sig = sig]

Signal(sig) ==
  /\ up /\ signals < MaxSignals
  /\ signals' = signals + 1
  /\ stack' = [stack EXCEPT ![Main] = Append(@, ExitFrame(sig))]
  /\ UNCHANGED <<up, life, router, lock, exitLock, done,
                 spool, taken, shipped, lost, early, spoilt, again>>

\* The program is over, by itself or by a KeyboardInterrupt.
AtExit ==
  /\ up /\ stack[Main] = <<>>
  /\ stack' = [stack EXCEPT ![Main] = <<ExitFrame("atexit")>>]
  /\ UNCHANGED <<up, life, router, lock, exitLock, done, signals,
                 spool, taken, shipped, lost, early, spoilt, again>>

EnterShutdown ==
  /\ At(Main, "enter") /\ ~exitLock
  /\ exitLock' = TRUE
  /\ Goto(Main, "check")
  /\ UNCHANGED <<router, done, spool, lost, early, spoilt>>

\* Mutant: only the early return releases the lock.
CheckKeepsLock ==
  /\ At(Main, "check")
  /\ exitLock' = ~done
  /\ done' = TRUE
  /\ early' = IF done THEN early ELSE Queued(router)
  /\ Goto(Main, IF done THEN "previous" ELSE "snapshot")
  /\ UNCHANGED <<router, spool, lost, spoilt>>

\* The body of "with lock", and the end of it.
CheckDone ==
  /\ At(Main, "check")
  /\ exitLock' = FALSE
  /\ done' = TRUE
  /\ early' = IF done THEN early ELSE Queued(router)
  /\ Goto(Main, IF done THEN "previous" ELSE "snapshot")
  /\ UNCHANGED <<router, spool, lost, spoilt>>

\* _live, under the lock of the router; from here on its list is what is closed.
Snapshot ==
  /\ At(Main, "snapshot") /\ lock = Nobody
  /\ Becomes(Main, [Top(Main) EXCEPT !.pc = "close", !.rest = Live(router)])
  /\ UNCHANGED <<router, exitLock, done, spool, lost, early, spoilt>>

\* Mutant: closing a pipeline empties it.
CloseEmpties ==
  /\ At(Main, "close")
  /\ IF Top(Main).rest = {}
       THEN Goto(Main, "drain") /\ UNCHANGED router
       ELSE \E t \in Top(Main).rest :
              /\ router' = [router EXCEPT ![t] = [@ EXCEPT !.closed = TRUE, !.queue = <<>>]]
              /\ Becomes(Main, [Top(Main) EXCEPT !.rest = @ \ {t}])
  /\ UNCHANGED <<exitLock, done, spool, lost, early, spoilt>>

\* The shutdown of a pipeline closes it and returns: it has shipped what it
\* could (Ship), or it ran into the timeout, or it raised.
ClosePipeline ==
  /\ At(Main, "close")
  /\ IF Top(Main).rest = {}
       THEN Goto(Main, "drain") /\ UNCHANGED router
       ELSE \E t \in Top(Main).rest :
              /\ router' = [router EXCEPT ![t].closed = TRUE]
              /\ Becomes(Main, [Top(Main) EXCEPT !.rest = @ \ {t}])
  /\ UNCHANGED <<exitLock, done, spool, lost, early, spoilt>>

\* Mutant: what is drained stays in the queues too.
DrainCopies ==
  /\ At(Main, "drain")
  /\ Becomes(Main, [Top(Main) EXCEPT !.pc = "persist", !.todo = Queued(router)])
  /\ UNCHANGED <<router, exitLock, done, spool, lost, early, spoilt>>

\* drain_unshipped takes what is left in the queues, or raises.
DrainUnshipped ==
  /\ At(Main, "drain")
  /\ \/ /\ Drains /\ Queued(router) # {}
        /\ router' = [t \in Tenants |-> IF t \in Live(router)
                                          THEN [router[t] EXCEPT !.queue = <<>>] ELSE router[t]]
        /\ Becomes(Main, [Top(Main) EXCEPT !.pc = "persist", !.todo = Queued(router)])
        /\ UNCHANGED spoilt
     \/ /\ UNCHANGED router
        /\ Goto(Main, "previous")
        /\ spoilt' = IF Queued(router) = {} THEN spoilt
                     ELSE spoilt \cup {IF Drains THEN "drain raised" ELSE "no drain"}
  /\ UNCHANGED <<exitLock, done, spool, lost, early>>

\* persist_to_spool: all the lines, or those before a write error, the last of
\* which may be cut.  The error is logged and the rest is gone.
PersistToSpool ==
  /\ At(Main, "persist")
  /\ LET leftover == Top(Main).todo IN
     \E written \in SUBSET leftover, torn \in BOOLEAN :
       /\ written = leftover => ~torn
       /\ spool' = spool \cup {[id |-> life, spans |-> written, torn |-> torn]}
       /\ Lose(IF torn THEN leftover ELSE leftover \ written, "write error")
  /\ Becomes(Main, [Top(Main) EXCEPT !.pc = "previous", !.todo = {}])
  /\ UNCHANGED <<router, exitLock, done, early, spoilt>>

\* The directory of the spool cannot be made, which is outside the try block: the
\* error leaves the handler, whose previous handler is not called, and goes up
\* the frames below: to the interpreter in atexit, which ends, to replay_spool,
\* which skips its file, or out of the export that was interrupted.
SpoolDirFails ==
  /\ At(Main, "persist")
  /\ LET bottom == Head(stack[Main]) IN
     stack' = [stack EXCEPT ![Main] =
       CASE bottom.sig = "atexit" -> <<[bottom EXCEPT !.pc = "previous", !.todo = {}]>>
         [] bottom.pc \in {"feed", "unlink"} ->
              <<[bottom EXCEPT !.pc = "replay", !.todo = {}, !.rest = @ \ {Oldest(@)}]>>
         [] bottom.pc = "replay" -> <<[bottom EXCEPT !.rest = @ \ {f \in @ : f = Oldest(@)}]>>
         [] OTHER -> <<>>]
  /\ Lose(HeldBy(Main), "write error")
  /\ again' = again \cup BeingFed
  /\ UNCHANGED <<up, life, router, lock, exitLock, done, signals, spool, taken, shipped, early, spoilt>>

ExitStep ==
  /\ \/ EnterShutdown \/ CheckDone \/ Snapshot
     \/ ClosePipeline \/ DrainUnshipped \/ PersistToSpool
  /\ UNCHANGED <<up, life, lock, signals, taken, shipped, again>>

\* The end of the process: memory is gone.
Gone(why) ==
  /\ up' = FALSE
  /\ Lose(InMemory, "memory")
  /\ spoilt' = spoilt \cup why
  /\ again' = again \cup BeingFed
  /\ stack' = [th \in Threads |-> <<>>]
  /\ UNCHANGED <<life, router, lock, exitLock, done, signals,
                 spool, taken, shipped, early>>

\* A shutdown below that did not get to its end.
Unfinished ==
  IF \E i \in ExitFrames : i < Len(stack[Main]) /\ stack[Main][i].pc # "previous"
    THEN {"second signal"} ELSE {}

\* After atexit the interpreter ends; after SIGTERM the default action does.
Die ==
  /\ At(Main, "previous") /\ Top(Main).sig \in {"atexit", "TERM"}
  /\ Gone(Unfinished)

\* The default handler of SIGINT raises KeyboardInterrupt, which no except
\* clause of the recorder catches: it unwinds every frame below, and ends the
\* process when atexit was already running.
KeyboardInterrupt ==
  /\ At(Main, "previous") /\ Top(Main).sig = "INT"
  /\ IF \E i \in ExitFrames : stack[Main][i].sig = "atexit"
       THEN Gone(Unfinished)
       ELSE /\ Lose(HeldBy(Main), "memory")
            /\ spoilt' = spoilt \cup Unfinished
            /\ stack' = [stack EXCEPT ![Main] = <<>>]
            /\ lock' = IF lock = Main THEN Nobody ELSE lock
            /\ again' = again \cup BeingFed
            /\ UNCHANGED <<up, life, router, exitLock, done, signals,
                           spool, taken, shipped, early>>

Kill == up /\ Gone({"killed"})

-----------------------------------------------------------------------------
\* replay_spool, the first thing the next process does.

ReplayFrame(files) == [Frame("replay") EXCEPT !.rest = files]

Start ==
  /\ ~up /\ life < MaxLives
  /\ up' = TRUE /\ life' = life + 1
  /\ stack' = [th \in Threads |-> IF th = Main THEN <<ReplayFrame(spool)>> ELSE <<>>]
  /\ router' = [t \in Tenants |-> Entry("unresolved")]
  /\ lock' = Nobody /\ exitLock' = FALSE /\ done' = FALSE
  /\ early' = {} /\ spoilt' = {}
  /\ UNCHANGED <<signals, spool, taken, shipped, lost, again>>

\* A file with a line that does not parse is skipped as a whole, and stays.
ReadFile ==
  /\ At(Main, "replay")
  /\ IF Top(Main).rest = {}
       THEN Return(Main)
       ELSE LET f == Oldest(Top(Main).rest) IN
            IF f.torn THEN Becomes(Main, [Top(Main) EXCEPT !.rest = @ \ {f}])
                      ELSE Becomes(Main, [Top(Main) EXCEPT !.pc = "feed", !.todo = f.spans])
  /\ UNCHANGED <<spool, again>>

FeedSpan ==
  /\ At(Main, "feed")
  /\ \/ \E s \in Top(Main).todo :
          LET rest == [Top(Main) EXCEPT !.todo = @ \ {s}] IN
          stack' = [stack EXCEPT ![Main] = Append(Front(@), rest) \o <<ExportFrame(s)>>]
     \/ Top(Main).todo = {} /\ Goto(Main, "unlink")
  /\ UNCHANGED <<spool, again>>

\* Deleting may fail: the file is replayed again by the next process.
Unlink ==
  /\ At(Main, "unlink")
  /\ LET f == Oldest(Top(Main).rest) IN
     /\ \/ spool' = spool \ {f} /\ UNCHANGED again
        \/ again' = again \cup f.spans /\ UNCHANGED spool
     /\ Becomes(Main, [Top(Main) EXCEPT !.pc = "replay", !.rest = @ \ {f}])

ReplayStep ==
  /\ ReadFile \/ FeedSpan \/ Unlink
  /\ UNCHANGED <<up, life, router, lock, exitLock, done, signals,
                 taken, shipped, lost, early, spoilt>>

-----------------------------------------------------------------------------
ThreadStep(th) == ExportStep(th) \/ (th = Main /\ (ExitStep \/ SpoolDirFails \/ ReplayStep \/ Die \/ KeyboardInterrupt))

Next ==
  \/ \E th \in Threads, s \in Spans : HandOver(th, s)
  \/ \E th \in Threads : ThreadStep(th)
  \/ \E t \in Tenants : Ship(t)
  \/ \E sig \in {"TERM", "INT"} : Signal(sig)
  \/ AtExit \/ Kill \/ Start

Spec == Init /\ [][Next]_vars /\ \A th \in Threads : WF_vars(ThreadStep(th))
-----------------------------------------------------------------------------
(* PROPERTIES *)

\* A handler that waits for a lock of the frames below it.
Stuck ==
  /\ up /\ stack[Main] # <<>>
  /\ \/ Top(Main).pc = "enter" /\ \E i \in ExitFrames : stack[Main][i].pc = "check"
     \/ Top(Main).pc = "snapshot" /\ lock = Main

\* Every span handed over is in memory, or in a spool file that can be replayed,
\* or shipped, or lost for a cause the code accepts: in particular no pipeline
\* is ever overwritten by a second one for its tenant, with spans in its queue.
SpansKept ==
  \A s \in taken :
    \/ up /\ s \in InMemory
    \/ s \in Replayable
    \/ shipped[s] > 0
    \/ lost[s] # {}

\* A process that ended, and whose shutdown nothing spoilt, has shipped or
\* spooled every span that was in a queue when the shutdown began, also while
\* other threads go on exporting: only a write error or the eviction by a later
\* span, before the queue was closed, excuse one.
CleanExitKeeps ==
  ~up /\ spoilt = {} =>
    \A s \in early :
      s \in Replayable \/ shipped[s] > 0 \/ lost[s] \cap {"overflow", "write error"} # {}

\* A span is shipped a second time only after a replay that did not delete its
\* file: the process ended in between, or the deletion failed.
ShipsOnce == \A s \in Spans : shipped[s] > 1 => s \in again

\* Once a shutdown began, the process ends or the program goes on (SIGINT),
\* unless the signal struck while the main thread held a lock it needs.
ExitSettles == (up /\ ExitFrames # {}) ~> (~up \/ ExitFrames = {} \/ Stuck)

-----------------------------------------------------------------------------
(* What the documentation says, and the code does not do. *)

\* shutdown.py promises it without exception, see the README.
ExitEnds == (up /\ ExitFrames # {}) ~> (~up \/ ExitFrames = {})
=============================================================================
