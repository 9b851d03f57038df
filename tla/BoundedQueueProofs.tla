------------------------- MODULE BoundedQueueProofs -------------------------
(***************************************************************************)
(* Theorems about BoundedQueue, for every set of spans, producers, closers *)
(* and flushers and every queue size.                                      *)
(***************************************************************************)
EXTENDS BoundedQueue, TLAPS

(* What Append and Tail return, element by element. *)
LEMMA AppendFacts ==
    ASSUME NEW S, NEW q \in Seq(S), NEW x \in S
    PROVE  /\ Append(q, x) \in Seq(S)
           /\ Append(q, x) # <<>>
           /\ Len(Append(q, x)) = Len(q) + 1
           /\ \A i \in 1..Len(q) : Append(q, x)[i] = q[i]
           /\ Append(q, x)[Len(q) + 1] = x
OBVIOUS

LEMMA TailFacts ==
    ASSUME NEW S, NEW q \in Seq(S), q # <<>>
    PROVE  /\ Tail(q) \in Seq(S)
           /\ Len(q) \in Nat \ {0}
           /\ Len(Tail(q)) = Len(q) - 1
           /\ \A i \in 1..Len(Tail(q)) : Tail(q)[i] = q[i + 1]
           /\ Head(q) = q[1]
           /\ q[1] \in S
OBVIOUS

(* A producer inside export() holds a span. *)
LEMMA CurrentIsSpan ==
    ASSUME TypeOK, NEW p \in Producers, pc[p] # "idle"
    PROVE  Current(p) \in Spans
BY DEF TypeOK, Current

-----------------------------------------------------------------------------
(* The unfinished count: part of the type invariant, because task_done()   *)
(* must never be called more often than put() was.                         *)

TypeInv == TypeOK /\ TaskAccounting

(* The three places that put a span share one critical section. *)
LEMMA EnqueueTypeInv ==
    ASSUME TypeInv, NEW p \in Producers, pc[p] # "idle", Enqueue(p)
    PROVE  TypeInv'
<1>1. Current(p) \in Spans
  BY CurrentIsSpan DEF TypeInv
<1>2. /\ queue \in Seq(Items)
      /\ Current(p) \in Items
      /\ Len(queue) < MaxSize
  BY <1>1, QueueAssumption DEF TypeInv, TypeOK, Enqueue, Full, Items
<1>3. /\ queue' \in Seq(Items)
      /\ Len(queue') = Len(queue) + 1
  BY <1>2, AppendFacts DEF Enqueue, Put
<1>4. Len(queue') <= MaxSize /\ unfinished_tasks' \in Nat
  BY <1>2, <1>3, QueueAssumption DEF TypeInv, TypeOK, Enqueue, Put
<1>5. pc' \in [Producers -> ProducerState]
  BY DEF TypeInv, TypeOK, Enqueue, Goto, ProducerState
<1>6. fate' \in [Spans -> Fates] /\ late' \in SUBSET Spans
  BY <1>1 DEF TypeInv, TypeOK, Enqueue, Fate, Fates
<1>7. \A q \in Producers : pc'[q] # "idle" => calls'[q] # <<>>
  BY DEF TypeInv, TypeOK, Enqueue, Goto
<1>8. TypeOK'
  BY <1>3, <1>4, <1>5, <1>6, <1>7 DEF TypeInv, TypeOK, Enqueue
<1>9. TaskAccounting'
  BY <1>2, <1>3 DEF TypeInv, TypeOK, TaskAccounting, Enqueue, Put, Busy
<1> QED BY <1>8, <1>9 DEF TypeInv

(* Every step preserves the type invariant and the accounting. *)
LEMMA TypeInvStep ==
    ASSUME TypeInv, [Next]_vars
    PROVE  TypeInv'
<1> USE DEF TypeInv, TypeOK, TaskAccounting, Busy, Items
<1>1. ASSUME NEW p \in Producers, NEW s \in Spans, ExportRefused(p, s)
      PROVE  TypeInv'
  <2>1. calls' \in [Producers -> Seq(Spans)]
    BY <1>1, AppendFacts DEF ExportRefused, Call
  <2>2. \A q \in Producers : pc'[q] # "idle" => calls'[q] # <<>>
    BY <1>1, AppendFacts DEF ExportRefused, Call
  <2> QED
    BY <1>1, <2>1, <2>2 DEF ExportRefused, Fate, Fates, queueVars
<1>2. ASSUME NEW p \in Producers, NEW s \in Spans, ExportAdmitted(p, s)
      PROVE  TypeInv'
  <2>1. calls' \in [Producers -> Seq(Spans)]
    BY <1>2, AppendFacts DEF ExportAdmitted, Call
  <2>2. \A q \in Producers : pc'[q] # "idle" => calls'[q] # <<>>
    BY <1>2, AppendFacts DEF ExportAdmitted, Call, Goto
  <2> QED
    BY <1>2, <2>1, <2>2
    DEF ExportAdmitted, Fate, Fates, Goto, ProducerState, queueVars
<1>3. ASSUME NEW p \in Producers, ProducerStep(p)
      PROVE  TypeInv'
  <2>1. CASE PutNowait(p) \/ CriticalPut(p) \/ RePut(p)
    BY <2>1, EnqueueTypeInv DEF PutNowait, CriticalPut, RePut
  <2>2. CASE PutNowaitFull(p)
    BY <2>2 DEF PutNowaitFull, Goto, ProducerState, queueVars, histVars
  <2>3. CASE CriticalTimeout(p)
    BY <2>3, CurrentIsSpan
    DEF CriticalTimeout, Goto, ProducerState, queueVars, Fate, Fates
  <2>4. CASE EvictOldest(p)
    <3>1. CASE queue = <<>>
      BY <2>4, <3>1 DEF EvictOldest, Goto, ProducerState
    <3>2. CASE queue # <<>>
      <4>1. queue' = Tail(queue) /\ fate' \in [Spans -> Fates]
        BY <2>4, <3>2 DEF EvictOldest, Get, Fates
      <4>2. queue' \in Seq(Items) /\ Len(queue') = Len(queue) - 1
        BY <4>1, <3>2, TailFacts
      <4> QED
        BY <2>4, <4>1, <4>2, QueueAssumption DEF EvictOldest, Goto, ProducerState
    <3> QED BY <3>1, <3>2
  <2>5. CASE RePutFull(p)
    BY <2>5, CurrentIsSpan
    DEF RePutFull, Goto, ProducerState, queueVars, Fate, Fates
  <2> QED BY <1>3, <2>1, <2>2, <2>3, <2>4, <2>5 DEF ProducerStep
<1>4. CASE WorkerGet
  <2>1. /\ queue' = Tail(queue)
        /\ queue # <<>>
        /\ Head(queue) \in Spans
    BY <1>4, TailFacts DEF WorkerGet, Get
  <2>2. /\ queue' \in Seq(Items)
        /\ Len(queue') = Len(queue) - 1
        /\ Len(queue) \in Nat \ {0}
    BY <2>1, TailFacts
  <2>3. handed' \in Seq(Spans)
    BY <1>4, <2>1, AppendFacts DEF WorkerGet
  <2>4. fate' \in [Spans -> Fates]
    BY <1>4, <2>1 DEF WorkerGet, Fate, Fates
  <2>5. worker' \in [state : WorkerState, item : Items]
    BY <1>4, <2>1 DEF WorkerGet, WorkerState
  <2> QED
    BY <1>4, <2>1, <2>2, <2>3, <2>4, <2>5, QueueAssumption DEF WorkerGet, prodVars
<1>5. ASSUME NEW outcome \in {"delivered", "failed"}, WorkerExported(outcome)
      PROVE  TypeInv'
  <2>1. fate' \in [Spans -> Fates]
    BY <1>5 DEF WorkerExported, Fate, Fates
  <2>2. worker' = [state |-> "get", item |-> None] /\ None \notin Spans
    BY <1>5, QueueAssumption DEF WorkerExported
  <2>3. unfinished_tasks' = unfinished_tasks - 1 /\ unfinished_tasks > 0
    BY <1>5 DEF WorkerExported, TaskDone
  <2> QED
    BY <1>5, <2>1, <2>2, <2>3 DEF WorkerExported, WorkerState, prodVars
<1>6. CASE WorkerStop
  <2>1. /\ queue' = Tail(queue)
        /\ queue # <<>>
        /\ unfinished_tasks' = unfinished_tasks - 1
        /\ worker' = [state |-> "exited", item |-> None]
        /\ None \notin Spans
    BY <1>6, QueueAssumption DEF WorkerStop, Get, TaskDone
  <2>2. /\ queue' \in Seq(Items)
        /\ Len(queue') = Len(queue) - 1
        /\ Len(queue) \in Nat \ {0}
    BY <2>1, TailFacts
  <2> QED
    BY <1>6, <2>1, <2>2, QueueAssumption
    DEF WorkerStop, WorkerState, prodVars, histVars
<1>7. ASSUME NEW c \in Closers, CloserStep(c)
      PROVE  TypeInv'
  <2> USE DEF CloserGoto, CloserState, queueVars, prodVars, histVars
  <2>1. CASE ShutdownCheck(c) BY <2>1 DEF ShutdownCheck
  <2>2. CASE ShutdownSet(c) BY <2>2 DEF ShutdownSet
  <2>3. CASE ShutdownPut(c)
    <3>1. queue' \in Seq(Items) /\ Len(queue') = Len(queue) + 1
      BY <2>3, AppendFacts DEF ShutdownPut, Put
    <3>2. Len(queue') <= MaxSize
      BY <2>3, <3>1, QueueAssumption DEF ShutdownPut, Full
    <3> QED BY <2>3, <3>1, <3>2 DEF ShutdownPut, Put
  <2>4. CASE ShutdownPutTimeout(c) BY <2>4 DEF ShutdownPutTimeout
  <2>5. CASE ShutdownInner(c) BY <2>5 DEF ShutdownInner
  <2> QED BY <1>7, <2>1, <2>2, <2>3, <2>4, <2>5 DEF CloserStep
<1>8. ASSUME NEW f \in Flushers, FlusherStep(f)
      PROVE  TypeInv'
  <2> USE DEF FlusherState, queueVars, prodVars, histVars
  <2>1. CASE FlushCall(f) BY <2>1 DEF FlushCall
  <2>2. CASE FlushWaited(f) BY <2>2 DEF FlushWaited
  <2>3. CASE FlushReturn(f) BY <2>3 DEF FlushReturn
  <2> QED BY <1>8, <2>1, <2>2, <2>3 DEF FlusherStep
<1>9. CASE UNCHANGED vars
  BY <1>9 DEF vars
<1> QED
  BY <1>1, <1>2, <1>3, <1>4, <1>5, <1>6, <1>7, <1>8, <1>9 DEF Next, WorkerStep

(* Initially the queue is empty and nothing is counted. *)
LEMMA TypeInvInit ==
    ASSUME Init
    PROVE  TypeInv
<1>1. queue \in Seq(Items) /\ Len(queue) = 0
  BY DEF Init
<1>2. worker \in [state : WorkerState, item : Items]
  BY DEF Init, WorkerState, Items
<1>3. flusher \in [Flushers -> [state : FlusherState, owed : SUBSET Spans]]
  BY DEF Init, FlusherState
<1>4. /\ pc \in [Producers -> ProducerState]
      /\ calls \in [Producers -> Seq(Spans)]
      /\ closer \in [Closers -> CloserState]
      /\ fate \in [Spans -> Fates]
      /\ handed \in Seq(Spans)
  BY DEF Init, ProducerState, CloserState, Fates
<1>5. worker.state # "export" /\ worker.item \notin Spans
  BY QueueAssumption DEF Init
<1>6. TypeOK
  <2>1. \A p \in Producers : pc[p] = "idle"
    BY DEF Init
  <2>2. /\ unfinished_tasks \in Nat /\ dropped_count \in Nat
        /\ is_shutdown \in BOOLEAN /\ inner_closed \in BOOLEAN
        /\ late \in SUBSET Spans
    BY DEF Init
  <2>3. Len(queue) <= MaxSize
    BY <1>1, QueueAssumption
  <2> QED BY <1>1, <1>2, <1>3, <1>4, <1>5, <2>1, <2>2, <2>3 DEF TypeOK
<1>7. TaskAccounting
  BY <1>1, <1>5 DEF Init, TaskAccounting, Busy
<1> QED BY <1>6, <1>7 DEF TypeInv

(* Type correctness: among others, the queue never exceeds max_size and the *)
(* count that task_done() lowers never becomes negative.                    *)
THEOREM TypeCorrect == Spec => []TypeOK
<1>1. TypeInv /\ [Next]_vars => TypeInv'
  BY TypeInvStep
<1>2. Init => TypeInv
  BY TypeInvInit
<1>3. TypeInv => TypeOK
  BY DEF TypeInv
<1> QED BY <1>1, <1>2, <1>3, PTL DEF Spec

(* unfinished_tasks covers what is queued or in the worker's hands. *)
THEOREM TasksAccounted == Spec => []TaskAccounting
<1>1. TypeInv /\ [Next]_vars => TypeInv'
  BY TypeInvStep
<1>2. Init => TypeInv
  BY TypeInvInit
<1>3. TypeInv => TaskAccounting
  BY DEF TypeInv
<1> QED BY <1>1, <1>2, <1>3, PTL DEF Spec

-----------------------------------------------------------------------------
(* Where each span is *)

(* A put moves the span in the producer's hands to the end of the queue. *)
LEMMA EnqueuePlaces ==
    ASSUME TypeInv, SpanPlaces, NEW p \in Producers, pc[p] # "idle", Enqueue(p)
    PROVE  SpanPlaces'
<1> DEFINE s == Current(p)
<1>1. s \in Spans /\ fate[s] = "held" /\ fate \in [Spans -> Fates]
  BY CurrentIsSpan DEF TypeInv, TypeOK, SpanPlaces
<1>2. /\ queue' = Append(queue, s)
      /\ queue \in Seq(Items)
      /\ s \in Items
      /\ fate' = [fate EXCEPT ![s] = "queued"]
      /\ pc' = [pc EXCEPT ![p] = "idle"]
      /\ pc \in [Producers -> ProducerState]
      /\ UNCHANGED <<calls, worker, flusher>>
  BY <1>1 DEF Enqueue, Put, Fate, Goto, TypeInv, TypeOK, Items
<1>3. /\ Len(queue) \in Nat
      /\ Len(queue') = Len(queue) + 1
      /\ \A i \in 1..Len(queue) : queue'[i] = queue[i]
      /\ queue'[Len(queue) + 1] = s
  BY <1>2, AppendFacts
<1>4. \A q \in Producers : Current(q)' = Current(q)
  BY <1>2 DEF Current
<1>5. \A i \in 1..Len(queue) : queue[i] # s
  BY <1>1 DEF SpanPlaces
<1>6. \A q \in Producers : pc'[q] # "idle" =>
          q # p /\ pc[q] # "idle" /\ Current(q) # s /\ Current(q) \in Spans
  BY <1>2, CurrentIsSpan DEF SpanPlaces, TypeInv
<1>7. \A t \in Spans : t # s => fate'[t] = fate[t]
  BY <1>1, <1>2
<1>8. fate'[s] = "queued"
  BY <1>1, <1>2
<1>10. \A q \in Producers : pc'[q] # "idle" => fate'[Current(q)'] = "held"
  BY <1>4, <1>6, <1>7 DEF SpanPlaces
<1>11. \A q, r \in Producers :
          pc'[q] # "idle" /\ pc'[r] # "idle" /\ Current(q)' = Current(r)' => q = r
  BY <1>4, <1>6 DEF SpanPlaces
<1>12. \A i \in 1..Len(queue') : queue'[i] \in Spans => fate'[queue'[i]] = "queued"
  BY <1>3, <1>5, <1>7, <1>8 DEF SpanPlaces
<1>13. \A i, j \in 1..Len(queue') :
          queue'[i] \in Spans /\ queue'[i] = queue'[j] => i = j
  BY <1>3, <1>5 DEF SpanPlaces
<1>14. \A t \in Spans : fate'[t] = "queued" =>
          \E i \in 1..Len(queue') : queue'[i] = t
  <2> TAKE t \in Spans
  <2>1. CASE t = s
    BY <2>1, <1>3
  <2>2. CASE t # s
    BY <2>2, <1>3, <1>7 DEF SpanPlaces
  <2> QED BY <2>1, <2>2
<1>15. \A t \in Spans : fate'[t] = "draining" => worker'.item = t
  BY <1>2, <1>7, <1>8 DEF SpanPlaces
<1>16. \A f \in Flushers : \A t \in flusher'[f].owed :
          fate'[t] \notin {"unsent", "held"}
  <2>1. \A f \in Flushers : flusher[f].owed \subseteq Spans
    BY DEF TypeInv, TypeOK
  <2> QED BY <2>1, <1>2, <1>7, <1>8 DEF SpanPlaces
<1> QED
  BY <1>10, <1>11, <1>12, <1>13, <1>14, <1>15, <1>16 DEF SpanPlaces

(* Taking the head of the queue leaves the other spans where they are. *)
LEMMA GetPlaces ==
    ASSUME TypeInv, SpanPlaces, queue # <<>>, Get
    PROVE  /\ Len(queue') = Len(queue) - 1
           /\ \A i \in 1..Len(queue') :
                 /\ i + 1 \in 1..Len(queue)
                 /\ queue'[i] = queue[i + 1]
                 /\ queue'[i] \in Spans => queue'[i] # Head(queue)
           /\ \A i, j \in 1..Len(queue') :
                 queue'[i] \in Spans /\ queue'[i] = queue'[j] => i = j
           /\ \A t \in Spans : fate[t] = "queued" /\ t # Head(queue) =>
                 \E i \in 1..Len(queue') : queue'[i] = t
           /\ Head(queue) \in Spans => fate[Head(queue)] = "queued"
<1>1. /\ queue \in Seq(Items)
      /\ queue' = Tail(queue)
  BY DEF TypeInv, TypeOK, Get
<1>2. /\ Len(queue) \in Nat \ {0}
      /\ Len(queue') = Len(queue) - 1
      /\ \A i \in 1..Len(queue') : queue'[i] = queue[i + 1]
      /\ Head(queue) = queue[1]
  BY <1>1, TailFacts
<1>3. \A i \in 1..Len(queue') : i + 1 \in 1..Len(queue) /\ i + 1 # 1
  BY <1>2
<1>4. \A i \in 1..Len(queue') : queue'[i] \in Spans => queue'[i] # Head(queue)
  BY <1>2, <1>3 DEF SpanPlaces
<1>5. \A i, j \in 1..Len(queue') :
          queue'[i] \in Spans /\ queue'[i] = queue'[j] => i = j
  BY <1>2, <1>3 DEF SpanPlaces
<1>6. ASSUME NEW t \in Spans, fate[t] = "queued", t # Head(queue)
      PROVE  \E i \in 1..Len(queue') : queue'[i] = t
  <2>1. PICK i \in 1..Len(queue) : queue[i] = t
    BY <1>6 DEF SpanPlaces
  <2>2. i # 1 /\ i - 1 \in 1..Len(queue')
    BY <2>1, <1>2, <1>6
  <2>3. queue'[i - 1] = t
    BY <2>1, <2>2, <1>2
  <2> QED BY <2>2, <2>3
<1> QED BY <1>2, <1>3, <1>4, <1>5, <1>6 DEF SpanPlaces

(* A span that is held, refused or settled outside the queue: its fate is    *)
(* all that changes, besides the producer it belongs to.                     *)
LEMMA SettlePlaces ==
    ASSUME TypeInv, SpanPlaces, NEW p \in Producers, pc[p] # "idle",
           NEW f \in {"loud", "discarded"}, Fate(Current(p), f), Goto(p, "idle"),
           UNCHANGED <<queueVars, calls, worker, flusher>>
    PROVE  SpanPlaces'
<1> DEFINE s == Current(p)
<1>1. s \in Spans /\ fate[s] = "held" /\ fate \in [Spans -> Fates]
  BY CurrentIsSpan DEF TypeInv, TypeOK, SpanPlaces
<1>2. /\ pc' = [pc EXCEPT ![p] = "idle"]
      /\ pc \in [Producers -> ProducerState]
      /\ fate' = [fate EXCEPT ![s] = f]
      /\ UNCHANGED <<queue, calls, worker, flusher>>
  BY DEF TypeInv, TypeOK, Goto, Fate, queueVars
<1>3. \A q \in Producers : Current(q)' = Current(q)
  BY <1>2 DEF Current
<1>4. \A q \in Producers : pc'[q] # "idle" =>
          pc[q] # "idle" /\ Current(q) # s /\ Current(q) \in Spans
  BY <1>2, CurrentIsSpan DEF SpanPlaces, TypeInv
<1>5. /\ fate'[s] = f
      /\ \A t \in Spans : t # s => fate'[t] = fate[t]
  BY <1>1, <1>2
<1>6. \A g \in Flushers : flusher[g].owed \subseteq Spans
  BY DEF TypeInv, TypeOK
<1>7. \A g \in Flushers : \A t \in flusher'[g].owed :
          fate'[t] \notin {"unsent", "held"}
  BY <1>1, <1>2, <1>5, <1>6 DEF SpanPlaces
<1>8. \A i \in 1..Len(queue) : queue[i] # s
  BY <1>1 DEF SpanPlaces
<1> QED
  BY <1>1, <1>2, <1>3, <1>4, <1>5, <1>7, <1>8 DEF SpanPlaces

(* A call of export(): the span was unsent, so it was nowhere. *)
LEMMA CallPlaces ==
    ASSUME TypeInv, SpanPlaces, NEW p \in Producers, NEW s \in Spans,
           ExportRefused(p, s) \/ ExportAdmitted(p, s)
    PROVE  SpanPlaces'
<1>1. /\ fate[s] = "unsent"
      /\ pc[p] = "idle"
      /\ fate \in [Spans -> Fates]
      /\ pc \in [Producers -> ProducerState]
      /\ calls \in [Producers -> Seq(Spans)]
      /\ calls' = [calls EXCEPT ![p] = Append(@, s)]
      /\ UNCHANGED <<queue, worker, flusher>>
  BY DEF TypeInv, TypeOK, ExportRefused, ExportAdmitted, Call, queueVars
<1>2. \/ fate' = [fate EXCEPT ![s] = "refused"] /\ pc' = pc
      \/ fate' = [fate EXCEPT ![s] = "held"] /\ pc' = [pc EXCEPT ![p] = "put"]
  BY DEF ExportRefused, ExportAdmitted, Fate, Goto
<1>3. Current(p)' = s
  BY <1>1, AppendFacts DEF Current
<1>4. \A q \in Producers : q # p => Current(q)' = Current(q) /\ pc'[q] = pc[q]
  BY <1>1, <1>2 DEF Current
<1>5. \A q \in Producers : pc[q] # "idle" =>
          q # p /\ Current(q) \in Spans /\ fate[Current(q)] = "held" /\ Current(q) # s
  BY <1>1, CurrentIsSpan DEF SpanPlaces, TypeInv
<1>6. /\ fate'[s] \in {"refused", "held"}
      /\ \A t \in Spans : t # s => fate'[t] = fate[t]
      /\ pc'[p] # "idle" => fate'[s] = "held"
  BY <1>1, <1>2
<1>7. \A q \in Producers : pc'[q] # "idle" => fate'[Current(q)'] = "held"
  BY <1>3, <1>4, <1>5, <1>6 DEF SpanPlaces
<1>8. \A q, r \in Producers :
          pc'[q] # "idle" /\ pc'[r] # "idle" /\ Current(q)' = Current(r)' => q = r
  BY <1>3, <1>4, <1>5 DEF SpanPlaces
<1>9. \A i \in 1..Len(queue) : queue[i] # s
  BY <1>1 DEF SpanPlaces
<1>10. \A f \in Flushers : \A t \in flusher[f].owed : t \in Spans /\ t # s
  <2>1. \A f \in Flushers : flusher[f].owed \subseteq Spans
    BY DEF TypeInv, TypeOK
  <2> QED BY <1>1, <2>1 DEF SpanPlaces
<1>11. \A i \in 1..Len(queue') : queue'[i] \in Spans => fate'[queue'[i]] = "queued"
  BY <1>1, <1>6, <1>9 DEF SpanPlaces
<1>12. \A i, j \in 1..Len(queue') :
          queue'[i] \in Spans /\ queue'[i] = queue'[j] => i = j
  BY <1>1 DEF SpanPlaces
<1>13. \A t \in Spans : fate'[t] = "queued" =>
          \E i \in 1..Len(queue') : queue'[i] = t
  BY <1>1, <1>6 DEF SpanPlaces
<1>14. \A t \in Spans : fate'[t] = "draining" => worker'.item = t
  BY <1>1, <1>6 DEF SpanPlaces
<1>15. \A f \in Flushers : \A t \in flusher'[f].owed :
          fate'[t] \notin {"unsent", "held"}
  BY <1>1, <1>6, <1>10 DEF SpanPlaces
<1> QED
  BY <1>7, <1>8, <1>11, <1>12, <1>13, <1>14, <1>15 DEF SpanPlaces

(* The eviction of the oldest item. *)
LEMMA EvictPlaces ==
    ASSUME TypeInv, SpanPlaces, NEW p \in Producers, EvictOldest(p)
    PROVE  SpanPlaces'
<1>1. /\ pc[p] # "idle"
      /\ pc \in [Producers -> ProducerState]
      /\ pc' = [pc EXCEPT ![p] = "reput"]
      /\ fate \in [Spans -> Fates]
      /\ UNCHANGED <<calls, worker, flusher>>
  BY DEF TypeInv, TypeOK, EvictOldest, Goto
<1>2. \A q \in Producers :
          /\ Current(q)' = Current(q)
          /\ pc'[q] # "idle" => pc[q] # "idle" /\ Current(q) \in Spans
  BY <1>1, CurrentIsSpan DEF Current, TypeInv
<1>3. CASE queue = <<>>
  <2>1. UNCHANGED <<queue, fate>>
    BY <1>3 DEF EvictOldest
  <2> QED BY <1>1, <1>2, <2>1 DEF SpanPlaces
<1>4. CASE queue # <<>>
  <2> DEFINE h == Head(queue)
  <2>1. Get /\ fate' = [s \in Spans |-> IF s = h THEN "evicted" ELSE fate[s]]
    BY <1>4 DEF EvictOldest
  <2>2. \A t \in Spans : /\ t # h => fate'[t] = fate[t]
                         /\ t = h => fate[t] = "queued" /\ fate'[t] = "evicted"
    BY <2>1, <1>4, GetPlaces
  <2>3. \A q \in Producers : pc'[q] # "idle" => fate'[Current(q)'] = "held"
    BY <1>2, <2>2 DEF SpanPlaces
  <2>4. \A q, r \in Producers :
          pc'[q] # "idle" /\ pc'[r] # "idle" /\ Current(q)' = Current(r)' => q = r
    BY <1>2 DEF SpanPlaces
  <2>5. \A i \in 1..Len(queue') : queue'[i] \in Spans => fate'[queue'[i]] = "queued"
    BY <1>4, <2>1, <2>2, GetPlaces DEF SpanPlaces
  <2>6. \A i, j \in 1..Len(queue') :
          queue'[i] \in Spans /\ queue'[i] = queue'[j] => i = j
    BY <1>4, <2>1, GetPlaces
  <2>7. \A t \in Spans : fate'[t] = "queued" =>
          \E i \in 1..Len(queue') : queue'[i] = t
    BY <1>4, <2>1, <2>2, GetPlaces
  <2>8. \A t \in Spans : fate'[t] = "draining" => worker'.item = t
    BY <1>1, <2>2 DEF SpanPlaces
  <2>9. \A f \in Flushers : \A t \in flusher'[f].owed :
          fate'[t] \notin {"unsent", "held"}
    <3>1. \A f \in Flushers : flusher[f].owed \subseteq Spans
      BY DEF TypeInv, TypeOK
    <3> QED BY <1>1, <2>2, <3>1 DEF SpanPlaces
  <2> QED BY <2>3, <2>4, <2>5, <2>6, <2>7, <2>8, <2>9 DEF SpanPlaces
<1> QED BY <1>3, <1>4

(* The worker's steps. *)
LEMMA WorkerPlaces ==
    ASSUME TypeInv, SpanPlaces, WorkerStep
    PROVE  SpanPlaces'
<1>1. /\ fate \in [Spans -> Fates]
      /\ UNCHANGED <<pc, calls, flusher>>
      /\ \A q \in Producers : Current(q)' = Current(q)
      /\ \A q \in Producers : pc[q] # "idle" => Current(q) \in Spans
      /\ \A f \in Flushers : flusher[f].owed \subseteq Spans
      /\ worker.state = "export" <=> worker.item \in Spans
  BY CurrentIsSpan
  DEF TypeInv, TypeOK, WorkerStep, WorkerGet, WorkerStop, WorkerExported, prodVars,
      Current
<1>2. CASE WorkerGet
  <2> DEFINE h == Head(queue)
  <2>1. /\ queue # <<>>
        /\ Get
        /\ h \in Spans
        /\ fate[h] = "queued"
        /\ worker'.item = h
        /\ worker.item \notin Spans
        /\ fate' = [fate EXCEPT ![h] = IF inner_closed THEN "too_late" ELSE "draining"]
    <3>1. queue # <<>> /\ Get /\ h # None /\ queue \in Seq(Items)
      BY <1>2 DEF WorkerGet, TypeInv, TypeOK
    <3>2. h \in Spans
      BY <3>1, TailFacts DEF Items
    <3> QED BY <1>1, <1>2, <3>1, <3>2, GetPlaces DEF WorkerGet, Fate
  <2>2. /\ \A t \in Spans : t # h => fate'[t] = fate[t] /\ fate[t] # "draining"
        /\ fate'[h] \in {"too_late", "draining"}
    BY <1>1, <2>1 DEF SpanPlaces
  <2>3. \A q \in Producers : pc'[q] # "idle" => fate'[Current(q)'] = "held"
    BY <1>1, <2>1, <2>2 DEF SpanPlaces
  <2>5. \A i \in 1..Len(queue') : queue'[i] \in Spans => fate'[queue'[i]] = "queued"
    BY <2>1, <2>2, GetPlaces DEF SpanPlaces
  <2>6. \A i, j \in 1..Len(queue') :
          queue'[i] \in Spans /\ queue'[i] = queue'[j] => i = j
    BY <2>1, GetPlaces
  <2>7. \A t \in Spans : fate'[t] = "queued" =>
          \E i \in 1..Len(queue') : queue'[i] = t
    BY <2>1, <2>2, GetPlaces
  <2>8. \A t \in Spans : fate'[t] = "draining" => worker'.item = t
    BY <2>1, <2>2
  <2>9. \A f \in Flushers : \A t \in flusher'[f].owed :
          fate'[t] \notin {"unsent", "held"}
    BY <1>1, <2>1, <2>2 DEF SpanPlaces
  <2> QED BY <1>1, <2>3, <2>5, <2>6, <2>7, <2>8, <2>9 DEF SpanPlaces
<1>3. CASE WorkerStop
  <2>1. /\ queue # <<>>
        /\ Get
        /\ Head(queue) \notin Spans
        /\ worker.state # "export"
        /\ UNCHANGED fate
    BY <1>3, QueueAssumption DEF WorkerStop, histVars
  <2>2. \A i \in 1..Len(queue') : queue'[i] \in Spans => fate'[queue'[i]] = "queued"
    BY <2>1, GetPlaces DEF SpanPlaces
  <2>3. \A i, j \in 1..Len(queue') :
          queue'[i] \in Spans /\ queue'[i] = queue'[j] => i = j
    BY <2>1, GetPlaces
  <2>4. \A t \in Spans : fate'[t] = "queued" =>
          \E i \in 1..Len(queue') : queue'[i] = t
    BY <2>1, GetPlaces
  <2>5. \A t \in Spans : fate'[t] # "draining"
    BY <1>1, <2>1 DEF SpanPlaces
  <2> QED BY <1>1, <2>1, <2>2, <2>3, <2>4, <2>5 DEF SpanPlaces
<1>4. ASSUME NEW outcome \in {"delivered", "failed"}, WorkerExported(outcome)
      PROVE  SpanPlaces'
  <2> DEFINE w == worker.item
  <2>1. /\ w \in Spans
        /\ UNCHANGED queue
        /\ IF fate[w] = "draining" THEN fate' = [fate EXCEPT ![w] = outcome]
                                  ELSE fate' = fate
    BY <1>1, <1>4 DEF WorkerExported, Fate
  <2>2. /\ \A t \in Spans : fate'[t] # fate[t] => fate[t] = "draining"
        /\ \A t \in Spans : fate'[t] = fate[t] \/ fate'[t] \in {"delivered", "failed"}
        /\ \A t \in Spans : fate'[t] # "draining"
    BY <1>1, <2>1 DEF SpanPlaces
  <2> QED BY <1>1, <2>1, <2>2 DEF SpanPlaces
<1> QED BY <1>2, <1>3, <1>4 DEF WorkerStep

(* Every step keeps every span in one place. *)
LEMMA SpanPlacesStep ==
    ASSUME TypeInv, SpanPlaces, [Next]_vars
    PROVE  SpanPlaces'
<1>1. ASSUME NEW p \in Producers, NEW s \in Spans,
             ExportRefused(p, s) \/ ExportAdmitted(p, s)
      PROVE  SpanPlaces'
  BY <1>1, CallPlaces
<1>2. ASSUME NEW p \in Producers, ProducerStep(p)
      PROVE  SpanPlaces'
  <2>1. CASE PutNowait(p) \/ CriticalPut(p) \/ RePut(p)
    BY <2>1, EnqueuePlaces DEF PutNowait, CriticalPut, RePut
  <2>2. CASE PutNowaitFull(p)
    <3>1. /\ UNCHANGED <<queue, calls, worker, flusher, fate>>
          /\ \A q \in Producers : Current(q)' = Current(q)
          /\ \A q \in Producers : pc'[q] # "idle" => pc[q] # "idle"
      BY <2>2 DEF PutNowaitFull, Goto, Current, queueVars, histVars, TypeInv, TypeOK
    <3> QED BY <3>1 DEF SpanPlaces
  <2>3. CASE CriticalTimeout(p)
    BY <2>3, SettlePlaces DEF CriticalTimeout
  <2>4. CASE EvictOldest(p)
    BY <2>4, EvictPlaces
  <2>5. CASE RePutFull(p)
    BY <2>5, SettlePlaces DEF RePutFull
  <2> QED BY <1>2, <2>1, <2>2, <2>3, <2>4, <2>5 DEF ProducerStep
<1>3. CASE WorkerStep
  BY <1>3, WorkerPlaces
<1>4. ASSUME NEW c \in Closers, CloserStep(c)
      PROVE  SpanPlaces'
  <2>1. /\ UNCHANGED <<pc, calls, worker, flusher, fate>>
        /\ \A q \in Producers : Current(q)' = Current(q)
        /\ UNCHANGED queue \/ ShutdownPut(c)
    BY <1>4
    DEF CloserStep, ShutdownCheck, ShutdownSet, ShutdownPut, ShutdownPutTimeout,
        ShutdownInner, queueVars, prodVars, histVars, Current
  <2>2. CASE UNCHANGED queue
    BY <2>1, <2>2 DEF SpanPlaces
  <2>3. CASE ShutdownPut(c)
    <3>1. /\ queue \in Seq(Items)
          /\ None \in Items /\ None \notin Spans
          /\ queue' = Append(queue, None)
      BY <2>3, QueueAssumption DEF ShutdownPut, Put, TypeInv, TypeOK, Items
    <3>2. /\ Len(queue) \in Nat
          /\ Len(queue') = Len(queue) + 1
          /\ \A i \in 1..Len(queue) : queue'[i] = queue[i]
          /\ queue'[Len(queue) + 1] \notin Spans
      BY <3>1, AppendFacts
    <3>3. /\ \A i \in 1..Len(queue') : queue'[i] \in Spans => i \in 1..Len(queue)
          /\ \A i \in 1..Len(queue) : i \in 1..Len(queue')
      BY <3>2
    <3>4. \A t \in Spans : fate[t] = "queued" =>
             \E i \in 1..Len(queue') : queue'[i] = t
      BY <3>2, <3>3 DEF SpanPlaces
    <3> QED BY <2>1, <3>2, <3>3, <3>4 DEF SpanPlaces
  <2> QED BY <2>1, <2>2, <2>3
<1>5. ASSUME NEW f \in Flushers, FlusherStep(f)
      PROVE  SpanPlaces'
  <2>1. /\ UNCHANGED <<queue, pc, calls, worker, fate>>
        /\ \A q \in Producers : Current(q)' = Current(q)
    BY <1>5
    DEF FlusherStep, FlushCall, FlushWaited, FlushReturn, queueVars, prodVars,
        histVars, Current
  <2>2. ASSUME NEW g \in Flushers, NEW s \in flusher'[g].owed
        PROVE  fate[s] \notin {"unsent", "held"}
    <3>0. flusher \in [Flushers -> [state : FlusherState, owed : SUBSET Spans]]
      BY DEF TypeInv, TypeOK
    <3>1. CASE FlushCall(f)
      BY <2>2, <3>0, <3>1 DEF FlushCall, SpanPlaces
    <3>2. CASE FlushWaited(f)
      BY <2>2, <3>0, <3>2 DEF FlushWaited, SpanPlaces
    <3>3. CASE FlushReturn(f)
      BY <2>2, <3>0, <3>3 DEF FlushReturn, SpanPlaces
    <3> QED BY <1>5, <3>1, <3>2, <3>3 DEF FlusherStep
  <2> QED BY <2>1, <2>2 DEF SpanPlaces
<1>6. CASE UNCHANGED vars
  BY <1>6 DEF vars, SpanPlaces, Current
<1> QED
  BY <1>1, <1>2, <1>3, <1>4, <1>5, <1>6 DEF Next

(* Nothing is in flight and nobody flushes. *)
LEMMA SpanPlacesInit ==
    ASSUME Init
    PROVE  SpanPlaces /\ FlushHandsOver
<1>1. /\ Len(queue) = 0
      /\ \A p \in Producers : pc[p] = "idle"
      /\ \A s \in Spans : fate[s] = "unsent"
      /\ \A f \in Flushers : flusher[f].owed = {} /\ flusher[f].state = "idle"
  BY DEF Init
<1> QED BY <1>1 DEF SpanPlaces, FlushHandsOver

(* A flush that saw the count at zero keeps the promise from then on: no     *)
(* step brings a span it waited for back into the queue.                     *)
LEMMA FlushHandsOverStep ==
    ASSUME TypeInv, SpanPlaces, FlushHandsOver, [Next]_vars
    PROVE  FlushHandsOver'
<1> DEFINE Moving(t) == fate[t] \in {"queued", "draining"}
<1>0. flusher \in [Flushers -> [state : FlusherState, owed : SUBSET Spans]]
  BY DEF TypeInv, TypeOK
<1>1. CASE UNCHANGED flusher
  <2>1. \A t \in Spans : Moving(t)' => Moving(t) \/ fate[t] \in {"unsent", "held"}
    <3>0. fate \in [Spans -> Fates]
      BY DEF TypeInv, TypeOK
    <3>1. ASSUME NEW p \in Producers, NEW s \in Spans,
                 ExportRefused(p, s) \/ ExportAdmitted(p, s)
          PROVE  \A t \in Spans : Moving(t)' => Moving(t)
      BY <3>0, <3>1 DEF ExportRefused, ExportAdmitted, Call, Fate
    <3>2. ASSUME NEW p \in Producers, ProducerStep(p)
          PROVE  \A t \in Spans : Moving(t)' => Moving(t) \/ fate[t] = "held"
      <4>1. CASE PutNowait(p) \/ CriticalPut(p) \/ RePut(p)
        <5>1. Enqueue(p) /\ fate[Current(p)] = "held"
          BY <4>1 DEF PutNowait, CriticalPut, RePut, SpanPlaces
        <5> QED BY <3>0, <5>1 DEF Enqueue, Fate
      <4>2. CASE PutNowaitFull(p)
        BY <4>2 DEF PutNowaitFull, histVars
      <4>3. CASE CriticalTimeout(p)
        BY <3>0, <4>3 DEF CriticalTimeout, Fate
      <4>4. CASE EvictOldest(p)
        BY <4>4 DEF EvictOldest
      <4>5. CASE RePutFull(p)
        BY <3>0, <4>5 DEF RePutFull, Fate
      <4> QED BY <3>2, <4>1, <4>2, <4>3, <4>4, <4>5 DEF ProducerStep
    <3>3. CASE WorkerStep
      <4>1. CASE WorkerGet
        <5>1. Head(queue) \in Spans => fate[Head(queue)] = "queued"
          BY <4>1, GetPlaces DEF WorkerGet
        <5> QED BY <3>0, <4>1, <5>1 DEF WorkerGet, Fate
      <4>2. CASE WorkerStop
        BY <4>2 DEF WorkerStop, histVars
      <4>3. ASSUME NEW outcome \in {"delivered", "failed"}, WorkerExported(outcome)
            PROVE  \A t \in Spans : Moving(t)' => Moving(t)
        BY <3>0, <4>3 DEF WorkerExported, Fate
      <4> QED BY <3>3, <4>1, <4>2, <4>3 DEF WorkerStep
    <3>4. ASSUME NEW c \in Closers, CloserStep(c)
          PROVE  UNCHANGED fate
      BY <3>4
      DEF CloserStep, ShutdownCheck, ShutdownSet, ShutdownPut, ShutdownPutTimeout,
          ShutdownInner, histVars
    <3>5. ASSUME NEW f \in Flushers, FlusherStep(f)
          PROVE  UNCHANGED fate
      BY <3>5 DEF FlusherStep, FlushCall, FlushWaited, FlushReturn, histVars
    <3>6. CASE UNCHANGED vars
      BY <3>6 DEF vars
    <3> QED BY <3>1, <3>2, <3>3, <3>4, <3>5, <3>6 DEF Next
  <2>2. \A f \in Flushers : \A t \in flusher[f].owed :
           t \in Spans /\ fate[t] \notin {"unsent", "held"}
    BY <1>0 DEF SpanPlaces
  <2> QED BY <1>1, <2>1, <2>2 DEF FlushHandsOver
<1>2. ASSUME NEW f \in Flushers, FlusherStep(f)
      PROVE  FlushHandsOver'
  <2>0. UNCHANGED fate
    BY <1>2 DEF FlusherStep, FlushCall, FlushWaited, FlushReturn, histVars
  <2>1. CASE FlushCall(f)
    BY <1>0, <2>0, <2>1 DEF FlushCall, FlushHandsOver
  <2>2. CASE FlushWaited(f)
    <3>1. CASE unfinished_tasks = 0
      <4>1. Len(queue) = 0 /\ worker.item \notin Spans
        BY <3>1 DEF TypeInv, TypeOK, TaskAccounting, Busy
      <4>2. \A t \in Spans : ~Moving(t)
        BY <4>1 DEF SpanPlaces
      <4>3. \A g \in Flushers : flusher'[g].owed \subseteq Spans
        BY <1>0, <2>2 DEF FlushWaited
      <4> QED BY <2>0, <4>2, <4>3 DEF FlushHandsOver
    <3>2. CASE unfinished_tasks # 0
      <4>1. flusher' = [flusher EXCEPT ![f].state = "expired"]
        BY <2>2, <3>2 DEF FlushWaited
      <4> QED BY <1>0, <2>0, <4>1 DEF FlushHandsOver
    <3> QED BY <3>1, <3>2
  <2>3. CASE FlushReturn(f)
    BY <1>0, <2>0, <2>3 DEF FlushReturn, FlushHandsOver
  <2> QED BY <1>2, <2>1, <2>2, <2>3 DEF FlusherStep
<1>3. UNCHANGED flusher \/ \E f \in Flushers : FlusherStep(f)
  BY DEF Next, vars, ExportRefused, ExportAdmitted, ProducerStep, PutNowait,
     PutNowaitFull, CriticalPut, CriticalTimeout, EvictOldest, RePut, RePutFull,
     Enqueue, WorkerStep, WorkerGet, WorkerStop, WorkerExported, CloserStep,
     ShutdownCheck, ShutdownSet, ShutdownPut, ShutdownPutTimeout, ShutdownInner
<1> QED BY <1>1, <1>2, <1>3

(* The inductive invariant behind FlushHandsOver. *)
FlushInv == TypeInv /\ SpanPlaces /\ FlushHandsOver

(* A flush() that returns because the count reached zero has waited for      *)
(* every span accepted before it.                                            *)
THEOREM FlushIsComplete == Spec => []FlushHandsOver
<1>1. Init => FlushInv
  BY TypeInvInit, SpanPlacesInit DEF FlushInv
<1>2. FlushInv /\ [Next]_vars => FlushInv'
  BY TypeInvStep, SpanPlacesStep, FlushHandsOverStep DEF FlushInv
<1>3. FlushInv => FlushHandsOver
  BY DEF FlushInv
<1> QED BY <1>1, <1>2, <1>3, PTL DEF Spec

(* A span in flight is in exactly one place, so it is handed over once. *)
THEOREM SpansInOnePlace == Spec => []SpanPlaces
<1>1. Init => FlushInv
  BY TypeInvInit, SpanPlacesInit DEF FlushInv
<1>2. FlushInv /\ [Next]_vars => FlushInv'
  BY TypeInvStep, SpanPlacesStep, FlushHandsOverStep DEF FlushInv
<1>3. FlushInv => SpanPlaces
  BY DEF FlushInv
<1> QED BY <1>1, <1>2, <1>3, PTL DEF Spec

-----------------------------------------------------------------------------
(* The shutdown sentinel *)

SentinelInv == SentinelFirst /\ StrandedOnlyLate

(* A put by a producer that tested the Event before it was set: behind a     *)
(* sentinel, or after the worker's exit, the span is late.                   *)
LEMMA EnqueueSentinel ==
    ASSUME TypeInv, SentinelInv, NEW p \in Producers, pc[p] # "idle", Enqueue(p)
    PROVE  SentinelInv'
<1> DEFINE s == Current(p)
<1>1. /\ queue \in Seq(Items)
      /\ s \in Items
      /\ s # None
      /\ queue' = Append(queue, s)
      /\ late' = IF is_shutdown THEN late \cup {s} ELSE late
      /\ UNCHANGED <<is_shutdown, worker, closer>>
  BY CurrentIsSpan, QueueAssumption DEF Enqueue, Put, TypeInv, TypeOK, Items
<1>2. /\ Len(queue) \in Nat
      /\ Len(queue') = Len(queue) + 1
      /\ \A i \in 1..Len(queue) : queue'[i] = queue[i]
      /\ queue'[Len(queue) + 1] = s
  BY <1>1, AppendFacts
<1>3. CASE is_shutdown
  <2>1. s \in late' /\ late \subseteq late'
    BY <1>1, <1>3
  <2>2. SentinelFirst'
    BY <1>1, <1>2, <1>3, <2>1 DEF SentinelInv, SentinelFirst
  <2>3. StrandedOnlyLate'
    BY <1>1, <1>2, <2>1 DEF SentinelInv, StrandedOnlyLate
  <2> QED BY <2>2, <2>3 DEF SentinelInv
<1>4. CASE ~is_shutdown
  <2>1. \A i \in 1..Len(queue') : queue'[i] # None
    BY <1>1, <1>2, <1>4 DEF SentinelInv, SentinelFirst
  <2>2. worker'.state # "exited"
    BY <1>1, <1>4 DEF SentinelInv, SentinelFirst
  <2> QED
    BY <1>1, <1>4, <2>1, <2>2 DEF SentinelInv, SentinelFirst, StrandedOnlyLate
<1> QED BY <1>3, <1>4

(* Taking the head never brings a span in front of a sentinel. *)
LEMMA GetSentinel ==
    ASSUME TypeInv, SentinelInv, queue # <<>>, Get, UNCHANGED <<late, is_shutdown, closer>>
    PROVE  /\ worker'.state # "exited" => SentinelInv'
           /\ worker.state = "exited" => SentinelInv'
           /\ Head(queue) = None => SentinelInv'
<1>1. queue \in Seq(Items) /\ queue' = Tail(queue)
  BY DEF TypeInv, TypeOK, Get
<1>2. /\ Len(queue) \in Nat \ {0}
      /\ Len(queue') = Len(queue) - 1
      /\ \A i \in 1..Len(queue') : queue'[i] = queue[i + 1]
      /\ Head(queue) = queue[1]
  BY <1>1, TailFacts
<1>3. /\ \A i \in 1..Len(queue') : i + 1 \in 1..Len(queue) /\ 1 < i + 1
      /\ \A i, j \in 1..Len(queue') : i < j => i + 1 < j + 1
      /\ 1 \in 1..Len(queue)
  BY <1>2
<1>4. \A i, j \in 1..Len(queue') :
          i < j /\ queue'[i] = None => queue'[j] \in late \cup {None}
  BY <1>2, <1>3 DEF SentinelInv, SentinelFirst
<1>5. ~is_shutdown => \A i \in 1..Len(queue') : queue'[i] # None
  BY <1>2, <1>3 DEF SentinelInv, SentinelFirst
<1>6. ~is_shutdown => worker.state # "exited" /\ Head(queue) # None
  BY <1>2, <1>3 DEF SentinelInv, SentinelFirst
<1>7. ~is_shutdown => \A c \in Closers : closer[c] \in {"start", "set"}
  BY DEF SentinelInv, SentinelFirst
<1>8. ASSUME worker'.state # "exited"
      PROVE  SentinelInv'
  BY <1>4, <1>5, <1>7, <1>8 DEF SentinelInv, SentinelFirst, StrandedOnlyLate
<1>9. ASSUME worker.state = "exited" \/ Head(queue) = None
      PROVE  SentinelInv'
  <2>1. \A i \in 1..Len(queue') : queue'[i] \in late \cup {None}
    BY <1>2, <1>3, <1>9 DEF SentinelInv, SentinelFirst, StrandedOnlyLate
  <2> QED
    BY <1>4, <1>6, <1>9, <2>1 DEF SentinelInv, SentinelFirst, StrandedOnlyLate
<1> QED BY <1>8, <1>9

(* Every step keeps the sentinel in front of whatever came too late. *)
LEMMA SentinelStep ==
    ASSUME TypeInv, SentinelInv, [Next]_vars
    PROVE  SentinelInv'
<1>1. ASSUME UNCHANGED <<queue, is_shutdown, worker, closer, late>>
      PROVE  SentinelInv'
  BY <1>1 DEF SentinelInv, SentinelFirst, StrandedOnlyLate
<1>2. ASSUME NEW p \in Producers, NEW s \in Spans,
             ExportRefused(p, s) \/ ExportAdmitted(p, s)
      PROVE  SentinelInv'
  BY <1>1, <1>2 DEF ExportRefused, ExportAdmitted, queueVars
<1>3. ASSUME NEW p \in Producers, ProducerStep(p)
      PROVE  SentinelInv'
  <2>1. CASE PutNowait(p) \/ CriticalPut(p) \/ RePut(p)
    BY <2>1, EnqueueSentinel DEF PutNowait, CriticalPut, RePut
  <2>2. CASE PutNowaitFull(p) \/ CriticalTimeout(p) \/ RePutFull(p)
    BY <1>1, <2>2 DEF PutNowaitFull, CriticalTimeout, RePutFull, queueVars, histVars
  <2>3. CASE EvictOldest(p)
    <3>1. CASE queue = <<>>
      <4>1. UNCHANGED queue
        BY <2>3, <3>1 DEF EvictOldest
      <4> QED BY <1>1, <2>3, <4>1 DEF EvictOldest
    <3>2. CASE queue # <<>>
      <4>1. Get
        BY <2>3, <3>2 DEF EvictOldest
      <4> QED BY <2>3, <3>2, <4>1, GetSentinel DEF EvictOldest
    <3> QED BY <3>1, <3>2
  <2> QED BY <1>3, <2>1, <2>2, <2>3 DEF ProducerStep
<1>4. CASE WorkerGet
  BY <1>4, GetSentinel DEF WorkerGet
<1>5. CASE WorkerStop
  BY <1>5, GetSentinel DEF WorkerStop, histVars
<1>6. ASSUME NEW outcome \in {"delivered", "failed"}, WorkerExported(outcome)
      PROVE  SentinelInv'
  BY <1>6 DEF WorkerExported, SentinelInv, SentinelFirst, StrandedOnlyLate
<1>7. ASSUME NEW c \in Closers, CloserStep(c)
      PROVE  SentinelInv'
  <2>0. closer \in [Closers -> CloserState]
    BY DEF TypeInv, TypeOK
  <2>1. CASE ShutdownCheck(c)
    BY <2>0, <2>1
    DEF ShutdownCheck, CloserGoto, queueVars, histVars, SentinelInv, SentinelFirst,
        StrandedOnlyLate
  <2>2. CASE ShutdownSet(c)
    BY <2>2 DEF ShutdownSet, queueVars, histVars, SentinelInv, SentinelFirst,
                StrandedOnlyLate
  <2>3. CASE ShutdownPut(c)
    <3>1. /\ queue \in Seq(Items)
          /\ None \in Items
          /\ queue' = Append(queue, None)
          /\ is_shutdown /\ is_shutdown'
          /\ UNCHANGED <<worker, late>>
      BY <2>3
      DEF ShutdownPut, Put, histVars, TypeInv, TypeOK, Items, SentinelInv,
          SentinelFirst
    <3>2. /\ Len(queue) \in Nat
          /\ Len(queue') = Len(queue) + 1
          /\ \A i \in 1..Len(queue) : queue'[i] = queue[i]
          /\ queue'[Len(queue) + 1] = None
      BY <3>1, AppendFacts
    <3>3. SentinelFirst'
      BY <3>1, <3>2 DEF SentinelInv, SentinelFirst
    <3>4. StrandedOnlyLate'
      BY <3>1, <3>2 DEF SentinelInv, StrandedOnlyLate
    <3> QED BY <3>3, <3>4 DEF SentinelInv
  <2>4. CASE ShutdownPutTimeout(c) \/ ShutdownInner(c)
    <3>1. /\ is_shutdown
          /\ UNCHANGED <<queue, is_shutdown, worker, late>>
      BY <2>4 DEF ShutdownPutTimeout, ShutdownInner, queueVars, histVars,
                  SentinelInv, SentinelFirst
    <3> QED BY <3>1 DEF SentinelInv, SentinelFirst, StrandedOnlyLate
  <2> QED BY <1>7, <2>1, <2>2, <2>3, <2>4 DEF CloserStep
<1>8. ASSUME NEW f \in Flushers, FlusherStep(f)
      PROVE  SentinelInv'
  BY <1>1, <1>8 DEF FlusherStep, FlushCall, FlushWaited, FlushReturn, queueVars,
                    histVars
<1>9. CASE UNCHANGED vars
  BY <1>1, <1>9 DEF vars
<1> QED
  BY <1>2, <1>3, <1>4, <1>5, <1>6, <1>7, <1>8, <1>9 DEF Next, WorkerStep

(* There is no sentinel and nobody has asked for a shutdown. *)
LEMMA SentinelInit ==
    ASSUME Init
    PROVE  SentinelInv
BY DEF Init, SentinelInv, SentinelFirst, StrandedOnlyLate

(* After the worker's exit the queue holds nothing that was accepted before  *)
(* the shutdown Event was set.                                               *)
THEOREM ShutdownDrains == Spec => []StrandedOnlyLate
<1>1. Init => TypeInv /\ SentinelInv
  BY TypeInvInit, SentinelInit
<1>2. TypeInv /\ SentinelInv /\ [Next]_vars => TypeInv' /\ SentinelInv'
  BY TypeInvStep, SentinelStep
<1>3. SentinelInv => StrandedOnlyLate
  BY DEF SentinelInv
<1> QED BY <1>1, <1>2, <1>3, PTL DEF Spec

-----------------------------------------------------------------------------
(* The buffer implements SpanCustody *)

(* What the worker holds, it has taken out of the queue and not given up. *)
InHand == worker.item \in Spans => fate[worker.item] \in {"draining", "too_late"}

CustodyInv == TypeInv /\ SpanPlaces /\ SentinelInv /\ InHand

(* The cases of PlaceOf, before and after a step. *)
LEMMA PlaceCases ==
    ASSUME NEW s \in Spans
    PROVE  /\ fate[s] = "unsent" => PlaceOf(s) = "agent"
           /\ fate[s] = "queued" => PlaceOf(s) = "buffer"
           /\ fate[s] \in {"refused", "loud", "evicted", "discarded"} =>
                 PlaceOf(s) = "lost"
           /\ fate[s] \in {"draining", "delivered", "failed", "too_late"} =>
                 PlaceOf(s) = IF worker.item = s THEN "hand" ELSE "given"
           /\ fate'[s] = "unsent" => PlaceOf(s)' = "agent"
           /\ fate'[s] = "queued" => PlaceOf(s)' = "buffer"
           /\ fate'[s] \in {"refused", "loud", "evicted", "discarded"} =>
                 PlaceOf(s)' = "lost"
           /\ fate'[s] \in {"draining", "delivered", "failed", "too_late"} =>
                 PlaceOf(s)' = IF worker'.item = s THEN "hand" ELSE "given"
BY DEF PlaceOf

(* A span whose call and whose fate stay as they are stays in its place,     *)
(* unless the worker takes it up or puts it down.                            *)
LEMMA PlaceStays ==
    ASSUME TypeOK, NEW s \in Spans, fate'[s] = fate[s],
           \A l \in {"wait", "evict", "reput"} : InCall(s, l)' = InCall(s, l),
           (worker'.item = s) = (worker.item = s) \/ fate[s] \notin
               {"draining", "delivered", "failed", "too_late"}
    PROVE  PlaceOf(s)' = PlaceOf(s)
BY DEF PlaceOf, TypeOK, Fates

(* One span moves, or one and another. *)
LEMMA PlaceMoves ==
    ASSUME NEW s \in Spans, NEW to, PlaceOf(s)' = to,
           \A t \in Spans \ {s} : PlaceOf(t)' = PlaceOf(t)
    PROVE  Place' = [Place EXCEPT ![s] = to]
BY DEF Place

(* The stage of a call is the stage of its producer, and of no other span. *)
LEMMA CallStage ==
    ASSUME TypeInv, SpanPlaces, NEW p \in Producers, pc[p] # "idle",
           NEW s \in Spans, s = Current(p),
           NEW label \in ProducerState, Goto(p, label), UNCHANGED calls
    PROVE  /\ fate[s] = "held"
           /\ \A l \in {"wait", "evict", "reput"} :
                 /\ InCall(s, l) = (pc[p] = l)
                 /\ InCall(s, l)' = (label = l)
                 /\ \A t \in Spans \ {s} : InCall(t, l)' = InCall(t, l)
<1>1. fate[s] = "held"
  BY DEF SpanPlaces
<1>2. /\ \A q \in Producers : Current(q)' = Current(q)
      /\ pc' = [pc EXCEPT ![p] = label]
      /\ pc \in [Producers -> ProducerState]
  BY DEF Goto, Current, TypeInv, TypeOK
<1>3. \A q \in Producers : pc[q] # "idle" /\ Current(q) = s => q = p
  BY DEF SpanPlaces
<1>4. ASSUME NEW l \in {"wait", "evict", "reput"}
      PROVE  /\ InCall(s, l) = (pc[p] = l)
             /\ InCall(s, l)' = (label = l)
             /\ \A t \in Spans \ {s} : InCall(t, l)' = InCall(t, l)
  <2>1. InCall(s, l) = (pc[p] = l)
    BY <1>3 DEF InCall
  <2>2. \A q \in Producers : pc'[q] = l => q = p \/ pc[q] = l
    BY <1>2
  <2>3. InCall(s, l)' = (label = l)
    BY <1>2, <1>3, <2>2 DEF InCall
  <2>4. \A t \in Spans \ {s} : InCall(t, l)' = InCall(t, l)
    BY <1>2 DEF InCall
  <2> QED BY <2>1, <2>3, <2>4
<1> QED BY <1>1, <1>4

(* A step of a call that leaves every other span alone moves its span. *)
LEMMA CallMoves ==
    ASSUME CustodyInv, NEW p \in Producers, pc[p] # "idle",
           NEW s \in Spans, s = Current(p),
           NEW label \in ProducerState, Goto(p, label), UNCHANGED <<calls, worker>>,
           \A t \in Spans \ {s} : fate'[t] = fate[t]
    PROVE  /\ Place[s] = CASE pc[p] = "wait" -> "waiting"
                            [] pc[p] = "evict" -> "displacing"
                            [] pc[p] = "reput" -> "displaced"
                            [] pc[p] = "put" -> "call"
           /\ Place' = [Place EXCEPT ![s] = PlaceOf(s)']
           /\ fate'[s] = fate[s] /\ label = "wait" => PlaceOf(s)' = "waiting"
           /\ fate'[s] = fate[s] /\ label = "evict" => PlaceOf(s)' = "displacing"
<1>1. /\ fate[s] = "held"
      /\ \A l \in {"wait", "evict", "reput"} :
            /\ InCall(s, l) = (pc[p] = l)
            /\ InCall(s, l)' = (label = l)
            /\ \A t \in Spans \ {s} : InCall(t, l)' = InCall(t, l)
  BY CallStage DEF CustodyInv
<1>2. pc[p] \in {"wait", "evict", "reput", "put"}
  BY DEF CustodyInv, TypeInv, TypeOK, ProducerState
<1>3. PlaceOf(s) = IF InCall(s, "wait") THEN "waiting"
                   ELSE IF InCall(s, "evict") THEN "displacing"
                   ELSE IF InCall(s, "reput") THEN "displaced" ELSE "call"
  BY <1>1 DEF PlaceOf
<1>4. Place[s] = CASE pc[p] = "wait" -> "waiting"
                   [] pc[p] = "evict" -> "displacing"
                   [] pc[p] = "reput" -> "displaced"
                   [] pc[p] = "put" -> "call"
  <2>1. InCall(s, "wait") = (pc[p] = "wait") /\ InCall(s, "evict") = (pc[p] = "evict")
        /\ InCall(s, "reput") = (pc[p] = "reput")
    BY <1>1
  <2>2. Place[s] = PlaceOf(s)
    BY DEF Place
  <2> QED BY <1>2, <1>3, <2>1, <2>2
<1>5. ASSUME NEW t \in Spans \ {s}
      PROVE  PlaceOf(t)' = PlaceOf(t)
  BY <1>1, PlaceStays DEF CustodyInv, TypeInv
<1>6. Place' = [Place EXCEPT ![s] = PlaceOf(s)']
  BY <1>5 DEF Place
<1>7. ASSUME fate'[s] = fate[s]
      PROVE  PlaceOf(s)' = IF label = "wait" THEN "waiting"
                           ELSE IF label = "evict" THEN "displacing"
                           ELSE IF label = "reput" THEN "displaced" ELSE "call"
  <2>1. InCall(s, "wait")' = (label = "wait") /\ InCall(s, "evict")' = (label = "evict")
        /\ InCall(s, "reput")' = (label = "reput")
    BY <1>1
  <2>2. fate'[s] = "held"
    BY <1>1, <1>7
  <2> QED BY <2>1, <2>2 DEF PlaceOf
<1> QED BY <1>4, <1>6, <1>7

(* What is enqueued was in a call that may still enqueue it. *)
LEMMA EnqueueCustody ==
    ASSUME CustodyInv, NEW p \in Producers, pc[p] \in {"put", "wait", "reput"},
           Enqueue(p)
    PROVE  Custody!CustodyNext
<1> PICK s \in Spans : s = Current(p)
  BY CurrentIsSpan DEF CustodyInv, TypeInv
<1>1. /\ fate' = [fate EXCEPT ![s] = "queued"]
      /\ fate \in [Spans -> Fates]
      /\ UNCHANGED <<calls, worker, is_shutdown>>
      /\ Goto(p, "idle")
  BY DEF Enqueue, Fate, CustodyInv, TypeInv, TypeOK
<1>2. /\ Place[s] \in {"call", "waiting", "displaced"}
      /\ Place' = [Place EXCEPT ![s] = PlaceOf(s)']
  BY <1>1, CallMoves DEF ProducerState
<1>3. PlaceOf(s)' = "buffer"
  BY <1>1, PlaceCases
<1>4. Custody!Accept(s)
  BY <1>2, <1>3 DEF Custody!Accept, Custody!Move
<1> QED BY <1>1, <1>4 DEF Custody!CustodyNext, Custody!CallStep

(* A call begins: the span leaves the agent. *)
LEMMA CallCustody ==
    ASSUME CustodyInv, NEW p \in Producers, NEW s \in Spans,
           ExportRefused(p, s) \/ ExportAdmitted(p, s)
    PROVE  Custody!CustodyNext
<1>1. /\ fate[s] = "unsent"
      /\ pc[p] = "idle"
      /\ fate \in [Spans -> Fates]
      /\ pc \in [Producers -> ProducerState]
      /\ calls \in [Producers -> Seq(Spans)]
      /\ calls' = [calls EXCEPT ![p] = Append(@, s)]
      /\ UNCHANGED <<worker, is_shutdown>>
  BY DEF ExportRefused, ExportAdmitted, Call, CustodyInv, TypeInv, TypeOK
<1>2. \A q \in Producers \ {p} : pc'[q] = pc[q] /\ Current(q)' = Current(q)
  BY <1>1 DEF ExportRefused, ExportAdmitted, Goto, Current
<1>3. pc'[p] \in {"idle", "put"}
  BY <1>1 DEF ExportRefused, ExportAdmitted, Goto
<1>4. \A t \in Spans, l \in {"wait", "evict", "reput"} : InCall(t, l)' = InCall(t, l)
  BY <1>1, <1>2, <1>3 DEF InCall
<1>5. \A t \in Spans \ {s} : fate'[t] = fate[t]
  BY <1>1 DEF ExportRefused, ExportAdmitted, Fate
<1>6. \A t \in Spans \ {s} : PlaceOf(t)' = PlaceOf(t)
  BY <1>1, <1>4, <1>5, PlaceStays DEF CustodyInv, TypeInv
<1>7. Place[s] = "agent" /\ Place' = [Place EXCEPT ![s] = PlaceOf(s)']
  BY <1>1, <1>6, PlaceCases DEF Place
<1>8. CASE ExportRefused(p, s)
  <2>1. fate'[s] = "refused" /\ is_shutdown
    BY <1>1, <1>8 DEF ExportRefused, Fate
  <2>2. PlaceOf(s)' = "lost"
    BY <2>1, PlaceCases
  <2>3. Custody!Refuse(s)
    BY <1>7, <2>1, <2>2 DEF Custody!Refuse, Custody!Move
  <2> QED BY <1>1, <2>3 DEF Custody!CustodyNext, Custody!CallStep
<1>9. CASE ExportAdmitted(p, s)
  <2>1. fate'[s] = "held" /\ ~is_shutdown
    BY <1>1, <1>9 DEF ExportAdmitted, Fate
  <2>2. \A q \in Producers : pc[q] # "idle" => Current(q) # s
    BY <1>1 DEF CustodyInv, SpanPlaces
  <2>3. \A l \in {"wait", "evict", "reput"} : ~InCall(s, l)'
    BY <1>4, <2>2 DEF InCall
  <2>4. ~InCall(s, "wait")' /\ ~InCall(s, "evict")' /\ ~InCall(s, "reput")'
    BY <2>3
  <2>5. PlaceOf(s)' = "call"
    BY <2>1, <2>4 DEF PlaceOf
  <2>6. Custody!Offer(s)
    BY <1>7, <2>1, <2>5 DEF Custody!Offer, Custody!Move
  <2> QED BY <1>1, <2>6 DEF Custody!CustodyNext, Custody!CallStep
<1> QED BY <1>8, <1>9

(* The oldest item goes: a buffered span, a sentinel, or nothing. *)
LEMMA EvictCustody ==
    ASSUME CustodyInv, NEW p \in Producers, EvictOldest(p)
    PROVE  Custody!CustodyNext
<1>0. pc[p] = "evict" /\ Goto(p, "reput") /\ UNCHANGED <<calls, worker, is_shutdown>>
  BY DEF EvictOldest
<1> PICK s \in Spans : s = Current(p)
  BY <1>0, CurrentIsSpan DEF CustodyInv, TypeInv
<1>1. /\ fate[s] = "held"
      /\ \A l \in {"wait", "evict", "reput"} :
            /\ InCall(s, l) = (pc[p] = l)
            /\ InCall(s, l)' = ("reput" = l)
            /\ \A t \in Spans \ {s} : InCall(t, l)' = InCall(t, l)
  BY <1>0, CallStage DEF CustodyInv, ProducerState
<1>2. /\ ~InCall(s, "wait") /\ InCall(s, "evict")
      /\ ~InCall(s, "wait")' /\ ~InCall(s, "evict")' /\ InCall(s, "reput")'
  BY <1>0, <1>1
<1>3. /\ fate \in [Spans -> Fates]
      /\ queue \in Seq(Items)
      /\ TypeOK
  BY DEF CustodyInv, TypeInv, TypeOK
<1>4. Place[s] = "displacing"
  BY <1>1, <1>2 DEF Place, PlaceOf
<1>5. ASSUME fate'[s] = "held"
      PROVE  PlaceOf(s)' = "displaced"
  BY <1>2, <1>5 DEF PlaceOf
<1>6. ASSUME NEW t \in Spans \ {s}, fate'[t] = fate[t]
      PROVE  PlaceOf(t)' = PlaceOf(t)
  BY <1>0, <1>1, <1>3, <1>6, PlaceStays
<1>7. CASE UNCHANGED fate
  <2>1. Place' = [Place EXCEPT ![s] = "displaced"]
    BY <1>1, <1>5, <1>6, <1>7 DEF Place
  <2>2. Custody!Displace(s)
    BY <1>4, <2>1 DEF Custody!Displace
  <2> QED BY <1>0, <2>2 DEF Custody!CustodyNext, Custody!CallStep
<1>8. CASE ~UNCHANGED fate
  <2>1. /\ queue # <<>>
        /\ fate' = [t \in Spans |-> IF t = Head(queue) THEN "evicted" ELSE fate[t]]
    BY <1>8 DEF EvictOldest
  <2>2. Head(queue) \in Spans
    BY <1>3, <1>8, <2>1
  <2> PICK h \in Spans : h = Head(queue)
    BY <2>2
  <2>3. fate[h] = "queued"
    <3>1. Len(queue) \in Nat \ {0} /\ Head(queue) = queue[1]
      BY <1>3, <2>1, TailFacts
    <3> QED BY <3>1 DEF CustodyInv, SpanPlaces
  <2>4. h # s /\ fate'[h] = "evicted" /\ \A t \in Spans \ {h} : fate'[t] = fate[t]
    BY <1>1, <2>1, <2>3
  <2>5. PlaceOf(h) = "buffer" /\ PlaceOf(h)' = "lost"
    BY <2>3, <2>4, PlaceCases
  <2>6. PlaceOf(s)' = "displaced"
    BY <1>1, <1>5, <2>4
  <2>7. Place' = [Place EXCEPT ![s] = "displaced", ![h] = "lost"]
    BY <1>6, <2>4, <2>5, <2>6 DEF Place
  <2>8. h \in Custody!In("buffer")
    BY <2>5 DEF Custody!In, Place
  <2>9. Custody!Displace(s)
    BY <1>4, <2>7, <2>8 DEF Custody!Displace
  <2> QED BY <1>0, <2>9 DEF Custody!CustodyNext, Custody!CallStep
<1> QED BY <1>7, <1>8

(* A step that moves no span and neither begins nor ends a shutdown. *)
LEMMA StutterCustody ==
    ASSUME CustodyInv, UNCHANGED <<fate, pc, calls, worker, is_shutdown>>
    PROVE  UNCHANGED Custody!custody
<1>1. \A t \in Spans, l \in {"wait", "evict", "reput"} : InCall(t, l)' = InCall(t, l)
  BY DEF InCall, Current
<1>2. \A t \in Spans : PlaceOf(t)' = PlaceOf(t)
  BY <1>1, PlaceStays DEF CustodyInv, TypeInv
<1>3. Place' = Place
  BY <1>2 DEF Place
<1> QED BY <1>3 DEF Custody!custody

(* Every step inside export() is a step of its span. *)
LEMMA ProducerCustody ==
    ASSUME CustodyInv, NEW p \in Producers, ProducerStep(p)
    PROVE  Custody!CustodyNext
<1>1. CASE PutNowait(p) \/ CriticalPut(p) \/ RePut(p)
  BY <1>1, EnqueueCustody DEF PutNowait, CriticalPut, RePut
<1>2. CASE PutNowaitFull(p)
  <2>1. /\ pc[p] = "put"
        /\ Goto(p, IF Current(p) \in Critical THEN "wait" ELSE "evict")
        /\ UNCHANGED <<calls, worker, fate, is_shutdown>>
    BY <1>2 DEF PutNowaitFull, histVars
  <2> PICK s \in Spans : s = Current(p)
    BY <2>1, CurrentIsSpan DEF CustodyInv, TypeInv
  <2>2. CASE s \in Critical
    <3>1. Place[s] = "call" /\ Place' = [Place EXCEPT ![s] = "waiting"]
      BY <2>1, <2>2, CallMoves DEF ProducerState
    <3>2. Custody!Crowd(s)
      BY <2>2, <3>1 DEF Custody!Crowd, Custody!Move
    <3> QED BY <2>1, <3>2 DEF Custody!CustodyNext, Custody!CallStep
  <2>3. CASE s \notin Critical
    <3>1. Place[s] = "call" /\ Place' = [Place EXCEPT ![s] = "displacing"]
      BY <2>1, <2>3, CallMoves DEF ProducerState
    <3>2. Custody!Crowd(s)
      BY <2>3, <3>1 DEF Custody!Crowd, Custody!Move
    <3> QED BY <2>1, <3>2 DEF Custody!CustodyNext, Custody!CallStep
  <2> QED BY <2>2, <2>3
<1>3. CASE CriticalTimeout(p) \/ RePutFull(p)
  <2>1. /\ pc[p] = IF CriticalTimeout(p) THEN "wait" ELSE "reput"
        /\ Goto(p, "idle")
        /\ UNCHANGED <<calls, worker, is_shutdown>>
        /\ Fate(Current(p), IF CriticalTimeout(p) THEN "loud" ELSE "discarded")
    BY <1>3 DEF CriticalTimeout, RePutFull
  <2> PICK s \in Spans : s = Current(p)
    BY <2>1, CurrentIsSpan DEF CustodyInv, TypeInv
  <2>2. /\ fate'[s] \in {"loud", "discarded"}
        /\ \A t \in Spans \ {s} : fate'[t] = fate[t]
    BY <2>1 DEF Fate, CustodyInv, TypeInv, TypeOK
  <2>3. PlaceOf(s)' = "lost"
    BY <2>2, PlaceCases
  <2>4. Place[s] = IF CriticalTimeout(p) THEN "waiting" ELSE "displaced"
    BY <2>1, <2>2, CallMoves DEF ProducerState
  <2>5. Place' = [Place EXCEPT ![s] = "lost"]
    BY <2>1, <2>2, <2>3, CallMoves DEF ProducerState
  <2>6. Custody!GiveUp(s) \/ Custody!Swallow(s)
    BY <2>4, <2>5 DEF Custody!GiveUp, Custody!Swallow, Custody!Move
  <2> QED BY <2>1, <2>6 DEF Custody!CustodyNext, Custody!CallStep
<1>4. CASE EvictOldest(p)
  BY <1>4, EvictCustody
<1> QED BY <1>1, <1>2, <1>3, <1>4 DEF ProducerStep

(* The worker takes one buffered span, gives it up, or stops. *)
LEMMA WorkerCustody ==
    ASSUME CustodyInv, WorkerStep
    PROVE  Custody!CustodyNext \/ UNCHANGED Custody!custody
<1>0. /\ TypeOK
      /\ queue \in Seq(Items)
      /\ fate \in [Spans -> Fates]
      /\ worker \in [state : WorkerState, item : Items]
      /\ None \notin Spans
  BY QueueAssumption DEF CustodyInv, TypeInv, TypeOK
<1>1. UNCHANGED <<pc, calls, is_shutdown>>
  BY DEF WorkerStep, WorkerGet, WorkerStop, WorkerExported, prodVars
<1>2. \A t \in Spans, l \in {"wait", "evict", "reput"} : InCall(t, l)' = InCall(t, l)
  BY <1>1 DEF InCall, Current
<1>3. ASSUME NEW t \in Spans, fate'[t] = fate[t], worker'.item # t, worker.item # t
      PROVE  PlaceOf(t)' = PlaceOf(t)
  BY <1>0, <1>2, <1>3, PlaceStays
<1>4. worker.state = "get" => \A t \in Spans : worker.item # t
  BY <1>0 DEF TypeOK
<1>5. worker.state = "get" => Custody!In("hand") = {}
  <2>1. worker.state = "get" => \A t \in Spans : PlaceOf(t) # "hand"
    BY <1>4 DEF PlaceOf
  <2> QED BY <2>1 DEF Custody!In, Place
<1>6. CASE WorkerGet
  <2>1. queue # <<>> /\ Head(queue) # None /\ worker.state = "get"
    BY <1>6 DEF WorkerGet
  <2>2. Head(queue) \in Spans /\ fate[Head(queue)] = "queued"
    <3>1. 1 \in 1..Len(queue) /\ Head(queue) = queue[1] /\ queue[1] \in Items
      BY <1>0, <2>1, TailFacts
    <3> QED BY <2>1, <3>1 DEF CustodyInv, SpanPlaces, Items
  <2> PICK s \in Spans : s = Head(queue)
    BY <2>2
  <2>3. /\ worker'.item = s /\ worker'.state = "export"
        /\ fate'[s] \in {"too_late", "draining"}
        /\ \A t \in Spans \ {s} : fate'[t] = fate[t]
    BY <1>0, <1>6 DEF WorkerGet, Fate
  <2>4. PlaceOf(s) = "buffer" /\ PlaceOf(s)' = "hand"
    BY <2>2, <2>3, PlaceCases
  <2>5. \A t \in Spans \ {s} : PlaceOf(t)' = PlaceOf(t)
    BY <1>3, <1>4, <2>1, <2>3
  <2>6. Place[s] = "buffer" /\ Place' = [Place EXCEPT ![s] = "hand"]
    BY <2>4, <2>5 DEF Place
  <2>7. Custody!HandOver(s)
    BY <1>5, <2>1, <2>6 DEF Custody!HandOver, Custody!Move
  <2>8. (worker'.state = "exited") = (worker.state = "exited")
    BY <2>1, <2>3
  <2> QED BY <1>1, <2>7, <2>8 DEF Custody!CustodyNext
<1>7. CASE WorkerStop
  <2>1. /\ worker.state = "get" /\ worker'.state = "exited" /\ worker'.item = None
        /\ UNCHANGED fate
        /\ queue # <<>> /\ Head(queue) = None
    BY <1>7 DEF WorkerStop, histVars
  <2>2. is_shutdown
    <3>1. 1 \in 1..Len(queue) /\ queue[1] = None
      BY <1>0, <2>1, TailFacts
    <3> QED BY <3>1 DEF CustodyInv, SentinelInv, SentinelFirst
  <2>3. \A t \in Spans : PlaceOf(t)' = PlaceOf(t)
    BY <1>0, <1>3, <1>4, <2>1
  <2>4. Place' = Place
    BY <2>3 DEF Place
  <2>5. Custody!Stop
    BY <1>1, <1>5, <2>1, <2>2, <2>4 DEF Custody!Stop
  <2> QED BY <2>5 DEF Custody!CustodyNext
<1>8. ASSUME NEW outcome \in {"delivered", "failed"}, WorkerExported(outcome)
      PROVE  Custody!CustodyNext
  <2>1. /\ worker.state = "export" /\ worker'.state = "get" /\ worker'.item = None
        /\ worker.item \in Spans
    BY <1>0, <1>8 DEF WorkerExported, TypeOK
  <2> PICK s \in Spans : s = worker.item
    BY <2>1
  <2>2. \A t \in Spans \ {s} : fate'[t] = fate[t]
    BY <1>0, <1>8 DEF WorkerExported, Fate
  <2>3. fate[s] \in {"draining", "delivered", "failed", "too_late"}
    BY <2>1 DEF CustodyInv, InHand
  <2>4. fate'[s] \in {"draining", "delivered", "failed", "too_late"}
    BY <1>0, <1>8, <2>3 DEF WorkerExported, Fate
  <2>5. PlaceOf(s) = "hand" /\ PlaceOf(s)' = "given"
    BY <1>0, <2>1, <2>3, <2>4, PlaceCases
  <2>6. \A t \in Spans \ {s} : PlaceOf(t)' = PlaceOf(t)
    BY <1>0, <1>3, <2>1, <2>2
  <2>7. Place[s] = "hand" /\ Place' = [Place EXCEPT ![s] = "given"]
    BY <2>5, <2>6 DEF Place
  <2>8. Custody!Settle(s)
    BY <2>7 DEF Custody!Settle, Custody!Move
  <2>9. (worker'.state = "exited") = (worker.state = "exited")
    BY <2>1
  <2> QED BY <1>1, <2>8, <2>9 DEF Custody!CustodyNext
<1> QED BY <1>6, <1>7, <1>8 DEF WorkerStep

(* No other step changes the fate of the span in the hands of the worker. *)
LEMMA InHandStep ==
    ASSUME CustodyInv, [Next]_vars
    PROVE  InHand'
<1>0. /\ fate \in [Spans -> Fates]
      /\ queue \in Seq(Items)
      /\ None \notin Spans
  BY QueueAssumption DEF CustodyInv, TypeInv, TypeOK
<1>1. ASSUME UNCHANGED worker,
             \A s \in Spans : fate'[s] = fate[s] \/ fate[s] \notin {"draining", "too_late"}
      PROVE  InHand'
  BY <1>1 DEF CustodyInv, InHand
<1>2. ASSUME NEW p \in Producers, NEW s \in Spans,
             ExportRefused(p, s) \/ ExportAdmitted(p, s)
      PROVE  InHand'
  BY <1>0, <1>1, <1>2 DEF ExportRefused, ExportAdmitted, Call, Fate
<1>3. ASSUME NEW p \in Producers, ProducerStep(p)
      PROVE  InHand'
  <2>1. pc[p] # "idle" /\ UNCHANGED worker
    BY <1>3 DEF ProducerStep, PutNowait, PutNowaitFull, CriticalPut, CriticalTimeout,
                EvictOldest, RePut, RePutFull, Enqueue
  <2>2. Current(p) \in Spans /\ fate[Current(p)] = "held"
    BY <2>1, CurrentIsSpan DEF CustodyInv, TypeInv, SpanPlaces
  <2>3. CASE EvictOldest(p)
    <3>1. queue # <<>> /\ Head(queue) \in Spans => fate[Head(queue)] = "queued"
      <4>1. queue # <<>> => 1 \in 1..Len(queue) /\ Head(queue) = queue[1]
        BY <1>0, TailFacts
      <4> QED BY <4>1 DEF CustodyInv, SpanPlaces
    <3>2. \A s \in Spans : fate'[s] = fate[s] \/ fate[s] = "queued"
      BY <2>3, <3>1 DEF EvictOldest
    <3> QED BY <1>1, <2>1, <3>2
  <2>4. CASE ~EvictOldest(p)
    <3>1. \A s \in Spans : fate'[s] = fate[s] \/ fate[s] = "held"
      BY <1>0, <1>3, <2>2, <2>4
      DEF ProducerStep, PutNowait, PutNowaitFull, CriticalPut, CriticalTimeout,
          RePut, RePutFull, Enqueue, Fate, histVars
    <3> QED BY <1>1, <2>1, <3>1
  <2> QED BY <2>3, <2>4
<1>4. CASE WorkerGet
  BY <1>0, <1>4 DEF WorkerGet, Fate, InHand
<1>5. CASE WorkerStop
  BY <1>0, <1>5 DEF WorkerStop, InHand
<1>6. ASSUME NEW outcome \in {"delivered", "failed"}, WorkerExported(outcome)
      PROVE  InHand'
  BY <1>0, <1>6 DEF WorkerExported, InHand
<1>7. ASSUME NEW c \in Closers, CloserStep(c)
      PROVE  InHand'
  BY <1>1, <1>7 DEF CloserStep, ShutdownCheck, ShutdownSet, ShutdownPut,
                    ShutdownPutTimeout, ShutdownInner, histVars
<1>8. ASSUME NEW f \in Flushers, FlusherStep(f)
      PROVE  InHand'
  BY <1>1, <1>8 DEF FlusherStep, FlushCall, FlushWaited, FlushReturn, histVars
<1>9. CASE UNCHANGED vars
  BY <1>1, <1>9 DEF vars
<1> QED
  BY <1>2, <1>3, <1>4, <1>5, <1>6, <1>7, <1>8, <1>9 DEF Next, WorkerStep

(* Setting the Event again, joining, and all of flush() move no span. *)
LEMMA CustodyStep ==
    ASSUME CustodyInv, [Next]_vars
    PROVE  [Custody!CustodyNext]_(Custody!custody)
<1>1. ASSUME NEW p \in Producers, NEW s \in Spans,
             ExportRefused(p, s) \/ ExportAdmitted(p, s)
      PROVE  Custody!CustodyNext
  BY <1>1, CallCustody
<1>2. ASSUME NEW p \in Producers, ProducerStep(p)
      PROVE  Custody!CustodyNext
  BY <1>2, ProducerCustody
<1>3. ASSUME WorkerStep
      PROVE  Custody!CustodyNext \/ UNCHANGED Custody!custody
  BY <1>3, WorkerCustody
<1>4. ASSUME NEW c \in Closers, CloserStep(c)
      PROVE  Custody!CustodyNext \/ UNCHANGED Custody!custody
  <2>1. CASE ShutdownSet(c)
    <3>1. UNCHANGED <<fate, pc, calls, worker>> /\ is_shutdown'
      BY <2>1 DEF ShutdownSet, prodVars, histVars
    <3>2. \A t \in Spans, l \in {"wait", "evict", "reput"} : InCall(t, l)' = InCall(t, l)
      BY <3>1 DEF InCall, Current
    <3>3. \A t \in Spans : PlaceOf(t)' = PlaceOf(t)
      BY <3>1, <3>2, PlaceStays DEF CustodyInv, TypeInv
    <3>4. Place' = Place
      BY <3>3 DEF Place
    <3>5. is_shutdown' = TRUE
      BY <2>1 DEF ShutdownSet
    <3>6. Custody!Close
      BY <3>1, <3>4, <3>5 DEF Custody!Close
    <3> QED BY <3>6 DEF Custody!CustodyNext
  <2>2. CASE ~ShutdownSet(c)
    <3>1. UNCHANGED <<fate, pc, calls, worker, is_shutdown>>
      BY <1>4, <2>2 DEF CloserStep, ShutdownCheck, ShutdownPut, ShutdownPutTimeout,
                        ShutdownInner, prodVars, histVars
    <3> QED BY <3>1, StutterCustody
  <2> QED BY <2>1, <2>2
<1>5. ASSUME NEW f \in Flushers, FlusherStep(f)
      PROVE  UNCHANGED Custody!custody
  <2>1. UNCHANGED <<fate, pc, calls, worker, is_shutdown>>
    BY <1>5 DEF FlusherStep, FlushCall, FlushWaited, FlushReturn, prodVars, histVars
  <2> QED BY <2>1, StutterCustody
<1>6. ASSUME UNCHANGED vars
      PROVE  UNCHANGED Custody!custody
  BY <1>6, StutterCustody DEF vars
<1> QED BY <1>1, <1>2, <1>3, <1>4, <1>5, <1>6 DEF Next

(* Nothing has been exported, and nobody has asked for a shutdown. *)
LEMMA CustodyStart ==
    ASSUME Init
    PROVE  CustodyInv /\ Custody!CustodyInit
<1>1. TypeInv /\ SpanPlaces /\ SentinelInv
  BY TypeInvInit, SpanPlacesInit, SentinelInit
<1>2. InHand
  BY QueueAssumption DEF Init, InHand
<1>3. \A s \in Spans : PlaceOf(s) = "agent"
  BY PlaceCases DEF Init
<1>4. Place = [s \in Spans |-> "agent"]
  BY <1>3 DEF Place
<1>5. is_shutdown = FALSE /\ (worker.state = "exited") = FALSE
  BY DEF Init
<1> QED BY <1>1, <1>2, <1>4, <1>5 DEF CustodyInv, Custody!CustodyInit

(* The buffer implements SpanCustody: whatever the threads do, a span only   *)
(* moves forward, one at a time, and is lost for one of the four reasons.    *)
THEOREM BufferImplementsCustody == Spec => CustodyKept
<1>1. Init => CustodyInv /\ Custody!CustodyInit
  BY CustodyStart
<1>2. CustodyInv /\ [Next]_vars => CustodyInv'
  BY TypeInvStep, SpanPlacesStep, SentinelStep, InHandStep DEF CustodyInv
<1>3. CustodyInv /\ [Next]_vars => [Custody!CustodyNext]_(Custody!custody)
  BY CustodyStep
<1> QED BY <1>1, <1>2, <1>3, PTL DEF Spec, CustodyKept, Custody!CustodySpec

-----------------------------------------------------------------------------
(***************************************************************************)
(* The order in which the buffer hands spans over, for every set of spans, *)
(* producers, closers and flushers and every queue size.  What the inner   *)
(* exporter has seen, what is queued and what a producer is still holding  *)
(* are three stretches of one order: no span of a thread is ever behind a  *)
(* later span of the same thread.                                          *)
(***************************************************************************)

\* Some thread exported s before it exported t.
Before(s, t) ==
    \E p \in Producers : \E i, j \in 1..Len(calls[p]) :
        i < j /\ calls[p][i] = s /\ calls[p][j] = t

Passed == {"draining", "delivered", "failed", "too_late"}

\* A span is exported by one thread, once.
CalledOnce ==
    /\ \A p, q \in Producers :
          \A i \in 1..Len(calls[p]), j \in 1..Len(calls[q]) :
             calls[p][i] = calls[q][j] => p = q /\ i = j
    /\ \A p \in Producers : \A i \in 1..Len(calls[p]) : fate[calls[p][i]] # "unsent"

QueuedInOrder ==
    \A a, b \in 1..Len(queue) : a < b => ~Before(queue[b], queue[a])

HandedOnce ==
    /\ \A m, n \in 1..Len(handed) : handed[m] = handed[n] => m = n
    /\ \A m \in 1..Len(handed) : fate[handed[m]] \in Passed

HandedInOrder ==
    \A m, n \in 1..Len(handed) : m < n => ~Before(handed[n], handed[m])

HandedBeforeQueued ==
    \A m \in 1..Len(handed), a \in 1..Len(queue) : ~Before(queue[a], handed[m])

OrderInv ==
    CalledOnce /\ QueuedInOrder /\ HandedOnce /\ HandedInOrder /\ HandedBeforeQueued

\* What a step does to a span that some thread has exported: it stays
\* exported, and once handed over it stays so.
Forward ==
    \A t \in Spans : /\ fate[t] # "unsent" => fate'[t] # "unsent"
                     /\ fate[t] \in Passed => fate'[t] \in Passed

(* The order of the calls implies the property. *)
LEMMA OrderSuffices ==
    ASSUME TypeInv, OrderInv
    PROVE  ProducerOrder
<1>1. \A p \in Producers : Len(calls[p]) \in Nat
  BY DEF TypeInv, TypeOK
<1>2. Len(handed) \in Nat
  BY DEF TypeInv, TypeOK
<1>3. ASSUME NEW p \in Producers, NEW i \in 1..Len(calls[p]),
             NEW j \in 1..Len(calls[p]), NEW m \in 1..Len(handed),
             NEW n \in 1..Len(handed),
             handed[m] = calls[p][i], handed[n] = calls[p][j]
      PROVE  i < j <=> m < n
  <2>1. m \in Int /\ n \in Int /\ i \in Int /\ j \in Int
    BY <1>1, <1>2
  <2>2. CASE i < j
    <3>1. Before(handed[m], handed[n])
      BY <1>3, <2>2 DEF Before
    <3>2. ~(n < m)
      BY <3>1 DEF OrderInv, HandedInOrder
    <3>3. m # n
      BY <1>3, <2>1, <2>2 DEF OrderInv, CalledOnce
    <3> QED BY <2>1, <2>2, <3>2, <3>3
  <2>3. CASE j < i
    <3>1. Before(handed[n], handed[m])
      BY <1>3, <2>3 DEF Before
    <3>2. ~(m < n)
      BY <3>1 DEF OrderInv, HandedInOrder
    <3> QED BY <2>1, <2>3, <3>2
  <2>4. CASE i = j
    <3>1. m = n
      BY <1>3, <2>4 DEF OrderInv, HandedOnce
    <3> QED BY <2>1, <2>4, <3>1
  <2> QED BY <2>1, <2>2, <2>3, <2>4
<1> QED BY <1>3 DEF ProducerOrder

-----------------------------------------------------------------------------
(* The steps, by what they do to the calls, the queue and the spans handed over *)

(* No step but a call of export() gives a producer another span. *)
LEMMA SameCalls ==
    ASSUME OrderInv, TypeInv, Forward, UNCHANGED calls
    PROVE  /\ CalledOnce'
           /\ \A s, t : Before(s, t)' <=> Before(s, t)
           /\ \A m \in 1..Len(handed) : fate'[handed[m]] \in Passed
<1>1. \A p \in Producers : \A i \in 1..Len(calls[p]) : calls[p][i] \in Spans
  BY DEF TypeInv, TypeOK
<1>2. \A m \in 1..Len(handed) : handed[m] \in Spans
  BY DEF TypeInv, TypeOK
<1>3. CalledOnce'
  BY <1>1 DEF OrderInv, CalledOnce, Forward
<1>4. \A s, t : Before(s, t)' <=> Before(s, t)
  BY DEF Before
<1>5. \A m \in 1..Len(handed) : fate'[handed[m]] \in Passed
  BY <1>2 DEF OrderInv, HandedOnce, Forward
<1> QED BY <1>3, <1>4, <1>5

(* A step that neither calls, puts, gets nor hands over. *)
LEMMA StayOrder ==
    ASSUME OrderInv, TypeInv, Forward, UNCHANGED <<calls, queue, handed>>
    PROVE  OrderInv'
<1>1. CalledOnce' /\ \A s, t : Before(s, t)' <=> Before(s, t)
  BY SameCalls
<1>2. HandedOnce'
  BY SameCalls DEF OrderInv, HandedOnce
<1>3. QueuedInOrder' /\ HandedInOrder' /\ HandedBeforeQueued'
  BY <1>1 DEF OrderInv, QueuedInOrder, HandedInOrder, HandedBeforeQueued
<1> QED BY <1>1, <1>2, <1>3 DEF OrderInv

(* An item is put at the end: nothing that is queued or was handed over was  *)
(* exported after it.                                                        *)
LEMMA PutOrder ==
    ASSUME OrderInv, TypeInv, Forward, NEW x \in Items,
           queue' = Append(queue, x), UNCHANGED <<calls, handed>>,
           \A t : ~Before(x, t)
    PROVE  OrderInv'
<1>1. CalledOnce' /\ \A s, t : Before(s, t)' <=> Before(s, t)
  BY SameCalls
<1>2. HandedOnce'
  BY SameCalls DEF OrderInv, HandedOnce
<1>3. HandedInOrder'
  BY <1>1 DEF OrderInv, HandedInOrder
<1>4. /\ Len(queue) \in Nat
      /\ Len(queue') = Len(queue) + 1
      /\ \A a \in 1..Len(queue) : queue'[a] = queue[a]
      /\ queue'[Len(queue) + 1] = x
  BY AppendFacts DEF TypeInv, TypeOK
<1>5. \A a \in 1..Len(queue') : a \in 1..Len(queue) \/ a = Len(queue) + 1
  BY <1>4
<1>6. QueuedInOrder'
  BY <1>1, <1>4, <1>5 DEF OrderInv, QueuedInOrder
<1>7. HandedBeforeQueued'
  BY <1>1, <1>4, <1>5 DEF OrderInv, HandedBeforeQueued
<1> QED BY <1>1, <1>2, <1>3, <1>6, <1>7 DEF OrderInv

(* The oldest item leaves the queue, evicted or a sentinel. *)
LEMMA GetOrder ==
    ASSUME OrderInv, TypeInv, Forward, queue # <<>>, Get, UNCHANGED <<calls, handed>>
    PROVE  OrderInv'
<1>1. CalledOnce' /\ \A s, t : Before(s, t)' <=> Before(s, t)
  BY SameCalls
<1>2. HandedOnce'
  BY SameCalls DEF OrderInv, HandedOnce
<1>3. HandedInOrder'
  BY <1>1 DEF OrderInv, HandedInOrder
<1>4. /\ Len(queue) \in Nat
      /\ Len(queue') = Len(queue) - 1
      /\ \A a \in 1..Len(queue') : queue'[a] = queue[a + 1] /\ a + 1 \in 1..Len(queue)
  BY TailFacts DEF TypeInv, TypeOK, Get
<1>5. QueuedInOrder'
  BY <1>1, <1>4 DEF OrderInv, QueuedInOrder
<1>6. HandedBeforeQueued'
  BY <1>1, <1>4 DEF OrderInv, HandedBeforeQueued
<1> QED BY <1>1, <1>2, <1>3, <1>5, <1>6 DEF OrderInv

(* The worker takes the oldest span and hands it over: whatever was handed   *)
(* over before it was not exported after it, and nothing queued was exported *)
(* before it.                                                                *)
LEMMA HandOrder ==
    ASSUME OrderInv, TypeInv, SpanPlaces, Forward, WorkerGet
    PROVE  OrderInv'
<1> DEFINE h == Head(queue)
<1>1. CalledOnce' /\ \A s, t : Before(s, t)' <=> Before(s, t)
  BY SameCalls DEF WorkerGet, prodVars
<1>2. /\ Len(queue) \in Nat \ {0}
      /\ Len(queue') = Len(queue) - 1
      /\ \A a \in 1..Len(queue') :
            queue'[a] = queue[a + 1] /\ a + 1 \in 1..Len(queue) /\ 1 < a + 1
      /\ h = queue[1] /\ 1 \in 1..Len(queue)
      /\ h \in Spans
  BY TailFacts DEF TypeInv, TypeOK, Get, WorkerGet, Items
<1>3. /\ Len(handed) \in Nat
      /\ Len(handed') = Len(handed) + 1
      /\ \A m \in 1..Len(handed) : handed'[m] = handed[m]
      /\ handed'[Len(handed) + 1] = h
  BY <1>2, AppendFacts DEF TypeInv, TypeOK, WorkerGet
<1>4. \A m \in 1..Len(handed') : m \in 1..Len(handed) \/ m = Len(handed) + 1
  BY <1>3
<1>5. fate[h] = "queued" /\ fate'[h] \in Passed
  BY <1>2 DEF SpanPlaces, WorkerGet, Fate, TypeInv, TypeOK, Passed
<1>6. \A m \in 1..Len(handed) : handed[m] # h /\ fate'[handed[m]] \in Passed
  BY <1>5, SameCalls DEF OrderInv, HandedOnce, Passed, WorkerGet, prodVars
<1>7. HandedOnce'
  BY <1>3, <1>4, <1>5, <1>6 DEF OrderInv, HandedOnce
<1>8. \A m \in 1..Len(handed) : ~Before(h, handed[m])
  BY <1>2 DEF OrderInv, HandedBeforeQueued
<1>9. HandedInOrder'
  BY <1>1, <1>3, <1>4, <1>8 DEF OrderInv, HandedInOrder
<1>10. QueuedInOrder'
  BY <1>1, <1>2 DEF OrderInv, QueuedInOrder
<1>11. \A a \in 1..Len(queue') : ~Before(queue'[a], h)
  BY <1>2 DEF OrderInv, QueuedInOrder
<1>12. HandedBeforeQueued'
  BY <1>1, <1>2, <1>3, <1>4, <1>11 DEF OrderInv, HandedBeforeQueued
<1> QED BY <1>1, <1>7, <1>9, <1>10, <1>12 DEF OrderInv

(* A call of export(): the span is the last one of its thread, and as it was *)
(* unsent it is neither queued nor handed over.                              *)
LEMMA CallOrder ==
    ASSUME OrderInv, TypeInv, SpanPlaces, Forward,
           NEW p \in Producers, NEW s \in Spans,
           ExportRefused(p, s) \/ ExportAdmitted(p, s)
    PROVE  OrderInv'
<1>1. /\ calls \in [Producers -> Seq(Spans)]
      /\ calls' = [calls EXCEPT ![p] = Append(@, s)]
      /\ fate[s] = "unsent"
      /\ fate'[s] # "unsent"
      /\ UNCHANGED <<queue, handed>>
  BY DEF TypeInv, TypeOK, ExportRefused, ExportAdmitted, Call, Fate, queueVars
<1>2. /\ Len(calls[p]) \in Nat
      /\ Len(calls'[p]) = Len(calls[p]) + 1
      /\ \A i \in 1..Len(calls[p]) : calls'[p][i] = calls[p][i]
      /\ calls'[p][Len(calls[p]) + 1] = s
      /\ \A q \in Producers : q # p => calls'[q] = calls[q]
  BY <1>1, AppendFacts
<1>3. \A q \in Producers : \A i \in 1..Len(calls'[q]) :
         \/ i \in 1..Len(calls[q]) /\ calls'[q][i] = calls[q][i]
         \/ q = p /\ i = Len(calls[p]) + 1 /\ calls'[q][i] = s
  BY <1>2
<1>4. \A q \in Producers : \A i \in 1..Len(calls[q]) :
         calls[q][i] # s /\ calls[q][i] \in Spans
  BY <1>1 DEF OrderInv, CalledOnce
<1>5. \A q \in Producers : \A i \in 1..Len(calls'[q]) : fate'[calls'[q][i]] # "unsent"
  BY <1>1, <1>3, <1>4 DEF OrderInv, CalledOnce, Forward
<1>6. ASSUME NEW q \in Producers, NEW r \in Producers,
             NEW i \in 1..Len(calls'[q]), NEW j \in 1..Len(calls'[r]),
             calls'[q][i] = calls'[r][j]
      PROVE  q = r /\ i = j
  BY <1>3, <1>4, <1>6 DEF OrderInv, CalledOnce
<1>7. CalledOnce'
  BY <1>5, <1>6 DEF CalledOnce
<1>8. ASSUME NEW u, NEW v, Before(u, v)', v # s
      PROVE  Before(u, v)
  <2>1. PICK q \in Producers : \E i, j \in 1..Len(calls'[q]) :
            i < j /\ calls'[q][i] = u /\ calls'[q][j] = v
    BY <1>8 DEF Before
  <2>2. PICK i \in 1..Len(calls'[q]), j \in 1..Len(calls'[q]) :
            i < j /\ calls'[q][i] = u /\ calls'[q][j] = v
    BY <2>1
  <2>3. j \in 1..Len(calls[q]) /\ calls[q][j] = v
    BY <1>3, <1>8, <2>2
  <2>4. i \in 1..Len(calls[q]) /\ calls[q][i] = u
    BY <1>1, <1>3, <2>2, <2>3
  <2> QED BY <2>2, <2>3, <2>4 DEF Before
<1>9. \A a \in 1..Len(queue) : queue[a] # s
  BY <1>1 DEF SpanPlaces
<1>10. \A m \in 1..Len(handed) : handed[m] # s /\ handed[m] \in Spans
  <2>1. \A m \in 1..Len(handed) : handed[m] \in Spans
    BY DEF TypeInv, TypeOK
  <2>2. \A m \in 1..Len(handed) : fate[handed[m]] # "unsent"
    BY DEF OrderInv, HandedOnce, Passed
  <2> QED BY <1>1, <2>1, <2>2
<1>11. HandedOnce'
  BY <1>1, <1>10 DEF OrderInv, HandedOnce, Forward
<1>12. QueuedInOrder'
  BY <1>1, <1>8, <1>9 DEF OrderInv, QueuedInOrder
<1>13. HandedInOrder' /\ HandedBeforeQueued'
  BY <1>1, <1>8, <1>10 DEF OrderInv, HandedInOrder, HandedBeforeQueued
<1> QED BY <1>7, <1>11, <1>12, <1>13 DEF OrderInv

-----------------------------------------------------------------------------
(* Fates only move forward. *)
LEMMA FatesForward ==
    ASSUME TypeInv, SpanPlaces, [Next]_vars
    PROVE  Forward
<1>0. fate \in [Spans -> Fates]
  BY DEF TypeInv, TypeOK
<1> USE DEF Forward, Passed
<1>1. ASSUME NEW p \in Producers, NEW s \in Spans,
             ExportRefused(p, s) \/ ExportAdmitted(p, s)
      PROVE  Forward
  BY <1>0, <1>1 DEF ExportRefused, ExportAdmitted, Call, Fate
<1>2. ASSUME NEW p \in Producers, ProducerStep(p)
      PROVE  Forward
  <2>1. CASE PutNowait(p) \/ CriticalPut(p) \/ RePut(p)
    <3>1. Enqueue(p) /\ fate[Current(p)] = "held"
      BY <2>1 DEF PutNowait, CriticalPut, RePut, SpanPlaces
    <3> QED BY <1>0, <3>1 DEF Enqueue, Fate
  <2>2. CASE PutNowaitFull(p)
    BY <2>2 DEF PutNowaitFull, histVars
  <2>3. CASE CriticalTimeout(p) \/ RePutFull(p)
    <3>1. fate[Current(p)] = "held"
      BY <2>3 DEF CriticalTimeout, RePutFull, SpanPlaces
    <3> QED BY <1>0, <2>3, <3>1 DEF CriticalTimeout, RePutFull, Fate
  <2>4. CASE EvictOldest(p)
    <3>1. queue # <<>> /\ Head(queue) \in Spans => fate[Head(queue)] = "queued"
      BY <2>4, GetPlaces DEF EvictOldest
    <3> QED BY <1>0, <2>4, <3>1 DEF EvictOldest
  <2> QED BY <1>2, <2>1, <2>2, <2>3, <2>4 DEF ProducerStep
<1>3. CASE WorkerStep
  <2>1. CASE WorkerGet
    <3>1. Head(queue) \in Spans => fate[Head(queue)] = "queued"
      BY <2>1, GetPlaces DEF WorkerGet
    <3> QED BY <1>0, <2>1, <3>1 DEF WorkerGet, Fate
  <2>2. CASE WorkerStop
    BY <2>2 DEF WorkerStop, histVars
  <2>3. ASSUME NEW outcome \in {"delivered", "failed"}, WorkerExported(outcome)
        PROVE  Forward
    BY <1>0, <2>3 DEF WorkerExported, Fate
  <2> QED BY <1>3, <2>1, <2>2, <2>3 DEF WorkerStep
<1>4. ASSUME NEW c \in Closers, CloserStep(c)
      PROVE  Forward
  BY <1>4
  DEF CloserStep, ShutdownCheck, ShutdownSet, ShutdownPut, ShutdownPutTimeout,
      ShutdownInner, histVars
<1>5. ASSUME NEW f \in Flushers, FlusherStep(f)
      PROVE  Forward
  BY <1>5 DEF FlusherStep, FlushCall, FlushWaited, FlushReturn, histVars
<1>6. CASE UNCHANGED vars
  BY <1>6 DEF vars
<1> QED BY <1>1, <1>2, <1>3, <1>4, <1>5, <1>6 DEF Next

(* Every step keeps the spans in order. *)
LEMMA OrderStep ==
    ASSUME OrderInv, TypeInv, SpanPlaces, [Next]_vars
    PROVE  OrderInv'
<1>0. Forward
  BY FatesForward
<1>1. ASSUME NEW p \in Producers, NEW s \in Spans,
             ExportRefused(p, s) \/ ExportAdmitted(p, s)
      PROVE  OrderInv'
  BY <1>0, <1>1, CallOrder
<1>2. ASSUME NEW p \in Producers, ProducerStep(p)
      PROVE  OrderInv'
  <2>1. CASE PutNowait(p) \/ CriticalPut(p) \/ RePut(p)
    <3>1. Enqueue(p) /\ pc[p] # "idle"
      BY <2>1 DEF PutNowait, CriticalPut, RePut
    <3>2. Current(p) \in Items
      BY <3>1, CurrentIsSpan DEF TypeInv, Items
    <3>3. queue' = Append(queue, Current(p)) /\ UNCHANGED <<calls, handed>>
      BY <3>1 DEF Enqueue, Put
    <3>4. Len(calls[p]) \in 1..Len(calls[p]) /\ Len(calls[p]) \in Nat
      BY <3>1 DEF TypeInv, TypeOK
    <3>5. \A t : ~Before(Current(p), t)
      BY <3>4 DEF OrderInv, CalledOnce, Before, Current
    <3> QED BY <1>0, <3>2, <3>3, <3>5, PutOrder
  <2>2. CASE PutNowaitFull(p) \/ CriticalTimeout(p) \/ RePutFull(p)
    <3>1. UNCHANGED <<calls, queue, handed>>
      BY <2>2 DEF PutNowaitFull, CriticalTimeout, RePutFull, queueVars, histVars
    <3> QED BY <1>0, <3>1, StayOrder
  <2>3. CASE EvictOldest(p)
    <3>1. UNCHANGED <<calls, handed>> /\ (UNCHANGED queue \/ (queue # <<>> /\ Get))
      BY <2>3 DEF EvictOldest
    <3> QED BY <1>0, <3>1, StayOrder, GetOrder
  <2> QED BY <1>2, <2>1, <2>2, <2>3 DEF ProducerStep
<1>3. CASE WorkerStep
  <2>1. CASE WorkerGet
    BY <1>0, <2>1, HandOrder
  <2>2. CASE WorkerStop
    <3>1. queue # <<>> /\ Get /\ UNCHANGED <<calls, handed>>
      BY <2>2 DEF WorkerStop, prodVars, histVars
    <3> QED BY <1>0, <3>1, GetOrder
  <2>3. ASSUME NEW outcome \in {"delivered", "failed"}, WorkerExported(outcome)
        PROVE  OrderInv'
    <3>1. UNCHANGED <<calls, queue, handed>>
      BY <2>3 DEF WorkerExported, prodVars
    <3> QED BY <1>0, <3>1, StayOrder
  <2> QED BY <1>3, <2>1, <2>2, <2>3 DEF WorkerStep
<1>4. ASSUME NEW c \in Closers, CloserStep(c)
      PROVE  OrderInv'
  <2>1. UNCHANGED <<calls, handed>> /\ (UNCHANGED queue \/ queue' = Append(queue, None))
    BY <1>4
    DEF CloserStep, ShutdownCheck, ShutdownSet, ShutdownPut, ShutdownPutTimeout,
        ShutdownInner, Put, queueVars, prodVars, histVars
  <2>2. \A t : ~Before(None, t)
    BY QueueAssumption DEF Before, TypeInv, TypeOK
  <2>3. None \in Items
    BY DEF Items
  <2> QED BY <1>0, <2>1, <2>2, <2>3, StayOrder, PutOrder
<1>5. ASSUME NEW f \in Flushers, FlusherStep(f)
      PROVE  OrderInv'
  <2>1. UNCHANGED <<calls, queue, handed>>
    BY <1>5
    DEF FlusherStep, FlushCall, FlushWaited, FlushReturn, queueVars, prodVars, histVars
  <2> QED BY <1>0, <2>1, StayOrder
<1>6. CASE UNCHANGED vars
  BY <1>0, <1>6, StayOrder DEF vars
<1> QED BY <1>1, <1>2, <1>3, <1>4, <1>5, <1>6 DEF Next

(* Nothing has been exported. *)
LEMMA OrderInit ==
    ASSUME Init
    PROVE  OrderInv
<1>1. /\ \A p \in Producers : Len(calls[p]) = 0
      /\ Len(queue) = 0
      /\ Len(handed) = 0
  BY DEF Init
<1> QED
  BY <1>1
  DEF OrderInv, CalledOnce, QueuedInOrder, HandedOnce, HandedInOrder, HandedBeforeQueued

PlacedInOrder == TypeInv /\ SpanPlaces /\ OrderInv

(* The inner exporter sees the spans of one thread in the order in which     *)
(* that thread exported them, each at most once, whatever was evicted,       *)
(* refused or put at the second attempt in between.                          *)
THEOREM SpansInOrder == Spec => []ProducerOrder
<1>1. Init => PlacedInOrder
  BY TypeInvInit, SpanPlacesInit, OrderInit DEF PlacedInOrder
<1>2. PlacedInOrder /\ [Next]_vars => PlacedInOrder'
  BY TypeInvStep, SpanPlacesStep, OrderStep DEF PlacedInOrder
<1>3. PlacedInOrder => ProducerOrder
  BY OrderSuffices DEF PlacedInOrder
<1> QED BY <1>1, <1>2, <1>3, PTL DEF Spec
=============================================================================
