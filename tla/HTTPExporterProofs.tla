------------------------- MODULE HTTPExporterProofs -------------------------
(***************************************************************************)
(* Theorems about the HTTP exporter, for any spans, producers, flush() and *)
(* shutdown() callers, batch size and number of attempts.                  *)
(***************************************************************************)
EXTENDS HTTPExporter, FiniteSetTheorems, TLAPS

\* The places of a span exclude each other, but for the ledger, which may have
\* taken what is sent again; only a thread that sends has a batch; and what a
\* producer holds was never in the buffer.
Apart ==
    /\ \A t \in Senders : pc[t] # "send" => batch[t] = {}
    /\ \A t \in Senders : batch[t] \subseteq appended \ (buffer \cup gaveup)
    /\ \A t, u \in Senders : t # u => batch[t] \cap batch[u] = {}
    /\ buffer \cap gaveup = {}
    /\ buffer \cup gaveup \subseteq appended
    /\ \A p \in Producers : holding[p] \cap appended = {}
    /\ \A p, q \in Producers : p # q => holding[p] \cap holding[q] = {}

AccountInv == TypeOK /\ Apart /\ Accounted

(* Initially there are no spans anywhere. *)
LEMMA AccountInit == Init => AccountInv
<1> SUFFICES ASSUME Init PROVE AccountInv OBVIOUS
<1>1. TypeOK
  <2>1. pc \in [Senders -> SenderState] BY DEF Init, SenderState
  <2>2. attempts \in [Senders -> 0..(MaxAttempts - 1)]
    BY ExporterAssumption DEF Init
  <2>3. received \in [Spans -> Nat] /\ dropped \in Nat BY DEF Init
  <2> QED BY <2>1, <2>2, <2>3 DEF Init, TypeOK, Ages
<1>2. Apart
  BY DEF Init, Apart
<1>3. Accounted
  BY FS_EmptySet DEF Init, Accounted
<1> QED BY <1>1, <1>2, <1>3 DEF AccountInv

(* Steps that move no span leave the accounts as they are. *)
LEMMA NoSpanMoves ==
    ASSUME Apart, Accounted,
           UNCHANGED <<buffer, dropped, holding, batch, received, gaveup, appended>>,
           \A t \in Senders : pc'[t] # "send" => pc[t] # "send"
    PROVE  Apart' /\ Accounted'
<1>1. Apart' BY DEF Apart
<1>2. Taken' = Taken /\ Shipped' = Shipped BY DEF Taken, Shipped
<1>3. Accounted' BY <1>2 DEF Accounted
<1> QED BY <1>1, <1>3

(* The producer's part. *)
LEMMA ExportAccounts ==
    ASSUME AccountInv, NEW p \in Producers, NEW s \in Spans,
           ExportChecked(p, s) \/ ExportAppend(p)
    PROVE  AccountInv'
<1> USE DEF AccountInv
<1>1. CASE ExportChecked(p, s)
  <2>1. /\ UNCHANGED <<buffer, dropped, pc, batch, received, gaveup, appended>>
        /\ holding' = [holding EXCEPT ![p] = {s}]
        /\ s \notin appended
        /\ \A q \in Producers : s \notin holding[q]
    BY <1>1 DEF ExportChecked, Fresh, InHand, histVars
  <2>2. TypeOK'
    BY <1>1, <2>1 DEF ExportChecked, TypeOK, histVars
  <2>3. \A q \in Producers : holding'[q] = IF q = p THEN {s} ELSE holding[q]
    BY <2>1 DEF TypeOK
  <2>4. Apart'
    BY <2>1, <2>3 DEF Apart
  <2>5. Taken' = Taken /\ Shipped' = Shipped BY <2>1 DEF Taken, Shipped
  <2> QED BY <2>1, <2>2, <2>4, <2>5 DEF Accounted
<1>2. CASE ExportAppend(p)
  <2>1. /\ UNCHANGED <<dropped, pc, batch, received, gaveup>>
        /\ holding' = [holding EXCEPT ![p] = {}]
        /\ buffer' = buffer \cup holding[p]
        /\ appended' = appended \cup holding[p]
    BY <1>2 DEF ExportAppend
  <2>2. TypeOK'
    BY <1>2, <2>1 DEF ExportAppend, TypeOK, Ages
  <2>3. \A q \in Producers : holding'[q] = IF q = p THEN {} ELSE holding[q]
    BY <2>1 DEF TypeOK
  <2>4. holding[p] \cap appended = {} BY DEF Apart
  <2>5. Apart'
    <3>1. /\ \A t \in Senders : batch[t] \subseteq appended' \ (buffer' \cup gaveup)
          /\ buffer' \cap gaveup = {}
          /\ buffer' \cup gaveup \subseteq appended'
      BY <2>1, <2>4 DEF Apart
    <3>2. \A q \in Producers : holding'[q] \cap appended' = {}
      BY <2>1, <2>3 DEF Apart
    <3>3. \A q, r \in Producers : q # r => holding'[q] \cap holding'[r] = {}
      BY <2>3 DEF Apart
    <3> QED BY <2>1, <3>1, <3>2, <3>3 DEF Apart
  <2>6. Taken' = Taken /\ Shipped' = Shipped BY <2>1 DEF Taken, Shipped
  <2> QED BY <2>1, <2>2, <2>5, <2>6 DEF Accounted
<1> QED BY <1>1, <1>2

(* A thread that has no batch swaps the buffer for an empty one. *)
LEMMA TakeAccounts ==
    ASSUME TypeOK, Apart, Accounted, NEW t \in Senders, pc[t] # "send", Take(t),
           UNCHANGED <<dropped, holding, received, gaveup, appended>>
    PROVE  Apart' /\ Accounted'
<1>1. /\ \A u \in Senders : batch'[u] = IF u = t THEN buffer ELSE batch[u]
      /\ \A u \in Senders : pc'[u] = IF u = t THEN "send" ELSE pc[u]
      /\ buffer' = {}
  BY DEF Take, Goto, TypeOK
<1>2. Apart'
  BY <1>1 DEF Apart
<1>3. batch[t] = {} BY DEF Apart
<1>4. buffer \cup Taken \subseteq Taken'
  BY <1>1, <1>3 DEF Taken
<1>5. Shipped' = Shipped BY DEF Shipped
<1>6. Accounted' BY <1>1, <1>4, <1>5 DEF Accounted
<1> QED BY <1>2, <1>6

(* What a thread does with its batch when it is done with it. *)
LEMMA FinishApart ==
    ASSUME TypeOK, Apart, NEW t \in Senders, Finish(t),
           UNCHANGED <<buffer, holding, appended>>,
           gaveup' \in {gaveup, gaveup \cup batch[t]}
    PROVE  /\ Apart'
           /\ Taken \subseteq Taken' \cup batch[t]
<1>1. /\ \A u \in Senders : batch'[u] = IF u = t THEN {} ELSE batch[u]
      /\ \A u \in Senders : u # t => pc'[u] = pc[u]
  BY DEF Finish, Goto, TypeOK
<1>2. /\ \A u \in Senders : pc'[u] # "send" => batch'[u] = {}
      /\ \A u, v \in Senders : u # v => batch'[u] \cap batch'[v] = {}
  BY <1>1 DEF Apart
<1>3. \A u \in Senders : batch'[u] \subseteq appended' \ (buffer' \cup gaveup')
  BY <1>1 DEF Apart
<1>4. buffer' \cap gaveup' = {} /\ buffer' \cup gaveup' \subseteq appended'
  BY DEF Apart
<1>5. Apart' BY <1>2, <1>3, <1>4 DEF Apart
<1>6. Taken \subseteq Taken' \cup batch[t]
  BY <1>1 DEF Taken
<1> QED BY <1>5, <1>6

LEMMA FinishTyped ==
    ASSUME TypeOK, NEW t \in Senders, Finish(t)
    PROVE  /\ pc' \in [Senders -> SenderState]
           /\ batch' \in [Senders -> SUBSET Spans]
           /\ attempts' \in [Senders -> 0..(MaxAttempts - 1)]
BY ExporterAssumption DEF Finish, Goto, TypeOK, SenderState

(* A batch that is given up is counted, span by span. *)
LEMMA GiveUpAccounts ==
    ASSUME AccountInv, NEW t \in Senders, GiveUp(t), Shipped \subseteq Shipped',
           received' \in [Spans -> Nat],
           UNCHANGED <<buffer, age, is_shutdown, client_closed, holding, ignored, appended, late>>
    PROVE  AccountInv'
<1> USE DEF AccountInv
<1>1. Finish(t) /\ gaveup' = gaveup \cup batch[t]
      /\ dropped' = dropped + Cardinality(batch[t])
  BY DEF GiveUp
<1>2. Apart' /\ Taken \subseteq Taken' \cup batch[t]
  BY <1>1, FinishApart
<1>3. /\ IsFiniteSet(batch[t]) /\ IsFiniteSet(gaveup)
      /\ batch[t] \cap gaveup = {}
  BY ExporterAssumption, FS_Subset DEF TypeOK, Apart
<1>4. /\ Cardinality(batch[t]) \in Nat /\ Cardinality(gaveup) \in Nat
      /\ Cardinality(gaveup \cup batch[t]) = Cardinality(gaveup) + Cardinality(batch[t])
  <2>1. Cardinality(gaveup \cap batch[t]) = 0
    BY <1>3, FS_EmptySet
  <2>2. Cardinality(batch[t]) \in Nat /\ Cardinality(gaveup) \in Nat
    BY <1>3, FS_CardinalityType
  <2>3. Cardinality(gaveup \cup batch[t])
          = Cardinality(gaveup) + Cardinality(batch[t]) - Cardinality(gaveup \cap batch[t])
    BY <1>3, FS_Union
  <2> QED BY <2>1, <2>2, <2>3
<1>5. Accounted'
  BY <1>1, <1>2, <1>4 DEF Accounted
<1>6. TypeOK'
  BY <1>1, <1>4, FinishTyped DEF TypeOK
<1> QED BY <1>2, <1>5, <1>6

LEMMA RetryAccounts ==
    ASSUME AccountInv, NEW t \in Senders, Retry(t), Shipped \subseteq Shipped',
           received' \in [Spans -> Nat],
           UNCHANGED <<buffer, age, is_shutdown, client_closed, holding, ignored, appended, late>>
    PROVE  AccountInv'
<1>1. CASE attempts[t] + 1 = MaxAttempts
  BY <1>1, GiveUpAccounts DEF Retry
<1>2. CASE attempts[t] + 1 # MaxAttempts
  <2>1. UNCHANGED <<pc, batch, dropped, gaveup>>
        /\ attempts' = [attempts EXCEPT ![t] = @ + 1]
    BY <1>2 DEF Retry
  <2>2. attempts' \in [Senders -> 0..(MaxAttempts - 1)]
    BY <1>2, <2>1, ExporterAssumption DEF AccountInv, TypeOK
  <2>3. TypeOK' BY <2>1, <2>2 DEF AccountInv, TypeOK
  <2>4. Apart' BY <2>1 DEF AccountInv, Apart
  <2>5. Taken' = Taken BY <2>1 DEF Taken
  <2>6. Accounted' BY <2>1, <2>5 DEF AccountInv, Accounted
  <2> QED BY <2>3, <2>4, <2>6 DEF AccountInv
<1> QED BY <1>1, <1>2

(* The ledger forgets nothing, and has what it takes. *)
LEMMA LedgerHas ==
    ASSUME TypeOK, NEW t \in Senders, LedgerTakes(batch[t])
    PROVE  /\ received' \in [Spans -> Nat]
           /\ Shipped \subseteq Shipped'
           /\ batch[t] \subseteq Shipped'
<1>1. \A s \in Spans : /\ received[s] \in Nat
                       /\ received'[s] = received[s] + (IF s \in batch[t] THEN 1 ELSE 0)
  BY DEF LedgerTakes, TypeOK
<1>2. \A s \in Spans : /\ received'[s] \in Nat
                       /\ received'[s] >= received[s]
                       /\ s \in batch[t] => received'[s] > 0
  BY <1>1
<1>3. batch[t] \subseteq Spans BY DEF TypeOK
<1>4. received' \in [Spans -> Nat] BY <1>2 DEF LedgerTakes
<1> QED BY <1>1, <1>2, <1>3, <1>4 DEF Shipped

LEMMA SendAccounts ==
    ASSUME AccountInv, NEW t \in Senders, SendStep(t)
    PROVE  AccountInv'
<1>0. received \in [Spans -> Nat] BY DEF AccountInv, TypeOK
<1>1. CASE SerializeFailed(t)
  BY <1>0, <1>1, GiveUpAccounts DEF SerializeFailed, Shipped
<1>2. CASE AttemptAccepted(t)
  <2>1. /\ Finish(t) /\ LedgerTakes(batch[t])
        /\ UNCHANGED <<buffer, age, dropped, is_shutdown, client_closed, holding, gaveup,
                       ignored, appended, late>>
    BY <1>2 DEF AttemptAccepted, histVars
  <2>2. /\ received' \in [Spans -> Nat]
        /\ Shipped \subseteq Shipped'
        /\ batch[t] \subseteq Shipped'
    BY <2>1, LedgerHas DEF AccountInv
  <2>3. Apart' /\ Taken \subseteq Taken' \cup batch[t]
    BY <2>1, FinishApart DEF AccountInv
  <2>4. Accounted' BY <2>1, <2>2, <2>3 DEF AccountInv, Accounted
  <2>5. TypeOK' BY <2>1, <2>2, FinishTyped DEF AccountInv, TypeOK
  <2> QED BY <2>3, <2>4, <2>5 DEF AccountInv
<1>3. CASE AnswerLost(t)
  BY <1>3, LedgerHas, RetryAccounts DEF AnswerLost, AccountInv
<1>4. CASE AttemptFailed(t)
  BY <1>0, <1>4, RetryAccounts DEF AttemptFailed, Shipped
<1>5. CASE AttemptRejected(t)
  BY <1>0, <1>5, GiveUpAccounts DEF AttemptRejected, Shipped
<1> QED BY <1>1, <1>2, <1>3, <1>4, <1>5 DEF SendStep

(* The worker's loop and the callers of flush() and shutdown(). *)
LEMMA LoopAccounts ==
    ASSUME AccountInv, WorkerStep
    PROVE  AccountInv'
<1> USE DEF AccountInv
<1>0. Worker \in Senders BY DEF Senders
<1>1. ASSUME WorkerWake \/ WorkerRecheck \/ WorkerNothingDue
      PROVE  AccountInv'
  <2>1. /\ UNCHANGED <<buffer, dropped, is_shutdown, client_closed, holding, batch, attempts,
                       received, gaveup, ignored, appended, late>>
        /\ age' \in Ages
        /\ pc[Worker] # "send"
        /\ \E l \in SenderState \ {"send"} : pc' = [pc EXCEPT ![Worker] = l]
    BY <1>1 DEF WorkerWake, WorkerRecheck, WorkerNothingDue, WorkerLoop, Goto, SenderState,
                histVars, TypeOK, Ages
  <2>2. TypeOK' BY <2>1 DEF TypeOK
  <2>3. \A t \in Senders : pc'[t] # "send" => pc[t] # "send"
    BY <2>1 DEF TypeOK
  <2> QED BY <2>1, <2>2, <2>3, NoSpanMoves
<1>2. CASE WorkerTake
  <2>1. TypeOK'
    BY <1>2 DEF WorkerTake, Take, Goto, TypeOK, SenderState, Ages, histVars
  <2>2. Take(Worker) /\ pc[Worker] # "send"
        /\ UNCHANGED <<dropped, holding, received, gaveup, appended>>
    BY <1>2 DEF WorkerTake, histVars
  <2> QED BY <1>0, <2>1, <2>2, TakeAccounts
<1> QED BY <1>1, <1>2 DEF WorkerStep

LEMMA FlushAccounts ==
    ASSUME AccountInv, NEW f \in Flushers, FlushTake(f)
    PROVE  AccountInv'
<1> USE DEF AccountInv
<1>1. f \in Senders BY DEF Senders
<1>2. TypeOK'
  BY DEF FlushTake, Take, Goto, TypeOK, SenderState, Ages, histVars
<1>3. Take(f) /\ pc[f] # "send"
      /\ UNCHANGED <<dropped, holding, received, gaveup, appended>>
  BY DEF FlushTake, histVars
<1> QED BY <1>1, <1>2, <1>3, TakeAccounts

LEMMA ShutdownAccounts ==
    ASSUME AccountInv, NEW c \in Closers, CloserStep(c)
    PROVE  AccountInv'
<1> USE DEF AccountInv
<1>0. c \in Senders BY DEF Senders
<1>1. CASE ShutdownDrain(c) /\ buffer # {}
  <2>1. TypeOK'
    BY <1>1 DEF ShutdownDrain, Take, Goto, TypeOK, SenderState, histVars
  <2>2. Take(c) /\ pc[c] # "send"
        /\ UNCHANGED <<dropped, holding, received, gaveup, appended>>
    BY <1>1 DEF ShutdownDrain, histVars
  <2> QED BY <1>0, <2>1, <2>2, TakeAccounts
<1>2. ASSUME ShutdownCheck(c) \/ ShutdownSet(c) \/ ShutdownClose(c)
             \/ (ShutdownDrain(c) /\ buffer = {})
      PROVE  AccountInv'
  <2>1. /\ UNCHANGED <<buffer, age, dropped, holding, batch, attempts, received, gaveup,
                       ignored, appended, late>>
        /\ is_shutdown' \in BOOLEAN /\ client_closed' \in BOOLEAN
        /\ pc[c] # "send"
        /\ \E l \in SenderState \ {"send"} : pc' = [pc EXCEPT ![c] = l]
    BY <1>2 DEF ShutdownCheck, ShutdownSet, ShutdownClose, ShutdownDrain, Goto, SenderState,
                histVars, TypeOK
  <2>2. TypeOK' BY <2>1 DEF TypeOK
  <2>3. \A t \in Senders : pc'[t] # "send" => pc[t] # "send"
    BY <2>1 DEF TypeOK
  <2> QED BY <2>1, <2>2, <2>3, NoSpanMoves
<1> QED BY <1>1, <1>2 DEF CloserStep

LEMMA AccountStep == AccountInv /\ [Next]_vars => AccountInv'
<1> SUFFICES ASSUME AccountInv, [Next]_vars PROVE AccountInv' OBVIOUS
<1>1. ASSUME NEW s \in Spans, ExportIgnored(s) PROVE AccountInv'
  <2>1. /\ UNCHANGED <<buffer, dropped, holding, batch, received, gaveup, appended, pc>>
        /\ TypeOK'
    BY <1>1 DEF ExportIgnored, AccountInv, TypeOK
  <2> QED BY <2>1, NoSpanMoves DEF AccountInv
<1>2. ASSUME NEW s \in Spans, NEW p \in Producers, ExportChecked(p, s) PROVE AccountInv'
  BY <1>2, ExportAccounts
<1>3. ASSUME NEW p \in Producers, ExportAppend(p) PROVE AccountInv'
  <2>1. PICK s \in Spans : s \in holding[p]
    BY <1>3 DEF ExportAppend, AccountInv, TypeOK
  <2> QED BY <1>3, ExportAccounts
<1>4. CASE Tick
  <2>1. /\ UNCHANGED <<buffer, dropped, holding, batch, received, gaveup, appended, pc>>
        /\ TypeOK'
    BY <1>4 DEF Tick, AccountInv, TypeOK, Ages, histVars
  <2> QED BY <2>1, NoSpanMoves DEF AccountInv
<1>5. CASE UNCHANGED vars
  <2>1. /\ UNCHANGED <<buffer, dropped, holding, batch, received, gaveup, appended, pc>>
        /\ TypeOK'
    BY <1>5 DEF vars, AccountInv, TypeOK
  <2> QED BY <2>1, NoSpanMoves DEF AccountInv
<1> QED BY <1>1, <1>2, <1>3, <1>4, <1>5, SendAccounts, LoopAccounts, FlushAccounts,
           ShutdownAccounts DEF Next

\* No span that export() has taken is lost without being counted, and none is
\* counted twice, for any number of threads and attempts (http.py:100-221).
THEOREM SpansAccounted == Spec => []Accounted
<1>1. AccountInv => Accounted BY DEF AccountInv
<1> QED BY <1>1, AccountInit, AccountStep, PTL DEF Spec

\* Every thread stays in its states, and no batch is tried more often than
\* max_attempts (http.py:83-96, 180-221).
THEOREM TypeCorrect == Spec => []TypeOK
<1>1. AccountInv => TypeOK BY DEF AccountInv
<1> QED BY <1>1, AccountInit, AccountStep, PTL DEF Spec
=============================================================================
