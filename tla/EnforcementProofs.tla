-------------------------- MODULE EnforcementProofs --------------------------
(***************************************************************************)
(* Theorems about the verdicts on gated actions: the hold queue and the    *)
(* gate, for every set of calls and reviewers, every fallback table and    *)
(* every number of polls; and one decision with its two readers, for every *)
(* rule file, redaction policy, span and order of the steps.               *)
(***************************************************************************)
EXTENDS EnforcementGate, Policies, FiniteSetTheorems, SequenceTheorems,
        WellFoundedInduction, TLAPS

-----------------------------------------------------------------------------
(* The hold queue *)

\* What a reviewer decided on was a hold that exists; the history of a hold
\* holds its status; nothing is ever aborted; and no hold times out before its
\* deadline.
HoldInv ==
    /\ HoldTypeOK
    /\ \A r \in Reviewers : review[r] # Idle =>
          /\ review[r].decision \in Decisions
          /\ \A h \in review[r].hold : status[h] # "absent"
    /\ \A h \in Holds : status[h] # "absent" => status[h] \in history[h]
    /\ \A h \in Holds : status[h] # "aborted"
    /\ TimedOutIsDue

(* Initially there is no hold. *)
LEMMA HoldInvInit ==
    ASSUME HoldInit
    PROVE  HoldInv
<1>1. /\ \A r \in Reviewers : review[r] = Idle
      /\ \A h \in Holds : status[h] = "absent" /\ history[h] = {}
  BY DEF HoldInit
<1>2. HoldTypeOK
  BY DEF HoldInit, HoldTypeOK, Statuses, Terminal, Idle
<1> QED BY <1>1, <1>2 DEF HoldInv, TimedOutIsDue

(* Every step of the queue keeps the invariant, grows the history, and       *)
(* replaces a terminal status only by a reviewer's decision.                 *)
LEMMA HoldStep ==
    ASSUME HoldInv, HoldNext \/ UNCHANGED holdVars
    PROVE  /\ HoldInv'
           /\ \A h \in Holds : history[h] \subseteq history'[h]
           /\ \A h \in Holds : status[h] \in Terminal =>
                 status'[h] = status[h] \/ status'[h] \in Decisions
<1> DEFINE Goal == /\ HoldInv'
                   /\ \A h \in Holds : history[h] \subseteq history'[h]
                   /\ \A h \in Holds : status[h] \in Terminal =>
                         status'[h] = status[h] \/ status'[h] \in Decisions
<1> USE DEF HoldInv, HoldTypeOK, TimedOutIsDue
<1>1. ASSUME NEW h \in Holds, Create(h)
      PROVE  Goal
  <2>1. /\ status' \in [Holds -> Statuses]
        /\ history' \in [Holds -> SUBSET Statuses]
    BY <1>1 DEF Create, SetStatus, Statuses
  <2> QED BY <1>1, <2>1 DEF Create, SetStatus, Terminal
<1>2. ASSUME NEW h \in Holds, Expire(h)
      PROVE  Goal
  BY <1>2 DEF Expire
<1>3. ASSUME NEW r \in Reviewers, NEW h \in Holds, NEW d \in Decisions,
             ReviewRead(r, h, d)
      PROVE  Goal
  <2>1. /\ \A q \in Reviewers : q # r => review'[q] = review[q]
        /\ review'[r] = [hold |-> {h}, decision |-> d]
        /\ UNCHANGED <<status, overdue, history>>
        /\ status[h] # "absent"
    BY <1>3 DEF ReviewRead
  <2>2. review' \in [Reviewers -> [hold : SUBSET Holds,
                                   decision : Decisions \cup {"none"}]]
    BY <1>3 DEF ReviewRead
  <2>3. HoldTypeOK' /\ TimedOutIsDue'
    BY <2>1, <2>2
  <2>4. \A q \in Reviewers : review'[q] # Idle =>
          /\ review'[q].decision \in Decisions
          /\ \A g \in review'[q].hold : status'[g] # "absent"
    BY <2>1
  <2>5. \A g \in Holds : status'[g] # "absent" => status'[g] \in history'[g]
    BY <2>1
  <2> QED BY <2>1, <2>3, <2>4, <2>5
<1>4. ASSUME NEW r \in Reviewers, ReviewCommit(r)
      PROVE  Goal
  <2> DEFINE d == review[r].decision
             H == review[r].hold
  <2>1. /\ d \in Decisions
        /\ \A h \in H : status[h] # "absent"
    BY <1>4 DEF ReviewCommit
  <2>2. /\ \A h \in Holds : status'[h] = IF h \in H THEN d ELSE status[h]
        /\ \A h \in Holds : history'[h] = IF h \in H THEN history[h] \cup {d}
                                                     ELSE history[h]
        /\ UNCHANGED overdue
    BY <1>4 DEF ReviewCommit, SetStatus
  <2>3. /\ status' \in [Holds -> Statuses]
        /\ history' \in [Holds -> SUBSET Statuses]
    BY <1>4, <2>1 DEF ReviewCommit, SetStatus, Statuses, Terminal, Decisions
  <2>4. /\ review' \in [Reviewers -> [hold : SUBSET Holds,
                                      decision : Decisions \cup {"none"}]]
        /\ \A q \in Reviewers : review'[q] # Idle => review'[q] = review[q]
    BY <1>4 DEF ReviewCommit, Idle
  <2>5. d \notin {"absent", "timed_out", "aborted"}
    BY <2>1 DEF Decisions
  <2>6. \A q \in Reviewers : review'[q] # Idle =>
          /\ review'[q].decision \in Decisions
          /\ \A h \in review'[q].hold : status'[h] # "absent"
    BY <2>2, <2>4, <2>5
  <2> QED BY <2>1, <2>2, <2>3, <2>4, <2>5, <2>6
<1>5. ASSUME NEW r \in Reviewers, ReviewAbandon(r)
      PROVE  Goal
  BY <1>5 DEF ReviewAbandon, Idle
<1>6. CASE Sweep
  <2>1. /\ status' \in [Holds -> Statuses]
        /\ history' \in [Holds -> SUBSET Statuses]
    BY <1>6 DEF Sweep, SetStatus, Statuses, Terminal
  <2>2. \A h \in Due : h \in overdue /\ status[h] \notin Terminal
    BY DEF Due, Terminal
  <2> QED BY <1>6, <2>1, <2>2 DEF Sweep, SetStatus
<1>7. CASE UNCHANGED holdVars
  BY <1>7 DEF holdVars
<1> QED
  BY <1>1, <1>2, <1>3, <1>4, <1>5, <1>6, <1>7 DEF HoldNext, ReviewerStep

(* No step of the queue reopens a hold or lets a sweep override a decision. *)
THEOREM HoldsStayDecided == HoldSpec => NeverReopened
<1>1. HoldInit => HoldInv
  BY HoldInvInit
<1>2. HoldInv /\ [HoldNext]_holdVars => HoldInv'
  BY HoldStep
<1>3. HoldInv /\ [HoldNext]_holdVars =>
        [\A h \in Holds : status[h] \in Terminal =>
            status'[h] = status[h] \/ status'[h] \in Decisions]_holdVars
  BY HoldStep
<1> QED BY <1>1, <1>2, <1>3, PTL DEF HoldSpec, NeverReopened

(* A hold is timed out by the worker only after its deadline. *)
THEOREM TimeoutsAreDue == HoldSpec => []TimedOutIsDue
<1>1. HoldInit => HoldInv
  BY HoldInvInit
<1>2. HoldInv /\ [HoldNext]_holdVars => HoldInv'
  BY HoldStep
<1>3. HoldInv => TimedOutIsDue
  BY DEF HoldInv
<1> QED BY <1>1, <1>2, <1>3, PTL DEF HoldSpec

-----------------------------------------------------------------------------
(* The gate *)

\* What a call's outcome rests on outlives it: an answer is given once and the
\* history of a hold only grows.
GateInv ==
    /\ HoldInv
    /\ TypeOK
    /\ RunsOnlyIfAllowed
    /\ RefusedForAReason

(* Initially no call has been made. *)
LEMMA GateInvInit ==
    ASSUME GateInit
    PROVE  GateInv
<1>1. HoldInv
  BY HoldInvInit DEF GateInit
<1>2. TypeOK
  BY <1>1, GateAssumption DEF GateInit, HoldInv, TypeOK, Verdicts, GatedCalls
<1> QED BY <1>1, <1>2 DEF GateInit, GateInv, RunsOnlyIfAllowed, RefusedForAReason, Ran

(* A call that returns v, having seen the failure f, keeps the invariant if  *)
(* its outcome has a reason.                                                 *)
LEMMA ReturnKeepsInv ==
    ASSUME GateInv, NEW c \in GatedCalls, NEW v \in Verdicts,
           NEW f \in {"no", "fallback", "gate", "patience"},
           Return(c, v, f),
           v = "allow" => \/ answer[c] = "allow"
                          \/ "approved" \in history[c]
                          \/ f = "fallback" /\ Mode[c] = "fail_open"
                          \/ f = "gate",
           v # "allow" => \/ answer[c] = "block"
                          \/ history[c] \cap {"rejected", "timed_out"} # {}
                          \/ f \in {"fallback", "patience"}
    PROVE  GateInv'
<1> USE DEF GateInv, Return, holdVars
<1>1. HoldInv'
  BY DEF HoldInv, HoldTypeOK, TimedOutIsDue
<1>2. TypeOK'
  BY <1>1 DEF TypeOK, HoldInv, GatedCalls
<1>3. RunsOnlyIfAllowed'
  BY DEF TypeOK, RunsOnlyIfAllowed, Ran
<1>4. RefusedForAReason'
  BY DEF TypeOK, RefusedForAReason, Ran
<1> QED BY <1>1, <1>2, <1>3, <1>4

(* A step of the queue, or one that touches no call, keeps the invariant. *)
LEMMA QueueKeepsInv ==
    ASSUME GateInv, HoldNext \/ UNCHANGED holdVars, UNCHANGED callVars
    PROVE  GateInv'
<1>1. HoldInv' /\ \A h \in Holds : history[h] \subseteq history'[h]
  BY HoldStep DEF GateInv
<1> QED BY <1>1 DEF GateInv, callVars, HoldInv, TypeOK, RunsOnlyIfAllowed,
                    RefusedForAReason, Ran, GatedCalls

(* Every step of the gate keeps the invariant. *)
LEMMA GateStep ==
    ASSUME GateInv, [GateNext]_gateVars
    PROVE  GateInv'
<1> USE DEF GateInv
<1>1. ASSUME NEW c \in GatedCalls, Post(c)
      PROVE  GateInv'
  <2>1. HoldInv' /\ TypeOK'
    BY <1>1 DEF Post, holdVars, HoldInv, HoldTypeOK, TimedOutIsDue, TypeOK
  <2> QED BY <1>1, <2>1 DEF Post, holdVars, TypeOK, RunsOnlyIfAllowed,
                            RefusedForAReason, Ran
<1>2. ASSUME NEW c \in GatedCalls, NEW d \in Verdicts \cup {"error"},
             ServiceDecides(c, d)
      PROVE  GateInv'
  <2>1. HoldInv' /\ \A h \in Holds : history[h] \subseteq history'[h]
    BY <1>2, HoldStep DEF ServiceDecides, HoldNext, GatedCalls
  <2>2. \A b \in GatedCalls : answer[b] # "none" => answer'[b] = answer[b]
    BY <1>2 DEF ServiceDecides, TypeOK
  <2>3. TypeOK'
    BY <1>2, <2>1 DEF ServiceDecides, TypeOK, HoldInv
  <2>4. RunsOnlyIfAllowed' /\ RefusedForAReason'
    BY <1>2, <2>1, <2>2 DEF ServiceDecides, RunsOnlyIfAllowed,
                            RefusedForAReason, Ran, GatedCalls
  <2> QED BY <2>1, <2>3, <2>4
<1>3. ASSUME NEW c \in GatedCalls, Answered(c)
      PROVE  GateInv'
  <2>1. CASE answer[c] = "hold"
    <3>1. /\ pc' = [pc EXCEPT ![c] = "polling"]
          /\ UNCHANGED <<holdVars, answer, polls, verdict, failed>>
      BY <1>3, <2>1 DEF Answered
    <3>2. HoldInv' /\ TypeOK'
      BY <3>1 DEF holdVars, HoldInv, HoldTypeOK, TimedOutIsDue, TypeOK
    <3> QED BY <3>1, <3>2 DEF holdVars, TypeOK, RunsOnlyIfAllowed,
                              RefusedForAReason, Ran
  <2>2. CASE answer[c] # "hold"
    BY <1>3, <2>2, ReturnKeepsInv DEF Answered, Verdicts
  <2> QED BY <2>1, <2>2
<1>4. ASSUME NEW c \in GatedCalls, PostFailed(c) \/ PollGarbled(c)
      PROVE  GateInv'
  <2>1. Mode[c] \in {"fail_open", "fail_to_human", "fail_closed"}
    BY GateAssumption
  <2>2. /\ Fallback(Mode[c]) \in Verdicts
        /\ Fallback(Mode[c]) = "allow" => Mode[c] = "fail_open"
    BY <2>1 DEF Fallback, Verdicts
  <2> QED BY <1>4, <2>2, ReturnKeepsInv DEF PostFailed, PollGarbled
<1>5. ASSUME NEW c \in GatedCalls, PollTerminal(c)
      PROVE  GateInv'
  <2>1. /\ status[c] \in {"approved", "rejected", "timed_out"}
        /\ status[c] \in history[c]
    BY <1>5 DEF PollTerminal, Terminal, HoldInv, GatedCalls
  <2>2. /\ Resolution(status[c]) \in Verdicts
        /\ Resolution(status[c]) = "allow" => status[c] = "approved"
        /\ Resolution(status[c]) # "allow" => status[c] # "approved"
    BY DEF Resolution, Verdicts
  <2> QED BY <1>5, <2>1, <2>2, ReturnKeepsInv DEF PollTerminal
<1>6. ASSUME NEW c \in GatedCalls, PollAgain(c)
      PROVE  GateInv'
  <2>1. HoldInv' /\ TypeOK'
    BY <1>6, GateAssumption
       DEF PollAgain, holdVars, HoldInv, HoldTypeOK, TimedOutIsDue, TypeOK
  <2> QED BY <1>6, <2>1 DEF PollAgain, holdVars, RunsOnlyIfAllowed,
                            RefusedForAReason, Ran
<1>7. ASSUME NEW c \in GatedCalls, PollsExceeded(c)
      PROVE  GateInv'
  BY <1>7, ReturnKeepsInv DEF PollsExceeded, Verdicts
<1>8. ASSUME NEW c \in GatedCalls, GateRaised(c)
      PROVE  GateInv'
  BY <1>8, ReturnKeepsInv DEF GateRaised, Verdicts
<1>9. CASE Queue
  BY <1>9, QueueKeepsInv DEF Queue, HoldNext
<1>10. CASE UNCHANGED gateVars
  BY <1>10, QueueKeepsInv DEF gateVars
<1> QED BY <1>1, <1>2, <1>3, <1>4, <1>5, <1>6, <1>7, <1>8, <1>9, <1>10
        DEF GateNext, ClientStep

(* No gated action runs without an allow, an approval, a fail-open failure   *)
(* or a broken gate, for any number of calls, reviewers and polls.           *)
THEOREM GateHolds == GateSpec => []RunsOnlyIfAllowed
<1>1. GateInit => GateInv
  BY GateInvInit
<1>2. GateInv /\ [GateNext]_gateVars => GateInv'
  BY GateStep
<1>3. GateInv => RunsOnlyIfAllowed
  BY DEF GateInv
<1> QED BY <1>1, <1>2, <1>3, PTL DEF GateSpec

(* No gated action is refused without a decision, a timeout, the end of the  *)
(* client's patience or a failure.                                           *)
THEOREM RefusalsHaveReasons == GateSpec => []RefusedForAReason
<1>1. GateInit => GateInv
  BY GateInvInit
<1>2. GateInv /\ [GateNext]_gateVars => GateInv'
  BY GateStep
<1>3. GateInv => RefusedForAReason
  BY DEF GateInv
<1> QED BY <1>1, <1>2, <1>3, PTL DEF GateSpec

-----------------------------------------------------------------------------
(* One decision and its two readers: the state                               *)

Write == [doc : RuleFiles, mtime : Nat \ {0}]

IsVerdict(v) == DOMAIN v = {"answer", "read", "stat", "verdicts"}
IsCall(r) ==
  /\ DOMAIN r = {"pc", "gate", "shipped", "key", "observed"}
  /\ IsVerdict(r.gate) /\ IsVerdict(r.observed)

TypeInv ==
  /\ writes \in Seq(Write) /\ writes # <<>>
  /\ cache \in [Readers -> [mtime : Nat, read : Nat]]
  /\ reader \in [Readers -> [call : Calls \cup {"none"}, stat : Nat]]
  /\ policy \in PolicyDocs /\ PolicyLoads(policy)
  /\ call = [c \in Calls |-> call[c]]
  /\ \A c \in Calls : IsCall(call[c])

\* The mtime of the file never goes back.
InOrder == \A i, j \in 1..Len(writes) : i <= j => writes[i].mtime <= writes[j].mtime

\* What a reader has in its cache is a file that loads, and it was written at
\* the mtime it is filed under or later.
Cached ==
  \A r \in Readers : cache[r] # NoRules =>
    /\ cache[r].read \in 1..Len(writes) /\ cache[r].mtime # 0
    /\ Loads(writes[cache[r].read].doc)
    /\ cache[r].mtime <= writes[cache[r].read].mtime

\* A reader between its two steps has looked at the file, for a call that
\* waits for it.
Looking ==
  \A r \in Readers : reader[r] # Reading =>
    /\ reader[r].call \in Calls /\ Waits(r, reader[r].call)
    /\ reader[r].stat \in 1..Len(writes)

\* A verdict names writes that are there, and its rules were fresh.
Sourced(v) ==
  v.read # 0 => /\ v.read \in 1..Len(writes) /\ v.stat \in 1..Len(writes)
                /\ Fresh(v)

\* The answer of the service is what the rules it read say of the raw span, and
\* what the ledger recorded is what the rules it read say of the span that was
\* shipped, which is what the filter makes of it.
Answers == {"allow", "hold", "block"}
AnswerFacts(c) ==
  LET v == call[c].gate IN
  v.answer \in Answers =>
    /\ v.read \in 1..Len(writes) /\ Loads(writes[v.read].doc)
    /\ v.answer = Decide(writes[v.read].doc, SpanOf[c].type, Attributes(SpanOf[c], RawText(SpanOf[c])))
Observed(c) ==
  LET v == call[c].observed IN
  v.answer = "observed" =>
    /\ call[c].pc = "done"
    /\ v.read \in 1..Len(writes) /\ Loads(writes[v.read].doc)
    /\ v.verdicts = EvaluateRules(writes[v.read].doc, SpanOf[c].type,
                                  Attributes(SpanOf[c], call[c].shipped.text))
Filtered(c) ==
  call[c].shipped.outcome # "none" =>
    call[c].key \in BOOLEAN /\ call[c].shipped = Apply(policy, call[c].key, SpanOf[c])

CallInv ==
  \A c \in Calls :
    /\ Sourced(call[c].gate) /\ Sourced(call[c].observed)
    /\ AnswerFacts(c) /\ Observed(c) /\ Filtered(c)

PoliciesInv == TypeInv /\ InOrder /\ Cached /\ Looking /\ CallInv

-----------------------------------------------------------------------------
(* One step                                                                  *)

LEMMA InvInit == Init => PoliciesInv
<1> SUFFICES ASSUME Init PROVE PoliciesInv
  OBVIOUS
<1>1. PICK f \in RuleFiles : writes = <<[doc |-> f, mtime |-> 1]>>
  BY DEF Init
<1>2. /\ writes \in Seq(Write) /\ writes # <<>> /\ Len(writes) = 1
  <2>1. [doc |-> f, mtime |-> 1] \in Write
    BY DEF Write
  <2> QED BY <1>1, <2>1
<1>3. TypeInv
  BY <1>2 DEF Init, TypeInv, NoRules, Reading, Verdict, IsVerdict, IsCall
<1>4. InOrder
  BY <1>1, <1>2 DEF InOrder
<1>5. Cached /\ Looking
  BY DEF Init, Cached, Looking
<1>6. CallInv
  BY DEF Init, CallInv, Sourced, AnswerFacts, Observed, Filtered, Verdict, Answers
<1> QED BY <1>3, <1>4, <1>5, <1>6 DEF PoliciesInv

(* What was written stays.                                                   *)
LEMMA OneMoreWrite ==
  ASSUME TypeInv, NEW f \in RuleFiles, NEW tick \in 0..1,
         writes' = Append(writes, [doc |-> f, mtime |-> Last(writes).mtime + tick])
  PROVE  /\ writes' \in Seq(Write) /\ writes' # <<>>
         /\ Len(writes) \in Nat \ {0} /\ Len(writes') = Len(writes) + 1
         /\ \A i \in 1..Len(writes) : writes'[i] = writes[i]
         /\ writes'[Len(writes) + 1].mtime >= writes[Len(writes)].mtime
         /\ \A i \in 1..Len(writes) : writes[i].mtime \in Nat \ {0}
<1>1. /\ Len(writes) \in Nat \ {0}
      /\ \A i \in 1..Len(writes) : writes[i] \in Write
  BY DEF TypeInv
<1>2. Last(writes) = writes[Len(writes)] /\ writes[Len(writes)] \in Write
  BY <1>1 DEF Last
<1>3. [doc |-> f, mtime |-> Last(writes).mtime + tick] \in Write
  BY <1>2 DEF Write
<1> DEFINE w == [doc |-> f, mtime |-> Last(writes).mtime + tick]
<1>4. w.mtime >= writes[Len(writes)].mtime /\ writes' = Append(writes, w)
  BY <1>2 DEF Write
<1>5. \A i \in 1..Len(writes) : writes[i].mtime \in Nat \ {0}
  BY <1>1 DEF Write
<1> HIDE DEF w
<1>6. w \in Write
  BY <1>3 DEF w
<1>7. /\ writes' \in Seq(Write) /\ writes' # <<>> /\ Len(writes') = Len(writes) + 1
      /\ \A i \in 1..Len(writes) : writes'[i] = writes[i]
      /\ writes'[Len(writes) + 1] = w
  BY <1>1, <1>4, <1>6 DEF TypeInv
<1> QED BY <1>1, <1>4, <1>5, <1>7

LEMMA RewriteKeeps ==
  ASSUME PoliciesInv, RewriteRules
  PROVE  PoliciesInv'
<1>1. PICK f \in RuleFiles, tick \in 0..1 :
        writes' = Append(writes, [doc |-> f, mtime |-> Last(writes).mtime + tick])
  BY DEF RewriteRules
<1>2. UNCHANGED <<cache, reader, policy, call>>
  BY DEF RewriteRules
<1>3. /\ writes' \in Seq(Write) /\ writes' # <<>>
      /\ Len(writes) \in Nat \ {0} /\ Len(writes') = Len(writes) + 1
      /\ \A i \in 1..Len(writes) : writes'[i] = writes[i]
      /\ writes'[Len(writes) + 1].mtime >= writes[Len(writes)].mtime
      /\ \A i \in 1..Len(writes) : writes[i].mtime \in Nat \ {0}
  BY <1>1, OneMoreWrite DEF PoliciesInv
<1>4. 1..Len(writes) \subseteq 1..Len(writes')
  BY <1>3
<1>5. TypeInv'
  BY <1>2, <1>3 DEF PoliciesInv, TypeInv
<1>6. InOrder'
  <2> SUFFICES ASSUME NEW i \in 1..Len(writes'), NEW j \in 1..Len(writes'), i <= j
               PROVE  writes'[i].mtime <= writes'[j].mtime
    BY DEF InOrder
  <2>1. CASE j \in 1..Len(writes)
    BY <1>3, <2>1 DEF PoliciesInv, InOrder
  <2>2. CASE i \in 1..Len(writes) /\ j = Len(writes) + 1
    <3>1. writes[i].mtime <= writes[Len(writes)].mtime
      BY <1>3, <2>2 DEF PoliciesInv, InOrder
    <3>2. writes'[j] \in Write
      BY <1>3
    <3>3. writes'[j].mtime \in Nat
      BY <3>2 DEF Write
    <3> QED BY <1>3, <2>2, <3>1, <3>3
  <2>3. CASE i = Len(writes) + 1 /\ j = Len(writes) + 1
    <3>1. writes'[j] \in Write
      BY <1>3
    <3>2. writes'[j].mtime \in Nat
      BY <3>1 DEF Write
    <3> QED BY <2>3, <3>2
  <2> QED BY <1>3, <2>1, <2>2, <2>3
<1>7. Cached'
  BY <1>2, <1>3, <1>4 DEF PoliciesInv, Cached
<1>8. Looking'
  BY <1>2, <1>4 DEF PoliciesInv, Looking, Waits
<1>9. CallInv'
  <2> SUFFICES ASSUME NEW c \in Calls
               PROVE  (Sourced(call[c].gate) /\ Sourced(call[c].observed)
                       /\ AnswerFacts(c) /\ Observed(c) /\ Filtered(c))'
    BY DEF CallInv
  <2>1. Sourced(call[c].gate)' /\ Sourced(call[c].observed)'
    BY <1>2, <1>3, <1>4 DEF PoliciesInv, CallInv, Sourced, Fresh
  <2>2. AnswerFacts(c)'
    BY <1>2, <1>3, <1>4 DEF PoliciesInv, CallInv, AnswerFacts
  <2>3. Observed(c)'
    BY <1>2, <1>3, <1>4 DEF PoliciesInv, CallInv, Observed
  <2>4. Filtered(c)'
    BY <1>2 DEF PoliciesInv, CallInv, Filtered
  <2> QED BY <2>1, <2>2, <2>3, <2>4
<1> QED BY <1>5, <1>6, <1>7, <1>8, <1>9 DEF PoliciesInv

(* A step that changes one call.                                             *)
LEMMA OneCall ==
  ASSUME PoliciesInv, UNCHANGED <<writes, policy>>, NEW c \in Calls,
         call' = [d \in Calls |-> call'[d]], IsCall(call'[c]),
         \A d \in Calls \ {c} : call'[d] = call[d],
         (Sourced(call[c].gate) /\ Sourced(call[c].observed)
          /\ AnswerFacts(c) /\ Observed(c) /\ Filtered(c))'
  PROVE  (\A d \in Calls : IsCall(call'[d])) /\ CallInv'
<1>1. \A d \in Calls : IsCall(call'[d])
  BY DEF PoliciesInv, TypeInv
<1>2. ASSUME NEW d \in Calls \ {c}
      PROVE  (Sourced(call[d].gate) /\ Sourced(call[d].observed)
              /\ AnswerFacts(d) /\ Observed(d) /\ Filtered(d))'
  <2>1. call'[d] = call[d]
    OBVIOUS
  <2>2. /\ Sourced(call[d].gate) /\ Sourced(call[d].observed)
        /\ AnswerFacts(d) /\ Observed(d) /\ Filtered(d)
    BY DEF PoliciesInv, CallInv
  <2> QED BY <2>1, <2>2 DEF Sourced, Fresh, AnswerFacts, Observed, Filtered
<1>3. CallInv'
  BY <1>2 DEF CallInv
<1> QED BY <1>1, <1>3

(* What the update of a call does to its fields.                             *)
LEMMA GateChanges ==
  ASSUME NEW c \in Calls, call = [d \in Calls |-> call[d]], IsCall(call[c]),
         NEW at, NEW gate, IsVerdict(gate),
         call' = [call EXCEPT ![c].pc = at, ![c].gate = gate]
  PROVE  /\ call' = [d \in Calls |-> call'[d]] /\ \A d \in Calls \ {c} : call'[d] = call[d]
         /\ call'[c].pc = at /\ call'[c].gate = gate
         /\ call'[c].shipped = call[c].shipped /\ call'[c].key = call[c].key
         /\ call'[c].observed = call[c].observed /\ IsCall(call'[c])
<1> DEFINE new == [call[c] EXCEPT !.pc = at, !.gate = gate]
<1>1. call' = [call EXCEPT ![c] = new]
  OBVIOUS
<1>2. /\ new.pc = at /\ new.gate = gate /\ DOMAIN new = DOMAIN call[c]
      /\ new.shipped = call[c].shipped /\ new.key = call[c].key /\ new.observed = call[c].observed
  BY DEF IsCall
<1> HIDE DEF new
<1>3. /\ call' = [d \in Calls |-> call'[d]] /\ call'[c] = new
      /\ \A d \in Calls \ {c} : call'[d] = call[d]
  BY <1>1
<1>4. IsCall(new)
  BY <1>2 DEF IsCall
<1> QED BY <1>2, <1>3, <1>4

LEMMA ObservedChanges ==
  ASSUME NEW c \in Calls, call = [d \in Calls |-> call[d]], IsCall(call[c]),
         NEW at, NEW observed, IsVerdict(observed),
         call' = [call EXCEPT ![c].pc = at, ![c].observed = observed]
  PROVE  /\ call' = [d \in Calls |-> call'[d]] /\ \A d \in Calls \ {c} : call'[d] = call[d]
         /\ call'[c].pc = at /\ call'[c].gate = call[c].gate
         /\ call'[c].shipped = call[c].shipped /\ call'[c].key = call[c].key
         /\ call'[c].observed = observed /\ IsCall(call'[c])
<1> DEFINE new == [call[c] EXCEPT !.pc = at, !.observed = observed]
<1>1. call' = [call EXCEPT ![c] = new]
  OBVIOUS
<1>2. /\ new.pc = at /\ new.observed = observed /\ DOMAIN new = DOMAIN call[c]
      /\ new.shipped = call[c].shipped /\ new.key = call[c].key /\ new.gate = call[c].gate
  BY DEF IsCall
<1> HIDE DEF new
<1>3. /\ call' = [d \in Calls |-> call'[d]] /\ call'[c] = new
      /\ \A d \in Calls \ {c} : call'[d] = call[d]
  BY <1>1
<1>4. IsCall(new)
  BY <1>2 DEF IsCall
<1> QED BY <1>2, <1>3, <1>4

(* A verdict of the reader r on the call c, and what stays true of the rest.  *)
CallsKept(r) ==
  /\ call' = [d \in Calls |-> call'[d]] /\ \A d \in Calls : IsCall(call'[d])
  /\ CallInv'
  /\ \A q \in Readers \ {r}, d \in Calls : Waits(q, d) => Waits(q, d)'

LEMMA ServiceConcludes ==
  ASSUME PoliciesInv, UNCHANGED <<writes, policy>>,
         NEW c \in Calls, Waits("service", c), NEW gate, IsVerdict(gate),
         call' = [call EXCEPT ![c].pc = "answered", ![c].gate = gate],
         Sourced(gate),
         gate.answer \in Answers =>
           /\ gate.read \in 1..Len(writes) /\ Loads(writes[gate.read].doc)
           /\ gate.answer = Decide(writes[gate.read].doc, SpanOf[c].type,
                                   Attributes(SpanOf[c], RawText(SpanOf[c])))
  PROVE  CallsKept("service")
<1>1. /\ call = [d \in Calls |-> call[d]] /\ IsCall(call[c])
      /\ Sourced(call[c].observed) /\ Observed(c) /\ Filtered(c)
      /\ call[c].pc = "start"
  BY DEF PoliciesInv, TypeInv, CallInv, Waits
<1>2. /\ call' = [d \in Calls |-> call'[d]] /\ \A d \in Calls \ {c} : call'[d] = call[d]
      /\ call'[c].pc = "answered" /\ call'[c].gate = gate
      /\ call'[c].shipped = call[c].shipped /\ call'[c].key = call[c].key
      /\ call'[c].observed = call[c].observed /\ IsCall(call'[c])
  BY <1>1, GateChanges
<1>3. Sourced(call[c].gate)' /\ Sourced(call[c].observed)'
  BY <1>1, <1>2 DEF Sourced, Fresh
<1>4. AnswerFacts(c)'
  BY <1>2 DEF AnswerFacts
<1>5. Observed(c)' /\ Filtered(c)'
  BY <1>1, <1>2 DEF Observed, Filtered
<1>6. (\A d \in Calls : IsCall(call'[d])) /\ CallInv'
  BY <1>2, <1>3, <1>4, <1>5, OneCall
<1>7. ASSUME NEW q \in Readers \ {"service"}, NEW d \in Calls, Waits(q, d) PROVE Waits(q, d)'
  BY <1>1, <1>2, <1>7 DEF Waits, Readers
<1> QED BY <1>2, <1>6, <1>7 DEF CallsKept

LEMMA LedgerConcludes ==
  ASSUME PoliciesInv, UNCHANGED <<writes, policy>>,
         NEW c \in Calls, Waits("ledger", c), NEW observed, IsVerdict(observed),
         call' = [call EXCEPT ![c].pc = "done", ![c].observed = observed],
         Sourced(observed),
         observed.answer = "observed" =>
           /\ observed.read \in 1..Len(writes) /\ Loads(writes[observed.read].doc)
           /\ observed.verdicts = EvaluateRules(writes[observed.read].doc, SpanOf[c].type,
                                     Attributes(SpanOf[c], call[c].shipped.text))
  PROVE  CallsKept("ledger")
<1>1. /\ call = [d \in Calls |-> call[d]] /\ IsCall(call[c])
      /\ Sourced(call[c].gate) /\ AnswerFacts(c) /\ Filtered(c)
      /\ call[c].pc = "shipped"
  BY DEF PoliciesInv, TypeInv, CallInv, Waits
<1>2. /\ call' = [d \in Calls |-> call'[d]] /\ \A d \in Calls \ {c} : call'[d] = call[d]
      /\ call'[c].pc = "done" /\ call'[c].gate = call[c].gate
      /\ call'[c].shipped = call[c].shipped /\ call'[c].key = call[c].key
      /\ call'[c].observed = observed /\ IsCall(call'[c])
  BY <1>1, ObservedChanges
<1>3. Sourced(call[c].gate)' /\ Sourced(call[c].observed)'
  BY <1>1, <1>2 DEF Sourced, Fresh
<1>4. Observed(c)'
  BY <1>2 DEF Observed
<1>5. AnswerFacts(c)' /\ Filtered(c)'
  BY <1>1, <1>2 DEF AnswerFacts, Filtered
<1>6. (\A d \in Calls : IsCall(call'[d])) /\ CallInv'
  BY <1>2, <1>3, <1>4, <1>5, OneCall
<1>7. ASSUME NEW q \in Readers \ {"ledger"}, NEW d \in Calls, Waits(q, d) PROVE Waits(q, d)'
  BY <1>1, <1>2, <1>7 DEF Waits, Readers
<1> QED BY <1>2, <1>6, <1>7 DEF CallsKept

(* A reader concludes: what it read is there, loads and is fresh.            *)
LEMMA ConcludeKeeps ==
  ASSUME PoliciesInv, UNCHANGED <<writes, policy>>,
         NEW r \in Readers, NEW c \in Calls, Waits(r, c),
         NEW read \in 1..Len(writes), NEW stat \in 1..Len(writes),
         Loads(writes[read].doc), read >= stat \/ writes[read].mtime = writes[stat].mtime,
         Conclude(r, c, read, stat)
  PROVE  CallsKept(r)
<1>1. CASE r = "service"
  <2> DEFINE given == Decide(writes[read].doc, SpanOf[c].type, Attributes(SpanOf[c], RawText(SpanOf[c])))
             gate == [Verdict EXCEPT !.answer = given, !.read = read, !.stat = stat]
  <2>1. call' = [call EXCEPT ![c].pc = "answered", ![c].gate = gate]
    BY <1>1 DEF Conclude
  <2>2. IsVerdict(gate) /\ gate.answer = given /\ gate.read = read /\ gate.stat = stat
    <3> HIDE DEF given
    <3> QED BY DEF Verdict, IsVerdict
  <2>3. Waits("service", c)
    BY <1>1
  <2> HIDE DEF gate, given
  <2>4. Sourced(gate)
    BY <2>2 DEF Sourced, Fresh
  <2>5. /\ gate.read \in 1..Len(writes) /\ Loads(writes[gate.read].doc)
        /\ gate.answer = Decide(writes[gate.read].doc, SpanOf[c].type,
                                Attributes(SpanOf[c], RawText(SpanOf[c])))
    BY <2>2 DEF given
  <2>6. CallsKept("service")
    BY <2>1, <2>2, <2>3, <2>4, <2>5, ServiceConcludes
  <2> QED BY <1>1, <2>6
<1>2. CASE r = "ledger"
  <2> DEFINE verdicts == EvaluateRules(writes[read].doc, SpanOf[c].type,
                                       Attributes(SpanOf[c], call[c].shipped.text))
             observed == [Verdict EXCEPT !.answer = "observed", !.read = read, !.stat = stat,
                                         !.verdicts = verdicts]
  <2>1. call' = [call EXCEPT ![c].pc = "done", ![c].observed = observed]
    BY <1>2 DEF Conclude
  <2>2. /\ IsVerdict(observed) /\ observed.answer = "observed" /\ observed.read = read
        /\ observed.stat = stat /\ observed.verdicts = verdicts
    <3> HIDE DEF verdicts
    <3> QED BY DEF Verdict, IsVerdict
  <2>3. Waits("ledger", c)
    BY <1>2
  <2> HIDE DEF observed, verdicts
  <2>4. Sourced(observed)
    BY <2>2 DEF Sourced, Fresh
  <2>5. /\ observed.read \in 1..Len(writes) /\ Loads(writes[observed.read].doc)
        /\ observed.verdicts = EvaluateRules(writes[observed.read].doc, SpanOf[c].type,
                                 Attributes(SpanOf[c], call[c].shipped.text))
    BY <2>2 DEF verdicts
  <2>6. CallsKept("ledger")
    BY <2>1, <2>2, <2>3, <2>4, <2>5, LedgerConcludes
  <2> QED BY <1>2, <2>6
<1> QED BY <1>1, <1>2 DEF Readers
LEMMA FailedKeeps ==
  ASSUME PoliciesInv, UNCHANGED <<writes, policy>>,
         NEW r \in Readers, NEW c \in Calls, Waits(r, c), Failed(r, c)
  PROVE  CallsKept(r)
<1>1. /\ call = [d \in Calls |-> call[d]] /\ IsCall(call[c])
      /\ Sourced(call[c].gate) /\ Sourced(call[c].observed)
  BY DEF PoliciesInv, TypeInv, CallInv
<1>2. CASE r = "service"
  <2> DEFINE gate == [call[c].gate EXCEPT !.answer = "error"]
  <2>1. call' = [call EXCEPT ![c].pc = "answered", ![c].gate = gate]
    BY <1>2 DEF Failed
  <2>2. IsVerdict(gate) /\ gate.answer = "error"
        /\ gate.read = call[c].gate.read /\ gate.stat = call[c].gate.stat
    BY <1>1 DEF IsVerdict, IsCall
  <2> HIDE DEF gate
  <2>3. Waits("service", c) /\ Sourced(gate) /\ gate.answer \notin Answers
    BY <1>1, <1>2, <2>2 DEF Sourced, Fresh, Answers
  <2>4. CallsKept("service")
    BY <2>1, <2>2, <2>3, ServiceConcludes
  <2> QED BY <1>2, <2>4
<1>3. CASE r = "ledger"
  <2> DEFINE observed == [call[c].observed EXCEPT !.answer = "error"]
  <2>1. call' = [call EXCEPT ![c].pc = "done", ![c].observed = observed]
    BY <1>3 DEF Failed
  <2>2. IsVerdict(observed) /\ observed.answer = "error"
        /\ observed.read = call[c].observed.read /\ observed.stat = call[c].observed.stat
    BY <1>1 DEF IsVerdict, IsCall
  <2> HIDE DEF observed
  <2>3. Waits("ledger", c) /\ Sourced(observed) /\ observed.answer # "observed"
    BY <1>1, <1>3, <2>2 DEF Sourced, Fresh
  <2>4. CallsKept("ledger")
    BY <2>1, <2>2, <2>3, LedgerConcludes
  <2> QED BY <1>3, <2>4
<1> QED BY <1>2, <1>3 DEF Readers

(* The last write, and the current mtime.                                    *)
LEMMA Current ==
  ASSUME PoliciesInv
  PROVE  /\ Len(writes) \in Nat \ {0} /\ Last(writes) = writes[Len(writes)]
         /\ \A i \in 1..Len(writes) :
              /\ writes[i].mtime \in Nat \ {0} /\ writes[i].doc \in RuleFiles
              /\ writes[i].mtime <= writes[Len(writes)].mtime
<1>1. Len(writes) \in Nat \ {0} /\ \A i \in 1..Len(writes) : writes[i] \in Write
  BY DEF PoliciesInv, TypeInv
<1>2. Last(writes) = writes[Len(writes)]
  BY <1>1 DEF Last
<1>3. \A i \in 1..Len(writes) : writes[i].mtime <= writes[Len(writes)].mtime
  BY <1>1 DEF PoliciesInv, InOrder
<1> QED BY <1>1, <1>2, <1>3 DEF Write

(* The parts of the invariant that a reader's step can disturb.              *)
LEMMA ReaderStep ==
  ASSUME PoliciesInv, UNCHANGED <<writes, policy>>, NEW r \in Readers, CallsKept(r),
         cache' \in [Readers -> [mtime : Nat, read : Nat]], Cached',
         reader' = [reader EXCEPT ![r] = Reading]
  PROVE  PoliciesInv'
<1>1. /\ reader' \in [Readers -> [call : Calls \cup {"none"}, stat : Nat]]
      /\ reader'[r] = Reading /\ \A q \in Readers \ {r} : reader'[q] = reader[q]
  BY DEF PoliciesInv, TypeInv, Reading
<1>2. TypeInv'
  BY <1>1 DEF PoliciesInv, TypeInv, CallsKept
<1>3. InOrder'
  BY DEF PoliciesInv, InOrder
<1>4. Looking'
  <2> SUFFICES ASSUME NEW q \in Readers, (reader[q] # Reading)'
               PROVE  (/\ reader[q].call \in Calls /\ Waits(q, reader[q].call)
                       /\ reader[q].stat \in 1..Len(writes))'
    BY DEF Looking
  <2>1. q \in Readers \ {r} /\ reader'[q] = reader[q]
    BY <1>1
  <2>2. /\ reader[q].call \in Calls /\ Waits(q, reader[q].call)
        /\ reader[q].stat \in 1..Len(writes)
    BY <2>1 DEF PoliciesInv, Looking
  <2> QED BY <2>1, <2>2 DEF CallsKept, Waits
<1> QED BY <1>2, <1>3, <1>4 DEF PoliciesInv, CallsKept

LEMMA StatKeeps ==
  ASSUME PoliciesInv, NEW r \in Readers, NEW c \in Calls, StatRules(r, c)
  PROVE  PoliciesInv'
<1> DEFINE now == Last(writes)
<1>1. reader[r] = Reading /\ Waits(r, c) /\ UNCHANGED <<writes, policy>>
  BY DEF StatRules
<1>2. /\ Len(writes) \in Nat \ {0} /\ now = writes[Len(writes)]
      /\ now.mtime \in Nat \ {0} /\ \A i \in 1..Len(writes) : writes[i].mtime <= now.mtime
      /\ \A i \in 1..Len(writes) : writes[i].mtime \in Nat \ {0}
  BY Current
<1>3. \/ Failed(r, c) /\ UNCHANGED <<cache, reader>>
      \/ /\ cache[r].mtime = now.mtime
         /\ Conclude(r, c, cache[r].read, Len(writes)) /\ UNCHANGED <<cache, reader>>
      \/ /\ reader' = [reader EXCEPT ![r] = [call |-> c, stat |-> Len(writes)]]
         /\ UNCHANGED <<cache, call>>
  BY DEF StatRules
<1> HIDE DEF now
<1>4. reader = [reader EXCEPT ![r] = Reading]
  BY <1>1 DEF PoliciesInv, TypeInv
<1>5. ASSUME UNCHANGED <<cache, reader>>, CallsKept(r) PROVE PoliciesInv'
  <2>1. Cached'
    BY <1>1, <1>5 DEF PoliciesInv, Cached
  <2>2. cache' \in [Readers -> [mtime : Nat, read : Nat]] /\ reader' = [reader EXCEPT ![r] = Reading]
    BY <1>4, <1>5 DEF PoliciesInv, TypeInv
  <2> QED BY <1>1, <1>5, <2>1, <2>2, ReaderStep
<1>6. CASE Failed(r, c) /\ UNCHANGED <<cache, reader>>
  BY <1>1, <1>5, <1>6, FailedKeeps
<1>7. CASE /\ cache[r].mtime = now.mtime
           /\ Conclude(r, c, cache[r].read, Len(writes)) /\ UNCHANGED <<cache, reader>>
  <2>1. cache[r] # NoRules
    BY <1>2, <1>7 DEF NoRules
  <2>2. /\ cache[r].read \in 1..Len(writes) /\ Loads(writes[cache[r].read].doc)
        /\ cache[r].mtime <= writes[cache[r].read].mtime
    BY <2>1 DEF PoliciesInv, Cached
  <2>3. writes[cache[r].read].mtime = writes[Len(writes)].mtime /\ Len(writes) \in 1..Len(writes)
    BY <1>2, <1>7, <2>2
  <2>4. CallsKept(r)
    BY <1>1, <1>7, <2>2, <2>3, ConcludeKeeps
  <2> QED BY <1>5, <1>7, <2>4
<1>8. CASE /\ reader' = [reader EXCEPT ![r] = [call |-> c, stat |-> Len(writes)]]
           /\ UNCHANGED <<cache, call>>
  <2>1. TypeInv'
    BY <1>1, <1>2, <1>8 DEF PoliciesInv, TypeInv
  <2>2. Looking'
    <3>1. /\ reader'[r].call = c /\ reader'[r].stat = Len(writes)
          /\ \A q \in Readers \ {r} : reader'[q] = reader[q]
      BY <1>8 DEF PoliciesInv, TypeInv
    <3>2. Len(writes) \in 1..Len(writes) /\ Waits(r, c)'
      BY <1>1, <1>2, <1>8 DEF Waits
    <3> QED BY <1>1, <1>8, <3>1, <3>2 DEF PoliciesInv, Looking, Waits
  <2>3. CallInv'
    BY <1>1, <1>8 DEF PoliciesInv, CallInv, Sourced, Fresh, AnswerFacts, Observed, Filtered
  <2>4. InOrder' /\ Cached'
    BY <1>1, <1>8 DEF PoliciesInv, InOrder, Cached
  <2> QED BY <2>1, <2>2, <2>3, <2>4 DEF PoliciesInv
<1> QED BY <1>3, <1>6, <1>7, <1>8

LEMMA LoadKeeps ==
  ASSUME PoliciesInv, NEW r \in Readers, LoadRules(r)
  PROVE  PoliciesInv'
<1> DEFINE c == reader[r].call
           stat == reader[r].stat
           n == Len(writes)
<1>1. /\ reader[r] # Reading /\ UNCHANGED <<writes, policy>>
      /\ reader' = [reader EXCEPT ![r] = Reading]
  BY DEF LoadRules
<1>2. c \in Calls /\ Waits(r, c) /\ stat \in 1..n
  BY <1>1 DEF PoliciesInv, Looking
<1>3. /\ n \in Nat \ {0} /\ Last(writes) = writes[n]
      /\ \A i \in 1..n : /\ writes[i].mtime \in Nat \ {0}
                          /\ writes[i].mtime <= writes[n].mtime
  BY Current
<1>4. \/ /\ Loads(Last(writes).doc) /\ Conclude(r, c, n, stat)
         /\ cache' = [cache EXCEPT ![r] = [mtime |-> writes[stat].mtime, read |-> n]]
      \/ Failed(r, c) /\ UNCHANGED cache
  BY DEF LoadRules
<1> HIDE DEF c, stat, n
<1>5. CASE /\ Loads(Last(writes).doc) /\ Conclude(r, c, n, stat)
           /\ cache' = [cache EXCEPT ![r] = [mtime |-> writes[stat].mtime, read |-> n]]
  <2>1. n \in 1..Len(writes) /\ stat \in 1..Len(writes) /\ n >= stat
    BY <1>2, <1>3 DEF n
  <2>2. CallsKept(r)
    BY <1>1, <1>2, <1>3, <1>5, <2>1, ConcludeKeeps
  <2>3. cache' \in [Readers -> [mtime : Nat, read : Nat]]
    BY <1>2, <1>3, <1>5 DEF PoliciesInv, TypeInv
  <2>4. /\ cache'[r].mtime = writes[stat].mtime /\ cache'[r].read = n
        /\ \A q \in Readers \ {r} : cache'[q] = cache[q]
    BY <1>5 DEF PoliciesInv, TypeInv
  <2>5. Cached'
    BY <1>1, <1>2, <1>3, <1>5, <2>1, <2>4 DEF PoliciesInv, Cached
  <2> QED BY <1>1, <2>2, <2>3, <2>5, ReaderStep
<1>6. CASE Failed(r, c) /\ UNCHANGED cache
  <2>1. CallsKept(r)
    BY <1>1, <1>2, <1>6, FailedKeeps
  <2>2. cache' \in [Readers -> [mtime : Nat, read : Nat]] /\ Cached'
    BY <1>1, <1>6 DEF PoliciesInv, TypeInv, Cached
  <2> QED BY <1>1, <2>1, <2>2, ReaderStep
<1> QED BY <1>4, <1>5, <1>6

LEMMA CloseKeeps ==
  ASSUME PoliciesInv, NEW c \in Calls, Close(c)
  PROVE  PoliciesInv'
<1>1. /\ UNCHANGED <<writes, cache, reader, policy>>
      /\ call[c].pc = IF Gated(c) THEN "answered" ELSE "start"
  BY DEF Close
<1>2. PICK key \in BOOLEAN :
        call' = [call EXCEPT ![c].pc = IF Gated(c) THEN "shipped" ELSE "done", ![c].key = key,
                             ![c].shipped = Apply(policy, key, SpanOf[c])]
  BY DEF Close
<1> DEFINE shipped == Apply(policy, key, SpanOf[c])
           at == IF Gated(c) THEN "shipped" ELSE "done"
<1>3. call' = [call EXCEPT ![c] = [call[c] EXCEPT !.pc = at, !.key = key, !.shipped = shipped]]
  BY <1>2
<1> HIDE DEF shipped, at
<1>4. /\ call = [d \in Calls |-> call[d]] /\ IsCall(call[c])
      /\ Sourced(call[c].gate) /\ Sourced(call[c].observed) /\ AnswerFacts(c) /\ Observed(c)
  BY DEF PoliciesInv, TypeInv, CallInv
<1>5. /\ call' = [d \in Calls |-> call'[d]] /\ \A d \in Calls \ {c} : call'[d] = call[d]
      /\ call'[c].gate = call[c].gate /\ call'[c].observed = call[c].observed
      /\ call'[c].shipped = shipped /\ call'[c].key = key /\ IsCall(call'[c])
  BY <1>3, <1>4 DEF IsCall
<1>6. call[c].observed.answer # "observed"
  BY <1>1, <1>4 DEF Observed
<1>7. Sourced(call[c].gate)' /\ Sourced(call[c].observed)' /\ AnswerFacts(c)' /\ Observed(c)'
  BY <1>1, <1>4, <1>5, <1>6 DEF Sourced, Fresh, AnswerFacts, Observed
<1>8. Filtered(c)'
  BY <1>1, <1>5 DEF Filtered, shipped
<1>9. (\A d \in Calls : IsCall(call'[d])) /\ CallInv'
  BY <1>1, <1>5, <1>7, <1>8, OneCall
<1>10. \A q \in Readers, d \in Calls : Waits(q, d) => d # c
  BY <1>1 DEF Waits
<1>11. Looking'
  BY <1>1, <1>5, <1>10 DEF PoliciesInv, Looking, Waits
<1>12. TypeInv' /\ InOrder' /\ Cached'
  BY <1>1, <1>5, <1>9 DEF PoliciesInv, TypeInv, InOrder, Cached
<1> QED BY <1>9, <1>11, <1>12 DEF PoliciesInv

LEMMA InvStep == PoliciesInv /\ [Next]_vars => PoliciesInv'
<1> SUFFICES ASSUME PoliciesInv, [Next]_vars PROVE PoliciesInv'
  OBVIOUS
<1>1. CASE RewriteRules
  BY <1>1, RewriteKeeps
<1>2. CASE \E r \in Readers : LoadRules(r)
  BY <1>2, LoadKeeps
<1>3. CASE \E r \in Readers, c \in Calls : StatRules(r, c)
  BY <1>3, StatKeeps
<1>4. CASE \E c \in Calls : Close(c)
  BY <1>4, CloseKeeps
<1>5. CASE UNCHANGED vars
  <2>1. UNCHANGED <<writes, cache, reader, policy, call>>
    BY <1>5 DEF vars
  <2> QED BY <2>1 DEF PoliciesInv, TypeInv, InOrder, Cached, Looking, Waits, CallInv,
                      Sourced, Fresh, AnswerFacts, Observed, Filtered
<1> QED BY <1>1, <1>2, <1>3, <1>4, <1>5 DEF Next

(* The rules of a cache are filed under the mtime of a look at the file that *)
(* came before the reading of it, each reader waits for the call it has      *)
(* begun to evaluate, and every verdict is what the rules it read say.       *)
THEOREM PoliciesInvariant == Spec => []PoliciesInv
<1> QED BY InvInit, InvStep, PTL DEF Spec

(* RulesAreFresh: the verdict service and the ledger evaluate rules that     *)
(* were in the file when they looked at it, or came there since, or have its *)
(* mtime.                                                                    *)
THEOREM OnlyFreshRules == Spec => []RulesAreFresh
<1>1. PoliciesInv => RulesAreFresh
  BY DEF PoliciesInv, CallInv, Sourced, RulesAreFresh, Fresh
<1> QED BY <1>1, PoliciesInvariant, PTL

-----------------------------------------------------------------------------
(* Recursive functions up to a number                                        *)

Less == {p \in Nat \X Nat : p[1] < p[2]}

(* There is no infinite descent in the natural numbers.                      *)
LEMMA LessWellFounded == IsWellFoundedOn(Less, Nat)
<1>1. Less = OpToRel(<, Nat)
  BY DEF Less, OpToRel
<1> QED BY <1>1, NatLessThanWellFounded

(* A set of natural numbers that is not empty has a least element.           *)
LEMMA LeastOf ==
  ASSUME NEW T \in SUBSET Nat, T # {}
  PROVE  \E m \in T : \A n \in T : m <= n
<1>1. PICK m \in T : \A n \in T : <<n, m>> \notin Less
  BY LessWellFounded, WFMin
<1>2. ASSUME NEW n \in T PROVE m <= n
  <2>1. <<n, m>> \notin Less /\ n \in Nat /\ m \in Nat
    BY <1>1
  <2> QED BY <2>1 DEF Less
<1> QED BY <1>2

(* Induction: a set with 0, and with n + 1 for each n < top in it, has all   *)
(* numbers up to top.                                                        *)
Inductive(S, top) == 0 \in S /\ \A n \in 0..(top - 1) : n \in S => n + 1 \in S

LEMMA UpTo ==
  ASSUME NEW top \in Nat, NEW S, Inductive(S, top)
  PROVE  \A n \in 0..top : n \in S
<1>0. 0 \in S /\ \A n \in 0..(top - 1) : n \in S => n + 1 \in S
  BY DEF Inductive
<1> DEFINE T == {n \in 0..top : n \notin S}
<1>1. SUFFICES ASSUME T # {} PROVE FALSE
  OBVIOUS
<1>2. T \in SUBSET Nat
  OBVIOUS
<1>3. PICK m \in T : \A n \in T : m <= n
  BY <1>1, <1>2, LeastOf
<1>4. m \in 0..top /\ m \notin S /\ m # 0
  BY <1>0, <1>3
<1>5. m - 1 \in 0..(top - 1) /\ m - 1 \notin T
  BY <1>3, <1>4
<1>6. m - 1 \in S
  BY <1>4, <1>5
<1> QED BY <1>0, <1>4, <1>5, <1>6

-----------------------------------------------------------------------------
(* What the service answers and what the ledger records of one rule file     *)

LEMMA DecisionsFixpoint ==
  ASSUME NEW doc, NEW type, NEW attrs, NEW top \in Nat, top = Len(doc.rules)
  PROVE  DecisionUpTo(doc, type, attrs) =
           [i \in 0..top |->
              IF i = 0 THEN "allow"
              ELSE IF i \notin RulesFor(doc, type, ActionType(attrs))
              THEN DecisionUpTo(doc, type, attrs)[i - 1]
              ELSE Worse(DecisionUpTo(doc, type, attrs)[i - 1],
                         DecisionFor(doc.rules[i], Result(doc.rules[i], attrs) = "fail"))]
<1> DEFINE Step(i, d) == IF i \notin RulesFor(doc, type, ActionType(attrs)) THEN d
                         ELSE Worse(d, DecisionFor(doc.rules[i], Result(doc.rules[i], attrs) = "fail"))
           Good(n, f) == f = [i \in 0..n |-> IF i = 0 THEN "allow" ELSE Step(i, f[i - 1])]
           S == {n \in 0..top : \E f : Good(n, f)}
<1>0. DecisionUpTo(doc, type, attrs) = CHOOSE f : Good(top, f)
  BY DEF DecisionUpTo
<1> HIDE DEF Step
<1>1. 0 \in S
  <2> DEFINE f == [i \in 0..0 |-> "allow"]
  <2>1. Good(0, f) OBVIOUS
  <2>2. 0 \in 0..top OBVIOUS
  <2> HIDE DEF Good, f
  <2> QED BY <2>1, <2>2
<1>2. ASSUME NEW n \in 0..(top - 1), n \in S PROVE n + 1 \in S
  <2>1. PICK f : Good(n, f) BY <1>2
  <2> DEFINE g == [i \in 0..(n + 1) |-> IF i = n + 1 THEN Step(n + 1, f[n]) ELSE f[i]]
  <2>2. \A i \in 0..(n + 1) : g[i] = IF i = 0 THEN "allow" ELSE Step(i, g[i - 1])
    <3> SUFFICES ASSUME NEW i \in 0..(n + 1) PROVE g[i] = IF i = 0 THEN "allow" ELSE Step(i, g[i - 1])
      OBVIOUS
    <3>1. CASE i = n + 1
      <4>1. i # 0 /\ i - 1 = n /\ n \in 0..(n + 1) /\ n # n + 1 BY <3>1
      <4> QED BY <3>1, <4>1
    <3>2. CASE i # n + 1 /\ i # 0
      <4>1. i \in 0..n /\ i - 1 \in 0..(n + 1) /\ i - 1 # n + 1 BY <3>2
      <4>2. f[i] = Step(i, f[i - 1]) BY <2>1, <3>2, <4>1
      <4> QED BY <3>2, <4>1, <4>2
    <3>3. CASE i = 0
      <4>1. f[0] = "allow" BY <2>1
      <4> QED BY <3>3, <4>1
    <3> QED BY <3>1, <3>2, <3>3
  <2>3. Good(n + 1, g) BY <2>2
  <2>4. n + 1 \in 0..top OBVIOUS
  <2> QED BY <2>3, <2>4
<1>3. \E f : Good(top, f)
  <2> HIDE DEF S
  <2>1. Inductive(S, top) BY <1>1, <1>2 DEF Inductive
  <2>2. \A n \in 0..top : n \in S BY <2>1, UpTo
  <2>3. top \in S BY <2>2
  <2> QED BY <2>3 DEF S
<1>4. Good(top, DecisionUpTo(doc, type, attrs))
  <2> HIDE DEF Good
  <2> QED BY <1>0, <1>3
<1> QED BY <1>4 DEF Step

(* A decision for a well-formed rule, and the worse of two.                  *)
LEMMA DecisionOfRule ==
  ASSUME NEW r, WellFormedRule(r), NEW failure \in BOOLEAN
  PROVE  /\ DecisionFor(r, failure) \in Answers
         /\ DecisionFor(r, failure) # "allow" <=>
              failure /\ r.on_fail = "fail" /\ r.mode = "blocking" /\ r.failure_mode # "fail_open"
BY DEF WellFormedRule, DecisionFor, FailureDecision, Answers

LEMMA WorseOfTwo ==
  ASSUME NEW a \in Answers, NEW b \in Answers
  PROVE  /\ Worse(a, b) \in Answers
         /\ Worse(a, b) # "allow" <=> a # "allow" \/ b # "allow"
BY DEF Answers, Worse, Severity

(* The decision of a file is to allow unless a rule that applies says more.  *)
LEMMA DecisionOfFile ==
  ASSUME NEW doc, NEW type, NEW attrs, Len(doc.rules) \in Nat,
         \A i \in 1..Len(doc.rules) : WellFormedRule(doc.rules[i]),
         RulesFor(doc, type, ActionType(attrs)) \subseteq 1..Len(doc.rules)
  PROVE  DecisionUpTo(doc, type, attrs)[Len(doc.rules)] # "allow" <=>
           \E i \in RulesFor(doc, type, ActionType(attrs)) :
             DecisionFor(doc.rules[i], Result(doc.rules[i], attrs) = "fail") # "allow"
<1> DEFINE n == Len(doc.rules)
           D == DecisionUpTo(doc, type, attrs)
           A == RulesFor(doc, type, ActionType(attrs))
           Own(i) == DecisionFor(doc.rules[i], Result(doc.rules[i], attrs) = "fail")
           S == {i \in 0..n : D[i] \in Answers /\ (D[i] # "allow" <=> \E j \in A : j <= i /\ Own(j) # "allow")}
<1>0. n \in Nat /\ A \subseteq 1..n
  OBVIOUS
<1>1. D = [i \in 0..n |-> IF i = 0 THEN "allow" ELSE IF i \notin A THEN D[i - 1]
                          ELSE Worse(D[i - 1], Own(i))]
  <2>1. n = Len(doc.rules) /\ n \in Nat OBVIOUS
  <2> HIDE DEF n
  <2> QED BY <2>1, DecisionsFixpoint
<1>2. \A i \in 1..n : Own(i) \in Answers
  <2> SUFFICES ASSUME NEW i \in 1..n PROVE Own(i) \in Answers
    OBVIOUS
  <2> DEFINE failure == Result(doc.rules[i], attrs) = "fail"
  <2>1. failure \in BOOLEAN /\ WellFormedRule(doc.rules[i]) OBVIOUS
  <2> HIDE DEF failure
  <2>2. DecisionFor(doc.rules[i], failure) \in Answers BY <2>1, DecisionOfRule
  <2> QED BY <2>2 DEF failure
<1> HIDE DEF n, D, A, Own
<1>3. D[0] = "allow" /\ \A i \in 0..(n - 1) :
        D[i + 1] = IF i + 1 \notin A THEN D[i] ELSE Worse(D[i], Own(i + 1))
  <2>1. 0 \in 0..n BY <1>0
  <2>2. \A i \in 0..(n - 1) : i + 1 \in 0..n /\ i + 1 # 0 /\ (i + 1) - 1 = i BY <1>0
  <2> QED BY <1>1, <2>1, <2>2
<1>4. 0 \in S
  BY <1>0, <1>3 DEF Answers
<1>5. ASSUME NEW i \in 0..(n - 1), i \in S PROVE i + 1 \in S
  <2>1. D[i] \in Answers /\ (D[i] # "allow" <=> \E j \in A : j <= i /\ Own(j) # "allow")
    BY <1>5
  <2>2. \A j \in A : j <= i + 1 <=> j <= i \/ j = i + 1
    BY <1>0
  <2>3. CASE i + 1 \notin A
    BY <1>0, <1>3, <2>1, <2>2, <2>3
  <2>4. CASE i + 1 \in A
    <3>1. D[i + 1] \in Answers /\ (D[i + 1] # "allow" <=> D[i] # "allow" \/ Own(i + 1) # "allow")
      BY <1>0, <1>2, <1>3, <2>1, <2>4, WorseOfTwo
    <3> QED BY <1>0, <2>1, <2>2, <2>4, <3>1
  <2> QED BY <2>3, <2>4
<1>6. n \in S
  <2>1. n \in 0..n BY <1>0
  <2> HIDE DEF S
  <2>2. Inductive(S, n) BY <1>4, <1>5 DEF Inductive
  <2> QED BY <1>0, <2>1, <2>2, UpTo
<1>7. \A j \in A : j <= n
  BY <1>0
<1> QED BY <1>6, <1>7 DEF D, n, A, Own

(* What an evaluator can say, and that it says the same of attributes that   *)
(* agree on what the rule reads.                                             *)
LEMMA ResultOf ==
  ASSUME NEW r, WellFormedRule(r), NEW attrs
  PROVE  Result(r, attrs) \in {"not_applicable", "pass", "fail", "raises"}
<1>1. r.evaluator \in Evaluators
  BY DEF WellFormedRule
<1>2. CASE r.evaluator = "require_attribute"
  BY <1>2 DEF Result
<1>3. CASE r.evaluator = "action_type_allowed"
  BY <1>3 DEF Result
<1>4. CASE r.evaluator = "human_decision_is"
  BY <1>4 DEF Result
<1>5. CASE r.evaluator \in {"always_pass", "always_fail"}
  BY <1>5 DEF Result
<1> QED BY <1>1, <1>2, <1>3, <1>4, <1>5 DEF Evaluators

LEMMA SameResult ==
  ASSUME NEW r, WellFormedRule(r), NEW raw, NEW seen,
         \A n \in Reads(r) : Value(raw, n) = Value(seen, n)
  PROVE  ActionType(raw) = ActionType(seen) /\ Result(r, raw) = Result(r, seen)
<1>1. r.evaluator \in Evaluators
  BY DEF WellFormedRule
<1>2. ActionType(raw) = ActionType(seen)
  <2>1. "action_type" \in Reads(r)
    BY DEF Reads
  <2> QED BY <2>1 DEF ActionType
<1>3. CASE r.evaluator = "require_attribute"
  <2>1. Value(raw, r.params.attribute) = Value(seen, r.params.attribute)
    BY <1>3 DEF Reads
  <2> QED BY <1>2, <1>3, <2>1 DEF Result
<1>4. CASE r.evaluator = "action_type_allowed"
  BY <1>2, <1>4 DEF Result
<1>5. CASE r.evaluator = "human_decision_is"
  <2>1. Value(raw, "decision") = Value(seen, "decision")
    BY <1>5 DEF Reads
  <2> QED BY <1>2, <1>5, <2>1 DEF Result
<1>6. CASE r.evaluator \in {"always_pass", "always_fail"}
  BY <1>2, <1>6 DEF Result
<1> QED BY <1>1, <1>3, <1>4, <1>5, <1>6 DEF Evaluators

(* The record of a rule that did not raise escalates exactly when the        *)
(* decision for the rule is not to allow.                                    *)
LEMMA RecordEscalates ==
  ASSUME NEW r, WellFormedRule(r), NEW attrs, Result(r, attrs) # "raises"
  PROVE  Escalates([rule |-> r, result |-> Recorded(r, attrs)])
           <=> DecisionFor(r, Result(r, attrs) = "fail") # "allow"
<1> DEFINE result == Result(r, attrs)
           failure == result = "fail"
<1>1. Recorded(r, attrs) = IF result = "fail" THEN r.on_fail ELSE result
  BY DEF Recorded
<1> HIDE DEF result
<1>2. Recorded(r, attrs) = "fail" <=> failure /\ r.on_fail = "fail"
  BY <1>1
<1>3. failure \in BOOLEAN
  OBVIOUS
<1> HIDE DEF failure
<1>4. DecisionFor(r, failure) # "allow" <=>
        failure /\ r.on_fail = "fail" /\ r.mode = "blocking" /\ r.failure_mode # "fail_open"
  BY <1>3, DecisionOfRule
<1>5. Escalates([rule |-> r, result |-> Recorded(r, attrs)]) <=>
        Recorded(r, attrs) = "fail" /\ r.mode = "blocking" /\ r.failure_mode # "fail_open"
  BY DEF Escalates
<1> QED BY <1>2, <1>4, <1>5 DEF failure, result

(* A rule file that loads has its rules one after the other.                 *)
LEMMA LoadedRules ==
  ASSUME TypeInv, NEW read \in 1..Len(writes), Loads(writes[read].doc)
  PROVE  LET doc == writes[read].doc IN
           /\ Len(doc.rules) \in Nat /\ DOMAIN doc.rules = 1..Len(doc.rules)
           /\ \A i \in 1..Len(doc.rules) : WellFormedRule(doc.rules[i])
<1>1. writes[read] \in Write
  BY DEF TypeInv
<1>2. writes[read].doc \in RuleFiles
  BY <1>1 DEF Write
<1> DEFINE doc == writes[read].doc
<1>3. doc.rules \in Seq(Range(doc.rules)) /\ \A i \in DOMAIN doc.rules : WellFormedRule(doc.rules[i])
  BY <1>2, PoliciesAssumption DEF Loads
<1> HIDE DEF doc
<1>4. Len(doc.rules) \in Nat /\ DOMAIN doc.rules = 1..Len(doc.rules)
  BY <1>3
<1> QED BY <1>3, <1>4 DEF doc

(* One call that both evaluated with the same file.                          *)
LEMMA OneCallAgrees ==
  ASSUME NEW doc, NEW type, NEW raw, NEW seen,
         Len(doc.rules) \in Nat, DOMAIN doc.rules = 1..Len(doc.rules),
         \A i \in 1..Len(doc.rules) : WellFormedRule(doc.rules[i]),
         \A i \in DOMAIN doc.rules : \A n \in Reads(doc.rules[i]) : Value(raw, n) = Value(seen, n),
         Decide(doc, type, raw) \in Answers
  PROVE  LET verdicts == EvaluateRules(doc, type, seen) IN
           Decide(doc, type, raw) # "allow" <=> \E i \in DOMAIN verdicts : Escalates(verdicts[i])
<1> DEFINE A == RulesFor(doc, type, ActionType(raw))
           Own(i) == DecisionFor(doc.rules[i], Result(doc.rules[i], raw) = "fail")
           verdicts == EvaluateRules(doc, type, seen)
<1>1. \A i \in 1..Len(doc.rules) :
        ActionType(raw) = ActionType(seen) /\ Result(doc.rules[i], raw) = Result(doc.rules[i], seen)
  BY SameResult
<1>2. A \subseteq 1..Len(doc.rules) /\ RulesFor(doc, type, ActionType(seen)) \subseteq 1..Len(doc.rules)
  BY DEF RulesFor
<1>3. A = RulesFor(doc, type, ActionType(seen))
  BY <1>1, <1>2 DEF RulesFor
<1>4. /\ \A i \in A : Result(doc.rules[i], raw) # "raises"
      /\ Decide(doc, type, raw) = DecisionUpTo(doc, type, raw)[Len(doc.rules)]
  BY DEF Decide, Answers
<1>5. Decide(doc, type, raw) # "allow" <=> \E i \in A : Own(i) # "allow"
  BY <1>2, <1>4, DecisionOfFile
<1>6. /\ DOMAIN verdicts = A
      /\ \A i \in A : verdicts[i] = [rule |-> doc.rules[i], result |-> Recorded(doc.rules[i], seen)]
  BY <1>3 DEF EvaluateRules
<1>7. ASSUME NEW i \in A PROVE Escalates(verdicts[i]) <=> Own(i) # "allow"
  <2>1. WellFormedRule(doc.rules[i]) /\ Result(doc.rules[i], seen) # "raises"
    BY <1>1, <1>2, <1>4
  <2>2. Escalates([rule |-> doc.rules[i], result |-> Recorded(doc.rules[i], seen)])
          <=> DecisionFor(doc.rules[i], Result(doc.rules[i], seen) = "fail") # "allow"
    BY <2>1, RecordEscalates
  <2>3. Result(doc.rules[i], raw) = Result(doc.rules[i], seen)
    BY <1>1, <1>2
  <2> QED BY <1>6, <2>2, <2>3
<1> HIDE DEF A, Own, verdicts
<1>8. Decide(doc, type, raw) # "allow" <=> \E i \in DOMAIN verdicts : Escalates(verdicts[i])
  BY <1>5, <1>6, <1>7
<1> QED BY <1>8 DEF verdicts

(* VerdictsAgree: where both evaluated the same rules, of attributes that    *)
(* redaction did not change, the ledger has recorded a failed blocking rule  *)
(* exactly for the calls that the service did not simply allow.              *)
THEOREM ObservedAsAnswered == Spec => []VerdictsAgree
<1>1. ASSUME PoliciesInv PROVE VerdictsAgree
  <2> SUFFICES ASSUME NEW c \in Calls,
                      call[c].gate.answer \in Answers, call[c].observed.answer = "observed",
                      writes[call[c].gate.read].doc = writes[call[c].observed.read].doc,
                      Unchanged(c)
               PROVE  call[c].gate.answer # "allow" <=>
                        \E i \in DOMAIN call[c].observed.verdicts : Escalates(call[c].observed.verdicts[i])
    BY DEF VerdictsAgree, Answers
  <2> DEFINE doc == writes[call[c].observed.read].doc
             type == SpanOf[c].type
             raw == Attributes(SpanOf[c], RawText(SpanOf[c]))
             seen == Attributes(SpanOf[c], call[c].shipped.text)
  <2>1. call[c].gate.answer = Decide(doc, type, raw)
    BY <1>1 DEF PoliciesInv, CallInv, AnswerFacts
  <2>2. /\ call[c].observed.read \in 1..Len(writes) /\ Loads(doc)
        /\ call[c].observed.verdicts = EvaluateRules(doc, type, seen)
    BY <1>1 DEF PoliciesInv, CallInv, Observed
  <2>3. /\ Len(doc.rules) \in Nat /\ DOMAIN doc.rules = 1..Len(doc.rules)
        /\ \A i \in 1..Len(doc.rules) : WellFormedRule(doc.rules[i])
    BY <1>1, <2>2, LoadedRules DEF PoliciesInv
  <2>4. \A i \in DOMAIN doc.rules : \A n \in Reads(doc.rules[i]) : Value(raw, n) = Value(seen, n)
    BY DEF Unchanged
  <2> HIDE DEF doc, type, raw, seen
  <2>5. Decide(doc, type, raw) \in Answers
    BY <2>1
  <2> QED BY <2>1, <2>2, <2>3, <2>4, <2>5, OneCallAgrees
<1> QED BY <1>1, PoliciesInvariant, PTL

-----------------------------------------------------------------------------
(* What a redaction policy that loads can say                                *)

LEMMA StrategiesAreTypes ==
  ASSUME NEW doc, PolicyLoads(doc), NEW name
  PROVE  name \in DOMAIN Strategies(doc) => Strategies(doc)[name] \in Types
<1>1. \A s \in DOMAIN doc.strategies : doc.strategies[s] \in Types
  BY DEF PolicyLoads, Range
<1>2. "full" \in Types
  BY DEF Types
<1> QED BY <1>1, <1>2 DEF Strategies

(* The position of the first rule is the position of a rule.                 *)
LEMMA FirstRuled ==
  ASSUME NEW rules, rules \in Seq(Range(rules)), NEW ruled, ruled \subseteq DOMAIN rules, ruled # {}
  PROVE  Min(ruled) \in ruled
<1>1. DOMAIN rules \subseteq Nat
  <2>1. DOMAIN rules = 1..Len(rules) /\ Len(rules) \in Nat
    OBVIOUS
  <2> QED BY <2>1
<1>2. ruled \in SUBSET Nat
  BY <1>1
<1>3. \E m \in ruled : \A n \in ruled : m <= n
  BY <1>2, LeastOf
<1> QED BY <1>3 DEF Min

LEMMA FieldStrategies ==
  ASSUME NEW doc, PolicyLoads(doc), doc.fields \in Seq(Range(doc.fields)), NEW key
  PROVE  StrategyForField(doc, key) \in {"none"} \cup Types
<1> DEFINE ruled == {i \in DOMAIN doc.fields : doc.fields[i].field = key}
           first == Min(ruled)
<1>1. CASE ruled = {}
  BY <1>1 DEF StrategyForField
<1>2. CASE ruled # {}
  <2>1. first \in DOMAIN doc.fields
    <3>1. ruled \subseteq DOMAIN doc.fields
      OBVIOUS
    <3>2. Min(ruled) \in ruled
      <4> HIDE DEF ruled
      <4> QED BY <1>2, <3>1, FirstRuled
    <3> QED BY <3>1, <3>2
  <2>2. StrategyForField(doc, key) = Resolve(doc, doc.fields[first].strategy)
    BY <1>2 DEF StrategyForField
  <2> HIDE DEF first
  <2>3. doc.fields[first].strategy \in DOMAIN Strategies(doc)
    BY <2>1 DEF PolicyLoads
  <2> QED BY <2>2, <2>3, StrategiesAreTypes DEF Resolve
<1> QED BY <1>1, <1>2

LEMMA PatternStrategies ==
  ASSUME NEW doc, PolicyLoads(doc), doc.patterns \in Seq(Range(doc.patterns)), NEW type \in Floor
  PROVE  StrategyForPattern(doc, type) \in {"full", "hmac"}
<1> DEFINE ruled == {i \in DOMAIN doc.patterns : doc.patterns[i].type = type}
           name == IF ruled = {} THEN doc.default ELSE doc.patterns[Min(ruled)].strategy
<1>1. AsPolicySays(doc, type) = Resolve(doc, name)
  BY DEF AsPolicySays
<1>2. name \in DOMAIN Strategies(doc)
  <2>1. CASE ruled = {}
    BY <2>1 DEF PolicyLoads
  <2>2. CASE ruled # {}
    <3>1. ruled \subseteq DOMAIN doc.patterns
      OBVIOUS
    <3>2. Min(ruled) \in ruled
      <4> HIDE DEF ruled
      <4> QED BY <2>2, <3>1, FirstRuled
    <3>3. Min(ruled) \in DOMAIN doc.patterns
      BY <3>1, <3>2
    <3> HIDE DEF ruled
    <3> QED BY <2>2, <3>3 DEF PolicyLoads
  <2> QED BY <2>1, <2>2
<1> HIDE DEF name
<1>3. AsPolicySays(doc, type) \in Types
  BY <1>1, <1>2, StrategiesAreTypes DEF Resolve
<1> QED BY <1>3 DEF StrategyForPattern, Types

LEMMA InheritedIsNamed ==
  ASSUME NEW doc, PolicyLoads(doc), doc.fields \in Seq(Range(doc.fields)), NEW leaf
  PROVE  Inherited(doc, leaf) \in {"none"} \cup Types
BY FieldStrategies DEF Inherited

-----------------------------------------------------------------------------
(* Of the findings of a text, the ones that are kept                         *)

LEMMA PlaceOfHit ==
  ASSUME NEW leaf, WellFormedLeaf(leaf), NEW h \in leaf.hits
  PROVE  Place(leaf.hits, h) \in 0..(Cardinality(leaf.hits) - 1)
<1> DEFINE before == {k \in leaf.hits : Longer(k, h)}
<1>1. h.to \in Nat /\ h.from \in Nat /\ h.rank \in Nat
  BY DEF WellFormedLeaf
<1>2. ~Longer(h, h)
  BY <1>1 DEF Longer
<1>3. before \subseteq leaf.hits \ {h}
  BY <1>2
<1>4. IsFiniteSet(leaf.hits)
  BY DEF WellFormedLeaf
<1>5. /\ IsFiniteSet(leaf.hits \ {h})
      /\ Cardinality(leaf.hits \ {h}) = Cardinality(leaf.hits) - 1
  BY <1>4, FS_RemoveElement
<1> HIDE DEF before
<1>6. IsFiniteSet(before) /\ Cardinality(before) <= Cardinality(leaf.hits \ {h})
  BY <1>3, <1>5, FS_Subset
<1>7. Cardinality(before) \in Nat /\ Cardinality(leaf.hits) \in Nat
  BY <1>4, <1>6, FS_CardinalityType
<1>8. Cardinality(before) \in 0..(Cardinality(leaf.hits) - 1)
  BY <1>5, <1>6, <1>7
<1> QED BY <1>8 DEF before, Place

LEMMA LongerComesFirst ==
  ASSUME NEW leaf, WellFormedLeaf(leaf), NEW h \in leaf.hits, NEW k \in leaf.hits, Longer(h, k)
  PROVE  Place(leaf.hits, h) < Place(leaf.hits, k)
<1> DEFINE Before(x) == {y \in leaf.hits : Longer(y, x)}
<1>1. \A x \in leaf.hits : x.to \in Nat /\ x.from \in Nat /\ x.rank \in Nat
  BY DEF WellFormedLeaf
<1>2. IsFiniteSet(leaf.hits)
  BY DEF WellFormedLeaf
<1>3. h \notin Before(h)
  BY <1>1 DEF Longer
<1>4. h \in Before(k)
  OBVIOUS
<1>5. ASSUME NEW y \in leaf.hits, Longer(y, h) PROVE Longer(y, k)
  BY <1>1, <1>5 DEF Longer
<1>6. Before(h) \cup {h} \subseteq Before(k)
  BY <1>4, <1>5
<1>7. IsFiniteSet(Before(h)) /\ IsFiniteSet(Before(k))
  BY <1>2, FS_Subset
<1> DEFINE first == Before(h)
           second == Before(k)
<1> HIDE DEF first, second
<1>8. h \notin first /\ first \cup {h} \subseteq second /\ IsFiniteSet(first) /\ IsFiniteSet(second)
  BY <1>3, <1>6, <1>7 DEF first, second
<1>9. IsFiniteSet(first \cup {h}) /\ Cardinality(first \cup {h}) = Cardinality(first) + 1
  BY <1>8, FS_AddElement
<1>10. Cardinality(first \cup {h}) <= Cardinality(second)
  BY <1>8, FS_Subset
<1>11. Cardinality(first) \in Nat /\ Cardinality(second) \in Nat
  BY <1>8, FS_CardinalityType
<1>12. Cardinality(first) < Cardinality(second)
  BY <1>9, <1>10, <1>11
<1> QED BY <1>12 DEF first, second, Place

LEMMA OnePlaceEach ==
  ASSUME NEW leaf, WellFormedLeaf(leaf), NEW h \in leaf.hits, NEW k \in leaf.hits,
         Place(leaf.hits, h) = Place(leaf.hits, k)
  PROVE  h = k
<1>1. h = k \/ Longer(h, k) \/ Longer(k, h)
  BY DEF WellFormedLeaf
<1>2. Place(leaf.hits, h) \in Int
  BY PlaceOfHit
<1>3. ~Longer(h, k) /\ ~Longer(k, h)
  BY <1>2, LongerComesFirst
<1> QED BY <1>1, <1>3

LEMMA KeptFixpoint ==
  ASSUME NEW hits, NEW top \in Nat, top = Cardinality(hits)
  PROVE  KeptUpTo(hits) =
           [i \in 0..top |->
              IF i = 0 THEN {}
              ELSE KeptUpTo(hits)[i - 1] \cup
                     {h \in hits : /\ Place(hits, h) = i - 1
                                   /\ \A k \in KeptUpTo(hits)[i - 1] : Apart(h, k)}]
<1> DEFINE Step(i, d) == d \cup {h \in hits : Place(hits, h) = i - 1 /\ \A k \in d : Apart(h, k)}
           Good(n, f) == f = [i \in 0..n |-> IF i = 0 THEN {} ELSE Step(i, f[i - 1])]
           S == {n \in 0..top : \E f : Good(n, f)}
<1>0. KeptUpTo(hits) = CHOOSE f : Good(top, f)
  BY DEF KeptUpTo
<1> HIDE DEF Step
<1>1. 0 \in S
  <2> DEFINE f == [i \in 0..0 |-> {}]
  <2>1. Good(0, f) OBVIOUS
  <2>2. 0 \in 0..top OBVIOUS
  <2> HIDE DEF Good, f
  <2> QED BY <2>1, <2>2
<1>2. ASSUME NEW n \in 0..(top - 1), n \in S PROVE n + 1 \in S
  <2>1. PICK f : Good(n, f) BY <1>2
  <2> DEFINE g == [i \in 0..(n + 1) |-> IF i = n + 1 THEN Step(n + 1, f[n]) ELSE f[i]]
  <2>2. \A i \in 0..(n + 1) : g[i] = IF i = 0 THEN {} ELSE Step(i, g[i - 1])
    <3> SUFFICES ASSUME NEW i \in 0..(n + 1) PROVE g[i] = IF i = 0 THEN {} ELSE Step(i, g[i - 1])
      OBVIOUS
    <3>1. CASE i = n + 1
      <4>1. i # 0 /\ i - 1 = n /\ n \in 0..(n + 1) /\ n # n + 1 BY <3>1
      <4> QED BY <3>1, <4>1
    <3>2. CASE i # n + 1 /\ i # 0
      <4>1. i \in 0..n /\ i - 1 \in 0..(n + 1) /\ i - 1 # n + 1 BY <3>2
      <4>2. f[i] = Step(i, f[i - 1]) BY <2>1, <3>2, <4>1
      <4> QED BY <3>2, <4>1, <4>2
    <3>3. CASE i = 0
      <4>1. f[0] = {} BY <2>1
      <4> QED BY <3>3, <4>1
    <3> QED BY <3>1, <3>2, <3>3
  <2>3. Good(n + 1, g) BY <2>2
  <2>4. n + 1 \in 0..top OBVIOUS
  <2> QED BY <2>3, <2>4
<1>3. \E f : Good(top, f)
  <2> HIDE DEF S
  <2>1. Inductive(S, top) BY <1>1, <1>2 DEF Inductive
  <2>2. \A n \in 0..top : n \in S BY <2>1, UpTo
  <2>3. top \in S BY <2>2
  <2> QED BY <2>3 DEF S
<1>4. Good(top, KeptUpTo(hits))
  <2> HIDE DEF Good
  <2> QED BY <1>0, <1>3
<1> QED BY <1>4 DEF Step

(* The findings that are kept are apart from each other, and each finding    *)
(* overlaps one of them.                                                     *)
LEMMA KeepersCover ==
  ASSUME NEW leaf, WellFormedLeaf(leaf)
  PROVE  /\ Keepers(leaf.hits) \subseteq leaf.hits
         /\ \A h, k \in Keepers(leaf.hits) : h = k \/ Apart(h, k)
         /\ \A h \in leaf.hits : \E k \in Keepers(leaf.hits) : ~Apart(h, k)
<1> DEFINE hits == leaf.hits
           n == Cardinality(hits)
           K == KeptUpTo(hits)
           P == [h \in hits |-> Place(hits, h)]
           New(i) == {h \in hits : P[h] = i /\ \A k \in K[i] : Apart(h, k)}
           Good(i) == /\ K[i] \subseteq hits /\ \A h \in K[i] : P[h] < i
                      /\ \A h, k \in K[i] : h = k \/ Apart(h, k)
                      /\ \A h \in hits : P[h] < i => \E k \in K[i] : ~Apart(h, k)
           S == {i \in 0..n : Good(i)}
<1>1. n \in Nat
  BY FS_CardinalityType DEF WellFormedLeaf
<1>2. K = [i \in 0..n |-> IF i = 0 THEN {} ELSE K[i - 1] \cup
             {h \in hits : Place(hits, h) = i - 1 /\ \A k \in K[i - 1] : Apart(h, k)}]
  <2>1. n = Cardinality(hits)
    OBVIOUS
  <2> HIDE DEF n, hits
  <2> QED BY <1>1, <2>1, KeptFixpoint
<1>3. \A h \in hits : P[h] = Place(hits, h) /\ P[h] \in 0..(n - 1)
  BY PlaceOfHit
<1>4. \A h, k \in hits : P[h] = P[k] => h = k
  BY <1>3, OnePlaceEach
<1>5. \A h, k \in hits : /\ h.to \in Int /\ h.from \in Int /\ h.from <= h.to
  BY DEF WellFormedLeaf
<1>6. \A h, k \in hits : ~Apart(h, h) /\ (Apart(h, k) => Apart(k, h))
  BY <1>5 DEF Apart
<1> HIDE DEF hits, n, P
<1>7. K[0] = {} /\ \A i \in 0..(n - 1) : K[i + 1] = K[i] \cup New(i)
  <2> HIDE DEF K
  <2>1. 0 \in 0..n /\ \A i \in 0..(n - 1) : i + 1 \in 0..n /\ i + 1 # 0 /\ (i + 1) - 1 = i
    BY <1>1
  <2>2. K[0] = {}
    BY <1>2, <2>1
  <2>3. ASSUME NEW i \in 0..(n - 1) PROVE K[i + 1] = K[i] \cup New(i)
    <3> DEFINE j == i + 1
    <3>2. j \in 0..n /\ j # 0 /\ j - 1 = i
      BY <2>1
    <3> HIDE DEF j
    <3>3. K[j] = K[j - 1] \cup {h \in hits : Place(hits, h) = j - 1 /\ \A k \in K[j - 1] : Apart(h, k)}
      BY <1>2, <3>2
    <3>1. K[j] = K[i] \cup {h \in hits : Place(hits, h) = i /\ \A k \in K[i] : Apart(h, k)}
      BY <3>2, <3>3
    <3> USE DEF j
    <3> QED BY <1>3, <3>1
  <2> QED BY <2>2, <2>3
<1> HIDE DEF K
<1>8. 0 \in S
  BY <1>1, <1>3, <1>7
<1>9. ASSUME NEW i \in 0..(n - 1), i \in S PROVE i + 1 \in S
  <2>1. Good(i)
    BY <1>9
  <2>2. K[i + 1] = K[i] \cup New(i)
    BY <1>7
  <2>3. K[i + 1] \subseteq hits /\ \A h \in K[i + 1] : P[h] < i + 1
    BY <1>1, <1>3, <2>1, <2>2
  <2>4. ASSUME NEW h \in K[i + 1], NEW k \in K[i + 1] PROVE h = k \/ Apart(h, k)
    <3>1. CASE h \in K[i] /\ k \in K[i]
      BY <2>1, <3>1
    <3>2. CASE h \in New(i) /\ k \in K[i]
      BY <3>2
    <3>3. CASE h \in K[i] /\ k \in New(i)
      BY <1>6, <2>3, <3>3
    <3>4. CASE h \in New(i) /\ k \in New(i)
      BY <1>4, <3>4
    <3> QED BY <2>2, <3>1, <3>2, <3>3, <3>4
  <2>5. ASSUME NEW h \in hits, P[h] < i + 1 PROVE \E k \in K[i + 1] : ~Apart(h, k)
    <3>1. CASE P[h] < i
      BY <2>1, <2>2, <3>1
    <3>2. CASE P[h] = i /\ \A k \in K[i] : Apart(h, k)
      <4>1. h \in New(i)
        BY <3>2
      <4> QED BY <1>6, <2>2, <4>1
    <3>3. CASE \E k \in K[i] : ~Apart(h, k)
      BY <2>2, <3>3
    <3> QED BY <1>1, <1>3, <2>5, <3>1, <3>2, <3>3
  <2>6. i + 1 \in 0..n
    BY <1>1
  <2> QED BY <2>3, <2>4, <2>5, <2>6
<1>10. n \in S
  <2> HIDE DEF S
  <2>1. Inductive(S, n)
    BY <1>8, <1>9 DEF Inductive
  <2>2. \A i \in 0..n : i \in S
    BY <1>1, <2>1, UpTo
  <2> QED BY <1>1, <2>2
<1>11. Good(n) /\ K[n] = Keepers(leaf.hits)
  BY <1>10 DEF K, n, hits, Keepers
<1>12. \A h \in hits : P[h] < n
  BY <1>1, <1>3
<1> QED BY <1>11, <1>12 DEF hits

-----------------------------------------------------------------------------
(* Replacing findings in a text                                              *)

\* What a splice makes of a text.
Spliced(new, text, from, to) ==
  /\ new \in Seq(Int) /\ Len(new) = Len(text) - (to - from)
  /\ \A j \in 1..(from - 1) : new[j] = text[j]
  /\ new[from] = Mark
  /\ \A j \in (from + 1)..Len(new) :
       /\ to + j - from \in 1..Len(text)
       /\ new[j] = text[to + j - from]

LEMMA SpliceOut ==
  ASSUME NEW text \in Seq(Int), NEW to \in 1..Len(text), NEW from \in 1..to
  PROVE  Spliced((SubSeq(text, 1, from - 1) \o <<Mark>>) \o SubSeq(text, to + 1, Len(text)), text, from, to)
<1> DEFINE mark == Mark
           left == SubSeq(text, 1, from - 1)
           marked == left \o <<mark>>
           right == SubSeq(text, to + 1, Len(text))
           new == marked \o right
           n == Len(text)
<1>0. n \in Nat /\ to \in Nat /\ from \in Nat /\ from >= 1 /\ to >= from /\ to <= n
  OBVIOUS
<1>1. /\ left \in Seq(Int) /\ Len(left) = from - 1
      /\ \A j \in 1..(from - 1) : left[j] = text[j]
  <2>1. \A i \in 1..(from - 1) : text[i] \in Int
    BY <1>0
  <2>2. /\ left \in Seq(Int)
        /\ Len(left) = IF 1 <= from - 1 THEN (from - 1) - 1 + 1 ELSE 0
        /\ \A i \in 1..((from - 1) - 1 + 1) : left[i] = text[1 + i - 1]
    BY <1>0, <2>1, SubSeqProperties
  <2> HIDE DEF left
  <2> QED BY <1>0, <2>2
<1>2. /\ right \in Seq(Int) /\ Len(right) = n - to
      /\ \A j \in 1..(n - to) : right[j] = text[to + j]
  <2>1. \A i \in (to + 1)..n : text[i] \in Int
    BY <1>0
  <2>2. /\ right \in Seq(Int)
        /\ Len(right) = IF to + 1 <= n THEN n - (to + 1) + 1 ELSE 0
        /\ \A i \in 1..(n - (to + 1) + 1) : right[i] = text[(to + 1) + i - 1]
    BY <1>0, <2>1, SubSeqProperties
  <2> HIDE DEF right, n
  <2>3. Len(right) = n - to
    BY <1>0, <2>2
  <2>4. ASSUME NEW i \in 1..(n - to) PROVE right[i] = text[to + i]
    <3>1. i \in 1..(n - (to + 1) + 1) /\ (to + 1) + i - 1 = to + i
      BY <1>0
    <3> QED BY <2>2, <3>1
  <2> QED BY <2>2, <2>3, <2>4
<1>3. mark \in Int
  BY DEF Mark
<1> HIDE DEF left, right, n, mark
<1>11. <<mark>> \in Seq(Int) /\ Len(<<mark>>) = 1 /\ <<mark>>[1] = mark
  BY <1>3
<1>4. /\ marked \in Seq(Int) /\ Len(marked) = from
      /\ \A j \in 1..(from - 1) : marked[j] = text[j]
      /\ marked[from] = mark
  <2>1. /\ marked \in Seq(Int) /\ Len(marked) = Len(left) + Len(<<mark>>)
        /\ \A i \in 1..(Len(left) + Len(<<mark>>)) :
             marked[i] = IF i <= Len(left) THEN left[i] ELSE <<mark>>[i - Len(left)]
    BY <1>1, <1>11, ConcatProperties
  <2> HIDE DEF marked
  <2>2. Len(marked) = from
    BY <1>0, <1>1, <1>11, <2>1
  <2>3. ASSUME NEW i \in 1..(from - 1) PROVE marked[i] = text[i]
    BY <1>0, <1>1, <1>11, <2>1
  <2>4. marked[from] = mark
    <3>1. from - (from - 1) = 1 /\ from - 1 \in Nat /\ from \in Nat BY <1>0
    <3>2. Len(left) = from - 1 BY <1>0, <1>1
    <3>3. from \in 1..(Len(left) + Len(<<mark>>)) /\ ~ (from <= Len(left))
      BY <1>0, <1>11, <3>1, <3>2
    <3>4. marked[from] = <<mark>>[from - Len(left)]
      BY <2>1, <3>3
    <3> QED BY <1>11, <3>1, <3>2, <3>4
  <2> QED BY <2>1, <2>2, <2>3, <2>4
<1> HIDE DEF marked
<1>5. /\ new \in Seq(Int) /\ Len(new) = from + (n - to)
      /\ \A i \in 1..(from + (n - to)) : new[i] = IF i <= from THEN marked[i] ELSE right[i - from]
  <2>1. /\ new \in Seq(Int) /\ Len(new) = Len(marked) + Len(right)
        /\ \A i \in 1..(Len(marked) + Len(right)) :
             new[i] = IF i <= Len(marked) THEN marked[i] ELSE right[i - Len(marked)]
    BY <1>2, <1>4, ConcatProperties
  <2> HIDE DEF new
  <2> QED BY <1>2, <1>4, <2>1
<1> HIDE DEF new
<1>6. Len(new) = n - (to - from)
  BY <1>0, <1>5
<1>7. \A j \in 1..(from - 1) : new[j] = text[j]
  <2> SUFFICES ASSUME NEW j \in 1..(from - 1) PROVE new[j] = text[j]
    OBVIOUS
  <2>1. j \in 1..(from + (n - to)) /\ j <= from
    BY <1>0
  <2> QED BY <1>4, <1>5, <2>1
<1>8. new[from] = mark
  <2>1. from \in 1..(from + (n - to)) /\ from <= from
    BY <1>0
  <2> QED BY <1>4, <1>5, <2>1
<1>9. ASSUME NEW j \in (from + 1)..Len(new)
      PROVE  to + j - from \in 1..n /\ new[j] = text[to + j - from]
  <2>1. /\ j \in 1..(from + (n - to)) /\ ~(j <= from)
        /\ j - from \in 1..(n - to) /\ to + j - from \in 1..n /\ to + (j - from) = to + j - from
    BY <1>0, <1>6
  <2> QED BY <1>2, <1>5, <2>1
<1>10. n = Len(text) /\ mark = Mark /\ new = (SubSeq(text, 1, from - 1) \o <<Mark>>) \o SubSeq(text, to + 1, Len(text))
  BY DEF n, new, mark, marked, left, right
<1>12. Spliced(new, text, from, to)
  BY <1>5, <1>6, <1>7, <1>8, <1>9, <1>10 DEF Spliced
<1> QED BY <1>10, <1>12

LEMMA SpliceOnce ==
  ASSUME NEW text \in Seq(Int), NEW h, h.to \in 1..Len(text), h.from \in 1..h.to
  PROVE  Spliced(Splice(text, h), text, h.from, h.to)
BY SpliceOut DEF Splice

LEMMA ReplacedFixpoint ==
  ASSUME NEW text, NEW hits, NEW top \in Nat, top = Len(text)
  PROVE  ReplacedFrom(text, hits) =
           [i \in 0..top |->
              IF i = 0 THEN text
              ELSE IF {h \in hits : h.from = top + 1 - i} = {} THEN ReplacedFrom(text, hits)[i - 1]
              ELSE Splice(ReplacedFrom(text, hits)[i - 1],
                          CHOOSE h \in {h \in hits : h.from = top + 1 - i} : TRUE)]
<1> DEFINE Here(i) == {h \in hits : h.from = top + 1 - i}
           Step(i, d) == IF Here(i) = {} THEN d ELSE Splice(d, CHOOSE h \in Here(i) : TRUE)
           Good(n, f) == f = [i \in 0..n |-> IF i = 0 THEN text ELSE Step(i, f[i - 1])]
           S == {n \in 0..top : \E f : Good(n, f)}
<1>0. ReplacedFrom(text, hits) = CHOOSE f : Good(top, f)
  BY DEF ReplacedFrom
<1> HIDE DEF Step
<1>1. 0 \in S
  <2> DEFINE f == [i \in 0..0 |-> text]
  <2>1. Good(0, f) OBVIOUS
  <2>2. 0 \in 0..top OBVIOUS
  <2> HIDE DEF Good, f
  <2> QED BY <2>1, <2>2
<1>2. ASSUME NEW n \in 0..(top - 1), n \in S PROVE n + 1 \in S
  <2>1. PICK f : Good(n, f) BY <1>2
  <2> DEFINE g == [i \in 0..(n + 1) |-> IF i = n + 1 THEN Step(n + 1, f[n]) ELSE f[i]]
  <2>2. \A i \in 0..(n + 1) : g[i] = IF i = 0 THEN text ELSE Step(i, g[i - 1])
    <3> SUFFICES ASSUME NEW i \in 0..(n + 1) PROVE g[i] = IF i = 0 THEN text ELSE Step(i, g[i - 1])
      OBVIOUS
    <3>1. CASE i = n + 1
      <4>1. i # 0 /\ i - 1 = n /\ n \in 0..(n + 1) /\ n # n + 1 BY <3>1
      <4> QED BY <3>1, <4>1
    <3>2. CASE i # n + 1 /\ i # 0
      <4>1. i \in 0..n /\ i - 1 \in 0..(n + 1) /\ i - 1 # n + 1 BY <3>2
      <4>2. f[i] = Step(i, f[i - 1]) BY <2>1, <3>2, <4>1
      <4> QED BY <3>2, <4>1, <4>2
    <3>3. CASE i = 0
      <4>1. f[0] = text BY <2>1
      <4> QED BY <3>3, <4>1
    <3> QED BY <3>1, <3>2, <3>3
  <2>3. Good(n + 1, g) BY <2>2
  <2>4. n + 1 \in 0..top OBVIOUS
  <2> QED BY <2>3, <2>4
<1>3. \E f : Good(top, f)
  <2> HIDE DEF S
  <2>1. Inductive(S, top) BY <1>1, <1>2 DEF Inductive
  <2>2. \A n \in 0..top : n \in S BY <2>1, UpTo
  <2>3. top \in S BY <2>2
  <2> QED BY <2>3 DEF S
<1>4. Good(top, ReplacedFrom(text, hits))
  <2> HIDE DEF Good
  <2> QED BY <1>0, <1>3
<1> QED BY <1>4 DEF Step
\* Hits that may be replaced in a text of n cells.
Disjoint(hits, n) ==
  /\ \A h \in hits : h.to \in 1..n /\ h.from \in 1..h.to
  /\ \A h, k \in hits : h = k \/ Apart(h, k)

\* What the text is when the hits that begin after p are replaced: cells have
\* moved to the left only, those before the hits not at all, and of the hits
\* there is nothing left.
Midway(text, hits, n, p) ==
  /\ text \in Seq(Int)
  /\ \A j \in 1..Len(text) : text[j] = Mark \/ text[j] >= j
  /\ \A j \in 1..n : (\A h \in hits : h.from > p => j < h.from) => j <= Len(text) /\ text[j] = j
  /\ \A h \in hits : h.from > p => \A j \in 1..Len(text) : text[j] \notin h.from..h.to

LEMMA MidwayInit ==
  ASSUME NEW n \in Nat, NEW text \in Seq(Int), Len(text) = n, \A j \in 1..n : text[j] = j,
         NEW hits, Disjoint(hits, n)
  PROVE  Midway(text, hits, n, n)
BY DEF Midway, Disjoint

LEMMA MidwaySkip ==
  ASSUME NEW n \in Nat, NEW p \in 1..n, NEW hits, Disjoint(hits, n), NEW text, Midway(text, hits, n, p),
         \A h \in hits : h.from # p
  PROVE  Midway(text, hits, n, p - 1)
<1>1. \A h \in hits : h.from \in Int
  BY DEF Disjoint
<1>2. \A h \in hits : h.from > p - 1 <=> h.from > p
  BY <1>1
<1> QED BY <1>2 DEF Midway

LEMMA MidwaySplice ==
  ASSUME NEW n \in Nat, NEW p \in 1..n, NEW hits, Disjoint(hits, n), NEW text, Midway(text, hits, n, p),
         NEW h \in hits, h.from = p
  PROVE  Midway(Splice(text, h), hits, n, p - 1)
<1> DEFINE new == Splice(text, h)
           to == h.to
<1>1. \A k \in hits : k.from \in Int /\ k.to \in Int /\ 1 <= k.from /\ k.from <= k.to /\ k.to <= n
  BY DEF Disjoint
<1>2. \A k \in hits : k = h \/ k.from > to \/ p > k.to
  <2> SUFFICES ASSUME NEW k \in hits, k # h PROVE k.from > to \/ p > k.to
    OBVIOUS
  <2>1. Apart(h, k)
    BY DEF Disjoint
  <2> QED BY <1>1, <2>1 DEF Apart
<1>3. \A k \in hits : k.from > p => k.from > to
  BY <1>1, <1>2
<1>4. /\ text \in Seq(Int) /\ Len(text) \in Nat
      /\ \A j \in 1..Len(text) : text[j] \in Int /\ (text[j] = Mark \/ text[j] >= j)
  BY DEF Midway
<1>5. to \in 1..n /\ p \in 1..to
  BY <1>1
<1>6. \A j \in 1..to : j <= Len(text) /\ text[j] = j
  <2> SUFFICES ASSUME NEW j \in 1..to PROVE j <= Len(text) /\ text[j] = j
    OBVIOUS
  <2>1. \A k \in hits : k.from > p => j < k.from
    BY <1>1, <1>3
  <2>2. j \in 1..n
    BY <1>5
  <2> QED BY <2>1, <2>2 DEF Midway
<1>7. to \in 1..Len(text)
  BY <1>4, <1>5, <1>6
<1>8. Spliced(new, text, p, to)
  BY <1>4, <1>5, <1>7, SpliceOnce
<1> HIDE DEF new, to
<1>9. /\ new \in Seq(Int) /\ Len(new) = Len(text) - (to - p)
      /\ \A j \in 1..(p - 1) : new[j] = text[j]
      /\ new[p] = Mark
      /\ \A j \in (p + 1)..Len(new) : to + j - p \in 1..Len(text) /\ new[j] = text[to + j - p]
  BY <1>8 DEF Spliced
<1>10. \A j \in 1..(p - 1) : j \in 1..to /\ j \in 1..Len(text) /\ text[j] = j
  BY <1>5, <1>6, <1>7
<1>11. ASSUME NEW j \in 1..Len(new)
       PROVE  \/ j \in 1..(p - 1) /\ new[j] = j
              \/ j = p /\ new[j] = Mark
              \/ \E i \in 1..Len(text) : i > to /\ i >= j /\ new[j] = text[i]
  <2>1. Len(new) \in Nat
    BY <1>9
  <2>2. CASE j < p
    BY <1>9, <1>10, <2>1, <2>2
  <2>3. CASE j = p
    BY <1>9, <2>3
  <2>4. CASE j > p
    <3>1. j \in (p + 1)..Len(new)
      BY <2>1, <2>4
    <3>2. to + j - p > to /\ to + j - p >= j
      BY <1>5, <2>4
    <3> QED BY <1>9, <3>1, <3>2
  <2> QED BY <2>1, <2>2, <2>3, <2>4
<1>12. \A j \in 1..Len(new) : new[j] = Mark \/ new[j] >= j
  <2> SUFFICES ASSUME NEW j \in 1..Len(new) PROVE new[j] = Mark \/ new[j] >= j
    OBVIOUS
  <2>1. CASE new[j] = j
    BY <2>1
  <2>2. CASE \E i \in 1..Len(text) : i > to /\ i >= j /\ new[j] = text[i]
    <3>1. PICK i \in 1..Len(text) : i >= j /\ new[j] = text[i]
      BY <2>2
    <3>2. text[i] \in Int /\ (text[i] = Mark \/ text[i] >= i)
      BY <1>4
    <3> QED BY <3>1, <3>2
  <2> QED BY <1>11, <2>1, <2>2
<1>13. ASSUME NEW j \in 1..n, \A k \in hits : k.from > p - 1 => j < k.from
       PROVE  j <= Len(new) /\ new[j] = j
  <2>1. j < p
    BY <1>13
  <2>2. j \in 1..(p - 1)
    BY <2>1
  <2>3. j <= Len(new)
    BY <1>4, <1>5, <1>7, <1>9, <2>1
  <2> QED BY <1>9, <1>10, <2>2, <2>3
<1>14. ASSUME NEW k \in hits, k.from > p - 1, NEW j \in 1..Len(new)
       PROVE  new[j] \notin k.from..k.to
  <2>1. Mark \notin k.from..k.to
    BY <1>1 DEF Mark
  <2>2. CASE j \in 1..(p - 1) /\ new[j] = j
    BY <1>1, <1>14, <2>2
  <2>3. CASE \E i \in 1..Len(text) : i > to /\ i >= j /\ new[j] = text[i]
    <3>1. PICK i \in 1..Len(text) : i > to /\ new[j] = text[i]
      BY <2>3
    <3>2. text[i] \in Int /\ (text[i] = Mark \/ text[i] >= i)
      BY <1>4
    <3>3. CASE k = h
      <4>1. k.to = to /\ to \in Int
        BY <3>3, <1>5 DEF to
      <4> QED BY <1>1, <2>1, <3>1, <3>2, <4>1
    <3>4. CASE k # h
      <4>1. k.from > p
        BY <1>1, <1>2, <1>14, <1>5, <3>4
      <4>2. text[i] \notin k.from..k.to
        BY <4>1 DEF Midway
      <4> QED BY <3>1, <4>2
    <3> QED BY <3>3, <3>4
  <2> QED BY <1>11, <2>1, <2>2, <2>3
<1> QED BY <1>9, <1>12, <1>13, <1>14 DEF Midway, new

(* Replacing findings that are apart leaves no cell of one of them.          *)
LEMMA ReplacedIsGone ==
  ASSUME NEW text \in Seq(Int), \A j \in 1..Len(text) : text[j] = j,
         NEW hits, Disjoint(hits, Len(text)), NEW h \in hits
  PROVE  h.from..h.to \cap Range(Replace(text, hits)) = {}
<1> DEFINE n == Len(text)
           O == ReplacedFrom(text, hits)
           S == {i \in 0..n : Midway(O[i], hits, n, n - i)}
<1>0. n \in Nat
  OBVIOUS
<1>1. O = [i \in 0..n |->
             IF i = 0 THEN text
             ELSE IF {k \in hits : k.from = n + 1 - i} = {} THEN O[i - 1]
             ELSE Splice(O[i - 1], CHOOSE k \in {k \in hits : k.from = n + 1 - i} : TRUE)]
  <2>1. n = Len(text)
    OBVIOUS
  <2> HIDE DEF n
  <2> QED BY <1>0, <2>1, ReplacedFixpoint
<1>2. Midway(text, hits, n, n) /\ Disjoint(hits, n)
  BY MidwayInit
<1> HIDE DEF n, O
<1>3. 0 \in S
  <2>1. 0 \in 0..n /\ n - 0 = n
    BY <1>0
  <2>2. O[0] = text
    BY <1>1, <2>1
  <2> QED BY <1>2, <2>1, <2>2
<1>4. ASSUME NEW i \in 0..(n - 1), i \in S PROVE i + 1 \in S
  <2> DEFINE m == i + 1
             p == n - i
             here == {k \in hits : k.from = p}
  <2>1. m \in 0..n /\ m # 0 /\ m - 1 = i /\ n + 1 - m = p /\ p \in 1..n /\ n - m = p - 1
    BY <1>0
  <2>2. Midway(O[i], hits, n, p)
    BY <1>4
  <2> HIDE DEF m, p
  <2>3. O[m] = IF here = {} THEN O[i] ELSE Splice(O[i], CHOOSE k \in here : TRUE)
    BY <1>1, <2>1
  <2>4. CASE here = {}
    <3>1. \A k \in hits : k.from # p
      BY <2>4
    <3>2. Midway(O[i], hits, n, p - 1)
      BY <1>0, <1>2, <2>1, <2>2, <3>1, MidwaySkip
    <3> QED BY <2>1, <2>3, <2>4, <3>2 DEF m
  <2>5. CASE here # {}
    <3> DEFINE k == CHOOSE k \in here : TRUE
    <3>1. k \in hits /\ k.from = p
      <4>1. k \in here
        BY <2>5
      <4> HIDE DEF k
      <4> QED BY <4>1
    <3> HIDE DEF k
    <3>2. Midway(Splice(O[i], k), hits, n, p - 1)
      BY <1>0, <1>2, <2>1, <2>2, <3>1, MidwaySplice
    <3>3. O[m] = Splice(O[i], k)
      BY <2>3, <2>5 DEF k
    <3> QED BY <2>1, <3>2, <3>3 DEF m
  <2> QED BY <2>4, <2>5
<1>5. n \in S
  <2> HIDE DEF S
  <2>1. Inductive(S, n)
    BY <1>3, <1>4 DEF Inductive
  <2>2. \A i \in 0..n : i \in S
    BY <1>0, <2>1, UpTo
  <2> QED BY <1>0, <2>2
<1>6. Midway(Replace(text, hits), hits, n, 0)
  <2>1. n - n = 0
    BY <1>0
  <2> QED BY <1>5, <2>1 DEF Replace, O, n
<1>7. h.from \in Int /\ h.from > 0
  BY <1>2 DEF Disjoint
<1> DEFINE new == Replace(text, hits)
<1> HIDE DEF new
<1>8. new \in Seq(Int) /\ \A j \in 1..Len(new) : new[j] \notin h.from..h.to
  BY <1>6, <1>7 DEF Midway, new
<1>9. \A x \in Range(new) : x \notin h.from..h.to
  BY <1>8 DEF Range
<1>10. h.from..h.to \cap Range(new) = {}
  BY <1>9
<1> QED BY <1>10 DEF new

(* Every finding of a text overlaps one that is replaced, so that no finding *)
(* is left whole.                                                            *)
LEMMA NoHitLeft ==
  ASSUME NEW leaf, WellFormedLeaf(leaf), NEW h \in leaf.hits
  PROVE  ~InClear(h, Replace(leaf.text, Keepers(leaf.hits)))
<1> DEFINE K == Keepers(leaf.hits)
           text == leaf.text
<1>1. K \subseteq leaf.hits /\ (\A x, y \in K : x = y \/ Apart(x, y)) /\ \E k \in K : ~Apart(h, k)
  BY KeepersCover
<1>2. text \in Seq(Int) /\ \A j \in 1..Len(text) : text[j] = j
  <2>1. text \in Seq(Nat) /\ text = [i \in 1..Len(text) |-> i]
    BY DEF WellFormedLeaf
  <2> HIDE DEF text
  <2>2. \A j \in 1..Len(text) : text[j] = j
    BY <2>1
  <2>3. text \in Seq(Int)
    BY <2>1
  <2> QED BY <2>2, <2>3
<1>3. \A x \in leaf.hits : x.to \in 1..Len(text) /\ x.from \in 1..x.to
  BY DEF WellFormedLeaf
<1> HIDE DEF K, text
<1>4. Disjoint(K, Len(text))
  BY <1>1, <1>3 DEF Disjoint
<1>5. PICK k \in K : ~Apart(h, k)
  BY <1>1
<1>6. k.from..k.to \cap Range(Replace(text, K)) = {}
  BY <1>2, <1>4, ReplacedIsGone
<1>7. \E i \in h.from..h.to : i \in k.from..k.to
  <2>1. /\ h.from \in Int /\ h.to \in Int /\ h.from <= h.to
        /\ k.from \in Int /\ k.to \in Int /\ k.from <= k.to
    BY <1>1, <1>2, <1>3
  <2>2. h.from <= k.to /\ k.from <= h.to
    BY <1>5, <2>1 DEF Apart
  <2>3. CASE h.from <= k.from
    <3>1. k.from \in h.from..h.to /\ k.from \in k.from..k.to
      BY <2>1, <2>2, <2>3
    <3> QED BY <3>1
  <2>4. CASE k.from <= h.from
    <3>1. h.from \in h.from..h.to /\ h.from \in k.from..k.to
      BY <2>1, <2>2, <2>4
    <3> QED BY <3>1
  <2> QED BY <2>1, <2>3, <2>4
<1>8. ~(h.from..h.to \subseteq Range(Replace(text, K)))
  BY <1>6, <1>7
<1> QED BY <1>8 DEF InClear, K, text

(* A text that is one mark has nothing in the clear.                         *)
LEMMA MarkHidesAll ==
  ASSUME NEW leaf, WellFormedLeaf(leaf), NEW h \in leaf.hits
  PROVE  ~InClear(h, <<Mark>>)
<1>1. h.to \in 1..Len(leaf.text) /\ h.from \in 1..h.to /\ Len(leaf.text) \in Nat
  BY DEF WellFormedLeaf
<1>2. h.from \in Int /\ h.to \in Int /\ h.from >= 1 /\ h.from <= h.to
  BY <1>1
<1>3. h.from \in h.from..h.to
  BY <1>2
<1>4. Range(<<Mark>>) = {0}
  BY DEF Range, Mark
<1> QED BY <1>2, <1>3, <1>4 DEF InClear

-----------------------------------------------------------------------------
(* What the filter does to one leaf                                          *)

Sound(doc) ==
  /\ PolicyLoads(doc)
  /\ doc.fields \in Seq(Range(doc.fields)) /\ doc.patterns \in Seq(Range(doc.patterns))

LEMMA FilterNeverStumbles ==
  ASSUME NEW doc, Sound(doc), NEW leaf, WellFormedLeaf(leaf)
  PROVE  "raises" \notin Used(doc, leaf)
<1>1. Inherited(doc, leaf) # "raises"
  BY InheritedIsNamed DEF Sound, Types
<1>2. Replaced(doc, leaf) \subseteq leaf.hits
  BY KeepersCover DEF Replaced
<1>3. ASSUME NEW h \in Replaced(doc, leaf) PROVE StrategyForPattern(doc, h.type) # "raises"
  <2>1. h.type \in Floor
    BY <1>2 DEF WellFormedLeaf
  <2> QED BY <2>1, PatternStrategies DEF Sound
<1> QED BY <1>1, <1>3 DEF Used

LEMMA RedactedHides ==
  ASSUME NEW doc, Sound(doc), NEW leaf, WellFormedLeaf(leaf), leaf.kind \in {"text", "literal"},
         NEW h \in leaf.hits
  PROVE  ~InClear(h, Redacted(doc, leaf))
<1>1. CASE Inherited(doc, leaf) \in {"full", "hmac"}
  BY <1>1, MarkHidesAll DEF Redacted
<1>2. CASE Inherited(doc, leaf) \in {"none", "pass_through"}
  <2>1. Replaced(doc, leaf) = {k \in Keepers(leaf.hits) : StrategyForPattern(doc, k.type) # "pass_through"}
    BY <1>2 DEF Replaced
  <2>2. ASSUME NEW k \in Keepers(leaf.hits) PROVE StrategyForPattern(doc, k.type) # "pass_through"
    <3>1. k \in leaf.hits
      BY KeepersCover
    <3>2. k.type \in Floor
      BY <3>1 DEF WellFormedLeaf
    <3> QED BY <3>2, PatternStrategies DEF Sound
  <2>3. Replaced(doc, leaf) = Keepers(leaf.hits)
    BY <2>1, <2>2
  <2>4. Redacted(doc, leaf) = Replace(leaf.text, Keepers(leaf.hits))
    BY <1>2, <2>3 DEF Redacted
  <2> QED BY <2>4, NoHitLeft
<1> QED BY <1>1, <1>2, InheritedIsNamed DEF Sound, Types

(* FloorHolds for what the filter makes of one span.                         *)
LEMMA FloorOfSpan ==
  ASSUME NEW doc, Sound(doc), NEW key \in BOOLEAN, NEW span,
         \A leaf \in Range(span.leaves) : WellFormedLeaf(leaf)
  PROVE  LET out == Apply(doc, key, span) IN
           \/ /\ out.outcome = "original"
              /\ ~Untyped(span)
              /\ key => \E leaf \in Range(span.leaves) : Misfit(leaf, Redacted(doc, leaf))
           \/ /\ out.subject # "raw"
              /\ \A n \in DOMAIN span.leaves : \A h \in Flagged(span, n) :
                   InClear(h, out.text[n]) =>
                     out.outcome = "swept" /\ "kind" \in Range(span.leaves[n].path)
<1> DEFINE out == Apply(doc, key, span)
<1>1. \A n \in DOMAIN span.leaves : span.leaves[n] \in Range(span.leaves)
  BY DEF Range
<1>2. CASE ~Raises(doc, key, span)
  <2>1. /\ out.subject = Fingerprint(span.subject, key)
        /\ \A n \in DOMAIN span.leaves : out.text[n] = Redacted(doc, span.leaves[n])
    BY <1>2 DEF Apply
  <2> HIDE DEF out
  <2>2. out.subject # "raw"
    BY <2>1 DEF Fingerprint
  <2>3. ASSUME NEW n \in DOMAIN span.leaves, NEW h \in Flagged(span, n) PROVE ~InClear(h, out.text[n])
    <3> DEFINE leaf == span.leaves[n]
    <3>1. WellFormedLeaf(leaf) /\ leaf.kind \in {"text", "literal"} /\ h \in leaf.hits
      BY <1>1, <2>3 DEF Flagged
    <3>2. out.text[n] = Redacted(doc, leaf)
      BY <2>1
    <3> HIDE DEF leaf
    <3> QED BY <3>1, <3>2, RedactedHides
  <2> QED BY <2>2, <2>3 DEF out
<1>3. CASE Raises(doc, key, span) /\ SweepFits(span)
  <2>1. /\ out.outcome = "swept"
        /\ out.subject = IF span.subject = "none" THEN "none" ELSE "full"
        /\ \A n \in DOMAIN span.leaves : out.text[n] = Swept(span.leaves[n])
    BY <1>3 DEF Apply
  <2> HIDE DEF out
  <2>2. out.subject # "raw"
    BY <2>1
  <2>3. ASSUME NEW n \in DOMAIN span.leaves, NEW h \in Flagged(span, n), InClear(h, out.text[n])
        PROVE  "kind" \in Range(span.leaves[n].path)
    <3> DEFINE leaf == span.leaves[n]
    <3>1. WellFormedLeaf(leaf) /\ leaf.kind \in {"text", "literal"} /\ h \in leaf.hits
      BY <1>1, <2>3 DEF Flagged
    <3>2. out.text[n] = Swept(leaf)
      BY <2>1
    <3> HIDE DEF leaf
    <3>3. Swept(leaf) # <<Mark>>
      BY <2>3, <3>1, <3>2, MarkHidesAll
    <3>4. "kind" \in Range(leaf.path)
      BY <3>1, <3>3 DEF Swept, Spares
    <3> QED BY <3>4 DEF leaf
  <2> QED BY <2>1, <2>2, <2>3 DEF out
<1>4. CASE Raises(doc, key, span) /\ ~SweepFits(span)
  <2>1. out.outcome = "original"
    BY <1>4 DEF Apply
  <2> HIDE DEF out
  <2>2. ~Untyped(span)
    <3>1. PICK leaf \in Range(span.leaves) : Misfit(leaf, Swept(leaf))
      BY <1>4 DEF SweepFits
    <3>2. PICK n \in DOMAIN span.leaves : leaf = span.leaves[n]
      BY DEF Range
    <3> QED BY <3>1, <3>2 DEF Misfit, Untyped
  <2>3. key => \E leaf \in Range(span.leaves) : Misfit(leaf, Redacted(doc, leaf))
    BY <1>4, FilterNeverStumbles DEF Raises
  <2> QED BY <2>1, <2>2, <2>3 DEF out
<1> QED BY <1>2, <1>3, <1>4

(* FloorHolds: whatever the policy, no string that a recognizer flags ships  *)
(* whole and in the clear, and no subject does, except on the two paths of   *)
(* the fallback: a sweep spares what is under a key named kind, and a span   *)
(* with typed attributes whose sweep does not validate ships as it was.      *)
THEOREM FloorAlwaysHolds == Spec => []FloorHolds
<1>1. ASSUME PoliciesInv PROVE FloorHolds
  <2> SUFFICES ASSUME NEW c \in Calls, call[c].shipped.outcome # "none"
               PROVE  LET span == SpanOf[c]
                          out == call[c].shipped IN
                        \/ /\ out.outcome = "original"
                           /\ ~Untyped(span)
                           /\ call[c].key => \E leaf \in Range(span.leaves) : Misfit(leaf, Redacted(policy, leaf))
                        \/ /\ out.subject # "raw"
                           /\ \A n \in DOMAIN span.leaves : \A h \in Flagged(span, n) :
                                InClear(h, out.text[n]) =>
                                  out.outcome = "swept" /\ "kind" \in Range(span.leaves[n].path)
    BY DEF FloorHolds
  <2>1. Sound(policy)
    BY <1>1, PoliciesAssumption DEF PoliciesInv, TypeInv, Sound
  <2>2. call[c].key \in BOOLEAN /\ call[c].shipped = Apply(policy, call[c].key, SpanOf[c])
    BY <1>1 DEF PoliciesInv, CallInv, Filtered
  <2>3. \A leaf \in Range(SpanOf[c].leaves) : WellFormedLeaf(leaf)
    BY PoliciesAssumption
  <2> QED BY <2>1, <2>2, <2>3, FloorOfSpan
<1> QED BY <1>1, PoliciesInvariant, PTL
=============================================================================
