------------------------------ MODULE HoldQueue ------------------------------
(***************************************************************************)
(* The hold queue of the enforcement service: storage/repository.py, the   *)
(* review API of service/holds.py and worker/timeout_job.py.  A hold has   *)
(* one row.  A reviewer's request reads the row, decides on what it read,  *)
(* and updates the row by primary key in a later step: the transaction is  *)
(* read committed and the UPDATE carries no condition on the status.  The  *)
(* timeout worker's UPDATE is conditional, so it is one step.              *)
(***************************************************************************)
EXTENDS Naturals

CONSTANTS
    Holds,       \* hold ids: one for each gated call that may be held
    Reviewers    \* requests of reviewers that can be in progress at once

VARIABLES
    status,      \* Hold.status, "absent" before create()
    overdue,     \* the holds whose expires_at has passed
    review,      \* each reviewer's transaction: the hold read, its decision
    history      \* history: every status each hold has had

holdVars == <<status, overdue, review, history>>

Decisions == {"approved", "rejected"}
Terminal == {"approved", "rejected", "timed_out", "aborted"}
Statuses == {"absent", "pending"} \cup Terminal

Idle == [hold |-> {}, decision |-> "none"]

HoldTypeOK ==
    /\ status \in [Holds -> Statuses]
    /\ overdue \in SUBSET Holds
    /\ review \in [Reviewers -> [hold : SUBSET Holds, decision : Decisions \cup {"none"}]]
    /\ history \in [Holds -> SUBSET Statuses]

HoldInit ==
    /\ status = [h \in Holds |-> "absent"]
    /\ overdue = {}
    /\ review = [r \in Reviewers |-> Idle]
    /\ history = [h \in Holds |-> {}]

SetStatus(hs, s) ==
    /\ status' = [h \in Holds |-> IF h \in hs THEN s ELSE status[h]]
    /\ history' = [h \in Holds |-> IF h \in hs THEN history[h] \cup {s} ELSE history[h]]

\* create(), with the commit of the /verdict handler.
Create(h) ==
    /\ status[h] = "absent"
    /\ SetStatus({h}, "pending")
    /\ UNCHANGED <<overdue, review>>

\* The clock passes expires_at.
Expire(h) ==
    /\ status[h] # "absent"
    /\ h \notin overdue
    /\ overdue' = overdue \cup {h}
    /\ UNCHANGED <<status, review, history>>

\* resolve_hold up to the test in HoldRepo.resolve; a hold that is not pending
\* is answered 409.  expires_at is not looked at.
ReviewRead(r, h, d) ==
    /\ review[r] = Idle
    /\ status[h] = "pending"
    /\ review' = [review EXCEPT ![r] = [hold |-> {h}, decision |-> d]]
    /\ UNCHANGED <<status, overdue, history>>

\* UPDATE ... WHERE hold_id = h, and commit.
ReviewCommit(r) ==
    /\ review[r] # Idle
    /\ SetStatus(review[r].hold, review[r].decision)
    /\ review' = [review EXCEPT ![r] = Idle]
    /\ UNCHANGED overdue

\* The reviewer's request dies between the two: nothing is written.
ReviewAbandon(r) ==
    /\ review[r] # Idle
    /\ review' = [review EXCEPT ![r] = Idle]
    /\ UNCHANGED <<status, overdue, history>>

\* Mutants: every overdue hold, decided or not; only the rows that no
\* reviewer's transaction is looking at.
DueDecided == overdue
DueUnread == {h \in overdue : status[h] = "pending"
                              /\ \A r \in Reviewers : h \notin review[r].hold}

Due == {h \in overdue : status[h] = "pending"}

\* run_once of the timeout worker: expire_due() and commit.
Sweep ==
    /\ Due # {}
    /\ SetStatus(Due, "timed_out")
    /\ UNCHANGED <<overdue, review>>

ReviewerStep(r) ==
    \/ \E h \in Holds, d \in Decisions : ReviewRead(r, h, d)
    \/ ReviewCommit(r)
    \/ ReviewAbandon(r)

HoldNext ==
    \/ \E h \in Holds : Create(h) \/ Expire(h)
    \/ \E r \in Reviewers : ReviewerStep(r)
    \/ Sweep

HoldSpec == HoldInit /\ [][HoldNext]_holdVars

\* The clock runs and the timeout worker keeps sweeping (run_forever logs what
\* goes wrong and goes on); reviewers owe nobody a decision.
HoldFair == WF_holdVars(Sweep) /\ \A h \in Holds : WF_holdVars(Expire(h))

HoldLiveSpec == HoldSpec /\ HoldFair

-----------------------------------------------------------------------------
\* The sweep never overrides a decision and nothing reopens a hold: a status
\* that is terminal may only be replaced by another reviewer's decision
\* (repository.py:92-98, 105-109).
NeverReopened ==
    [][\A h \in Holds :
          status[h] \in Terminal =>
              status'[h] = status[h] \/ status'[h] \in Decisions]_holdVars

\* Only a hold past its deadline times out, although deadlines, reviews and
\* sweeps interleave freely (repository.py:57, 102-109).
TimedOutIsDue == \A h \in Holds : "timed_out" \in history[h] => h \in overdue

\* Every hold is settled in the end, reviewed or not (timeout_job.py:20-37).
HoldsSettle == \A h \in Holds : status[h] = "pending" ~> status[h] \in Terminal

\* repository.py:91 "Resolve a *pending* hold. Returns None if missing or
\* already terminal": a terminal status is final.
TerminalIsFinal ==
    [][\A h \in Holds : status[h] \in Terminal => status'[h] = status[h]]_holdVars
=============================================================================
