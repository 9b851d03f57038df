--------------------------- MODULE EnforcementGate ---------------------------
(***************************************************************************)
(* A gated call of the agent, from the decorator to its outcome:           *)
(* enforcement/gate.py in the recorder, client.py, the /verdict handler of *)
(* service/app.py, and the hold queue that a held call waits on.  A call   *)
(* posts once; the answer may be lost or late, so that the service can     *)
(* create a hold for a call that is over.  What the rules decide about a   *)
(* call is the environment's choice here.                                  *)
(***************************************************************************)
EXTENDS HoldQueue

CONSTANTS
    Mode,      \* failure_mode that the client's fallback table gives each call
    MaxPolls   \* _max_polls

GatedCalls == Holds   \* a held call has one hold, known by the call it is for

ASSUME GateAssumption ==
    /\ Mode \in [GatedCalls -> {"fail_open", "fail_to_human", "fail_closed"}]
    /\ MaxPolls \in Nat \ {0}

VARIABLES
    pc,        \* where each call is
    answer,    \* the service's handling of each call's request
    polls,     \* polls each call has made without a terminal status
    verdict,   \* the verdict each call's gate returned
    failed     \* history: what went wrong in each call, as the client saw it

callVars == <<pc, answer, polls, verdict, failed>>
gateVars == <<holdVars, callVars>>

Verdicts == {"allow", "hold", "block"}

TypeOK ==
    /\ HoldTypeOK
    /\ pc \in [GatedCalls -> {"idle", "posted", "polling", "done"}]
    /\ answer \in [GatedCalls -> Verdicts \cup {"none", "error"}]
    /\ polls \in [GatedCalls -> 0..MaxPolls]
    /\ verdict \in [GatedCalls -> Verdicts \cup {"none"}]
    /\ failed \in [GatedCalls -> {"no", "fallback", "gate", "patience"}]

GateInit ==
    /\ HoldInit
    /\ pc = [c \in GatedCalls |-> "idle"]
    /\ answer = [c \in GatedCalls |-> "none"]
    /\ polls = [c \in GatedCalls |-> 0]
    /\ verdict = [c \in GatedCalls |-> "none"]
    /\ failed = [c \in GatedCalls |-> "no"]

-----------------------------------------------------------------------------
(* The service *)

\* The handler of /verdict: decide(), and for a hold the row and its commit.
\* An evaluator that raises is a 500; the request may arrive after the client
\* has stopped waiting for it.
ServiceDecides(c, d) ==
    /\ pc[c] # "idle"
    /\ answer[c] = "none"
    /\ answer' = [answer EXCEPT ![c] = d]
    /\ IF d = "hold" THEN Create(c) ELSE UNCHANGED holdVars
    /\ UNCHANGED <<pc, polls, verdict, failed>>

-----------------------------------------------------------------------------
(* The client and the gate *)

Post(c) ==
    /\ pc[c] = "idle"
    /\ pc' = [pc EXCEPT ![c] = "posted"]
    /\ UNCHANGED <<holdVars, answer, polls, verdict, failed>>

Return(c, v, f) ==
    /\ pc' = [pc EXCEPT ![c] = "done"]
    /\ verdict' = [verdict EXCEPT ![c] = v]
    /\ failed' = [failed EXCEPT ![c] = f]
    /\ UNCHANGED <<holdVars, answer, polls>>

\* _fallback_verdict
Fallback(m) ==
    CASE m = "fail_open" -> "allow"
      [] m = "fail_to_human" -> "hold"
      [] m = "fail_closed" -> "block"

\* The answer arrives; a hold comes with its id and is waited for.
Answered(c) ==
    /\ pc[c] = "posted"
    /\ answer[c] \in Verdicts
    /\ IF answer[c] = "hold"
          THEN /\ pc' = [pc EXCEPT ![c] = "polling"]
               /\ UNCHANGED <<holdVars, answer, polls, verdict, failed>>
          ELSE Return(c, answer[c], "no")

\* Unreachable, too slow, an error status, or an answer that is not JSON.
PostFailed(c) == pc[c] = "posted" /\ Return(c, Fallback(Mode[c]), "fallback")

\* Mutants: everything but a rejection allows; nothing does.
ResolutionLenient(s) == IF s = "rejected" THEN "block" ELSE "allow"
ResolutionUnmapped(s) == "block"

\* _RESOLUTION_DECISION
Resolution(s) == IF s = "approved" THEN "allow" ELSE "block"

PollTerminal(c) ==
    /\ pc[c] = "polling"
    /\ polls[c] < MaxPolls
    /\ status[c] \in Terminal
    /\ Return(c, Resolution(status[c]), "no")

\* Mutant: the count starts again when the hold is pending.
PollAgainRestarts(c) ==
    /\ pc[c] = "polling"
    /\ polls[c] < MaxPolls
    /\ \E n \in {0, polls[c] + 1} : polls' = [polls EXCEPT ![c] = n]
    /\ UNCHANGED <<holdVars, pc, answer, verdict, failed>>

\* Still pending, or the poll failed with an HTTP error and is retried.
PollAgain(c) ==
    /\ pc[c] = "polling"
    /\ polls[c] < MaxPolls
    /\ polls' = [polls EXCEPT ![c] = @ + 1]
    /\ UNCHANGED <<holdVars, pc, answer, verdict, failed>>

\* A poll answered 200 with a body that is not JSON raises ValueError, which
\* only the handler around the whole evaluation catches.
PollGarbled(c) == pc[c] = "polling" /\ polls[c] < MaxPolls
                  /\ Return(c, Fallback(Mode[c]), "fallback")

PollsExceeded(c) == pc[c] = "polling" /\ polls[c] = MaxPolls /\ Return(c, "block", "patience")

\* Any other exception: evaluate_gate logs it and lets the action run.
GateRaised(c) == pc[c] \in {"posted", "polling"} /\ Return(c, "allow", "gate")

ClientStep(c) ==
    \/ Answered(c) \/ PostFailed(c) \/ PollTerminal(c) \/ PollAgain(c)
    \/ PollGarbled(c) \/ PollsExceeded(c) \/ GateRaised(c)

\* is_blocking: the action runs on an explicit allow and on nothing else.
Ran(c) == pc[c] = "done" /\ verdict[c] = "allow"

Queue == /\ \/ \E h \in Holds : Expire(h)
            \/ \E r \in Reviewers : ReviewerStep(r)
            \/ Sweep
         /\ UNCHANGED callVars

GateNext ==
    \/ \E c \in GatedCalls : \/ Post(c)
                        \/ ClientStep(c)
                        \/ \E d \in Verdicts \cup {"error"} : ServiceDecides(c, d)
    \/ Queue

GateSpec == GateInit /\ [][GateNext]_gateVars

\* The client goes on, since its HTTP requests time out, and the hold queue is
\* fair as in HoldLiveSpec; the verdict service and the reviewers owe nothing.
GateLiveSpec == GateSpec /\ HoldFair /\ \A c \in GatedCalls : WF_gateVars(ClientStep(c))

-----------------------------------------------------------------------------
\* A gated action runs only if the service allowed it, a reviewer approved its
\* hold before, the fallback table says fail_open for it and the client saw a
\* failure, or the gate itself broke (client.py:64-77, 100-111, 128-131;
\* gate.py:158-162, 177-183).
RunsOnlyIfAllowed ==
    \A c \in GatedCalls : Ran(c) =>
        \/ answer[c] = "allow"
        \/ "approved" \in history[c]
        \/ failed[c] = "fallback" /\ Mode[c] = "fail_open"
        \/ failed[c] = "gate"

\* An action that the client was told is held is refused only for a reason: a
\* status that blocks, the end of its patience, or a failure (client.py:100-111).
RefusedForAReason ==
    \A c \in GatedCalls : pc[c] = "done" /\ ~Ran(c) =>
        \/ answer[c] = "block"
        \/ history[c] \cap {"rejected", "timed_out"} # {}
        \/ failed[c] \in {"fallback", "patience"}

\* Every gated call returns to the host within its polls, even if the service
\* is gone and nobody ever reviews the hold (client.py:101-111).
CallReturns == \A c \in GatedCalls : pc[c] = "posted" ~> pc[c] = "done"

-----------------------------------------------------------------------------
(* What the documentation says, and the code does not do *)

\* enforcement-plan.md:209 "Internal gate exceptions are treated identically to
\* unreachable", where fail_closed blocks (line 202).
FailClosedHolds ==
    \A c \in GatedCalls : Mode[c] = "fail_closed" /\ Ran(c) =>
        answer[c] = "allow" \/ "approved" \in history[c]
=============================================================================
