---------------------------- MODULE SpanCustody -----------------------------
(***************************************************************************)
(* What the recorder's buffer promises of each span, whatever threads,     *)
(* queue and Event it is made of (exporter/queue.py, the drop policy of    *)
(* its header): a span is in one place at a time and only moves forward,   *)
(* the spans leave one at a time, and a span is lost for one of four       *)
(* reasons: it came after the shutdown, a critical one has waited in vain, *)
(* it made room for another and found none, or it is the one span that     *)
(* another made room with.  BoundedQueue is shown to implement it.         *)
(***************************************************************************)
CONSTANTS Spans, Critical

VARIABLES
    place,    \* where each span is
    closing,  \* the shutdown has begun
    stopped   \* nothing leaves the buffer any more

custody == <<place, closing, stopped>>

\* In the order in which a span may visit them: the agent has it, it is being
\* exported, it is a critical one and waits for room, it may displace another,
\* it has; it is buffered, in the hands of the inner exporter, or given to it.
Places == {"agent", "call", "waiting", "displacing", "displaced",
           "buffer", "hand", "given", "lost"}

In(p) == {s \in Spans : place[s] = p}

Move(s, from, to) == place[s] = from /\ place' = [place EXCEPT ![s] = to]

CustodyInit ==
    /\ place = [s \in Spans |-> "agent"]
    /\ closing = FALSE
    /\ stopped = FALSE

Offer(s)  == ~closing /\ Move(s, "agent", "call")
Refuse(s) == closing /\ Move(s, "agent", "lost")
Crowd(s)  == Move(s, "call", IF s \in Critical THEN "waiting" ELSE "displacing")
GiveUp(s) == Move(s, "waiting", "lost")
Swallow(s) == Move(s, "displaced", "lost")
Accept(s) == \E from \in {"call", "waiting", "displaced"} : Move(s, from, "buffer")

\* One buffered span goes, if there is one, and no other call may use its loss.
Displace(s) ==
    /\ place[s] = "displacing"
    /\ \/ place' = [place EXCEPT ![s] = "displaced"]
       \/ \E t \in In("buffer") :
             place' = [place EXCEPT ![s] = "displaced", ![t] = "lost"]

HandOver(s) == ~stopped /\ In("hand") = {} /\ Move(s, "buffer", "hand")
Settle(s)   == Move(s, "hand", "given")

CallStep(s) ==
    \/ Offer(s) \/ Refuse(s) \/ Crowd(s) \/ GiveUp(s) \/ Swallow(s)
    \/ Accept(s) \/ Displace(s)

Close == closing' = TRUE /\ UNCHANGED <<place, stopped>>
Stop  == closing /\ In("hand") = {} /\ stopped' = TRUE /\ UNCHANGED <<place, closing>>

CustodyNext ==
    \/ \E s \in Spans : /\ CallStep(s) \/ HandOver(s) \/ Settle(s)
                        /\ UNCHANGED <<closing, stopped>>
    \/ Close
    \/ Stop

CustodySpec == CustodyInit /\ [][CustodyNext]_custody
=============================================================================
