------------------------------- MODULE Anchor -------------------------------
(***************************************************************************)
(* The anchor workers of the ledger (worker/anchor_job.py) over the table  *)
(* that ingest fills and retention empties: Next composes the three.       *)
(* A worker reads the customers with closed trajectories, then, for each,  *)
(* the end of its last window, then the rows of the new window; it signs   *)
(* their Merkle root, commits, exports the envelope and marks it exported, *)
(* each in a step of its own. A failure anywhere ends the pass; what was   *)
(* committed stays.                                                        *)
(***************************************************************************)
EXTENDS Retention, Merkle

CONSTANTS
  Customers, Cust,     \* Cust[s]: end_customer_id
  Parent, NoParent,    \* Parent[s]: parent_span_id and, in an honest chain, its hash
  Ordered,             \* all spans by start_time, span_id
  TrajOrder,           \* all trajectories by id
  Interval,            \* attestation_interval_seconds
  Workers

ASSUME AnchorAssumption ==
  /\ Cust \in [Spans -> Customers]
  /\ Parent \in [Spans -> Spans \cup {NoParent}] /\ NoParent \notin Spans
  /\ Ordered \in Seq(Spans)
  /\ TrajOrder \in Seq(Trajectories) /\ Range(TrajOrder) = Trajectories
  /\ Interval \in Nat \ {0}

VARIABLES
  atts,     \* attestations with their leaves, in order of commit
  sink,     \* the attestations exported to the sink, by position in atts
  worker    \* per worker: where its pass is

vars == <<clock, rows, months, holds, ops, pass, arrived, atts, sink, worker>>

Asleep == [pc |-> "asleep", now |-> 0, todo |-> {}, cust |-> "none", start |-> 0,
           base |-> 0, att |-> <<>>, id |-> 0]

Init ==
  /\ RetentionInit
  /\ atts = <<>>
  /\ sink = {}
  /\ worker = [w \in Workers |-> Asleep]

-----------------------------------------------------------------------------
IsRoot(s) == Parent[s] = NoParent
ClosedInClosed(c, from, to) ==
  {s \in rows : Cust[s] = c /\ IsRoot(s) /\ from <= End[s] /\ End[s] <= to}

ClosedIn(c, from, to) ==
  {s \in rows : Cust[s] = c /\ IsRoot(s) /\ from <= End[s] /\ End[s] < to}

\* The attestations of a customer, by position in atts.
AttsOf(c) == {i \in DOMAIN atts : atts[i].cust = c}
LastWindowEnd(c) == Max({atts[i].end : i \in AttsOf(c)})

\* The members of set, in the order of seq.
PickedUpTo(seq, set) ==
  LET pick[i \in 0..Len(seq)] ==
        IF i = 0 THEN <<>> ELSE IF seq[i] \in set THEN Append(pick[i - 1], seq[i]) ELSE pick[i - 1]
  IN pick
Sorted(seq, set) == PickedUpTo(seq, set)[Len(seq)]

\* trajectory_root over the rows, in order, of one trajectory.
RootOf(t, c, seen) == BuildRoot(Sorted(Ordered, {s \in seen : Traj[s] = t /\ Cust[s] = c}))

At(w, pc) == worker[w].pc = pc
Goto(w, pc) == worker' = [worker EXCEPT ![w].pc = pc]

WakeUp(w) ==
  /\ At(w, "asleep")
  /\ Unlocked
  /\ worker' = [worker EXCEPT ![w] = [Asleep EXCEPT
       !.pc = "customer",
       !.now = clock,
       !.todo = {c \in Customers : ClosedIn(c, clock - 10 * Interval, clock) # {}}]]
  /\ UNCHANGED <<retentionVars, atts, sink>>

\* Without an earlier window the first one reaches one interval back.
ReadLastWindow(w) ==
  /\ At(w, "customer")
  /\ LET me == worker[w] IN
     \E c \in me.todo :
       worker' = [worker EXCEPT ![w] = [me EXCEPT
         !.pc = "window",
         !.todo = @ \ {c},
         !.cust = c,
         !.base = Cardinality(AttsOf(c)),
         !.start = IF AttsOf(c) = {} THEN me.now - Interval ELSE LastWindowEnd(c)]]
  /\ UNCHANGED <<retentionVars, atts, sink>>

PassDone(w) ==
  /\ At(w, "customer")
  /\ worker[w].todo = {}
  /\ worker' = [worker EXCEPT ![w] = Asleep]
  /\ UNCHANGED <<retentionVars, atts, sink>>

\* A trajectory under hold, and stored, since before the pass that runs, if any.
FirmlyHeld(t) ==
  /\ Held(t)
  /\ pass.pc # "idle" => t \in pass.held /\ {s \in rows : Traj[s] = t} \subseteq pass.had

\* One statement reads the rows; an empty window leaves no attestation.
\* saw and kept are history: the table it read, and the trajectories firmly
\* held from then until now.
BuildWindow(w) ==
  /\ At(w, "window")
  /\ Unlocked
  /\ LET me == worker[w]
         closed == {Traj[s] : s \in ClosedIn(me.cust, me.start, me.now)}
         leaves == Sorted(TrajOrder, closed)
         roots == [i \in DOMAIN leaves |-> RootOf(leaves[i], me.cust, rows)]
     IN worker' = [worker EXCEPT ![w] =
          IF closed = {} THEN [me EXCEPT !.pc = "customer"]
          ELSE [me EXCEPT !.pc = "commit", !.att =
                  [cust |-> me.cust, start |-> me.start, end |-> me.now, leaves |-> leaves,
                   roots |-> roots, root |-> BuildRoot(roots), exported |-> FALSE,
                   saw |-> rows, base |-> me.base,
                   kept |-> {t \in closed : FirmlyHeld(t)}]]]
  /\ UNCHANGED <<retentionVars, atts, sink>>

CommitWindow(w) ==
  /\ At(w, "commit")
  /\ atts' = Append(atts, worker[w].att)
  /\ worker' = [worker EXCEPT ![w] = [@ EXCEPT !.pc = "export", !.id = Len(atts) + 1, !.att = <<>>]]
  /\ UNCHANGED <<retentionVars, sink>>

\* A sink that is not a directory, or an error, is logged and never retried.
Export(w) ==
  /\ At(w, "export")
  /\ \/ sink' = sink \cup {worker[w].id} /\ Goto(w, "mark")
     \/ sink' = sink /\ Goto(w, "customer")
  /\ UNCHANGED <<retentionVars, atts>>

MarkExported(w) ==
  /\ At(w, "mark")
  /\ atts' = [atts EXCEPT ![worker[w].id].exported = TRUE]
  /\ Goto(w, "customer")
  /\ UNCHANGED <<retentionVars, sink>>

\* The pass raises (run_forever logs it) or the process dies.
PassFails(w) ==
  /\ ~At(w, "asleep")
  /\ worker' = [worker EXCEPT ![w] = Asleep]
  /\ UNCHANGED <<retentionVars, atts, sink>>

WorkerStep(w) ==
  \/ WakeUp(w) \/ ReadLastWindow(w) \/ PassDone(w) \/ BuildWindow(w) \/ CommitWindow(w)
  \/ Export(w) \/ MarkExported(w) \/ PassFails(w)

-----------------------------------------------------------------------------
Kept(a) == [a EXCEPT !.kept = {t \in @ : holds'[t] = "active"}]

HoldChanges ==
  /\ HoldStep
  /\ atts' = [i \in DOMAIN atts |-> Kept(atts[i])]
  /\ worker' = [w \in Workers |->
       IF At(w, "commit") THEN [worker[w] EXCEPT !.att = Kept(@)] ELSE worker[w]]
  /\ UNCHANGED sink

TableStep ==
  /\ Tick \/ RetentionStep \/ \E s \in Spans : Store(s)
  /\ UNCHANGED <<atts, sink, worker>>

Next == HoldChanges \/ TableStep \/ \E w \in Workers : WorkerStep(w)

Spec == Init /\ [][Next]_vars

-----------------------------------------------------------------------------
\* POST /verify/{trajectory_id}: what the rows of a trajectory are found guilty of.
Findings(t) ==
  LET here == {s \in rows : Traj[s] = t} IN
  {<<s, "missing_parent">> : s \in {r \in here : ~IsRoot(r) /\ Parent[r] \notin here}}

\* GET /attestations/proof/{trajectory_id}, checked against the signed root.
ProofOf(a, t) ==
  LET idx == CHOOSE i \in DOMAIN a.leaves : a.leaves[i] = t
  IN VerifyProof(a.roots[idx], BuildProof(a.roots, idx - 1), a.root)

(* What the sink promises a regulator, for a trajectory of one customer with *)
(* every parent in it, whose spans were all there when it was attested and   *)
(* which has been held since: its rows are all still there, POST /verify     *)
(* finds its chain intact and its root recomputed from the rows is the       *)
(* attested leaf. The inclusion proof of any trajectory leads to the signed  *)
(* root, whatever retention deletes.                                         *)
HeldStaysProvable ==
  \A i \in DOMAIN atts : \A t \in Range(atts[i].leaves) :
    LET a == atts[i]
        mine == {s \in Spans : Traj[s] = t}
    IN /\ ProofOf(a, t)
       /\ /\ t \in a.kept /\ mine \subseteq a.saw
          /\ \A s \in mine : Cust[s] = a.cust /\ (IsRoot(s) \/ Parent[s] \in mine)
          => /\ Findings(t) = {}
             /\ \E j \in DOMAIN a.leaves :
                  a.leaves[j] = t /\ a.roots[j] = RootOf(t, a.cust, rows)

(* As long as no two passes build windows of a customer at the same time, a  *)
(* trajectory whose one root the attestations up to some window saw in the   *)
(* table, ended before that window's end and not before the first window, is *)
(* a leaf of exactly one attestation of its customer, that one or an earlier *)
(* one: consecutive half-open windows neither overlap nor leave a gap, also  *)
(* across windows that were empty and passes that failed.                    *)
OnlyRoot(s) == IsRoot(s) /\ \A r \in Spans : IsRoot(r) /\ Traj[r] = Traj[s] => r = s
ClosedOnceAttested ==
  \A c \in Customers :
    LET mine == AttsOf(c)
        Before(i) == {j \in mine : j < i}
    IN (\A i \in mine : atts[i].base = Cardinality(Before(i))) =>
         \A i \in mine : \A s \in atts[i].saw :
           /\ OnlyRoot(s) /\ Cust[s] = c
           /\ End[s] < atts[i].end
           /\ \A j \in mine : j <= i =>
                s \in atts[j].saw /\ (Before(j) = {} => atts[j].start <= End[s])
           => \E j \in mine : j <= i /\
                \A k \in mine : Traj[s] \in Range(atts[k].leaves) <=> k = j

-----------------------------------------------------------------------------
(* What the documentation says, and the code does not do. *)

(* The module docstring of attestation.py: the window collects all           *)
(* trajectories whose root span has an end time in it.                       *)
WindowCollectsAll ==
  \A i \in DOMAIN atts : \A s \in rows :
    IsRoot(s) /\ Cust[s] = atts[i].cust /\ atts[i].start <= End[s] /\ End[s] < atts[i].end
      => Traj[s] \in Range(atts[i].leaves)

(* The litigation-hold endpoint: a hold prevents the retention worker from   *)
(* deleting any of the trajectory's spans.                                   *)
HoldPreventsDeletion ==
  [][\A s \in rows \ rows' : ~Held(Traj[s])]_vars

=============================================================================
