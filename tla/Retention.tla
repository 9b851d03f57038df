----------------------------- MODULE Retention -----------------------------
(***************************************************************************)
(* The retention worker of the ledger against the writers it shares the    *)
(* span table with: ingest, which may store a span at any time after it    *)
(* ended, and the admin API, which places and releases litigation holds.   *)
(* A pass is ONE transaction of several statements at READ COMMITTED: each *)
(* statement sees what was committed when it starts, and the rows it       *)
(* deletes are gone for the others only when the pass commits.             *)
(* A span stands for its document: trajectory, month of its start time     *)
(* (its partition), end time and retention class are functions of it.      *)
(***************************************************************************)
EXTENDS Integers, FiniteSets, Sequences, SequencesExt

CONSTANTS
  Spans, Trajectories, Months, Classes,
  Traj, Month, End, Class,  \* [Spans -> ...]
  TTL,                      \* [Classes -> Nat \cup {Never}]: ttl_for
  Never,
  ClassOrder,               \* the classes of the row-delete path, in order
  MaxTime,                  \* bound on the clock
  HoldOn                    \* bound: the trajectories that somebody ever holds

ASSUME RetentionAssumption ==
  /\ Traj \in [Spans -> Trajectories]
  /\ Month \in [Spans -> Months]
  /\ Months \subseteq Nat
  /\ End \in [Spans -> Nat]
  /\ Class \in [Spans -> Classes]
  /\ Never \notin Nat
  /\ TTL \in [Classes -> Nat \cup {Never}]
  /\ ClassOrder \in Seq(Classes) \ {<<>>}
  /\ \A k \in Classes : TTL[k] # Never => \E i \in DOMAIN ClassOrder : ClassOrder[i] = k
  /\ \A i \in DOMAIN ClassOrder : TTL[ClassOrder[i]] # Never
  /\ MaxTime \in Nat
  /\ HoldOn \subseteq Trajectories

VARIABLES
  clock,
  rows,      \* the committed rows of spans
  months,    \* the partitions that exist
  holds,     \* litigation_holds: trajectory -> "none", "active" or "released"
  ops,       \* retention_operations, in order
  pass,      \* the retention worker
  arrived    \* history: every span ever stored

retentionVars == <<clock, rows, months, holds, ops, pass, arrived>>

\* History fields: the rows there when the pass began (had), the trajectories
\* held throughout it (held) and those held at some time in it (touched).
Quiet ==
  [pc |-> "idle", now |-> 0, todo |-> {}, month |-> 0, step |-> 0, gone |-> {},
   dropped |-> {}, ops |-> <<>>, had |-> {}, held |-> {}, touched |-> {}]

RetentionInit ==
  /\ clock = 0
  /\ rows = {}
  /\ months = Months
  /\ holds = [t \in Trajectories |-> "none"]
  /\ ops = <<>>
  /\ pass = Quiet
  /\ arrived = {}

Held(t) == holds[t] = "active"
Expired(s, now) == TTL[Class[s]] # Never /\ End[s] + TTL[Class[s]] < now

\* DROP TABLE of a partition holds an exclusive lock on spans until the pass ends.
Unlocked == pass.dropped = {}

-----------------------------------------------------------------------------
Tick == clock < MaxTime /\ clock' = clock + 1
        /\ UNCHANGED <<rows, months, holds, ops, pass, arrived>>

\* POST /spans commits a batch of one span; without a partition it fails.
Store(s) ==
  /\ s \notin arrived
  /\ End[s] <= clock
  /\ Unlocked
  /\ Month[s] \in months
  /\ rows' = rows \cup {s}
  /\ arrived' = arrived \cup {s}
  /\ UNCHANGED <<clock, months, holds, ops, pass>>

\* An active hold is left alone; a released one is placed again.
PlaceHold(t) ==
  /\ ~Held(t)
  /\ holds' = [holds EXCEPT ![t] = "active"]
  /\ pass' = [pass EXCEPT !.touched = @ \cup {t}]
  /\ UNCHANGED <<clock, rows, months, ops, arrived>>

ReleaseHold(t) ==
  /\ Held(t)
  /\ holds' = [holds EXCEPT ![t] = "released"]
  /\ pass' = [pass EXCEPT !.held = @ \ {t}]
  /\ UNCHANGED <<clock, rows, months, ops, arrived>>

-----------------------------------------------------------------------------
StartPass ==
  /\ pass.pc = "idle"
  /\ pass' = [Quiet EXCEPT !.pc = "probe", !.now = clock, !.todo = months,
                           !.had = rows, !.held = {t \in Trajectories : Held(t)},
                           !.touched = {t \in Trajectories : Held(t)}]
  /\ UNCHANGED <<clock, rows, months, holds, ops, arrived>>

\* What the pass's own statements see of a partition.
In(m) == {s \in rows \ pass.gone : Month[s] = m}
FirstOf(m) == m \in pass.todo /\ \A n \in pass.todo : m <= n

SparedIfEmpty(m) == In(m) = {}
Spared(m) == In(m) = {} \/ \E s \in In(m) : Held(Traj[s])
OneClass(m) == \A r, s \in In(m) : Class[r] = Class[s]
WholeExpired(m) == OneClass(m) /\ \A s \in In(m) : Expired(s, pass.now)

ProbePartition(m) ==
  /\ pass.pc = "probe"
  /\ FirstOf(m)
  /\ pass' = [pass EXCEPT
       !.todo = @ \ {m},
       !.month = m,
       !.step = 1,
       !.pc = IF Spared(m) THEN "probe" ELSE IF WholeExpired(m) THEN "drop" ELSE "delete"]
  /\ UNCHANGED <<clock, rows, months, holds, ops, arrived>>

\* The DROP takes what the partition holds now, not what the probe saw.
DropPartition ==
  /\ pass.pc = "drop"
  /\ pass' = [pass EXCEPT
       !.pc = "probe",
       !.gone = @ \cup In(pass.month),
       !.dropped = @ \cup {pass.month},
       !.ops = Append(@, [kind |-> "drop_partition", month |-> pass.month, n |-> 0])]
  /\ UNCHANGED <<clock, rows, months, holds, ops, arrived>>

Deletable(m, k) ==
  {s \in In(m) : Class[s] = k /\ Expired(s, pass.now) /\ ~Held(Traj[s])}

DeleteFirstClass ==
  /\ pass.pc = "delete"
  /\ LET out == Deletable(pass.month, ClassOrder[1])
     IN pass' = [pass EXCEPT !.pc = "probe", !.gone = @ \cup out, !.ops =
          IF out = {} THEN @ ELSE
          Append(@, [kind |-> "delete_rows", month |-> pass.month, n |-> Cardinality(out)])]
  /\ UNCHANGED <<clock, rows, months, holds, ops, arrived>>

DeleteRows ==
  /\ pass.pc = "delete"
  /\ LET k == ClassOrder[pass.step]
         out == Deletable(pass.month, k)
     IN pass' = [pass EXCEPT
          !.pc = IF pass.step = Len(ClassOrder) THEN "probe" ELSE @,
          !.step = @ + 1,
          !.gone = @ \cup out,
          !.ops = IF out = {} THEN @ ELSE
                  Append(@, [kind |-> "delete_rows", month |-> pass.month, n |-> Cardinality(out)])]
  /\ UNCHANGED <<clock, rows, months, holds, ops, arrived>>

CommitPass ==
  /\ pass.pc = "probe"
  /\ pass.todo = {}
  /\ rows' = rows \ pass.gone
  /\ months' = months \ pass.dropped
  /\ ops' = ops \o pass.ops
  /\ pass' = Quiet
  /\ UNCHANGED <<clock, holds, arrived>>

AbortKeepsAudit ==
  /\ pass.pc # "idle"
  /\ pass' = Quiet
  /\ ops' = ops \o pass.ops
  /\ UNCHANGED <<clock, rows, months, holds, arrived>>

\* An error or a crash anywhere in the pass: the transaction is rolled back.
AbortPass ==
  /\ pass.pc # "idle"
  /\ pass' = Quiet
  /\ UNCHANGED <<clock, rows, months, holds, ops, arrived>>

RetentionStep ==
  \/ StartPass
  \/ \E m \in Months : ProbePartition(m)
  \/ DropPartition
  \/ DeleteRows
  \/ CommitPass
  \/ AbortPass

HoldStep == \E t \in HoldOn : PlaceHold(t) \/ ReleaseHold(t)

RetentionNext == Tick \/ HoldStep \/ RetentionStep \/ \E s \in Spans : Store(s)

RetentionSpec == RetentionInit /\ [][RetentionNext]_retentionVars

-----------------------------------------------------------------------------
(* A pass takes, of the rows there when it began, none before its time and   *)
(* none of a trajectory held throughout the pass, whichever path deletes it, *)
(* whatever holds come and go and whatever is stored meanwhile.              *)
PurgeLawful ==
  [][\A s \in (rows \ rows') \cap pass.had :
       Expired(s, pass.now) /\ Traj[s] \notin pass.held]_retentionVars

(* A pass about to commit leaves no expired row behind in a partition none   *)
(* of whose trajectories was held while it ran: skipping partitions, choosing *)
(* the path and running through the classes loses nothing.                   *)
PassThorough ==
  pass.pc = "probe" /\ pass.todo = {} =>
    \A s \in pass.had \ pass.gone :
      Expired(s, pass.now) =>
        \E r \in arrived : Month[r] = Month[s] /\ Traj[r] \in pass.touched

(* retention_operations accounts for every row that is gone: in a partition  *)
(* that exists the counts of its delete_rows entries add up to the rows lost, *)
(* and a partition that is gone has one drop_partition entry.                *)
Counted(op, m) == IF op.kind = "delete_rows" /\ op.month = m THEN op.n ELSE 0
DeletedUpTo(log, m) ==
  LET sum[i \in 0..Len(log)] == IF i = 0 THEN 0 ELSE sum[i - 1] + Counted(log[i], m)
  IN sum
Deleted(log, m) == DeletedUpTo(log, m)[Len(log)]
Drops(log, m) == {i \in DOMAIN log : log[i].kind = "drop_partition" /\ log[i].month = m}
AuditAccounts ==
  \A m \in Months :
    LET lost == {s \in arrived \ rows : Month[s] = m} IN
    IF m \in months THEN Cardinality(lost) = Deleted(ops, m) /\ Drops(ops, m) = {}
                    ELSE /\ Cardinality(lost) >= Deleted(ops, m)
                         /\ \E i \in DOMAIN ops : Drops(ops, m) = {i}

=============================================================================
