---------------------------- MODULE LedgerProofs ----------------------------
(***************************************************************************)
(* What the retention pass deletes and logs, what a Merkle proof proves and *)
(* what the anchor workers attest, for every table, hold, window and        *)
(* interleaving.                                                            *)
(* A pass deletes in one of two ways, from what a statement saw before: the *)
(* invariant says that neither a new row nor a hold that comes or goes can  *)
(* make what was seen wrong for the rows that were there all along.  The    *)
(* Merkle tree is followed up its levels.  The anchor workers come last:    *)
(* each window starts where the last one ended, and no pass reaches the     *)
(* rows of what is held since.                                              *)
(***************************************************************************)
EXTENDS Anchor, FiniteSetTheorems, WellFoundedInduction, TLAPS

-----------------------------------------------------------------------------
(* Induction over sets of natural numbers, for functions that recur.         *)

Less == {p \in Nat \X Nat : p[1] < p[2]}

(* There is no infinite descent in the natural numbers.                      *)
LEMMA LessWellFounded == IsWellFoundedOn(Less, Nat)
<1>1. Less = OpToRel(<, Nat)
  BY DEF Less, OpToRel
<1> QED BY <1>1, NatLessThanWellFounded

(* A set of natural numbers that is not empty has a least element.           *)
LEMMA LeastOf ==
  ASSUME NEW T \in SUBSET Nat, T # {}
  PROVE  \E m \in T : \A n \in T : m <= n
<1>1. PICK m \in T : \A n \in T : <<n, m>> \notin Less
  BY LessWellFounded, WFMin
<1>2. ASSUME NEW n \in T PROVE m <= n
  <2>1. <<n, m>> \notin Less /\ n \in Nat /\ m \in Nat
    BY <1>1
  <2> QED BY <2>1 DEF Less
<1> QED BY <1>2

(* Induction: a set with 0, and with n + 1 for each n < top in it, has all   *)
(* numbers up to top.                                                        *)
LEMMA UpTo ==
  ASSUME NEW top \in Nat, NEW S, 0 \in S,
         \A n \in 0..(top - 1) : n \in S => n + 1 \in S
  PROVE  \A n \in 0..top : n \in S
<1> DEFINE T == {n \in 0..top : n \notin S}
<1>1. SUFFICES ASSUME T # {} PROVE FALSE
  OBVIOUS
<1>2. T \in SUBSET Nat
  OBVIOUS
<1>3. PICK m \in T : \A n \in T : m <= n
  BY <1>1, <1>2, LeastOf
<1>4. m \in 0..top /\ m \notin S /\ m # 0
  BY <1>3
<1>5. m - 1 \in 0..(top - 1) /\ m - 1 \notin T
  BY <1>3, <1>4
<1>6. m - 1 \in S
  BY <1>4, <1>5
<1> QED BY <1>4, <1>5, <1>6

-----------------------------------------------------------------------------
(* The retention pass.  Its state, and what it takes.                        *)

\* The fields of a pass, so that an update of one leaves the others alone.
PassShape ==
  pass = [pc |-> pass.pc, now |-> pass.now, todo |-> pass.todo, month |-> pass.month,
          step |-> pass.step, gone |-> pass.gone, dropped |-> pass.dropped, ops |-> pass.ops,
          had |-> pass.had, held |-> pass.held, touched |-> pass.touched]

HeldThroughout == pass.held \subseteq {t \in Trajectories : Held(t)}

MayGo(s) == Expired(s, pass.now) /\ Traj[s] \notin pass.held
GoneLawful == \A s \in pass.gone \cap pass.had : MayGo(s)
DropLawful == pass.pc = "drop" => \A s \in In(pass.month) \cap pass.had : MayGo(s)

PurgeInv ==
  /\ PassShape
  /\ holds \in [Trajectories -> {"none", "active", "released"}]
  /\ HeldThroughout
  /\ pass.had \subseteq rows
  /\ GoneLawful
  /\ DropLawful

LEMMA PurgeInit == RetentionInit => PurgeInv
  BY DEF RetentionInit, PurgeInv, PassShape, HeldThroughout, GoneLawful, DropLawful, Quiet, Held

\* A hold placed or released leaves the rows of the pass that may go as they were.
LEMMA PurgeHold ==
  ASSUME PurgeInv, NEW t \in Trajectories, PlaceHold(t) \/ ReleaseHold(t)
  PROVE  PurgeInv'
<1>1. CASE PlaceHold(t)
  <2>1. /\ pass'.pc = pass.pc /\ pass'.now = pass.now /\ pass'.month = pass.month
        /\ pass'.gone = pass.gone /\ pass'.had = pass.had /\ pass'.held = pass.held
        /\ PassShape'
    BY <1>1 DEF PlaceHold, PurgeInv, PassShape
  <2>2. HeldThroughout' /\ holds' \in [Trajectories -> {"none", "active", "released"}]
    BY <1>1, <2>1 DEF PlaceHold, PurgeInv, HeldThroughout, Held
  <2> QED BY <1>1, <2>1, <2>2 DEF PlaceHold, PurgeInv, GoneLawful, DropLawful, MayGo, Expired, In
<1>2. CASE ReleaseHold(t)
  <2>1. /\ pass'.pc = pass.pc /\ pass'.now = pass.now /\ pass'.month = pass.month
        /\ pass'.gone = pass.gone /\ pass'.had = pass.had /\ pass'.held = pass.held \ {t}
        /\ PassShape'
    BY <1>2 DEF ReleaseHold, PurgeInv, PassShape
  <2>2. HeldThroughout' /\ holds' \in [Trajectories -> {"none", "active", "released"}]
    BY <1>2, <2>1 DEF ReleaseHold, PurgeInv, HeldThroughout, Held
  <2> QED BY <1>2, <2>1, <2>2 DEF ReleaseHold, PurgeInv, GoneLawful, DropLawful, MayGo, Expired, In
<1> QED BY <1>1, <1>2

LEMMA PurgeProbe ==
  ASSUME PurgeInv, NEW m \in Months, ProbePartition(m)
  PROVE  PurgeInv'
<1>1. /\ pass'.now = pass.now /\ pass'.month = m /\ pass'.gone = pass.gone
      /\ pass'.had = pass.had /\ pass'.held = pass.held /\ PassShape'
      /\ pass'.pc = "drop" => ~Spared(m) /\ WholeExpired(m)
  BY DEF ProbePartition, PurgeInv, PassShape
<1>2. pass'.pc = "drop" => \A s \in In(m) : MayGo(s)
  BY <1>1, RetentionAssumption DEF PurgeInv, HeldThroughout, Spared, WholeExpired, MayGo
<1>3. In(m)' = In(m) BY <1>1 DEF ProbePartition, In
<1>4. DropLawful'
  BY <1>1, <1>2, <1>3 DEF DropLawful, MayGo, Expired
<1> QED BY <1>1, <1>4 DEF ProbePartition, PurgeInv, HeldThroughout, Held, GoneLawful, MayGo, Expired

LEMMA PurgeDelete ==
  ASSUME PurgeInv, DropPartition \/ DeleteRows
  PROVE  PurgeInv'
<1>1. CASE DropPartition
  <2>1. /\ pass'.now = pass.now /\ pass'.gone = pass.gone \cup In(pass.month) /\ pass'.pc = "probe"
        /\ pass'.had = pass.had /\ pass'.held = pass.held /\ PassShape'
    BY <1>1 DEF DropPartition, PurgeInv, PassShape
  <2>2. GoneLawful'
    BY <1>1, <2>1 DEF DropPartition, PurgeInv, GoneLawful, DropLawful, MayGo, Expired
  <2> QED BY <1>1, <2>1, <2>2 DEF DropPartition, PurgeInv, HeldThroughout, Held, DropLawful
<1>2. CASE DeleteRows
  <2> DEFINE out == Deletable(pass.month, ClassOrder[pass.step])
  <2>1. /\ pass'.now = pass.now /\ pass'.gone = pass.gone \cup out /\ pass'.pc # "drop"
        /\ pass'.had = pass.had /\ pass'.held = pass.held /\ PassShape'
    BY <1>2 DEF DeleteRows, PurgeInv, PassShape
  <2>2. \A s \in out : MayGo(s)
    BY RetentionAssumption DEF Deletable, MayGo, PurgeInv, HeldThroughout
  <2>3. GoneLawful'
    BY <2>1, <2>2 DEF PurgeInv, GoneLawful, MayGo, Expired
  <2> QED BY <1>2, <2>1, <2>3 DEF DeleteRows, PurgeInv, HeldThroughout, Held, DropLawful
<1> QED BY <1>1, <1>2

LEMMA PurgeStep == PurgeInv /\ [RetentionNext]_retentionVars => PurgeInv'
<1> SUFFICES ASSUME PurgeInv, [RetentionNext]_retentionVars PROVE PurgeInv' OBVIOUS
<1>1. CASE UNCHANGED retentionVars
  BY <1>1 DEF retentionVars, PurgeInv, PassShape, HeldThroughout, Held, GoneLawful, DropLawful,
              MayGo, Expired, In
<1>2. CASE Tick
  BY <1>2 DEF Tick, PurgeInv, PassShape, HeldThroughout, Held, GoneLawful, DropLawful, MayGo,
              Expired, In
<1>3. CASE HoldStep
  BY <1>3, PurgeHold, RetentionAssumption DEF HoldStep
<1>4. ASSUME NEW s \in Spans, Store(s) PROVE PurgeInv'
  BY <1>4 DEF Store, PurgeInv, PassShape, HeldThroughout, Held, GoneLawful, DropLawful, MayGo,
              Expired, In
<1>5. CASE StartPass
  <2>1. /\ pass'.pc = "probe" /\ pass'.gone = {} /\ pass'.had = rows
        /\ pass'.held = {t \in Trajectories : Held(t)} /\ PassShape'
    BY <1>5 DEF StartPass, Quiet, PassShape
  <2> QED BY <1>5, <2>1 DEF StartPass, PurgeInv, HeldThroughout, Held, GoneLawful, DropLawful
<1>6. ASSUME NEW m \in Months, ProbePartition(m) PROVE PurgeInv'
  BY <1>6, PurgeProbe
<1>7. CASE DropPartition \/ DeleteRows
  BY <1>7, PurgeDelete
<1>8. CASE CommitPass \/ AbortPass
  BY <1>8 DEF CommitPass, AbortPass, Quiet, PurgeInv, PassShape, HeldThroughout, Held, GoneLawful,
              DropLawful
<1> QED BY <1>1, <1>2, <1>3, <1>4, <1>5, <1>6, <1>7, <1>8 DEF RetentionNext, RetentionStep

LEMMA OnlyLawful ==
  ASSUME PurgeInv, [RetentionNext]_retentionVars,
         NEW s \in (rows \ rows') \cap pass.had
  PROVE  Expired(s, pass.now) /\ Traj[s] \notin pass.held
<1>1. CommitPass
  BY DEF RetentionNext, RetentionStep, retentionVars, Tick, HoldStep, PlaceHold, ReleaseHold,
         Store, StartPass, ProbePartition, DropPartition, DeleteRows, AbortPass
<1> QED BY <1>1 DEF CommitPass, PurgeInv, GoneLawful, MayGo

(* Whatever a retention pass removes of the rows that were there when it     *)
(* began had expired, and no trajectory held throughout the pass lost any.   *)
THEOREM PurgesAreLawful == RetentionSpec => PurgeLawful
<1>1. PurgeInv /\ [RetentionNext]_retentionVars =>
        [\A s \in (rows \ rows') \cap pass.had :
           Expired(s, pass.now) /\ Traj[s] \notin pass.held]_retentionVars
  BY OnlyLawful
<1> QED BY PurgeInit, PurgeStep, <1>1, PTL DEF RetentionSpec, PurgeLawful

-----------------------------------------------------------------------------
(* What a pass leaves.  An expired row that was there when the pass began is *)
(* still to be looked at, by the probe of its partition, the DROP or the     *)
(* statement of its class, or somebody held a trajectory of its partition.   *)

Excused(m) == \E r \in arrived : Month[r] = m /\ Traj[r] \in pass.touched

InWork(s) ==
  /\ Month[s] = pass.month
  /\ \/ pass.pc = "drop"
     \/ pass.pc = "delete" /\ \E i \in pass.step..Len(ClassOrder) : ClassOrder[i] = Class[s]

Stored ==
  /\ rows \subseteq arrived /\ arrived \subseteq Spans
  /\ \A s \in rows : /\ Month[s] \in months
                     /\ Month[s] \in pass.dropped => s \in pass.gone

Touched == pass.pc # "idle" => {t \in Trajectories : Held(t)} \subseteq pass.touched

Covered ==
  pass.pc # "idle" =>
    \A s \in pass.had \ pass.gone :
      Expired(s, pass.now) => Month[s] \in pass.todo \/ InWork(s) \/ Excused(Month[s])

ThoroughInv ==
  /\ PurgeInv /\ Stored /\ Touched /\ Covered
  /\ pass.pc = "delete" => pass.step \in 1..Len(ClassOrder)

LEMMA ThoroughInit == RetentionInit => ThoroughInv
  BY PurgeInit DEF RetentionInit, ThoroughInv, Stored, Touched, Covered, Quiet

LEMMA ThoroughHold ==
  ASSUME ThoroughInv, NEW t \in Trajectories, PlaceHold(t) \/ ReleaseHold(t)
  PROVE  Stored' /\ Touched' /\ Covered' /\ pass'.pc = pass.pc /\ pass'.step = pass.step
<1>1. /\ pass'.pc = pass.pc /\ pass'.now = pass.now /\ pass'.month = pass.month
      /\ pass'.gone = pass.gone /\ pass'.had = pass.had /\ pass'.todo = pass.todo
      /\ pass'.step = pass.step /\ pass'.dropped = pass.dropped
      /\ pass.touched \subseteq pass'.touched
      /\ PlaceHold(t) => t \in pass'.touched
      /\ UNCHANGED <<rows, arrived, months>>
  BY DEF PlaceHold, ReleaseHold, ThoroughInv, PurgeInv, PassShape
<1>2. Touched'
  BY <1>1 DEF PlaceHold, ReleaseHold, ThoroughInv, PurgeInv, Touched, Held
<1>3. Covered'
  BY <1>1 DEF ThoroughInv, Covered, InWork, Excused, Expired
<1> QED BY <1>1, <1>2, <1>3 DEF ThoroughInv, Stored

\* The probe passes over a partition that is empty or holds a held row.
LEMMA ThoroughProbe ==
  ASSUME ThoroughInv, NEW m \in Months, ProbePartition(m)
  PROVE  Stored' /\ Touched' /\ Covered' /\ (pass'.pc = "delete" => pass'.step \in 1..Len(ClassOrder))
<1>1. /\ pass'.now = pass.now /\ pass'.month = m /\ pass'.gone = pass.gone
      /\ pass'.had = pass.had /\ pass'.touched = pass.touched /\ pass'.dropped = pass.dropped
      /\ pass'.todo = pass.todo \ {m} /\ pass'.step = 1
      /\ pass'.pc = IF Spared(m) THEN "probe" ELSE IF WholeExpired(m) THEN "drop" ELSE "delete"
      /\ pass.pc = "probe"
      /\ UNCHANGED <<rows, arrived, months, holds>>
  BY DEF ProbePartition, ThoroughInv, PurgeInv, PassShape
<1>2. 1 \in 1..Len(ClassOrder)
  BY RetentionAssumption
<1>3. ASSUME NEW s \in pass.had \ pass.gone, Expired(s, pass.now), Month[s] = m
      PROVE  InWork(s)' \/ Excused(m)'
  <2>1. s \in Spans /\ s \in In(m)
    BY <1>3 DEF ThoroughInv, PurgeInv, Stored, In
  <2>2. CASE Spared(m)
    <3>1. PICK r \in In(m) : Held(Traj[r])
      BY <2>1, <2>2 DEF Spared
    <3>2. r \in arrived /\ Month[r] = m /\ Traj[r] \in pass.touched
      BY <1>1, <3>1, RetentionAssumption DEF In, ThoroughInv, Stored, Touched
    <3> QED BY <1>1, <3>2 DEF Excused
  <2>3. CASE ~Spared(m) /\ WholeExpired(m)
    BY <1>1, <1>3, <2>3 DEF InWork
  <2>4. CASE ~Spared(m) /\ ~WholeExpired(m)
    <3>1. Class[s] \in Classes /\ TTL[Class[s]] # Never
      BY <1>3, <2>1, RetentionAssumption DEF Expired
    <3>2. PICK i \in DOMAIN ClassOrder : ClassOrder[i] = Class[s]
      BY <3>1, RetentionAssumption
    <3>3. i \in 1..Len(ClassOrder)
      BY RetentionAssumption
    <3> QED BY <1>1, <1>3, <2>4, <3>2, <3>3 DEF InWork
  <2> QED BY <2>2, <2>3, <2>4
<1>4. Covered'
  <2>1. \A s \in pass.had \ pass.gone : Expired(s, pass.now)' <=> Expired(s, pass.now)
    BY <1>1 DEF Expired
  <2>2. \A n : Excused(n)' <=> Excused(n) BY <1>1 DEF Excused
  <2>3. \A s \in pass.had \ pass.gone : ~InWork(s) BY <1>1 DEF InWork
  <2> QED BY <1>1, <1>3, <2>1, <2>2, <2>3 DEF ThoroughInv, Covered
<1> QED BY <1>1, <1>2, <1>4 DEF ThoroughInv, Stored, Touched, Held

LEMMA ThoroughDelete ==
  ASSUME ThoroughInv, DropPartition \/ DeleteRows
  PROVE  Stored' /\ Touched' /\ Covered' /\ (pass'.pc = "delete" => pass'.step \in 1..Len(ClassOrder))
<1>1. CASE DropPartition
  <2>1. /\ pass'.now = pass.now /\ pass'.month = pass.month
        /\ pass'.gone = pass.gone \cup In(pass.month)
        /\ pass'.had = pass.had /\ pass'.touched = pass.touched
        /\ pass'.dropped = pass.dropped \cup {pass.month}
        /\ pass'.todo = pass.todo /\ pass'.pc = "probe" /\ pass.pc = "drop"
        /\ UNCHANGED <<rows, arrived, months, holds>>
    BY <1>1 DEF DropPartition, ThoroughInv, PurgeInv, PassShape
  <2>2. Stored' BY <2>1 DEF ThoroughInv, Stored, In
  <2>3. Covered'
    <3>1. \A s \in pass.had : s \notin pass'.gone =>
            s \notin pass.gone /\ Month[s] # pass.month
      BY <2>1 DEF In, ThoroughInv, PurgeInv
    <3>2. \A s : Excused(Month[s])' <=> Excused(Month[s]) BY <2>1 DEF Excused
    <3>3. \A s : Expired(s, pass.now)' <=> Expired(s, pass.now) BY <2>1 DEF Expired
    <3> QED BY <2>1, <3>1, <3>2, <3>3 DEF ThoroughInv, Covered, InWork
  <2> QED BY <2>1, <2>2, <2>3 DEF ThoroughInv, Touched, Held
<1>2. CASE DeleteRows
  <2> DEFINE k == ClassOrder[pass.step]
             out == Deletable(pass.month, k)
  <2>1. /\ pass'.now = pass.now /\ pass'.month = pass.month /\ pass'.gone = pass.gone \cup out
        /\ pass'.had = pass.had /\ pass'.touched = pass.touched /\ pass'.dropped = pass.dropped
        /\ pass'.todo = pass.todo /\ pass'.step = pass.step + 1 /\ pass.pc = "delete"
        /\ pass'.pc = IF pass.step = Len(ClassOrder) THEN "probe" ELSE "delete"
        /\ UNCHANGED <<rows, arrived, months, holds>>
    BY <1>2 DEF DeleteRows, ThoroughInv, PurgeInv, PassShape
  <2>2. pass.step \in 1..Len(ClassOrder) /\ Len(ClassOrder) \in Nat
    BY <2>1, RetentionAssumption DEF ThoroughInv
  <2>3. pass'.pc = "delete" => pass'.step \in 1..Len(ClassOrder)
    BY <2>1, <2>2
  <2>4. \A s : (Excused(Month[s])' <=> Excused(Month[s])) /\ (Expired(s, pass.now)' <=> Expired(s, pass.now))
    BY <2>1 DEF Excused, Expired
  <2>5. ASSUME NEW s \in pass.had \ pass'.gone, Expired(s, pass.now), InWork(s)
        PROVE  InWork(s)' \/ Excused(Month[s])
    <3>1. s \in In(pass.month) /\ s \in Spans /\ s \in arrived
      BY <2>1, <2>5 DEF In, InWork, ThoroughInv, PurgeInv, Stored
    <3>2. CASE Class[s] = k
      <4>1. Held(Traj[s])
        BY <2>1, <2>5, <3>1, <3>2 DEF Deletable
      <4>2. Traj[s] \in pass.touched
        BY <2>1, <3>1, <4>1, RetentionAssumption DEF ThoroughInv, Touched
      <4> QED BY <3>1, <4>2 DEF Excused
    <3>3. CASE Class[s] # k
      <4>1. PICK i \in pass.step..Len(ClassOrder) : ClassOrder[i] = Class[s]
        BY <2>1, <2>5 DEF InWork
      <4>2. i \in (pass.step + 1)..Len(ClassOrder) /\ pass.step # Len(ClassOrder)
        BY <2>2, <3>3, <4>1
      <4> QED BY <2>1, <2>5, <4>1, <4>2 DEF InWork
    <3> QED BY <3>2, <3>3
  <2>6. Covered' BY <2>1, <2>4, <2>5 DEF ThoroughInv, Covered
  <2> QED BY <2>1, <2>3, <2>6 DEF ThoroughInv, Stored, Touched, Held
<1> QED BY <1>1, <1>2

LEMMA ThoroughStep == ThoroughInv /\ [RetentionNext]_retentionVars => ThoroughInv'
<1> SUFFICES ASSUME ThoroughInv, [RetentionNext]_retentionVars PROVE ThoroughInv' OBVIOUS
<1>0. PurgeInv' BY PurgeStep DEF ThoroughInv
<1> DEFINE Rest == Stored' /\ Touched' /\ Covered'
                   /\ (pass'.pc = "delete" => pass'.step \in 1..Len(ClassOrder))
<1>1. CASE UNCHANGED retentionVars \/ Tick
  <2>1. UNCHANGED <<rows, months, holds, pass, arrived>>
    BY <1>1 DEF retentionVars, Tick
  <2> QED BY <1>0, <2>1 DEF ThoroughInv, Stored, Touched, Covered, Held, InWork, Excused, Expired
<1>2. CASE HoldStep
  BY <1>0, <1>2, ThoroughHold, RetentionAssumption DEF HoldStep, ThoroughInv
<1>3. ASSUME NEW s \in Spans, Store(s) PROVE ThoroughInv'
  <2>1. /\ rows' = rows \cup {s} /\ arrived' = arrived \cup {s} /\ pass.dropped = {}
        /\ Month[s] \in months /\ UNCHANGED <<months, holds, pass>>
    BY <1>3 DEF Store, Unlocked
  <2>2. Stored' BY <2>1 DEF ThoroughInv, Stored
  <2>3. Covered' BY <2>1 DEF ThoroughInv, Covered, InWork, Excused, Expired
  <2> QED BY <1>0, <2>1, <2>2, <2>3 DEF ThoroughInv, Touched, Held
<1>4. CASE StartPass
  <2>1. /\ pass'.pc = "probe" /\ pass'.gone = {} /\ pass'.had = rows /\ pass'.dropped = {}
        /\ pass'.todo = months /\ pass'.touched = {t \in Trajectories : Held(t)}
        /\ UNCHANGED <<rows, months, holds, arrived>>
    BY <1>4 DEF StartPass, Quiet
  <2> QED BY <1>0, <2>1 DEF ThoroughInv, Stored, Touched, Covered, Held
<1>5. ASSUME NEW m \in Months, ProbePartition(m) PROVE ThoroughInv'
  BY <1>0, <1>5, ThoroughProbe DEF ThoroughInv
<1>6. CASE DropPartition \/ DeleteRows
  BY <1>0, <1>6, ThoroughDelete DEF ThoroughInv
<1>7. CASE CommitPass \/ AbortPass
  <2>1. pass'.pc = "idle" /\ pass'.dropped = {} /\ arrived' = arrived
    BY <1>7 DEF CommitPass, AbortPass, Quiet
  <2>2. Stored'
    BY <1>7, <2>1 DEF CommitPass, AbortPass, ThoroughInv, Stored
  <2> QED BY <1>0, <2>1, <2>2 DEF ThoroughInv, Touched, Covered
<1> QED BY <1>1, <1>2, <1>3, <1>4, <1>5, <1>6, <1>7 DEF RetentionNext, RetentionStep

(* A pass that is about to commit has taken every expired row of a partition *)
(* none of whose trajectories was held while it ran, for any number of       *)
(* partitions and classes (enforcer.py: the probe, the DROP, the DELETEs).   *)
THEOREM PassesAreThorough == RetentionSpec => []PassThorough
<1>1. ThoroughInv => PassThorough
  BY DEF ThoroughInv, Covered, PassThorough, InWork, Excused
<1> QED BY <1>1, ThoroughInit, ThoroughStep, PTL DEF RetentionSpec

-----------------------------------------------------------------------------
(* What the log says.  The rows that a pass has marked as gone, and those    *)
(* that are lost, are counted by the entries of the pass and of the log.     *)

OpSet == [kind : {"drop_partition", "delete_rows"}, month : Months, n : Nat]

LEMMA SumsFixpoint ==
  ASSUME NEW log, NEW m, NEW top \in Nat, top = Len(log)
  PROVE  DeletedUpTo(log, m) =
           [k \in 0..top |-> IF k = 0 THEN 0 ELSE DeletedUpTo(log, m)[k - 1] + Counted(log[k], m)]
<1> DEFINE Good(n, f) == f = [k \in 0..n |-> IF k = 0 THEN 0 ELSE f[k - 1] + Counted(log[k], m)]
           S == {n \in 0..top : \E f : Good(n, f)}
<1>1. 0 \in S
  <2> DEFINE f == [k \in 0..0 |-> 0]
  <2>1. Good(0, f) OBVIOUS
  <2>2. 0 \in 0..top OBVIOUS
  <2> HIDE DEF Good, f
  <2> QED BY <2>1, <2>2
<1>2. ASSUME NEW n \in 0..(top - 1), n \in S PROVE n + 1 \in S
  <2>1. PICK f : Good(n, f) BY <1>2
  <2> DEFINE g == [k \in 0..(n + 1) |-> IF k = n + 1 THEN f[n] + Counted(log[n + 1], m) ELSE f[k]]
  <2>2. \A k \in 0..(n + 1) : g[k] = IF k = 0 THEN 0 ELSE g[k - 1] + Counted(log[k], m)
    <3> SUFFICES ASSUME NEW k \in 0..(n + 1)
                 PROVE  g[k] = IF k = 0 THEN 0 ELSE g[k - 1] + Counted(log[k], m)
      OBVIOUS
    <3>1. CASE k = n + 1
      <4>1. k # 0 /\ k - 1 = n /\ n \in 0..(n + 1) /\ n # n + 1 BY <3>1
      <4> QED BY <3>1, <4>1
    <3>2. CASE k # n + 1 /\ k # 0
      <4>1. k \in 0..n /\ k - 1 \in 0..(n + 1) /\ k - 1 # n + 1 BY <3>2
      <4>2. f[k] = f[k - 1] + Counted(log[k], m) BY <2>1, <3>2, <4>1
      <4> QED BY <3>2, <4>1, <4>2
    <3>3. CASE k = 0
      <4>1. f[0] = 0 BY <2>1
      <4> QED BY <3>3, <4>1
    <3> QED BY <3>1, <3>2, <3>3
  <2>3. Good(n + 1, g) BY <2>2
  <2>4. n + 1 \in 0..top OBVIOUS
  <2> QED BY <2>3, <2>4
<1>3. \E f : Good(top, f)
  <2> HIDE DEF S
  <2>1. top \in S BY <1>1, <1>2, UpTo
  <2> QED BY <2>1 DEF S
<1> QED BY <1>3 DEF DeletedUpTo

LEMMA SumsStepwise ==
  ASSUME NEW log, NEW m, NEW top \in Nat, top = Len(log)
  PROVE  /\ DeletedUpTo(log, m)[0] = 0
         /\ \A i \in 0..(top - 1) :
              DeletedUpTo(log, m)[i + 1] = DeletedUpTo(log, m)[i] + Counted(log[i + 1], m)
<1> DEFINE h == DeletedUpTo(log, m)
<1>1. h = [k \in 0..top |-> IF k = 0 THEN 0 ELSE h[k - 1] + Counted(log[k], m)]
  BY SumsFixpoint
<1> HIDE DEF h
<1>2. h[0] = 0
  <2>1. 0 \in 0..top OBVIOUS
  <2> QED BY <1>1, <2>1
<1>3. ASSUME NEW i \in 0..(top - 1) PROVE h[i + 1] = h[i] + Counted(log[i + 1], m)
  <2>1. i + 1 \in 0..top /\ i + 1 # 0 /\ (i + 1) - 1 = i OBVIOUS
  <2> QED BY <1>1, <2>1
<1> QED BY <1>2, <1>3 DEF h

LEMMA CountIsNat == \A m : \A op \in OpSet : Counted(op, m) \in Nat
<1> SUFFICES ASSUME NEW m, NEW op \in OpSet PROVE Counted(op, m) \in Nat OBVIOUS
<1>1. op.n \in Nat BY DEF OpSet
<1> QED BY <1>1 DEF Counted

LEMMA SumsAreNat ==
  ASSUME NEW log \in Seq(OpSet), NEW m
  PROVE  \A i \in 0..Len(log) : DeletedUpTo(log, m)[i] \in Nat
<1> DEFINE h == DeletedUpTo(log, m)
           n == Len(log)
           S == {i \in 0..n : h[i] \in Nat}
<1>1. n \in Nat /\ \A i \in 1..n : Counted(log[i], m) \in Nat
  <2>1. n \in Nat /\ \A i \in 1..n : log[i] \in OpSet OBVIOUS
  <2> QED BY <2>1, CountIsNat
<1>2. h[0] = 0 /\ \A i \in 0..(n - 1) : h[i + 1] = h[i] + Counted(log[i + 1], m)
  BY <1>1, SumsStepwise
<1> HIDE DEF h, n
<1>3. 0 \in S BY <1>1, <1>2
<1>4. ASSUME NEW i \in 0..(n - 1), i \in S PROVE i + 1 \in S
  <2>1. i + 1 \in 0..n /\ i + 1 \in 1..n BY <1>1
  <2> QED BY <1>1, <1>2, <1>4, <2>1
<1>5. \A i \in 0..n : i \in S
  <2> HIDE DEF S
  <2> QED BY <1>1, <1>3, <1>4, UpTo
<1> QED BY <1>5 DEF h, n

(* The counts of two logs, one after the other, add up.                      *)
LEMMA SumsAddUp ==
  ASSUME NEW p \in Seq(OpSet), NEW q \in Seq(OpSet), NEW m
  PROVE  Deleted(p \o q, m) = Deleted(p, m) + Deleted(q, m)
<1> DEFINE P == DeletedUpTo(p, m)
           Q == DeletedUpTo(q, m)
           R == DeletedUpTo(p \o q, m)
           n == Len(p)
           k == Len(q)
<1>1. /\ n \in Nat /\ k \in Nat /\ Len(p \o q) = n + k /\ p \o q \in Seq(OpSet)
      /\ \A i \in 1..n : (p \o q)[i] = p[i]
      /\ \A i \in 1..k : (p \o q)[n + i] = q[i]
  OBVIOUS
<1>2. P[0] = 0 /\ \A i \in 0..(n - 1) : P[i + 1] = P[i] + Counted(p[i + 1], m)
  BY <1>1, SumsStepwise
<1>3. Q[0] = 0 /\ \A i \in 0..(k - 1) : Q[i + 1] = Q[i] + Counted(q[i + 1], m)
  BY <1>1, SumsStepwise
<1>4. R[0] = 0 /\ \A i \in 0..(n + k - 1) : R[i + 1] = R[i] + Counted((p \o q)[i + 1], m)
  <2> SUFFICES ASSUME NEW pq, pq = p \o q
               PROVE  /\ DeletedUpTo(pq, m)[0] = 0
                      /\ \A i \in 0..(n + k - 1) :
                           DeletedUpTo(pq, m)[i + 1] = DeletedUpTo(pq, m)[i] + Counted(pq[i + 1], m)
    OBVIOUS
  <2> DEFINE top == n + k
  <2>1. top \in Nat /\ top = Len(pq) BY <1>1
  <2> HIDE DEF n, k, top
  <2>2. /\ DeletedUpTo(pq, m)[0] = 0
        /\ \A i \in 0..(top - 1) :
             DeletedUpTo(pq, m)[i + 1] = DeletedUpTo(pq, m)[i] + Counted(pq[i + 1], m)
    BY <2>1, SumsStepwise
  <2> QED BY <1>1, <2>1, <2>2 DEF top
<1>5. /\ \A i \in 0..n : P[i] \in Nat
      /\ \A i \in 0..k : Q[i] \in Nat
      /\ \A i \in 1..k : Counted(q[i], m) \in Nat
  <2>1. \A i \in 1..k : q[i] \in OpSet OBVIOUS
  <2> QED BY <2>1, SumsAreNat, CountIsNat
<1>6. Deleted(p, m) = P[n] /\ Deleted(q, m) = Q[k] /\ Deleted(p \o q, m) = R[n + k]
  BY <1>1 DEF Deleted
<1> HIDE DEF P, Q, R, n, k
<1>7. R[n] = P[n]
  <2> DEFINE S == {i \in 0..n : R[i] = P[i]}
  <2>1. 0 \in S BY <1>1, <1>2, <1>4
  <2>2. ASSUME NEW i \in 0..(n - 1), i \in S PROVE i + 1 \in S
    <3>1. i + 1 \in 0..n /\ i + 1 \in 1..n /\ i \in 0..(n + k - 1) BY <1>1
    <3> QED BY <1>1, <1>2, <1>4, <2>2, <3>1
  <2>3. n \in 0..n BY <1>1
  <2>4. \A i \in 0..n : i \in S
    <3> HIDE DEF S
    <3> QED BY <1>1, <2>1, <2>2, UpTo
  <2> QED BY <2>3, <2>4
<1>8. R[n + k] = P[n] + Q[k]
  <2> DEFINE S == {i \in 0..k : R[n + i] = P[n] + Q[i]}
  <2>0. P[n] \in Nat BY <1>1, <1>5
  <2>1. 0 \in S
    <3>1. 0 \in 0..k /\ n + 0 = n /\ P[n] + 0 = P[n] BY <1>1, <2>0
    <3> QED BY <1>3, <1>7, <3>1
  <2>2. ASSUME NEW i \in 0..(k - 1), i \in S PROVE i + 1 \in S
    <3>1. /\ i + 1 \in 0..k /\ i + 1 \in 1..k /\ n + i \in 0..(n + k - 1)
          /\ (n + i) + 1 = n + (i + 1) /\ i \in 0..k
      BY <1>1
    <3>2. R[n + (i + 1)] = R[n + i] + Counted(q[i + 1], m) BY <1>1, <1>4, <3>1
    <3>3. Q[i + 1] = Q[i] + Counted(q[i + 1], m) BY <1>3
    <3>4. Q[i] \in Nat /\ Counted(q[i + 1], m) \in Nat BY <1>5, <3>1
    <3> QED BY <2>0, <2>2, <3>1, <3>2, <3>3, <3>4
  <2>3. k \in 0..k BY <1>1
  <2>4. \A i \in 0..k : i \in S
    <3> HIDE DEF S
    <3> QED BY <1>1, <2>1, <2>2, UpTo
  <2> QED BY <2>3, <2>4
<1> QED BY <1>6, <1>8

LEMMA SumOfOne ==
  ASSUME NEW p \in Seq(OpSet), NEW op \in OpSet, NEW m
  PROVE  Deleted(Append(p, op), m) = Deleted(p, m) + Counted(op, m)
<1> DEFINE one == <<op>>
<1>1. one \in Seq(OpSet) /\ Len(one) = 1 /\ one[1] = op /\ Append(p, op) = p \o one
  OBVIOUS
<1> HIDE DEF one
<1>2. DeletedUpTo(one, m)[0] = 0
      /\ DeletedUpTo(one, m)[1] = DeletedUpTo(one, m)[0] + Counted(one[1], m)
  <2>1. DeletedUpTo(one, m)[0] = 0
        /\ \A i \in 0..(1 - 1) :
             DeletedUpTo(one, m)[i + 1] = DeletedUpTo(one, m)[i] + Counted(one[i + 1], m)
    BY <1>1, SumsStepwise
  <2>2. 0 \in 0..(1 - 1) /\ 0 + 1 = 1 OBVIOUS
  <2> QED BY <2>1, <2>2
<1>3. Counted(op, m) \in Nat BY CountIsNat
<1>4. Deleted(one, m) = Counted(op, m)
  BY <1>1, <1>2, <1>3 DEF Deleted
<1> QED BY <1>1, <1>4, SumsAddUp

LEMMA SumOfNothing ==
  ASSUME NEW m
  PROVE  Deleted(<<>>, m) = 0 /\ Drops(<<>>, m) = {}
<1> DEFINE none == <<>>
<1>1. Len(none) = 0 /\ 0 \in Nat /\ DOMAIN none = {} OBVIOUS
<1> HIDE DEF none
<1>2. DeletedUpTo(none, m)[0] = 0 BY <1>1, SumsStepwise
<1>3. Deleted(none, m) = 0 /\ Drops(none, m) = {} BY <1>1, <1>2 DEF Deleted, Drops
<1> QED BY <1>3 DEF none

LEMMA DropsOfBoth ==
  ASSUME NEW p \in Seq(OpSet), NEW q \in Seq(OpSet), NEW m
  PROVE  Drops(p \o q, m) = Drops(p, m) \cup {Len(p) + i : i \in Drops(q, m)}
<1> DEFINE n == Len(p)
           k == Len(q)
<1>1. /\ n \in Nat /\ k \in Nat /\ DOMAIN (p \o q) = 1..(n + k)
      /\ DOMAIN p = 1..n /\ DOMAIN q = 1..k
      /\ \A i \in 1..n : (p \o q)[i] = p[i]
      /\ \A i \in 1..k : (p \o q)[n + i] = q[i]
  OBVIOUS
<1>2. ASSUME NEW j \in Drops(p \o q, m)
      PROVE  j \in Drops(p, m) \cup {n + i : i \in Drops(q, m)}
  <2>1. j \in 1..(n + k) /\ (p \o q)[j].kind = "drop_partition" /\ (p \o q)[j].month = m
    BY <1>1, <1>2 DEF Drops
  <2>2. CASE j \in 1..n BY <1>1, <2>1, <2>2 DEF Drops
  <2>3. CASE j \notin 1..n
    <3>1. j - n \in 1..k /\ n + (j - n) = j BY <1>1, <2>1, <2>3
    <3>2. j - n \in Drops(q, m) BY <1>1, <2>1, <3>1 DEF Drops
    <3> QED BY <3>1, <3>2
  <2> QED BY <2>2, <2>3
<1>3. ASSUME NEW j \in Drops(p, m) PROVE j \in Drops(p \o q, m)
  BY <1>1, <1>3 DEF Drops
<1>4. ASSUME NEW j \in Drops(q, m) PROVE n + j \in Drops(p \o q, m)
  BY <1>1, <1>4 DEF Drops
<1> QED BY <1>2, <1>3, <1>4

\* The rows of a month in a set.
Of(m, set) == {s \in set : Month[s] = m}
Lost == arrived \ rows

LogTypes ==
  /\ ops \in Seq(OpSet) /\ pass.ops \in Seq(OpSet)
  /\ IsFiniteSet(arrived)
  /\ months \subseteq Months

\* What a pass may look at, and what it has taken.
PassRanges ==
  /\ pass.dropped \subseteq months
  /\ pass.gone \subseteq rows
  /\ pass.todo \subseteq months \ pass.dropped
  /\ pass.pc \in {"drop", "delete"} => pass.month \in months \ (pass.dropped \cup pass.todo)

Accounted(lost, log, m, there) ==
  IF there THEN Cardinality(Of(m, lost)) = Deleted(log, m) /\ Drops(log, m) = {}
           ELSE /\ Cardinality(Of(m, lost)) >= Deleted(log, m)
                /\ \E i \in DOMAIN log : Drops(log, m) = {i}

PassAccounted == \A m \in Months : Accounted(pass.gone, pass.ops, m, m \notin pass.dropped)
LogAccounted == \A m \in Months : Accounted(Lost, ops, m, m \in months)

AuditInv == ThoroughInv /\ LogTypes /\ PassRanges /\ PassAccounted /\ LogAccounted

LEMMA NothingLost ==
  ASSUME NEW m
  PROVE  Accounted({}, <<>>, m, TRUE)
<1>1. Of(m, {}) = {} /\ Cardinality({}) = 0 BY FS_EmptySet DEF Of
<1> QED BY <1>1, SumOfNothing DEF Accounted

LEMMA AuditInit == RetentionInit => AuditInv
<1> SUFFICES ASSUME RetentionInit PROVE AuditInv OBVIOUS
<1>1. /\ ops = <<>> /\ pass.ops = <<>> /\ arrived = {} /\ rows = {} /\ pass.gone = {} /\ pass.dropped = {}
      /\ pass.pc = "idle" /\ pass.todo = {} /\ months = Months
  BY DEF RetentionInit, Quiet
<1>2. LogTypes
  <2>1. <<>> \in Seq(OpSet) OBVIOUS
  <2> QED BY <1>1, <2>1, FS_EmptySet DEF LogTypes
<1>3. PassRanges BY <1>1 DEF PassRanges
<1>4. Lost = {} BY <1>1 DEF Lost
<1>5. ASSUME NEW m \in Months
      PROVE  Accounted(pass.gone, pass.ops, m, m \notin pass.dropped) /\ Accounted(Lost, ops, m, m \in months)
  <2>1. (m \notin pass.dropped) = TRUE /\ (m \in months) = TRUE BY <1>1
  <2> QED BY <1>1, <1>4, <2>1, NothingLost
<1> QED BY <1>2, <1>3, <1>5, ThoroughInit DEF AuditInv, PassAccounted, LogAccounted

(* A pass that takes rows of one partition and logs how many stays counted.  *)
LEMMA DeleteCounts ==
  ASSUME NEW gone, NEW out, IsFiniteSet(gone), IsFiniteSet(out), gone \cap out = {},
         NEW log \in Seq(OpSet), NEW here \in Months, \A s \in out : Month[s] = here,
         NEW m \in Months, Accounted(gone, log, m, TRUE),
         NEW op, op = [kind |-> "delete_rows", month |-> here, n |-> Cardinality(out)],
         NEW log2, log2 = Append(log, op)
  PROVE  log2 \in Seq(OpSet) /\ Accounted(gone \cup out, log2, m, TRUE)
<1>1. Cardinality(out) \in Nat /\ op \in OpSet
  BY FS_CardinalityType DEF OpSet
<1>2. Deleted(log2, m) = Deleted(log, m) + Counted(op, m)
  BY <1>1, SumOfOne
<1>0. log2 \in Seq(OpSet) BY <1>1
<1>3. Drops(log2, m) = Drops(log, m)
  <2>1. op.kind # "drop_partition" OBVIOUS
  <2> QED BY <1>1, <2>1 DEF Drops
<1>4. CASE m = here
  <2>1. Of(m, gone \cup out) = Of(m, gone) \cup out /\ Of(m, gone) \cap out = {}
    BY <1>4 DEF Of
  <2>2. IsFiniteSet(Of(m, gone)) /\ Cardinality(Of(m, gone)) \in Nat
    BY FS_Subset, FS_CardinalityType DEF Of
  <2>3. Cardinality(Of(m, gone \cup out)) = Cardinality(Of(m, gone)) + Cardinality(out)
    <3>1. Cardinality({}) = 0 BY FS_EmptySet
    <3>2. Cardinality(Of(m, gone) \cup out)
            = Cardinality(Of(m, gone)) + Cardinality(out) - Cardinality(Of(m, gone) \cap out)
      BY <2>2, FS_Union
    <3>3. Cardinality(Of(m, gone) \cap out) = 0 BY <2>1, <3>1
    <3>4. Cardinality(Of(m, gone) \cup out) = Cardinality(Of(m, gone)) + Cardinality(out)
      BY <1>1, <2>2, <3>2, <3>3
    <3> QED BY <2>1, <3>4
  <2>4. Counted(op, m) = Cardinality(out)
    BY <1>4 DEF Counted
  <2>5. Cardinality(Of(m, gone \cup out)) = Deleted(log2, m) /\ Drops(log2, m) = {}
    BY <1>2, <1>3, <2>3, <2>4 DEF Accounted
  <2> QED BY <1>0, <2>5 DEF Accounted
<1>5. CASE m # here
  <2>1. Of(m, gone \cup out) = Of(m, gone)
    BY <1>5 DEF Of
  <2>2. Counted(op, m) = 0 BY <1>5 DEF Counted
  <2>3. Deleted(log, m) \in Nat
    <3>1. Len(log) \in 0..Len(log) OBVIOUS
    <3> QED BY <3>1, SumsAreNat DEF Deleted
  <2>4. Cardinality(Of(m, gone \cup out)) = Deleted(log2, m) /\ Drops(log2, m) = {}
    BY <1>2, <1>3, <2>1, <2>2, <2>3 DEF Accounted
  <2> QED BY <1>0, <2>4 DEF Accounted
<1> QED BY <1>4, <1>5

LEMMA DeletedIsNat ==
  ASSUME NEW log \in Seq(OpSet), NEW m
  PROVE  Deleted(log, m) \in Nat
<1>1. Len(log) \in 0..Len(log) OBVIOUS
<1> QED BY <1>1, SumsAreNat DEF Deleted

(* What a pass takes and logs of one partition leaves another accounted for. *)
LEMMA Elsewhere ==
  ASSUME NEW gone, NEW out,
         NEW log \in Seq(OpSet), NEW here \in Months, \A s \in out : Month[s] = here,
         NEW m \in Months, m # here, NEW there \in BOOLEAN, Accounted(gone, log, m, there),
         NEW op \in OpSet, op.month = here,
         NEW log2, log2 = Append(log, op)
  PROVE  log2 \in Seq(OpSet) /\ Accounted(gone \cup out, log2, m, there)
<1>1. Counted(op, m) = 0
  BY DEF OpSet, Counted
<1>2. Deleted(log2, m) = Deleted(log, m)
  BY <1>1, SumOfOne, DeletedIsNat
<1>3. /\ log2 \in Seq(OpSet) /\ DOMAIN log \subseteq DOMAIN log2
      /\ DOMAIN log = 1..Len(log) /\ DOMAIN log2 = 1..(Len(log) + 1) /\ Len(log) \in Nat
      /\ log2[Len(log) + 1] = op
      /\ \A i \in 1..Len(log) : log2[i] = log[i]
  BY <1>1
<1>4. Of(m, gone \cup out) = Of(m, gone)
  BY DEF Of
<1>5. Drops(log2, m) = Drops(log, m)
  BY <1>3 DEF Drops
<1>6. CASE there
  <2>1. Cardinality(Of(m, gone)) = Deleted(log, m) /\ Drops(log, m) = {}
    BY <1>6 DEF Accounted
  <2>2. Accounted(gone \cup out, log2, m, TRUE) /\ there = TRUE
    BY <1>2, <1>4, <1>5, <1>6, <2>1 DEF Accounted
  <2> QED BY <1>3, <2>2
<1>7. CASE ~there
  <2>1. Cardinality(Of(m, gone)) >= Deleted(log, m) /\ \E i \in DOMAIN log : Drops(log, m) = {i}
    BY <1>7 DEF Accounted
  <2>2. Accounted(gone \cup out, log2, m, FALSE) /\ there = FALSE
    BY <1>2, <1>3, <1>4, <1>5, <1>7, <2>1 DEF Accounted
  <2> QED BY <1>3, <2>2
<1> QED BY <1>6, <1>7

(* A DROP takes more than was counted and leaves one entry of its own.       *)
LEMMA DropCounts ==
  ASSUME NEW gone, NEW out, IsFiniteSet(gone), IsFiniteSet(out),
         NEW log \in Seq(OpSet), NEW here \in Months, \A s \in out : Month[s] = here,
         Accounted(gone, log, here, TRUE),
         NEW op, op = [kind |-> "drop_partition", month |-> here, n |-> 0],
         NEW log2, log2 = Append(log, op)
  PROVE  log2 \in Seq(OpSet) /\ Accounted(gone \cup out, log2, here, FALSE)
<1>1. op \in OpSet /\ Counted(op, here) = 0
  BY DEF OpSet, Counted
<1>2. Deleted(log2, here) = Deleted(log, here)
  BY <1>1, SumOfOne, DeletedIsNat
<1>3. DOMAIN log = 1..Len(log) /\ Len(log) \in Nat /\ DOMAIN log2 = 1..(Len(log) + 1)
      /\ log2[Len(log) + 1] = op /\ log2 \in Seq(OpSet)
      /\ \A i \in 1..Len(log) : log2[i] = log[i]
  BY <1>1
<1>4. Cardinality(Of(here, gone)) <= Cardinality(Of(here, gone \cup out))
      /\ Cardinality(Of(here, gone)) \in Nat /\ Cardinality(Of(here, gone \cup out)) \in Nat
  <2>1. IsFiniteSet(gone \cup out) BY FS_Union
  <2>2. IsFiniteSet(Of(here, gone \cup out)) /\ Of(here, gone) \subseteq Of(here, gone \cup out)
    BY <2>1, FS_Subset DEF Of
  <2> QED BY <2>2, FS_Subset, FS_CardinalityType
<1>5. Drops(log, here) = {} /\ Cardinality(Of(here, gone)) = Deleted(log, here)
  BY DEF Accounted
<1>6. Drops(log2, here) = {Len(log) + 1}
  BY <1>3, <1>5 DEF Drops
<1>7. Len(log) + 1 \in DOMAIN log2 BY <1>3
<1>8. Cardinality(Of(here, gone \cup out)) >= Deleted(log2, here)
  BY <1>2, <1>4, <1>5
<1>9. Accounted(gone \cup out, log2, here, FALSE)
  BY <1>6, <1>7, <1>8 DEF Accounted
<1> QED BY <1>3, <1>9

(* At the commit the rows of the pass join those that are lost, and its      *)
(* entries those of the log; a partition is dropped by one of them.          *)
TwoLogs(lost, gone, p, q) ==
  /\ IsFiniteSet(lost) /\ IsFiniteSet(gone) /\ lost \cap gone = {}
  /\ p \in Seq(OpSet) /\ q \in Seq(OpSet)

LEMMA CommitCounts ==
  ASSUME NEW lost, NEW gone, NEW p, NEW q, TwoLogs(lost, gone, p, q), NEW m \in Months,
         NEW was \in BOOLEAN, NEW stays \in BOOLEAN, was \/ stays,
         Accounted(lost, p, m, was), Accounted(gone, q, m, stays),
         NEW both \in BOOLEAN, both = (was /\ stays)
  PROVE  Accounted(lost \cup gone, p \o q, m, both)
<1> SUFFICES Accounted(lost \cup gone, p \o q, m, was /\ stays)
  OBVIOUS
<1>0. /\ IsFiniteSet(lost) /\ IsFiniteSet(gone) /\ lost \cap gone = {}
      /\ p \in Seq(OpSet) /\ q \in Seq(OpSet)
  BY DEF TwoLogs
<1>1. Deleted(p \o q, m) = Deleted(p, m) + Deleted(q, m)
      /\ Deleted(p, m) \in Nat /\ Deleted(q, m) \in Nat
  BY <1>0, SumsAddUp, DeletedIsNat
<1>2. Drops(p \o q, m) = Drops(p, m) \cup {Len(p) + i : i \in Drops(q, m)}
  BY <1>0, DropsOfBoth
<1>3. /\ Cardinality(Of(m, lost \cup gone)) = Cardinality(Of(m, lost)) + Cardinality(Of(m, gone))
      /\ Cardinality(Of(m, lost)) \in Nat /\ Cardinality(Of(m, gone)) \in Nat
  <2>1. Of(m, lost \cup gone) = Of(m, lost) \cup Of(m, gone) /\ Of(m, lost) \cap Of(m, gone) = {}
    BY <1>0 DEF Of
  <2>2. /\ IsFiniteSet(Of(m, lost)) /\ Cardinality(Of(m, lost)) \in Nat
        /\ IsFiniteSet(Of(m, gone)) /\ Cardinality(Of(m, gone)) \in Nat
    BY <1>0, FS_Subset, FS_CardinalityType DEF Of
  <2>3. Cardinality(Of(m, lost) \cap Of(m, gone)) = 0 BY <2>1, FS_EmptySet
  <2>4. Cardinality(Of(m, lost) \cup Of(m, gone))
          = Cardinality(Of(m, lost)) + Cardinality(Of(m, gone)) - Cardinality(Of(m, lost) \cap Of(m, gone))
    BY <2>2, FS_Union
  <2>5. Cardinality(Of(m, lost) \cup Of(m, gone)) = Cardinality(Of(m, lost)) + Cardinality(Of(m, gone))
    BY <2>2, <2>3, <2>4
  <2> QED BY <2>1, <2>2, <2>5
<1>4. DOMAIN p = 1..Len(p) /\ DOMAIN q = 1..Len(q) /\ DOMAIN (p \o q) = 1..(Len(p) + Len(q))
      /\ Len(p) \in Nat /\ Len(q) \in Nat
  BY <1>0
<1>5. CASE was /\ stays
  <2>1. Drops(p, m) = {} /\ Drops(q, m) = {} BY <1>5 DEF Accounted
  <2>2. Cardinality(Of(m, lost)) = Deleted(p, m) /\ Cardinality(Of(m, gone)) = Deleted(q, m)
    BY <1>5 DEF Accounted
  <2>3. Drops(p \o q, m) = {} BY <1>2, <2>1
  <2>4. Cardinality(Of(m, lost \cup gone)) = Deleted(p \o q, m) BY <1>1, <1>3, <2>2
  <2> QED BY <1>5, <2>3, <2>4 DEF Accounted
<1>6. CASE was /\ ~stays
  <2>1. PICK i \in DOMAIN q : Drops(q, m) = {i} BY <1>6 DEF Accounted
  <2>2. Drops(p, m) = {} BY <1>6 DEF Accounted
  <2>3. Cardinality(Of(m, lost)) = Deleted(p, m) /\ Cardinality(Of(m, gone)) >= Deleted(q, m)
    BY <1>6 DEF Accounted
  <2>4. Drops(p \o q, m) = {Len(p) + i} BY <1>2, <2>1, <2>2
  <2>5. Len(p) + i \in DOMAIN (p \o q) BY <1>4, <2>1
  <2>6. Cardinality(Of(m, lost \cup gone)) >= Deleted(p \o q, m) BY <1>1, <1>3, <2>3
  <2> QED BY <1>6, <2>4, <2>5, <2>6 DEF Accounted
<1>7. CASE ~was /\ stays
  <2>1. PICK i \in DOMAIN p : Drops(p, m) = {i} BY <1>7 DEF Accounted
  <2>2. Drops(q, m) = {} BY <1>7 DEF Accounted
  <2>3. Cardinality(Of(m, lost)) >= Deleted(p, m) /\ Cardinality(Of(m, gone)) = Deleted(q, m)
    BY <1>7 DEF Accounted
  <2>4. Drops(p \o q, m) = {i} BY <1>2, <2>1, <2>2
  <2>5. i \in DOMAIN (p \o q) BY <1>4, <2>1
  <2>6. Cardinality(Of(m, lost \cup gone)) >= Deleted(p \o q, m) BY <1>1, <1>3, <2>3
  <2> QED BY <1>7, <2>4, <2>5, <2>6 DEF Accounted
<1> QED BY <1>5, <1>6, <1>7

Books == LogTypes /\ PassRanges /\ PassAccounted /\ LogAccounted

\* Steps that touch neither the log nor what the pass has taken.
LEMMA SameBooks ==
  ASSUME AuditInv, UNCHANGED <<rows, arrived, months, ops>>,
         pass'.ops = pass.ops, pass'.gone = pass.gone, pass'.dropped = pass.dropped,
         PassRanges'
  PROVE  Books'
<1>1. LogTypes' BY DEF AuditInv, LogTypes
<1>2. Lost' = Lost BY DEF Lost
<1>3. PassAccounted' BY DEF AuditInv, PassAccounted, Accounted, Of
<1>4. LogAccounted' BY <1>2 DEF AuditInv, LogAccounted, Accounted, Of
<1> QED BY <1>1, <1>3, <1>4 DEF Books

LEMMA StartBooks ==
  ASSUME AuditInv, StartPass \/ AbortPass
  PROVE  Books'
<1>1. /\ pass'.ops = <<>> /\ pass'.gone = {} /\ pass'.dropped = {}
      /\ pass'.todo \subseteq months /\ pass'.pc \notin {"drop", "delete"}
      /\ UNCHANGED <<rows, arrived, months, ops>>
  <2>1. CASE StartPass BY <2>1 DEF StartPass, Quiet
  <2>2. CASE AbortPass BY <2>2 DEF AbortPass, Quiet
  <2> QED BY <2>1, <2>2
<1>2. LogTypes'
  <2>1. <<>> \in Seq(OpSet) OBVIOUS
  <2> QED BY <1>1, <2>1 DEF AuditInv, LogTypes
<1>3. PassRanges' BY <1>1 DEF PassRanges
<1>4. PassAccounted'
  <2> SUFFICES ASSUME NEW m \in Months PROVE Accounted(pass'.gone, pass'.ops, m, m \notin pass'.dropped)
    BY DEF PassAccounted, Accounted, Of
  <2>1. (m \notin pass'.dropped) = TRUE BY <1>1
  <2> QED BY <1>1, <2>1, NothingLost
<1>5. LogAccounted' BY <1>1 DEF AuditInv, LogAccounted, Accounted, Of, Lost
<1> QED BY <1>2, <1>3, <1>4, <1>5 DEF Books

LEMMA DropBooks ==
  ASSUME AuditInv, DropPartition
  PROVE  Books'
<1> DEFINE here == pass.month
           out == In(here)
           op == [kind |-> "drop_partition", month |-> here, n |-> 0]
<1>1. /\ pass.pc = "drop" /\ pass'.pc = "probe" /\ pass'.gone = pass.gone \cup out
      /\ pass'.dropped = pass.dropped \cup {here} /\ pass'.todo = pass.todo
      /\ pass'.ops = Append(pass.ops, op)
      /\ UNCHANGED <<rows, arrived, months, ops>>
  BY DEF DropPartition, AuditInv, ThoroughInv, PurgeInv, PassShape
<1>2. /\ here \in months /\ here \in Months /\ here \notin pass.dropped /\ here \notin pass.todo
      /\ pass.dropped \subseteq months /\ pass.todo \subseteq months \ pass.dropped
      /\ pass.gone \subseteq rows
  BY <1>1 DEF AuditInv, PassRanges, LogTypes
<1>3. IsFiniteSet(pass.gone) /\ IsFiniteSet(out) /\ out \subseteq rows
      /\ \A s \in out : Month[s] = here
  <2>1. out \subseteq rows /\ rows \subseteq arrived BY DEF In, AuditInv, ThoroughInv, Stored
  <2>2. IsFiniteSet(arrived) BY DEF AuditInv, LogTypes
  <2> QED BY <1>2, <2>1, <2>2, FS_Subset DEF In
<1>4. ASSUME NEW m \in Months
      PROVE  pass'.ops \in Seq(OpSet) /\ Accounted(pass'.gone, pass'.ops, m, m \notin pass'.dropped)
  <2> DEFINE there == m \notin pass.dropped
  <2>1. pass.ops \in Seq(OpSet) /\ Accounted(pass.gone, pass.ops, m, there)
    BY DEF AuditInv, LogTypes, PassAccounted
  <2>2. op = [kind |-> "drop_partition", month |-> here, n |-> 0] /\ op \in OpSet /\ op.month = here
    BY <1>2 DEF OpSet
  <2>5. pass'.ops = Append(pass.ops, op) BY <1>1
  <2> HIDE DEF there, out, here, op
  <2>3. CASE m = here
    <3>1. (m \notin pass'.dropped) = FALSE /\ there = TRUE BY <1>1, <1>2, <2>3 DEF there
    <3>2. Accounted(pass.gone, pass.ops, here, TRUE) BY <2>1, <2>3, <3>1
    <3>3. pass'.ops \in Seq(OpSet) /\ Accounted(pass.gone \cup out, pass'.ops, here, FALSE)
      BY <1>2, <1>3, <2>1, <2>2, <2>5, <3>2, DropCounts
    <3> QED BY <1>1, <2>3, <3>1, <3>3
  <2>4. CASE m # here
    <3>1. (m \notin pass'.dropped) = there /\ there \in BOOLEAN BY <1>1, <2>4 DEF there
    <3>2. SUFFICES ASSUME NEW log2, log2 = Append(pass.ops, op)
                   PROVE  log2 \in Seq(OpSet) /\ Accounted(pass.gone \cup out, log2, m, there)
      BY <1>1, <2>5, <3>1
    <3>3. here \in Months /\ (\A s \in out : Month[s] = here) BY <1>2, <1>3
    <3>4. op \in OpSet /\ op.month = here BY <2>2
    <3> QED BY <2>1, <2>4, <3>1, <3>2, <3>3, <3>4, Elsewhere
  <2> QED BY <2>3, <2>4
<1>5. LogTypes'
  <2>1. pass'.ops \in Seq(OpSet) BY <1>2, <1>4
  <2> QED BY <1>1, <2>1 DEF AuditInv, LogTypes
<1>6. PassRanges'
  <2> HIDE DEF out, here
  <2> QED BY <1>1, <1>2, <1>3 DEF PassRanges
<1>7. PassAccounted' BY <1>4 DEF PassAccounted, Accounted, Of
<1>8. LogAccounted' BY <1>1 DEF AuditInv, LogAccounted, Accounted, Of, Lost
<1> QED BY <1>5, <1>6, <1>7, <1>8 DEF Books

LEMMA DeleteBooks ==
  ASSUME AuditInv, DeleteRows
  PROVE  Books'
<1> DEFINE here == pass.month
           out == Deletable(here, ClassOrder[pass.step])
           op == [kind |-> "delete_rows", month |-> here, n |-> Cardinality(out)]
<1>1. /\ pass.pc = "delete" /\ pass'.pc \in {"probe", "delete"} /\ pass'.gone = pass.gone \cup out
      /\ pass'.dropped = pass.dropped /\ pass'.todo = pass.todo /\ pass'.month = here
      /\ pass'.ops = IF out = {} THEN pass.ops ELSE Append(pass.ops, op)
      /\ UNCHANGED <<rows, arrived, months, ops>>
  BY DEF DeleteRows, AuditInv, ThoroughInv, PurgeInv, PassShape
<1>2. /\ here \in months /\ here \in Months /\ here \notin pass.dropped /\ here \notin pass.todo
      /\ pass.gone \subseteq rows
  BY <1>1 DEF AuditInv, PassRanges, LogTypes
<1>3. /\ IsFiniteSet(pass.gone) /\ IsFiniteSet(out) /\ out \subseteq rows /\ pass.gone \cap out = {}
      /\ \A s \in out : Month[s] = here
  <2>1. out \subseteq rows /\ rows \subseteq arrived BY DEF Deletable, In, AuditInv, ThoroughInv, Stored
  <2>2. IsFiniteSet(arrived) BY DEF AuditInv, LogTypes
  <2> QED BY <1>2, <2>1, <2>2, FS_Subset DEF Deletable, In
<1>4. PassRanges'
  <2> HIDE DEF out, here
  <2> QED BY <1>1, <1>2, <1>3 DEF AuditInv, PassRanges
<1>5. CASE out = {}
  <2>1. pass'.ops = pass.ops /\ pass'.gone = pass.gone BY <1>1, <1>5
  <2> HIDE DEF out, op, here
  <2> QED BY <1>1, <1>4, <2>1, SameBooks
<1>6. CASE out # {}
  <2>1. pass'.ops = Append(pass.ops, op) BY <1>1, <1>6
  <2>2. ASSUME NEW m \in Months
        PROVE  pass'.ops \in Seq(OpSet) /\ Accounted(pass'.gone, pass'.ops, m, m \notin pass'.dropped)
    <3>1. pass.ops \in Seq(OpSet) /\ Accounted(pass.gone, pass.ops, m, m \notin pass.dropped)
      BY DEF AuditInv, LogTypes, PassAccounted
    <3>2. CASE m \notin pass.dropped
      <4>1. (m \notin pass.dropped) = TRUE /\ (m \notin pass'.dropped) = TRUE BY <1>1, <3>2
      <4>2. Accounted(pass.gone, pass.ops, m, TRUE) BY <3>1, <4>1
      <4> HIDE DEF out, here
      <4>3. pass'.ops \in Seq(OpSet) /\ Accounted(pass.gone \cup out, pass'.ops, m, TRUE)
        <5>1. op = [kind |-> "delete_rows", month |-> here, n |-> Cardinality(out)] OBVIOUS
        <5> HIDE DEF op
        <5> QED BY <1>2, <1>3, <2>1, <3>1, <4>2, <5>1, DeleteCounts
      <4> QED BY <1>1, <4>1, <4>3
    <3>3. CASE m \in pass.dropped
      <4>4. op \in OpSet /\ op.month = here BY <1>2, <1>3, FS_CardinalityType DEF OpSet
      <4> HIDE DEF out, here, op
      <4>0. m # here BY <1>2, <3>3
      <4>1. (m \notin pass.dropped) = FALSE /\ (m \notin pass'.dropped) = FALSE BY <1>1, <3>3
      <4>2. Accounted(pass.gone, pass.ops, m, FALSE) BY <3>1, <4>1
      <4>3. pass'.ops \in Seq(OpSet) /\ Accounted(pass.gone \cup out, pass'.ops, m, FALSE)
        BY <1>2, <1>3, <2>1, <3>1, <4>0, <4>2, <4>4, Elsewhere
      <4> QED BY <1>1, <4>1, <4>3
    <3> QED BY <3>2, <3>3
  <2>3. LogTypes'
    <3>1. pass'.ops \in Seq(OpSet) BY <1>2, <2>2
    <3> QED BY <1>1, <3>1 DEF AuditInv, LogTypes
  <2>4. PassAccounted' BY <2>2 DEF PassAccounted, Accounted, Of
  <2>5. LogAccounted' BY <1>1 DEF AuditInv, LogAccounted, Accounted, Of, Lost
  <2> QED BY <1>4, <2>3, <2>4, <2>5 DEF Books
<1> QED BY <1>5, <1>6

LEMMA CommitBooks ==
  ASSUME AuditInv, CommitPass
  PROVE  Books'
<1>1. /\ rows' = rows \ pass.gone /\ months' = months \ pass.dropped /\ ops' = ops \o pass.ops
      /\ pass'.ops = <<>> /\ pass'.gone = {} /\ pass'.dropped = {} /\ pass'.todo = {}
      /\ pass'.pc = "idle" /\ arrived' = arrived
  BY DEF CommitPass, Quiet
<1>2. /\ ops \in Seq(OpSet) /\ pass.ops \in Seq(OpSet) /\ IsFiniteSet(arrived) /\ months \subseteq Months
      /\ pass.gone \subseteq rows /\ rows \subseteq arrived /\ pass.dropped \subseteq months
  BY DEF AuditInv, LogTypes, PassRanges, ThoroughInv, Stored
<1>3. /\ Lost' = Lost \cup pass.gone /\ Lost \cap pass.gone = {}
      /\ IsFiniteSet(Lost) /\ IsFiniteSet(pass.gone)
  <2>1. Lost' = Lost \cup pass.gone /\ Lost \cap pass.gone = {} BY <1>1, <1>2 DEF Lost
  <2>2. Lost \subseteq arrived /\ pass.gone \subseteq arrived BY <1>2 DEF Lost
  <2> QED BY <1>2, <2>1, <2>2, FS_Subset
<1>4. LogTypes'
  <2>1. <<>> \in Seq(OpSet) OBVIOUS
  <2>2. ops \o pass.ops \in Seq(OpSet) BY <1>2
  <2> QED BY <1>1, <1>2, <2>1, <2>2 DEF LogTypes
<1>5. PassRanges' BY <1>1 DEF PassRanges
<1>6. PassAccounted'
  <2> SUFFICES ASSUME NEW m \in Months PROVE Accounted(pass'.gone, pass'.ops, m, m \notin pass'.dropped)
    BY DEF PassAccounted, Accounted, Of
  <2>1. (m \notin pass'.dropped) = TRUE BY <1>1
  <2> QED BY <1>1, <2>1, NothingLost
<1>7. ASSUME NEW m \in Months PROVE Accounted(Lost \cup pass.gone, ops \o pass.ops, m, m \in months')
  <2> DEFINE was == m \in months
             stays == m \notin pass.dropped
  <2>1. Accounted(Lost, ops, m, was) /\ Accounted(pass.gone, pass.ops, m, stays)
    BY DEF AuditInv, PassAccounted, LogAccounted
  <2>2. was \in BOOLEAN /\ stays \in BOOLEAN /\ (was \/ stays) BY <1>2
  <2> DEFINE both == was /\ stays
  <2>3. both \in BOOLEAN /\ (m \in months') = both BY <1>1
  <2> DEFINE gone == pass.gone
             taken == pass.ops
  <2>4. TwoLogs(Lost, gone, ops, taken)
    BY <1>2, <1>3 DEF TwoLogs
  <2> HIDE DEF was, stays, gone, taken
  <2>5. both = (was /\ stays) OBVIOUS
  <2> HIDE DEF both
  <2>6. Accounted(Lost, ops, m, was) /\ Accounted(gone, taken, m, stays)
    BY <2>1 DEF gone, taken
  <2>7. Accounted(Lost \cup gone, ops \o taken, m, both)
    BY <2>2, <2>3, <2>4, <2>5, <2>6, CommitCounts
  <2> QED BY <2>3, <2>7 DEF gone, taken
<1>8. LogAccounted'
  <2> SUFFICES ASSUME NEW m \in Months PROVE Accounted(Lost', ops', m, m \in months')
    BY DEF LogAccounted, Accounted, Of
  <2> QED BY <1>1, <1>3, <1>7
<1> QED BY <1>4, <1>5, <1>6, <1>8 DEF Books

LEMMA AuditStep == AuditInv /\ [RetentionNext]_retentionVars => AuditInv'
<1> SUFFICES ASSUME AuditInv, [RetentionNext]_retentionVars PROVE AuditInv' OBVIOUS
<1>0. ThoroughInv' BY ThoroughStep DEF AuditInv
<1> SUFFICES Books' BY <1>0 DEF AuditInv, Books
<1>1. CASE UNCHANGED retentionVars \/ Tick
  <2>1. UNCHANGED <<rows, months, ops, pass, arrived>>
    BY <1>1 DEF retentionVars, Tick
  <2>2. PassRanges' BY <2>1 DEF AuditInv, PassRanges
  <2> QED BY <2>1, <2>2, SameBooks
<1>2. CASE HoldStep
  <2>1. /\ UNCHANGED <<rows, months, ops, arrived>>
        /\ pass'.ops = pass.ops /\ pass'.gone = pass.gone /\ pass'.dropped = pass.dropped
        /\ pass'.todo = pass.todo /\ pass'.pc = pass.pc /\ pass'.month = pass.month
    BY <1>2 DEF HoldStep, PlaceHold, ReleaseHold, AuditInv, ThoroughInv, PurgeInv, PassShape
  <2>2. PassRanges' BY <2>1 DEF AuditInv, PassRanges
  <2> QED BY <2>1, <2>2, SameBooks
<1>3. ASSUME NEW s \in Spans, Store(s) PROVE Books'
  <2>1. /\ rows' = rows \cup {s} /\ arrived' = arrived \cup {s} /\ s \notin arrived
        /\ UNCHANGED <<months, ops, pass>>
    BY <1>3 DEF Store
  <2>2. Lost' = Lost BY <2>1 DEF Lost
  <2>3. LogTypes'
    <3>1. IsFiniteSet(arrived) BY DEF AuditInv, LogTypes
    <3>2. IsFiniteSet(arrived \cup {s}) BY <3>1, FS_AddElement
    <3> QED BY <2>1, <3>2 DEF AuditInv, LogTypes
  <2>4. PassRanges' BY <2>1 DEF AuditInv, PassRanges
  <2>5. PassAccounted' BY <2>1 DEF AuditInv, PassAccounted, Accounted, Of
  <2>6. LogAccounted' BY <2>1, <2>2 DEF AuditInv, LogAccounted, Accounted, Of
  <2> QED BY <2>3, <2>4, <2>5, <2>6 DEF Books
<1>4. ASSUME NEW m \in Months, ProbePartition(m) PROVE Books'
  <2>1. /\ UNCHANGED <<rows, months, ops, arrived>> /\ m \in pass.todo
        /\ pass'.ops = pass.ops /\ pass'.gone = pass.gone /\ pass'.dropped = pass.dropped
        /\ pass'.todo = pass.todo \ {m} /\ pass'.month = m
    BY <1>4 DEF ProbePartition, FirstOf, AuditInv, ThoroughInv, PurgeInv, PassShape
  <2>2. PassRanges' BY <2>1 DEF AuditInv, PassRanges
  <2> QED BY <2>1, <2>2, SameBooks
<1>5. CASE StartPass \/ AbortPass BY <1>5, StartBooks
<1>6. CASE DropPartition BY <1>6, DropBooks
<1>7. CASE DeleteRows BY <1>7, DeleteBooks
<1>8. CASE CommitPass BY <1>8, CommitBooks
<1> QED BY <1>1, <1>2, <1>3, <1>4, <1>5, <1>6, <1>7, <1>8 DEF RetentionNext, RetentionStep

(* retention_operations accounts for every row that is gone, for any table,  *)
(* any classes and any passes that fail anywhere: the counts of a partition  *)
(* add up to its lost rows, and a partition that is gone has one entry.      *)
THEOREM LogAccounts == RetentionSpec => []AuditAccounts
<1>1. AuditInv => AuditAccounts
  BY DEF AuditInv, LogAccounted, Accounted, AuditAccounts, Of, Lost
<1> QED BY <1>1, AuditInit, AuditStep, PTL DEF RetentionSpec

-----------------------------------------------------------------------------
\* A step of the whole ledger is one of the retention, or leaves its part alone.
LEMMA LedgerSteps == [Next]_vars => [RetentionNext]_retentionVars
<1> SUFFICES ASSUME [Next]_vars PROVE [RetentionNext]_retentionVars OBVIOUS
<1>1. CASE HoldChanges BY <1>1 DEF HoldChanges, RetentionNext
<1>2. CASE TableStep BY <1>2 DEF TableStep, RetentionNext
<1>3. ASSUME NEW w \in Workers, WorkerStep(w) PROVE UNCHANGED retentionVars
  BY <1>3 DEF WorkerStep, WakeUp, ReadLastWindow, PassDone, BuildWindow, CommitWindow, Export,
              MarkExported, PassFails
<1>4. CASE UNCHANGED vars BY <1>4 DEF vars, retentionVars
<1> QED BY <1>1, <1>2, <1>3, <1>4 DEF Next

(* The composition with the anchor workers and the clock leaves the ledger's *)
(* retention as it is, so that what holds of it alone holds of the whole.    *)
THEOREM WholeLedgerRetains ==
  Spec => RetentionSpec /\ PurgeLawful /\ []PassThorough /\ []AuditAccounts
<1>1. Init => RetentionInit BY DEF Init
<1> QED BY <1>1, LedgerSteps, PurgesAreLawful, PassesAreThorough, LogAccounts, PTL DEF Spec, RetentionSpec

-----------------------------------------------------------------------------
(* The members of a set, in the order of a sequence: what Sorted picks.      *)

LEMMA PickingFixpoint ==
  ASSUME NEW seq, NEW T, NEW top \in Nat, top = Len(seq)
  PROVE  PickedUpTo(seq, T) =
           [k \in 0..top |-> IF k = 0 THEN <<>> ELSE IF seq[k] \in T THEN Append(PickedUpTo(seq, T)[k - 1], seq[k]) ELSE PickedUpTo(seq, T)[k - 1]]
<1> DEFINE Good(n, f) == f = [k \in 0..n |-> IF k = 0 THEN <<>> ELSE IF seq[k] \in T THEN Append(f[k - 1], seq[k]) ELSE f[k - 1]]
           S == {n \in 0..top : \E f : Good(n, f)}
<1>1. 0 \in S
  <2> DEFINE f == [k \in 0..0 |-> <<>>]
  <2>1. Good(0, f) OBVIOUS
  <2>2. 0 \in 0..top OBVIOUS
  <2> HIDE DEF Good, f
  <2> QED BY <2>1, <2>2
<1>2. ASSUME NEW n \in 0..(top - 1), n \in S PROVE n + 1 \in S
  <2>1. PICK f : Good(n, f) BY <1>2
  <2> DEFINE g == [k \in 0..(n + 1) |-> IF k = n + 1 THEN IF seq[n + 1] \in T THEN Append(f[n], seq[n + 1]) ELSE f[n] ELSE f[k]]
  <2>2. \A k \in 0..(n + 1) : g[k] = IF k = 0 THEN <<>> ELSE IF seq[k] \in T THEN Append(g[k - 1], seq[k]) ELSE g[k - 1]
    <3> SUFFICES ASSUME NEW k \in 0..(n + 1)
                 PROVE  g[k] = IF k = 0 THEN <<>> ELSE IF seq[k] \in T THEN Append(g[k - 1], seq[k]) ELSE g[k - 1]
      OBVIOUS
    <3>1. CASE k = n + 1
      <4>1. k # 0 /\ k - 1 = n /\ n \in 0..(n + 1) /\ n # n + 1 BY <3>1
      <4> QED BY <3>1, <4>1
    <3>2. CASE k # n + 1 /\ k # 0
      <4>1. k \in 0..n /\ k - 1 \in 0..(n + 1) /\ k - 1 # n + 1 BY <3>2
      <4>2. f[k] = IF seq[k] \in T THEN Append(f[k - 1], seq[k]) ELSE f[k - 1] BY <2>1, <3>2, <4>1
      <4> QED BY <3>2, <4>1, <4>2
    <3>3. CASE k = 0
      <4>1. f[0] = <<>> BY <2>1
      <4> QED BY <3>3, <4>1
    <3> QED BY <3>1, <3>2, <3>3
  <2>3. Good(n + 1, g) BY <2>2
  <2>4. n + 1 \in 0..top OBVIOUS
  <2> QED BY <2>3, <2>4
<1>3. \E f : Good(top, f)
  <2> HIDE DEF S
  <2>1. top \in S BY <1>1, <1>2, UpTo
  <2> QED BY <2>1 DEF S
<1> QED BY <1>3 DEF PickedUpTo

LEMMA PickingStepwise ==
  ASSUME NEW seq, NEW T, NEW top \in Nat, top = Len(seq)
  PROVE  /\ PickedUpTo(seq, T)[0] = <<>>
         /\ \A i \in 0..(top - 1) :
              /\ seq[i + 1] \in T => PickedUpTo(seq, T)[i + 1] = Append(PickedUpTo(seq, T)[i], seq[i + 1])
              /\ seq[i + 1] \notin T => PickedUpTo(seq, T)[i + 1] = PickedUpTo(seq, T)[i]
<1> DEFINE F == PickedUpTo(seq, T)
<1>1. F = [k \in 0..top |->
             IF k = 0 THEN <<>> ELSE IF seq[k] \in T THEN Append(F[k - 1], seq[k]) ELSE F[k - 1]]
  BY PickingFixpoint
<1> HIDE DEF F
<1>2. F[0] = <<>>
  <2>1. 0 \in 0..top OBVIOUS
  <2> QED BY <1>1, <2>1
<1>3. ASSUME NEW i \in 0..(top - 1)
      PROVE  F[i + 1] = IF seq[i + 1] \in T THEN Append(F[i], seq[i + 1]) ELSE F[i]
  <2>1. i + 1 \in 0..top /\ i + 1 # 0 /\ (i + 1) - 1 = i OBVIOUS
  <2> QED BY <1>1, <2>1
<1> QED BY <1>2, <1>3 DEF F

LEMMA OneMorePicked ==
  ASSUME NEW U, NEW p \in Seq(U), NEW e \in U
  PROVE  Append(p, e) \in Seq(U) /\ Range(Append(p, e)) = Range(p) \cup {e}
<1>1. /\ Append(p, e) \in Seq(U) /\ Len(p) \in Nat /\ DOMAIN p = 1..Len(p)
      /\ DOMAIN Append(p, e) = 1..(Len(p) + 1)
      /\ Append(p, e)[Len(p) + 1] = e /\ \A i \in 1..Len(p) : Append(p, e)[i] = p[i]
  OBVIOUS
<1>2. ASSUME NEW x \in Range(Append(p, e)) PROVE x \in Range(p) \cup {e}
  BY <1>1 DEF Range
<1>3. ASSUME NEW x \in Range(p) PROVE x \in Range(Append(p, e))
  <2>1. PICK i \in 1..Len(p) : x = p[i] BY <1>1 DEF Range
  <2>2. i \in DOMAIN Append(p, e) /\ Append(p, e)[i] = x BY <1>1, <2>1
  <2> QED BY <2>2 DEF Range
<1>4. e \in Range(Append(p, e))
  <2>1. Len(p) + 1 \in DOMAIN Append(p, e) BY <1>1
  <2> QED BY <1>1, <2>1 DEF Range
<1> QED BY <1>1, <1>2, <1>3, <1>4

LEMMA SortedSelects ==
  ASSUME NEW U, NEW seq \in Seq(U), NEW T
  PROVE  /\ Sorted(seq, T) \in Seq(U)
         /\ Range(Sorted(seq, T)) = Range(seq) \cap T
<1> DEFINE F == PickedUpTo(seq, T)
           n == Len(seq)
           First(i) == {seq[j] : j \in 1..i}
           S == {i \in 0..n : F[i] \in Seq(U) /\ Range(F[i]) = First(i) \cap T}
<1>1. n \in Nat /\ DOMAIN seq = 1..n /\ \A i \in 1..n : seq[i] \in U
  OBVIOUS
<1>2. /\ F[0] = <<>>
      /\ \A i \in 0..(n - 1) : /\ seq[i + 1] \in T => F[i + 1] = Append(F[i], seq[i + 1])
                               /\ seq[i + 1] \notin T => F[i + 1] = F[i]
  <2>1. n = Len(seq) OBVIOUS
  <2> HIDE DEF n
  <2> QED BY <1>1, <2>1, PickingStepwise
<1> HIDE DEF F, n
<1>3. 0 \in S
  <2>1. <<>> \in Seq(U) /\ Range(<<>>) = {} BY DEF Range
  <2>2. First(0) = {} /\ 0 \in 0..n BY <1>1
  <2>3. F[0] \in Seq(U) /\ Range(F[0]) = {} BY <1>2, <2>1
  <2> HIDE DEF First
  <2> QED BY <2>2, <2>3
<1>4. ASSUME NEW i \in 0..(n - 1), i \in S PROVE i + 1 \in S
  <2>1. i + 1 \in 0..n /\ seq[i + 1] \in U /\ F[i] \in Seq(U) /\ Range(F[i]) = First(i) \cap T
    BY <1>1, <1>4
  <2>2. First(i + 1) = First(i) \cup {seq[i + 1]}
    <3>1. 1..(i + 1) = (1..i) \cup {i + 1} BY <1>1
    <3> QED BY <3>1
  <2> HIDE DEF First
  <2>3. CASE seq[i + 1] \in T
    <3>1. F[i + 1] = Append(F[i], seq[i + 1]) BY <1>2, <2>3
    <3>2. F[i + 1] \in Seq(U) /\ Range(F[i + 1]) = Range(F[i]) \cup {seq[i + 1]}
      BY <2>1, <3>1, OneMorePicked
    <3> QED BY <2>1, <2>2, <2>3, <3>2
  <2>4. CASE seq[i + 1] \notin T
    <3>1. F[i + 1] = F[i] BY <1>2, <2>4
    <3> QED BY <2>1, <2>2, <2>4, <3>1
  <2> QED BY <2>3, <2>4
<1>5. n \in S
  <2> HIDE DEF S
  <2>1. \A i \in 0..n : i \in S BY <1>1, <1>3, <1>4, UpTo
  <2> QED BY <1>1, <2>1
<1>6. First(n) = Range(seq) BY <1>1 DEF Range
<1>7. Sorted(seq, T) = F[n] BY DEF Sorted, F, n
<1>8. F[n] \in Seq(U) /\ Range(F[n]) = Range(seq) \cap T BY <1>5, <1>6
<1> QED BY <1>7, <1>8

-----------------------------------------------------------------------------
(* The Merkle tree, for every sequence of leaves: a proof that build_proof    *)
(* makes is one that verify_proof accepts against the root that build_root   *)
(* computes.  The recursive functions of Merkle satisfy their equations, and *)
(* the argument goes up the levels one round at a time.                      *)

LEMMA LevelsFixpoint ==
  ASSUME NEW leaves, NEW top \in Nat, top = Len(leaves)
  PROVE  Levels(leaves) =
           [k \in 0..top |-> IF k = 0 THEN leaves ELSE LevelAbove(Levels(leaves)[k - 1])]
<1> DEFINE Good(n, f) == f = [k \in 0..n |-> IF k = 0 THEN leaves ELSE LevelAbove(f[k - 1])]
           S == {n \in 0..top : \E f : Good(n, f)}
<1>1. 0 \in S
  <2> DEFINE f == [k \in 0..0 |-> leaves]
  <2>1. Good(0, f) OBVIOUS
  <2>2. 0 \in 0..top OBVIOUS
  <2> HIDE DEF Good, f
  <2> QED BY <2>1, <2>2
<1>2. ASSUME NEW n \in 0..(top - 1), n \in S PROVE n + 1 \in S
  <2>1. PICK f : Good(n, f) BY <1>2
  <2> DEFINE g == [k \in 0..(n + 1) |-> IF k = n + 1 THEN LevelAbove(f[n]) ELSE f[k]]
  <2>2. \A k \in 0..(n + 1) : g[k] = IF k = 0 THEN leaves ELSE LevelAbove(g[k - 1])
    <3> SUFFICES ASSUME NEW k \in 0..(n + 1)
                 PROVE  g[k] = IF k = 0 THEN leaves ELSE LevelAbove(g[k - 1])
      OBVIOUS
    <3>1. CASE k = n + 1
      <4>1. k # 0 /\ k - 1 = n /\ n \in 0..(n + 1) /\ n # n + 1 BY <3>1
      <4> QED BY <3>1, <4>1
    <3>2. CASE k # n + 1 /\ k # 0
      <4>1. k \in 0..n /\ k - 1 \in 0..(n + 1) /\ k - 1 # n + 1 BY <3>2
      <4>2. f[k] = LevelAbove(f[k - 1]) BY <2>1, <3>2, <4>1
      <4> QED BY <3>2, <4>1, <4>2
    <3>3. CASE k = 0
      <4>1. f[0] = leaves BY <2>1
      <4> QED BY <3>3, <4>1
    <3> QED BY <3>1, <3>2, <3>3
  <2>3. Good(n + 1, g) BY <2>2
  <2>4. n + 1 \in 0..top OBVIOUS
  <2> QED BY <2>3, <2>4
<1>3. \E f : Good(top, f)
  <2> HIDE DEF S
  <2>1. top \in S BY <1>1, <1>2, UpTo
  <2> QED BY <2>1 DEF S
<1> QED BY <1>3 DEF Levels

LEMMA PositionsFixpoint ==
  ASSUME NEW leaves, NEW idx, NEW top \in Nat, top = Len(leaves)
  PROVE  PositionsAbove(leaves, idx) =
           [k \in 0..top |-> IF k = 0 THEN idx ELSE PositionsAbove(leaves, idx)[k - 1] \div 2]
<1> DEFINE Good(n, f) == f = [k \in 0..n |-> IF k = 0 THEN idx ELSE f[k - 1] \div 2]
           S == {n \in 0..top : \E f : Good(n, f)}
<1>1. 0 \in S
  <2> DEFINE f == [k \in 0..0 |-> idx]
  <2>1. Good(0, f) OBVIOUS
  <2>2. 0 \in 0..top OBVIOUS
  <2> HIDE DEF Good, f
  <2> QED BY <2>1, <2>2
<1>2. ASSUME NEW n \in 0..(top - 1), n \in S PROVE n + 1 \in S
  <2>1. PICK f : Good(n, f) BY <1>2
  <2> DEFINE g == [k \in 0..(n + 1) |-> IF k = n + 1 THEN f[n] \div 2 ELSE f[k]]
  <2>2. \A k \in 0..(n + 1) : g[k] = IF k = 0 THEN idx ELSE g[k - 1] \div 2
    <3> SUFFICES ASSUME NEW k \in 0..(n + 1)
                 PROVE  g[k] = IF k = 0 THEN idx ELSE g[k - 1] \div 2
      OBVIOUS
    <3>1. CASE k = n + 1
      <4>1. k # 0 /\ k - 1 = n /\ n \in 0..(n + 1) /\ n # n + 1 BY <3>1
      <4> QED BY <3>1, <4>1
    <3>2. CASE k # n + 1 /\ k # 0
      <4>1. k \in 0..n /\ k - 1 \in 0..(n + 1) /\ k - 1 # n + 1 BY <3>2
      <4>2. f[k] = f[k - 1] \div 2 BY <2>1, <3>2, <4>1
      <4> QED BY <3>2, <4>1, <4>2
    <3>3. CASE k = 0
      <4>1. f[0] = idx BY <2>1
      <4> QED BY <3>3, <4>1
    <3> QED BY <3>1, <3>2, <3>3
  <2>3. Good(n + 1, g) BY <2>2
  <2>4. n + 1 \in 0..top OBVIOUS
  <2> QED BY <2>3, <2>4
<1>3. \E f : Good(top, f)
  <2> HIDE DEF S
  <2>1. top \in S BY <1>1, <1>2, UpTo
  <2> QED BY <2>1 DEF S
<1> QED BY <1>3 DEF PositionsAbove

\* The steps that round k adds to the path of the leaf at idx.
Added(leaves, idx, k) == PathStep(Levels(leaves)[k], PositionsAbove(leaves, idx)[k])

LEMMA PathsFixpoint ==
  ASSUME NEW leaves, NEW idx, NEW top \in Nat, top = Len(leaves)
  PROVE  PathsUp(leaves, idx) =
           [k \in 0..top |-> IF k = 0 THEN <<>> ELSE PathsUp(leaves, idx)[k - 1] \o Added(leaves, idx, k - 1)]
<1> DEFINE Good(n, f) == f = [k \in 0..n |-> IF k = 0 THEN <<>> ELSE f[k - 1] \o Added(leaves, idx, k - 1)]
           S == {n \in 0..top : \E f : Good(n, f)}
<1>1. 0 \in S
  <2> DEFINE f == [k \in 0..0 |-> <<>>]
  <2>1. Good(0, f) OBVIOUS
  <2>2. 0 \in 0..top OBVIOUS
  <2> HIDE DEF Good, f
  <2> QED BY <2>1, <2>2
<1>2. ASSUME NEW n \in 0..(top - 1), n \in S PROVE n + 1 \in S
  <2>1. PICK f : Good(n, f) BY <1>2
  <2> DEFINE g == [k \in 0..(n + 1) |-> IF k = n + 1 THEN f[n] \o Added(leaves, idx, n) ELSE f[k]]
  <2>2. \A k \in 0..(n + 1) : g[k] = IF k = 0 THEN <<>> ELSE g[k - 1] \o Added(leaves, idx, k - 1)
    <3> SUFFICES ASSUME NEW k \in 0..(n + 1)
                 PROVE  g[k] = IF k = 0 THEN <<>> ELSE g[k - 1] \o Added(leaves, idx, k - 1)
      OBVIOUS
    <3>1. CASE k = n + 1
      <4>1. k # 0 /\ k - 1 = n /\ n \in 0..(n + 1) /\ n # n + 1 BY <3>1
      <4> QED BY <3>1, <4>1
    <3>2. CASE k # n + 1 /\ k # 0
      <4>1. k \in 0..n /\ k - 1 \in 0..(n + 1) /\ k - 1 # n + 1 BY <3>2
      <4>2. f[k] = f[k - 1] \o Added(leaves, idx, k - 1) BY <2>1, <3>2, <4>1
      <4> QED BY <3>2, <4>1, <4>2
    <3>3. CASE k = 0
      <4>1. f[0] = <<>> BY <2>1
      <4> QED BY <3>3, <4>1
    <3> QED BY <3>1, <3>2, <3>3
  <2>3. Good(n + 1, g) BY <2>2
  <2>4. n + 1 \in 0..top OBVIOUS
  <2> QED BY <2>3, <2>4
<1>3. \E f : Good(top, f)
  <2> HIDE DEF S
  <2>1. top \in S BY <1>1, <1>2, UpTo
  <2> QED BY <2>1 DEF S
<1> QED BY <1>3 DEF PathsUp, Added

LEMMA HashesFixpoint ==
  ASSUME NEW leaf, NEW path, NEW top \in Nat, top = Len(path)
  PROVE  HashesUp(leaf, path) =
           [k \in 0..top |-> IF k = 0 THEN leaf ELSE Combine(path[k], HashesUp(leaf, path)[k - 1])]
<1> DEFINE Good(n, f) == f = [k \in 0..n |-> IF k = 0 THEN leaf ELSE Combine(path[k], f[k - 1])]
           S == {n \in 0..top : \E f : Good(n, f)}
<1>1. 0 \in S
  <2> DEFINE f == [k \in 0..0 |-> leaf]
  <2>1. Good(0, f) OBVIOUS
  <2>2. 0 \in 0..top OBVIOUS
  <2> HIDE DEF Good, f
  <2> QED BY <2>1, <2>2
<1>2. ASSUME NEW n \in 0..(top - 1), n \in S PROVE n + 1 \in S
  <2>1. PICK f : Good(n, f) BY <1>2
  <2> DEFINE g == [k \in 0..(n + 1) |-> IF k = n + 1 THEN Combine(path[n + 1], f[n]) ELSE f[k]]
  <2>2. \A k \in 0..(n + 1) : g[k] = IF k = 0 THEN leaf ELSE Combine(path[k], g[k - 1])
    <3> SUFFICES ASSUME NEW k \in 0..(n + 1)
                 PROVE  g[k] = IF k = 0 THEN leaf ELSE Combine(path[k], g[k - 1])
      OBVIOUS
    <3>1. CASE k = n + 1
      <4>1. k # 0 /\ k - 1 = n /\ n \in 0..(n + 1) /\ n # n + 1 BY <3>1
      <4> QED BY <3>1, <4>1
    <3>2. CASE k # n + 1 /\ k # 0
      <4>1. k \in 0..n /\ k - 1 \in 0..(n + 1) /\ k - 1 # n + 1 BY <3>2
      <4>2. f[k] = Combine(path[k], f[k - 1]) BY <2>1, <3>2, <4>1
      <4> QED BY <3>2, <4>1, <4>2
    <3>3. CASE k = 0
      <4>1. f[0] = leaf BY <2>1
      <4> QED BY <3>3, <4>1
    <3> QED BY <3>1, <3>2, <3>3
  <2>3. Good(n + 1, g) BY <2>2
  <2>4. n + 1 \in 0..top OBVIOUS
  <2> QED BY <2>3, <2>4
<1>3. \E f : Good(top, f)
  <2> HIDE DEF S
  <2>1. top \in S BY <1>1, <1>2, UpTo
  <2> QED BY <2>1 DEF S
<1> QED BY <1>3 DEF HashesUp

-----------------------------------------------------------------------------
(* The levels *)

(* A round halves a level, rounding up; a node is the pair of the two below  *)
(* it, or the one below it alone.                                            *)
LEMMA OneRound ==
  ASSUME NEW level, Len(level) \in Nat
  PROVE  /\ Len(LevelAbove(level)) = (Len(level) + 1) \div 2
         /\ \A c \in 0..(Len(level) - 1) :
              LET up == LevelAbove(level)[(c \div 2) + 1]
              IN /\ c % 2 = 1 => up = H2(level[c], level[c + 1])
                 /\ c % 2 = 0 /\ c + 1 < Len(level) => up = H2(level[c + 1], level[c + 2])
                 /\ c % 2 = 0 /\ c + 1 >= Len(level) => up = level[c + 1]
<1> DEFINE n == Len(level)
           half == (n + 1) \div 2
<1>1. half \in Nat BY Z3
<1>2. Len(LevelAbove(level)) = half
  BY <1>1 DEF LevelAbove
<1>3. ASSUME NEW c \in 0..(n - 1)
      PROVE  LET up == LevelAbove(level)[(c \div 2) + 1]
             IN /\ c % 2 = 1 => up = H2(level[c], level[c + 1])
                /\ c % 2 = 0 /\ c + 1 < n => up = H2(level[c + 1], level[c + 2])
                /\ c % 2 = 0 /\ c + 1 >= n => up = level[c + 1]
  <2> DEFINE i == (c \div 2) + 1
             up == LevelAbove(level)[i]
  <2>1. i \in 1..half OBVIOUS
  <2>2. up = IF 2 * i <= n THEN H2(level[2 * i - 1], level[2 * i]) ELSE level[2 * i - 1]
    BY <2>1 DEF LevelAbove
  <2>3. CASE c % 2 = 1
    <3>1. 2 * i = c + 1 BY <2>3
    <3>2. 2 * i - 1 = c /\ 2 * i <= n BY <3>1
    <3> QED BY <2>2, <2>3, <3>1, <3>2
  <2>4. CASE c % 2 = 0
    <3>1. 2 * i = c + 2 BY <2>4
    <3>2. 2 * i - 1 = c + 1 BY <3>1
    <3> QED BY <2>2, <2>4, <3>1, <3>2
  <2>5. c % 2 = 0 \/ c % 2 = 1 OBVIOUS
  <2> QED BY <2>3, <2>4, <2>5
<1> QED BY <1>2, <1>3

(* After k rounds a level has at least one node and, unless it has just that *)
(* one, at most as many as there were leaves, less k; the position that the  *)
(* proof is at is one of them.                                               *)
LEMMA LevelSizes ==
  ASSUME NEW leaves, NEW top \in Nat, top = Len(leaves), NEW idx \in 0..(top - 1)
  PROVE  \A k \in 0..top :
           LET size == Len(Levels(leaves)[k])
           IN /\ size \in Nat /\ size >= 1
              /\ size = 1 \/ size <= top - k
              /\ PositionsAbove(leaves, idx)[k] \in 0..(size - 1)
<1> DEFINE L == Levels(leaves)
           C == PositionsAbove(leaves, idx)
           Fits(k) == /\ Len(L[k]) \in Nat /\ Len(L[k]) >= 1
                      /\ Len(L[k]) = 1 \/ Len(L[k]) <= top - k
                      /\ C[k] \in 0..(Len(L[k]) - 1)
           S == {k \in 0..top : Fits(k)}
<1>1. L = [k \in 0..top |-> IF k = 0 THEN leaves ELSE LevelAbove(L[k - 1])]
  BY LevelsFixpoint
<1>2. C = [k \in 0..top |-> IF k = 0 THEN idx ELSE C[k - 1] \div 2]
  BY PositionsFixpoint
<1> HIDE DEF L, C
<1>3. 0 \in S
  <2>1. 0 \in 0..top /\ L[0] = leaves /\ C[0] = idx BY <1>1, <1>2
  <2> QED BY <2>1
<1>4. ASSUME NEW k \in 0..(top - 1), k \in S PROVE k + 1 \in S
  <2>1. k + 1 \in 0..top /\ k + 1 # 0 /\ (k + 1) - 1 = k OBVIOUS
  <2>2. L[k + 1] = LevelAbove(L[k]) /\ C[k + 1] = C[k] \div 2
    BY <1>1, <1>2, <2>1
  <2> DEFINE n == Len(L[k])
             c == C[k]
  <2>3. n \in Nat /\ n >= 1 /\ (n = 1 \/ n <= top - k) /\ c \in 0..(n - 1)
    BY <1>4
  <2>4. Len(L[k + 1]) = (n + 1) \div 2
    BY <2>2, <2>3, OneRound
  <2> HIDE DEF n, c
  <2>5. /\ (n + 1) \div 2 \in Nat /\ (n + 1) \div 2 >= 1
        /\ (n + 1) \div 2 = 1 \/ (n + 1) \div 2 <= top - (k + 1)
        /\ c \div 2 \in 0..(((n + 1) \div 2) - 1)
    BY <2>3
  <2> QED BY <2>1, <2>2, <2>4, <2>5 DEF n, c
<1>5. \A k \in 0..top : k \in S
  <2> HIDE DEF S
  <2> QED BY <1>3, <1>4, UpTo
<1> QED BY <1>5 DEF L, C

-----------------------------------------------------------------------------
(* The hashes *)

LEMMA HashesStepwise ==
  ASSUME NEW leaf, NEW path, NEW top \in Nat, top = Len(path)
  PROVE  /\ HashesUp(leaf, path)[0] = leaf
         /\ \A i \in 0..(top - 1) :
              HashesUp(leaf, path)[i + 1] = Combine(path[i + 1], HashesUp(leaf, path)[i])
<1> DEFINE h == HashesUp(leaf, path)
<1>1. h = [k \in 0..top |-> IF k = 0 THEN leaf ELSE Combine(path[k], h[k - 1])]
  BY HashesFixpoint
<1> HIDE DEF h
<1>2. h[0] = leaf
  <2>1. 0 \in 0..top OBVIOUS
  <2> QED BY <1>1, <2>1
<1>3. ASSUME NEW i \in 0..(top - 1) PROVE h[i + 1] = Combine(path[i + 1], h[i])
  <2>1. i + 1 \in 0..top /\ i + 1 # 0 /\ (i + 1) - 1 = i OBVIOUS
  <2> QED BY <1>1, <2>1
<1> QED BY <1>2, <1>3 DEF h

(* What verify_proof computes on the way does not depend on what follows.    *)
LEMMA HashesOfPrefix ==
  ASSUME NEW leaf, NEW p, NEW q, NEW n \in Nat, NEW m \in Nat, n = Len(p), m = Len(q),
         n <= m, \A i \in 1..n : q[i] = p[i]
  PROVE  \A i \in 0..n : HashesUp(leaf, q)[i] = HashesUp(leaf, p)[i]
<1> DEFINE P == HashesUp(leaf, p)
           Q == HashesUp(leaf, q)
           S == {i \in 0..n : Q[i] = P[i]}
<1>1. P[0] = leaf /\ \A i \in 0..(n - 1) : P[i + 1] = Combine(p[i + 1], P[i])
  BY HashesStepwise
<1>2. Q[0] = leaf /\ \A i \in 0..(m - 1) : Q[i + 1] = Combine(q[i + 1], Q[i])
  <2> HIDE DEF S, P
  <2> QED BY HashesStepwise
<1> HIDE DEF P, Q
<1>3. 0 \in S
  <2>1. 0 \in 0..n OBVIOUS
  <2> QED BY <1>1, <1>2, <2>1
<1>4. ASSUME NEW i \in 0..(n - 1), i \in S PROVE i + 1 \in S
  <2>1. i + 1 \in 0..n /\ i \in 0..(m - 1) /\ i + 1 \in 1..n
    OBVIOUS
  <2>2. Q[i] = P[i] /\ q[i + 1] = p[i + 1] BY <1>4, <2>1
  <2> QED BY <1>1, <1>2, <2>1, <2>2
<1>5. \A i \in 0..n : i \in S
  <2> HIDE DEF S
  <2> QED BY <1>3, <1>4, UpTo
<1> QED BY <1>5 DEF P, Q

\* The hash that verify_proof ends with.
Reached(leaf, path) == HashesUp(leaf, path)[Len(path)]

LEMMA OneMoreStep ==
  ASSUME NEW leaf, NEW T, NEW p \in Seq(T), NEW e \in T
  PROVE  Reached(leaf, p \o <<e>>) = Combine(e, Reached(leaf, p))
<1> DEFINE q == p \o <<e>>
           n == Len(p)
<1>1. n \in Nat /\ Len(q) = n + 1 /\ q[n + 1] = e /\ \A i \in 1..n : q[i] = p[i]
  OBVIOUS
<1> HIDE DEF q
<1>2. HashesUp(leaf, q)[n] = HashesUp(leaf, p)[n]
  <2>1. n \in 0..n /\ n + 1 \in Nat /\ n <= n + 1 BY <1>1
  <2> HIDE DEF n
  <2> QED BY <1>1, <2>1, HashesOfPrefix DEF n
<1>3. HashesUp(leaf, q)[n + 1] = Combine(q[n + 1], HashesUp(leaf, q)[n])
  <2> DEFINE top == n + 1
  <2>1. n \in 0..(top - 1) /\ top \in Nat /\ top = Len(q) BY <1>1
  <2> HIDE DEF n, top
  <2>2. \A i \in 0..(top - 1) : HashesUp(leaf, q)[i + 1] = Combine(q[i + 1], HashesUp(leaf, q)[i])
    BY <2>1, HashesStepwise
  <2> QED BY <2>1, <2>2
<1> QED BY <1>1, <1>2, <1>3 DEF Reached, q

\* The node above position c of a level.
Above(level, c) == LevelAbove(level)[(c \div 2) + 1]

(* The steps of a round lead from a node to the one above it.                *)
LEMMA RoundLeadsUp ==
  ASSUME NEW leaf, NEW T, NEW p \in Seq(T), NEW level, Len(level) \in Nat,
         NEW c \in 0..(Len(level) - 1), Reached(leaf, p) = level[c + 1],
         \A j \in 1..Len(level), side \in {"L", "R"} : [sibling |-> level[j], side |-> side] \in T
  PROVE  /\ p \o PathStep(level, c) \in Seq(T)
         /\ Reached(leaf, p \o PathStep(level, c)) = Above(level, c)
<1> DEFINE up == Above(level, c)
<1>0. /\ c % 2 = 1 => up = H2(level[c], level[c + 1])
      /\ c % 2 = 0 /\ c + 1 < Len(level) => up = H2(level[c + 1], level[c + 2])
      /\ c % 2 = 0 /\ c + 1 >= Len(level) => up = level[c + 1]
  BY OneRound DEF Above
<1> HIDE DEF up
<1>1. CASE c % 2 = 1
  <2> DEFINE e == [sibling |-> level[c], side |-> "L"]
  <2>1. c \in 1..Len(level) /\ c # 0 /\ Sibling(c) = c - 1 /\ Sibling(c) < c
        /\ Sibling(c) < Len(level) /\ (c - 1) + 1 = c
    BY <1>1 DEF Sibling
  <2>2. PathStep(level, c) = <<e>> BY <2>1 DEF PathStep
  <2>3. e \in T BY <2>1
  <2>4. Combine(e, level[c + 1]) = H2(level[c], level[c + 1]) BY DEF Combine
  <2> HIDE DEF e
  <2>5. p \o <<e>> \in Seq(T) BY <2>3
  <2> QED BY <1>0, <1>1, <2>2, <2>3, <2>4, <2>5, OneMoreStep DEF up
<1>2. CASE c % 2 = 0 /\ c + 1 < Len(level)
  <2> DEFINE e == [sibling |-> level[c + 2], side |-> "R"]
  <2>1. c + 2 \in 1..Len(level) /\ Sibling(c) = c + 1 /\ ~(Sibling(c) < c)
        /\ Sibling(c) < Len(level) /\ (c + 1) + 1 = c + 2
    BY <1>2 DEF Sibling
  <2>2. PathStep(level, c) = <<e>> BY <2>1 DEF PathStep
  <2>3. e \in T BY <2>1
  <2>4. Combine(e, level[c + 1]) = H2(level[c + 1], level[c + 2]) BY DEF Combine
  <2> HIDE DEF e
  <2>5. p \o <<e>> \in Seq(T) BY <2>3
  <2> QED BY <1>0, <1>2, <2>2, <2>3, <2>4, <2>5, OneMoreStep DEF up
<1>3. CASE c % 2 = 0 /\ c + 1 >= Len(level)
  <2>1. Sibling(c) = c + 1 /\ ~(Sibling(c) < Len(level)) BY <1>3 DEF Sibling
  <2>2. PathStep(level, c) = <<>> BY <2>1 DEF PathStep
  <2>3. p \o <<>> = p OBVIOUS
  <2> QED BY <1>0, <1>3, <2>2, <2>3 DEF up
<1>4. c % 2 = 0 \/ c % 2 = 1 OBVIOUS
<1> QED BY <1>1, <1>2, <1>3, <1>4

-----------------------------------------------------------------------------
(* The path of all rounds leads from the leaf to the one node of the top.    *)
LEMMA PathReachesRoot ==
  ASSUME NEW leaves, Len(leaves) \in Nat, NEW idx \in 0..(Len(leaves) - 1)
  PROVE  /\ Len(PathsUp(leaves, idx)[Len(leaves)]) \in Nat
         /\ Reached(leaves[idx + 1], PathsUp(leaves, idx)[Len(leaves)])
              = Levels(leaves)[Len(leaves)][1]
<1> DEFINE top == Len(leaves)
           leaf == leaves[idx + 1]
           L == Levels(leaves)
           C == PositionsAbove(leaves, idx)
           P == PathsUp(leaves, idx)
           T == [sibling : UNION {{L[k][j] : j \in 1..Len(L[k])} : k \in 0..top}, side : {"L", "R"}]
           Good(k) == P[k] \in Seq(T) /\ Reached(leaf, P[k]) = L[k][C[k] + 1]
           S == {k \in 0..top : Good(k)}
<1>1. L = [k \in 0..top |-> IF k = 0 THEN leaves ELSE LevelAbove(L[k - 1])]
  BY LevelsFixpoint
<1>2. C = [k \in 0..top |-> IF k = 0 THEN idx ELSE C[k - 1] \div 2]
  BY PositionsFixpoint
<1>3. P = [k \in 0..top |-> IF k = 0 THEN <<>> ELSE P[k - 1] \o Added(leaves, idx, k - 1)]
  BY PathsFixpoint
<1>4. \A k \in 0..top : /\ Len(L[k]) \in Nat /\ Len(L[k]) >= 1
                        /\ Len(L[k]) = 1 \/ Len(L[k]) <= top - k
                        /\ C[k] \in 0..(Len(L[k]) - 1)
  BY LevelSizes
<1>5. \A k \in 0..top : Added(leaves, idx, k) = PathStep(L[k], C[k])
  BY DEF Added
<1>6. \A k \in 0..top : \A j \in 1..Len(L[k]), side \in {"L", "R"} :
        [sibling |-> L[k][j], side |-> side] \in T
  OBVIOUS
<1> HIDE DEF L, C, P, T
<1>7. 0 \in S
  <2>1. 0 \in 0..top /\ L[0] = leaves /\ C[0] = idx /\ P[0] = <<>> BY <1>1, <1>2, <1>3
  <2>2. <<>> \in Seq(T) /\ Len(<<>>) = 0 OBVIOUS
  <2>4. Reached(leaf, <<>>) = leaf BY <2>2, HashesStepwise DEF Reached
  <2> QED BY <2>1, <2>2, <2>4
<1>8. ASSUME NEW k \in 0..(top - 1), k \in S PROVE k + 1 \in S
  <2>1. k + 1 \in 0..top /\ k \in 0..top /\ k + 1 # 0 /\ (k + 1) - 1 = k OBVIOUS
  <2>2. /\ L[k + 1] = LevelAbove(L[k]) /\ C[k + 1] = C[k] \div 2
        /\ P[k + 1] = P[k] \o PathStep(L[k], C[k])
    BY <1>1, <1>2, <1>3, <1>5, <2>1
  <2>3. P[k] \in Seq(T) /\ Reached(leaf, P[k]) = L[k][C[k] + 1] BY <1>8
  <2>4. /\ P[k] \o PathStep(L[k], C[k]) \in Seq(T)
        /\ Reached(leaf, P[k] \o PathStep(L[k], C[k])) = Above(L[k], C[k])
    <3>1. Len(L[k]) \in Nat /\ C[k] \in 0..(Len(L[k]) - 1) BY <1>4, <2>1
    <3>2. \A j \in 1..Len(L[k]), side \in {"L", "R"} : [sibling |-> L[k][j], side |-> side] \in T
      BY <1>6, <2>1
    <3> HIDE DEF leaf, top
    <3> SUFFICES ASSUME NEW level, level = L[k], NEW c, c = C[k], NEW p, p = P[k]
                 PROVE  /\ p \o PathStep(level, c) \in Seq(T)
                        /\ Reached(leaf, p \o PathStep(level, c)) = Above(level, c)
      OBVIOUS
    <3>3. /\ Len(level) \in Nat /\ c \in 0..(Len(level) - 1) /\ p \in Seq(T)
          /\ Reached(leaf, p) = level[c + 1]
          /\ \A j \in 1..Len(level), side \in {"L", "R"} : [sibling |-> level[j], side |-> side] \in T
      BY <2>3, <3>1, <3>2
    <3> QED BY <3>3, RoundLeadsUp, SMTT(30)
  <2> QED BY <2>1, <2>2, <2>4 DEF Above
<1>9. top \in S
  <2>1. top \in Nat /\ top \in 0..top OBVIOUS
  <2> HIDE DEF S, top
  <2> QED BY <1>7, <1>8, <2>1, UpTo
<1>10. Len(L[top]) = 1 /\ C[top] = 0
  <2>1. top \in 0..top OBVIOUS
  <2>2. /\ Len(L[top]) \in Nat /\ Len(L[top]) >= 1
        /\ Len(L[top]) = 1 \/ Len(L[top]) <= top - top
        /\ C[top] \in 0..(Len(L[top]) - 1)
    BY <1>4, <2>1
  <2>3. top \in Nat OBVIOUS
  <2> DEFINE size == Len(L[top])
  <2> HIDE DEF top, size
  <2>4. size \in Nat /\ size >= 1 /\ (size = 1 \/ size <= 0) /\ C[top] \in 0..(size - 1)
    BY <2>2, <2>3 DEF size
  <2>5. size = 1 /\ C[top] = 0 BY <2>4
  <2> QED BY <2>5 DEF size
<1>11. Reached(leaf, P[top]) = L[top][1]
  BY <1>9, <1>10
<1>12. Len(P[top]) \in Nat
  BY <1>9
<1> QED BY <1>11, <1>12 DEF L, P

(* A proof of inclusion that build_proof makes for any leaf of any tree is   *)
(* one that verify_proof accepts against the root of that tree, however many *)
(* odd nodes were promoted on the way.                                       *)
THEOREM ProofsVerify ==
  ASSUME NEW U, NEW leaves \in Seq(U), NEW idx \in 0..(Len(leaves) - 1)
  PROVE  VerifyProof(leaves[idx + 1], BuildProof(leaves, idx), BuildRoot(leaves))
<1>1. Len(leaves) \in Nat /\ leaves # <<>>
  OBVIOUS
<1>2. BuildRoot(leaves) = Levels(leaves)[Len(leaves)][1]
  BY <1>1 DEF BuildRoot
<1>3. Reached(leaves[idx + 1], PathsUp(leaves, idx)[Len(leaves)]) = Levels(leaves)[Len(leaves)][1]
  BY <1>1, PathReachesRoot
<1> QED BY <1>2, <1>3 DEF VerifyProof, Reached, BuildProof

(* And it is accepted for no other hash in the place of that leaf, as long   *)
(* as the hash of two nodes tells them apart.                                *)
THEOREM ProofsPinTheLeaf ==
  ASSUME NEW U, NEW leaves \in Seq(U), NEW idx \in 0..(Len(leaves) - 1), NEW other,
         VerifyProof(other, BuildProof(leaves, idx), BuildRoot(leaves))
  PROVE  other = leaves[idx + 1]
<1> DEFINE path == BuildProof(leaves, idx)
           n == Len(path)
           F == HashesUp(other, path)
           G == HashesUp(leaves[idx + 1], path)
           S == {i \in 0..n : F[n - i] = G[n - i]}
<1>0. n \in Nat
  <2>1. Len(leaves) \in Nat OBVIOUS
  <2> QED BY <2>1, PathReachesRoot DEF BuildProof
<1>1. F[n] = G[n]
  BY ProofsVerify DEF VerifyProof
<1>2. F[0] = other /\ \A i \in 0..(n - 1) : F[i + 1] = Combine(path[i + 1], F[i])
  BY <1>0, HashesStepwise
<1>3. G[0] = leaves[idx + 1] /\ \A i \in 0..(n - 1) : G[i + 1] = Combine(path[i + 1], G[i])
  BY <1>0, HashesStepwise
<1>4. \A e, g, h : Combine(e, g) = Combine(e, h) => g = h
  BY DEF Combine, H2
<1> HIDE DEF F, G, n, path
<1>6. 0 \in S BY <1>1, <1>0
<1>7. ASSUME NEW i \in 0..(n - 1), i \in S PROVE i + 1 \in S
  <2>1. n - i - 1 \in 0..(n - 1) /\ (n - i - 1) + 1 = n - i /\ n - (i + 1) = n - i - 1 /\ i + 1 \in 0..n
    BY <1>0
  <2>2. Combine(path[n - i], F[n - i - 1]) = Combine(path[n - i], G[n - i - 1])
    BY <1>2, <1>3, <1>7, <2>1
  <2> QED BY <1>4, <2>1, <2>2
<1>8. n \in S
  <2>1. n \in 0..n BY <1>0
  <2> HIDE DEF S
  <2> QED BY <1>0, <1>6, <1>7, <2>1, UpTo
<1>9. F[0] = G[0]
  <2>1. n - n = 0 BY <1>0
  <2> QED BY <1>8, <2>1
<1> QED BY <1>2, <1>3, <1>9

-----------------------------------------------------------------------------
(* The anchor workers.  What is known of an attestation from its own fields, *)
(* of the windows of a customer one after the other, and of the trajectories *)
(* that have been held since they were attested.                             *)

RootsIn(a) == {s \in a.saw : Cust[s] = a.cust /\ IsRoot(s) /\ a.start <= End[s] /\ End[s] < a.end}
Closing(a) == {Traj[s] : s \in RootsIn(a)}

\* The attestation that one BuildWindow signs, and that no later step alters.
WellMade(a) ==
  /\ a = [cust |-> a.cust, start |-> a.start, end |-> a.end, leaves |-> a.leaves,
          roots |-> a.roots, root |-> a.root, exported |-> a.exported, saw |-> a.saw,
          base |-> a.base, kept |-> a.kept]
  /\ a.cust \in Customers /\ a.start \in Int /\ a.end \in Nat /\ a.saw \subseteq Spans
  /\ a.base \in Nat
  /\ Closing(a) # {}
  /\ a.leaves = Sorted(TrajOrder, Closing(a))
  /\ a.roots = [i \in DOMAIN a.leaves |-> RootOf(a.leaves[i], a.cust, a.saw)]
  /\ a.root = BuildRoot(a.roots)

Building(me) == me.pc \in {"window", "commit"}

WorkerTypes(me) ==
  /\ me = [pc |-> me.pc, now |-> me.now, todo |-> me.todo, cust |-> me.cust, start |-> me.start,
           base |-> me.base, att |-> me.att, id |-> me.id]
  /\ me.now \in Nat /\ me.todo \subseteq Customers
  /\ Building(me) => me.cust \in Customers /\ me.start \in Int /\ me.base \in Nat
  /\ me.pc = "commit" => /\ WellMade(me.att)
                         /\ me.att.cust = me.cust /\ me.att.start = me.start
                         /\ me.att.end = me.now /\ me.att.base = me.base

\* A window starts where the last one of the customer that was known ended.
StartsAtLast(start, earlier) ==
  /\ \A j \in earlier : atts[j].end <= start
  /\ earlier # {} => \E j \in earlier : atts[j].end = start

Earlier(i) == {j \in AttsOf(atts[i].cust) : j < i}
WindowsFollow ==
  \A i \in DOMAIN atts :
    atts[i].base = Cardinality(Earlier(i)) => StartsAtLast(atts[i].start, Earlier(i))

\* As far as nobody else has attested the customer since.
Follows(me) ==
  LET ours == AttsOf(me.cust) IN
  Building(me) => /\ me.base <= Cardinality(ours)
                  /\ me.base = Cardinality(ours) => StartsAtLast(me.start, ours)

\* The rows seen of a trajectory are there, and out of reach of the pass that runs.
Safe(t, saw) ==
  LET mine == {s \in saw : Traj[s] = t} IN
  /\ t \in Trajectories /\ Held(t) /\ mine \subseteq rows
  /\ pass.pc # "idle" => t \in pass.held /\ mine \subseteq pass.had
KeptSafe(a) == \A t \in a.kept : Safe(t, a.saw)

InTime(me) ==
  /\ me.now <= clock
  /\ me.pc \in {"export", "mark"} => me.id \in DOMAIN atts
WorkerSane(me) ==
  WorkerTypes(me) /\ InTime(me) /\ Follows(me) /\ (me.pc = "commit" => KeptSafe(me.att))
AttSane(a) == WellMade(a) /\ a.end <= clock /\ KeptSafe(a)

Base ==
  /\ PurgeInv
  /\ clock \in Nat
  /\ rows \subseteq Spans
  /\ atts \in Seq(Range(atts))
AttsSane == (\A i \in DOMAIN atts : AttSane(atts[i])) /\ WindowsFollow
WorkersSane == DOMAIN worker = Workers /\ \A w \in Workers : WorkerSane(worker[w])
AnchorInv == Base /\ AttsSane /\ WorkersSane

LEMMA AnchorInit == Init => AnchorInv
<1> SUFFICES ASSUME Init PROVE AnchorInv OBVIOUS
<1>1. atts = <<>> /\ RetentionInit /\ worker = [w \in Workers |-> Asleep] /\ clock = 0 /\ rows = {}
  BY DEF Init, RetentionInit
<1>2. Base
  <2>1. <<>> \in Seq(Range(<<>>)) OBVIOUS
  <2> QED BY <1>1, <2>1, PurgeInit DEF Base
<1>3. AttsSane BY <1>1 DEF AttsSane, WindowsFollow
<1>4. WorkerSane(Asleep)
  BY <1>1 DEF WorkerSane, WorkerTypes, InTime, Follows, Building, Asleep
<1>5. WorkersSane BY <1>1, <1>4 DEF WorkersSane
<1> QED BY <1>2, <1>3, <1>5 DEF AnchorInv

(* The leaves of an attestation are the trajectories that close in its window. *)
LEMMA LeavesClose ==
  ASSUME NEW a, WellMade(a)
  PROVE  /\ a.leaves \in Seq(Trajectories) /\ Range(a.leaves) = Closing(a)
         /\ Closing(a) \subseteq Trajectories
<1>1. Closing(a) \subseteq Trajectories
  BY RetentionAssumption DEF WellMade, Closing, RootsIn
<1>2. TrajOrder \in Seq(Trajectories) /\ Range(TrajOrder) = Trajectories
  BY AnchorAssumption
<1>3. /\ Sorted(TrajOrder, Closing(a)) \in Seq(Trajectories)
      /\ Range(Sorted(TrajOrder, Closing(a))) = Trajectories \cap Closing(a)
  BY <1>2, SortedSelects
<1> QED BY <1>1, <1>3 DEF WellMade

\* Neither the export nor a hold that is released alters what was signed.
LEMMA KeptChanges ==
  ASSUME NEW a, WellMade(a), NEW K
  PROVE  LET b == [a EXCEPT !.kept = K] IN
         /\ WellMade(b) /\ b.kept = K /\ b.saw = a.saw
         /\ b.cust = a.cust /\ b.start = a.start /\ b.end = a.end /\ b.base = a.base
<1> DEFINE b == [a EXCEPT !.kept = K]
<1>1. /\ b = [cust |-> b.cust, start |-> b.start, end |-> b.end, leaves |-> b.leaves,
              roots |-> b.roots, root |-> b.root, exported |-> b.exported, saw |-> b.saw,
              base |-> b.base, kept |-> b.kept]
      /\ b.kept = K /\ b.saw = a.saw /\ b.leaves = a.leaves /\ b.roots = a.roots /\ b.root = a.root
      /\ b.cust = a.cust /\ b.start = a.start /\ b.end = a.end /\ b.base = a.base
  BY DEF WellMade
<1> HIDE DEF b
<1>2. Closing(b) = Closing(a) BY <1>1 DEF Closing, RootsIn
<1>3. WellMade(b) BY <1>1, <1>2 DEF WellMade
<1> QED BY <1>1, <1>3 DEF b

LEMMA ExportChanges ==
  ASSUME NEW a, WellMade(a), NEW e
  PROVE  LET b == [a EXCEPT !.exported = e] IN
         /\ WellMade(b) /\ b.kept = a.kept /\ b.saw = a.saw
         /\ b.cust = a.cust /\ b.start = a.start /\ b.end = a.end /\ b.base = a.base
<1> DEFINE b == [a EXCEPT !.exported = e]
<1>1. /\ b = [cust |-> b.cust, start |-> b.start, end |-> b.end, leaves |-> b.leaves,
              roots |-> b.roots, root |-> b.root, exported |-> b.exported, saw |-> b.saw,
              base |-> b.base, kept |-> b.kept]
      /\ b.kept = a.kept /\ b.saw = a.saw /\ b.leaves = a.leaves /\ b.roots = a.roots /\ b.root = a.root
      /\ b.cust = a.cust /\ b.start = a.start /\ b.end = a.end /\ b.base = a.base
  BY DEF WellMade
<1> HIDE DEF b
<1>2. Closing(b) = Closing(a) BY <1>1 DEF Closing, RootsIn
<1>3. WellMade(b) BY <1>1, <1>2 DEF WellMade
<1> QED BY <1>1, <1>3 DEF b

\* The rows seen of a trajectory that stays held stay where they are.
LEMMA SafeStays ==
  ASSUME Base, [RetentionNext]_retentionVars, NEW t, NEW saw, Safe(t, saw), Held(t)'
  PROVE  Safe(t, saw)'
<1> DEFINE mine == {s \in saw : Traj[s] = t}
<1>1. /\ mine \subseteq rows /\ Held(t) /\ t \in Trajectories
      /\ pass.pc # "idle" => t \in pass.held /\ mine \subseteq pass.had
  BY DEF Safe
<1>2. SUFFICES /\ mine \subseteq rows'
               /\ pass'.pc # "idle" => t \in pass'.held /\ mine \subseteq pass'.had
  BY <1>1 DEF Safe
<1>3. PurgeInv /\ PassShape BY DEF Base, PurgeInv
<1> HIDE DEF mine
<1>4. CASE UNCHANGED retentionVars \/ Tick
  BY <1>1, <1>4 DEF retentionVars, Tick
<1>5. CASE HoldStep
  <2>1. PICK u \in Trajectories : PlaceHold(u) \/ ReleaseHold(u)
    BY <1>5, RetentionAssumption DEF HoldStep
  <2>2. CASE PlaceHold(u)
    BY <1>1, <1>3, <2>2 DEF PlaceHold, PassShape
  <2>3. CASE ReleaseHold(u)
    <3>1. t # u BY <1>3, <2>3 DEF ReleaseHold, Held, PurgeInv
    <3>2. rows' = rows /\ pass'.pc = pass.pc /\ pass'.held = pass.held \ {u} /\ pass'.had = pass.had
      BY <1>3, <2>3 DEF ReleaseHold, PassShape
    <3> QED BY <1>1, <3>1, <3>2
  <2> QED BY <2>1, <2>2, <2>3
<1>6. ASSUME NEW s \in Spans, Store(s)
      PROVE  mine \subseteq rows' /\ (pass'.pc # "idle" => t \in pass'.held /\ mine \subseteq pass'.had)
  BY <1>1, <1>6 DEF Store
<1>7. CASE StartPass
  <2>1. rows' = rows /\ pass'.had = rows /\ pass'.held = {u \in Trajectories : Held(u)}
    BY <1>7 DEF StartPass, Quiet
  <2> QED BY <1>1, <2>1
<1>8. CASE (\E m \in Months : ProbePartition(m)) \/ DropPartition \/ DeleteRows
  <2>1. /\ pass.pc # "idle" /\ rows' = rows /\ pass'.had = pass.had /\ pass'.held = pass.held
    BY <1>3, <1>8 DEF ProbePartition, DropPartition, DeleteRows, PassShape
  <2> QED BY <1>1, <2>1
<1>9. CASE CommitPass
  <2>1. pass.pc # "idle" /\ rows' = rows \ pass.gone /\ pass'.pc = "idle"
    BY <1>9 DEF CommitPass, Quiet
  <2>2. ASSUME NEW s \in mine PROVE s \notin pass.gone
    <3>1. s \in pass.had /\ Traj[s] = t /\ t \in pass.held BY <1>1, <2>1 DEF mine
    <3> QED BY <1>3, <3>1 DEF PurgeInv, GoneLawful, MayGo
  <2> QED BY <1>1, <2>1, <2>2
<1>10. CASE AbortPass
  <2>1. rows' = rows /\ pass'.pc = "idle" BY <1>10 DEF AbortPass, Quiet
  <2> QED BY <1>1, <2>1
<1> QED BY <1>4, <1>5, <1>6, <1>7, <1>8, <1>9, <1>10 DEF RetentionNext, RetentionStep

LEMMA OursAreFinite ==
  ASSUME Base, NEW c
  PROVE  IsFiniteSet(AttsOf(c)) /\ Cardinality(AttsOf(c)) \in Nat
<1>1. Len(atts) \in Nat /\ AttsOf(c) \subseteq 1..Len(atts)
  BY DEF Base, AttsOf
<1>2. IsFiniteSet(1..Len(atts)) BY <1>1, FS_Interval
<1> QED BY <1>1, <1>2, FS_Subset, FS_CardinalityType

\* The last window of a customer, with one before it, is the one that ends latest.
LEMMA LastOfWindows ==
  ASSUME Base, AttsSane, NEW c, AttsOf(c) # {}
  PROVE  LastWindowEnd(c) \in Nat /\ StartsAtLast(LastWindowEnd(c), AttsOf(c))
<1> DEFINE Ends == {atts[i].end : i \in AttsOf(c)}
           Left == {clock - e : e \in Ends}
<1>1. \A i \in AttsOf(c) : atts[i].end \in Nat /\ atts[i].end <= clock
  BY DEF AttsSane, AttSane, WellMade, AttsOf
<1>2. clock \in Nat BY DEF Base
<1>3. Left \in SUBSET Nat /\ Left # {} BY <1>1, <1>2
<1>4. PICK l \in Left : \A k \in Left : l <= k
  <2> HIDE DEF Left
  <2> QED BY <1>3, LeastOf
<1>5. PICK e \in Ends : l = clock - e BY <1>4
<1>6. \A f \in Ends : e >= f
  <2> SUFFICES ASSUME NEW f \in Ends PROVE e >= f OBVIOUS
  <2>1. clock - f \in Left OBVIOUS
  <2>2. e \in Nat /\ f \in Nat BY <1>1
  <2>3. clock - e <= clock - f BY <1>4, <1>5, <2>1
  <2> QED BY <1>2, <2>2, <2>3
<1>7. Max(Ends) \in Ends /\ \A f \in Ends : Max(Ends) >= f
  <2> HIDE DEF Ends
  <2> QED BY <1>6 DEF Max
<1>8. LastWindowEnd(c) = Max(Ends) BY DEF LastWindowEnd
<1> QED BY <1>1, <1>7, <1>8 DEF StartsAtLast

\* What is true of the windows stays true while no attestation is added.
LEMMA WindowsStay ==
  ASSUME WindowsFollow, DOMAIN atts' = DOMAIN atts,
         \A j \in DOMAIN atts : /\ atts'[j].cust = atts[j].cust /\ atts'[j].start = atts[j].start
                                /\ atts'[j].end = atts[j].end /\ atts'[j].base = atts[j].base
  PROVE  WindowsFollow' /\ \A me : Follows(me) => Follows(me)'
<1>1. \A c : AttsOf(c)' = AttsOf(c) BY DEF AttsOf
<1>2. ASSUME NEW set \in SUBSET DOMAIN atts, NEW start
      PROVE  StartsAtLast(start, set) => StartsAtLast(start, set)'
  BY <1>2 DEF StartsAtLast
<1>3. ASSUME NEW me, Follows(me) PROVE Follows(me)'
  <2>1. AttsOf(me.cust) \in SUBSET DOMAIN atts BY DEF AttsOf
  <2>2. Building(me) => /\ me.base <= Cardinality(AttsOf(me.cust))
                        /\ me.base = Cardinality(AttsOf(me.cust)) => StartsAtLast(me.start, AttsOf(me.cust))
    BY <1>3 DEF Follows
  <2>3. AttsOf(me.cust)' = AttsOf(me.cust) BY <1>1
  <2> QED BY <1>2, <2>1, <2>2, <2>3 DEF Follows, StartsAtLast
<1>4. ASSUME NEW i \in DOMAIN atts, atts'[i].base = Cardinality(Earlier(i)')
      PROVE  StartsAtLast(atts[i].start, Earlier(i))'
  <2>1. Earlier(i)' = Earlier(i) BY <1>1 DEF Earlier
  <2>2. Earlier(i) \in SUBSET DOMAIN atts BY DEF Earlier, AttsOf
  <2>3. StartsAtLast(atts[i].start, Earlier(i)) BY <1>4, <2>1 DEF WindowsFollow
  <2> QED BY <2>1, <2>2, <2>3 DEF StartsAtLast
<1> QED BY <1>3, <1>4 DEF WindowsFollow

\* A step of one worker that leaves the attestations and the ledger alone.
LEMMA OneWorker ==
  ASSUME AnchorInv, UNCHANGED <<retentionVars, atts>>, NEW w \in Workers, NEW x,
         worker' = [worker EXCEPT ![w] = x], WorkerSane(x)
  PROVE  AnchorInv'
<1>1. UNCHANGED <<clock, rows, months, holds, ops, pass, arrived, atts>>
  BY DEF retentionVars
<1>2. Base' BY <1>1 DEF AnchorInv, Base, PurgeInv, PassShape, HeldThroughout, GoneLawful, DropLawful,
                        MayGo, Expired, In, Held, Range
<1>3. AttsSane'
  BY <1>1 DEF AnchorInv, AttsSane, AttSane, KeptSafe, Safe, Held, WindowsFollow, Earlier, AttsOf, StartsAtLast
<1>4. \A me : WorkerSane(me) => WorkerSane(me)'
  BY <1>1 DEF WorkerSane, InTime, Follows, AttsOf, StartsAtLast, KeptSafe, Safe, Held
<1>5. DOMAIN worker' = Workers /\ \A v \in Workers : worker'[v] = x \/ worker'[v] = worker[v]
  BY DEF AnchorInv, WorkersSane
<1>6. WorkersSane' BY <1>4, <1>5 DEF AnchorInv, WorkersSane
<1> QED BY <1>2, <1>3, <1>6 DEF AnchorInv

\* Ends of windows lie in the past: the clock only moves on.
LEMMA ClockMoves ==
  ASSUME Base, [RetentionNext]_retentionVars
  PROVE  clock' \in Nat /\ clock <= clock'
<1>1. clock \in Nat BY DEF Base
<1>2. CASE UNCHANGED retentionVars BY <1>1, <1>2 DEF retentionVars
<1>3. CASE RetentionNext
  <2>1. CASE Tick BY <1>1, <2>1 DEF Tick
  <2>2. CASE ~Tick
    <3>1. clock' = clock
      BY <1>3, <2>2 DEF RetentionNext, HoldStep, PlaceHold, ReleaseHold, RetentionStep, StartPass,
           ProbePartition, DropPartition, DeleteRows, CommitPass, AbortPass, Store
    <3> QED BY <1>1, <3>1
  <2> QED BY <2>1, <2>2
<1> QED BY <1>2, <1>3

LEMMA BaseStep ==
  ASSUME Base, [Next]_vars, atts' \in Seq(Range(atts'))
  PROVE  Base'
<1>1. [RetentionNext]_retentionVars BY LedgerSteps
<1>2. PurgeInv' BY <1>1, PurgeStep DEF Base
<1>3. clock' \in Nat BY <1>1, ClockMoves
<1>4. rows' \subseteq Spans
  <2>1. rows \subseteq Spans BY DEF Base
  <2>2. CASE UNCHANGED retentionVars BY <2>1, <2>2 DEF retentionVars
  <2>3. CASE RetentionNext
    BY <2>1, <2>3 DEF RetentionNext, Tick, HoldStep, PlaceHold, ReleaseHold, RetentionStep, StartPass,
         ProbePartition, DropPartition, DeleteRows, CommitPass, AbortPass, Store
  <2> QED BY <1>1, <2>2, <2>3
<1> QED BY <1>2, <1>3, <1>4 DEF Base

LEMMA TableKeeps ==
  ASSUME AnchorInv, TableStep
  PROVE  AnchorInv'
<1>1. UNCHANGED <<atts, worker>> /\ [Next]_vars /\ [RetentionNext]_retentionVars
  BY LedgerSteps DEF TableStep, Next
<1>2. Base' BY <1>1, BaseStep DEF AnchorInv, Base
<1>3. \A t : Held(t) => Held(t)'
  BY DEF TableStep, Tick, RetentionStep, StartPass, ProbePartition, DropPartition, DeleteRows,
         CommitPass, AbortPass, Store, Held
<1>4. ASSUME NEW a, KeptSafe(a) PROVE KeptSafe(a)'
  <2> SUFFICES ASSUME NEW t \in a.kept PROVE Safe(t, a.saw)' BY DEF KeptSafe
  <2>1. Safe(t, a.saw) BY <1>4 DEF KeptSafe
  <2>2. Held(t)' BY <1>3, <2>1 DEF Safe
  <2> QED BY <1>1, <2>1, <2>2, SafeStays DEF AnchorInv
<1>5. clock \in Nat /\ clock' \in Nat /\ clock <= clock' BY <1>1, ClockMoves DEF AnchorInv, Base
<1>6. WindowsFollow' /\ \A me : Follows(me) => Follows(me)'
  BY <1>1, WindowsStay DEF AnchorInv, AttsSane
<1>7. ASSUME NEW a, AttSane(a) PROVE AttSane(a)'
  BY <1>4, <1>5, <1>7 DEF AttSane, WellMade
<1>8. ASSUME NEW me, WorkerSane(me) PROVE WorkerSane(me)'
  BY <1>1, <1>4, <1>5, <1>6, <1>8 DEF WorkerSane, InTime, WorkerTypes
<1>9. AttsSane' BY <1>1, <1>6, <1>7 DEF AnchorInv, AttsSane
<1>10. WorkersSane' BY <1>1, <1>8 DEF AnchorInv, WorkersSane
<1> QED BY <1>2, <1>9, <1>10 DEF AnchorInv

LEMMA HoldsKeep ==
  ASSUME AnchorInv, HoldChanges
  PROVE  AnchorInv'
<1> DEFINE Still(a) == {t \in a.kept : holds'[t] = "active"}
<1>1. /\ [Next]_vars /\ [RetentionNext]_retentionVars /\ clock' = clock
      /\ atts' = [i \in DOMAIN atts |-> Kept(atts[i])]
      /\ worker' = [w \in Workers |->
           IF At(w, "commit") THEN [worker[w] EXCEPT !.att = Kept(@)] ELSE worker[w]]
  BY LedgerSteps DEF HoldChanges, HoldStep, PlaceHold, ReleaseHold, Next
<1>2. ASSUME NEW a, WellMade(a)
      PROVE  LET b == Kept(a) IN
             /\ WellMade(b) /\ b.kept = Still(a) /\ b.saw = a.saw
             /\ b.cust = a.cust /\ b.start = a.start /\ b.end = a.end /\ b.base = a.base
  BY <1>2, KeptChanges DEF Kept
<1>3. ASSUME NEW a, NEW b, KeptSafe(a), b.kept = Still(a), b.saw = a.saw PROVE KeptSafe(b)'
  <2> SUFFICES ASSUME NEW t \in b.kept PROVE Safe(t, a.saw)' BY <1>3 DEF KeptSafe
  <2>1. t \in a.kept /\ Held(t)' BY <1>3 DEF Held
  <2>2. Safe(t, a.saw) BY <1>3, <2>1 DEF KeptSafe
  <2> QED BY <1>1, <2>1, <2>2, SafeStays DEF AnchorInv
<1>4. ASSUME NEW i \in DOMAIN atts
      PROVE  /\ AttSane(atts[i])'
             /\ atts'[i].cust = atts[i].cust /\ atts'[i].start = atts[i].start
             /\ atts'[i].end = atts[i].end /\ atts'[i].base = atts[i].base
  <2> DEFINE a == atts[i]
  <2>0. SUFFICES ASSUME NEW b, b = Kept(a)
                 PROVE  /\ AttSane(atts[i])'
                        /\ atts'[i].cust = atts[i].cust /\ atts'[i].start = atts[i].start
                        /\ atts'[i].end = atts[i].end /\ atts'[i].base = atts[i].base
    OBVIOUS
  <2>1. WellMade(a) /\ a.end <= clock /\ KeptSafe(a) BY DEF AnchorInv, AttsSane, AttSane
  <2>2. atts'[i] = b BY <1>1, <2>0
  <2>3. /\ WellMade(b) /\ b.kept = Still(a) /\ b.saw = a.saw
        /\ b.cust = a.cust /\ b.start = a.start /\ b.end = a.end /\ b.base = a.base
    BY <1>2, <2>0, <2>1
  <2> HIDE DEF a
  <2>4. KeptSafe(b)' BY <1>3, <2>1, <2>3
  <2> QED BY <1>1, <2>1, <2>2, <2>3, <2>4 DEF AttSane, a
<1>5. DOMAIN atts' = DOMAIN atts /\ atts' \in Seq(Range(atts'))
  <2>1. Len(atts) \in Nat /\ DOMAIN atts = 1..Len(atts) BY DEF AnchorInv, Base
  <2>2. DOMAIN atts' = 1..Len(atts) /\ \A i \in 1..Len(atts) : atts'[i] \in Range(atts')
    BY <1>1, <2>1 DEF Range
  <2>3. atts' = [i \in 1..Len(atts) |-> atts'[i]] BY <1>1, <2>1
  <2> HIDE DEF Range
  <2> QED BY <2>1, <2>2, <2>3
<1>6. Base' BY <1>1, <1>5, BaseStep DEF AnchorInv
<1>7. WindowsFollow' /\ \A me : Follows(me) => Follows(me)'
  BY <1>4, <1>5, WindowsStay DEF AnchorInv, AttsSane
<1>8. AttsSane' BY <1>4, <1>5, <1>7 DEF AttsSane
<1>9. ASSUME NEW w \in Workers PROVE WorkerSane(worker[w])'
  <2> DEFINE me == worker[w]
  <2>1. WorkerTypes(me) /\ InTime(me) /\ Follows(me) /\ (me.pc = "commit" => KeptSafe(me.att))
    BY DEF AnchorInv, WorkersSane, WorkerSane
  <2>2. \A x : InTime(x) => InTime(x)' BY <1>1, <1>5 DEF InTime
  <2>3. CASE ~At(w, "commit")
    <3>1. worker'[w] = me /\ me.pc # "commit" BY <1>1, <2>3 DEF At
    <3>2. SUFFICES ASSUME NEW x, x = me PROVE WorkerSane(x)' BY <3>1
    <3>3. WorkerTypes(x) /\ InTime(x)' /\ Follows(x)' /\ x.pc # "commit"
      BY <1>7, <2>1, <2>2, <3>1, <3>2
    <3> QED BY <3>3 DEF WorkerSane
  <2>4. CASE At(w, "commit")
    <3>0. SUFFICES ASSUME NEW b, b = Kept(me.att), NEW you, you = [me EXCEPT !.att = b]
                   PROVE  WorkerSane(worker[w])'
      OBVIOUS
    <3>1. worker'[w] = you /\ me.pc = "commit" BY <1>1, <2>4, <3>0 DEF At
    <3>2. /\ WellMade(b) /\ b.kept = Still(me.att) /\ b.saw = me.att.saw
          /\ b.cust = me.att.cust /\ b.start = me.att.start /\ b.end = me.att.end /\ b.base = me.att.base
      BY <1>2, <2>1, <3>0, <3>1 DEF WorkerTypes
    <3>3. KeptSafe(b)' BY <1>3, <2>1, <3>1, <3>2
    <3>4. /\ you = [pc |-> you.pc, now |-> you.now, todo |-> you.todo, cust |-> you.cust,
                    start |-> you.start, base |-> you.base, att |-> you.att, id |-> you.id]
          /\ you.pc = "commit" /\ you.att = b /\ you.now = me.now /\ you.todo = me.todo
          /\ you.cust = me.cust /\ you.start = me.start /\ you.base = me.base /\ you.id = me.id
      BY <2>1, <3>0, <3>1 DEF WorkerTypes
    <3> HIDE DEF me
    <3>5. WorkerTypes(you) BY <2>1, <3>1, <3>2, <3>4 DEF WorkerTypes, Building
    <3>6. InTime(you)'
      <4>1. InTime(you) BY <2>1, <3>4 DEF InTime
      <4> QED BY <2>2, <4>1
    <3>7. Follows(you)
      BY <2>1, <3>1, <3>4 DEF Follows, Building
    <3>8. Follows(you)' BY <1>7, <3>7
    <3> QED BY <3>1, <3>3, <3>4, <3>5, <3>6, <3>8 DEF WorkerSane
  <2> QED BY <2>3, <2>4
<1>10. WorkersSane' BY <1>1, <1>9 DEF WorkersSane
<1> QED BY <1>6, <1>8, <1>10 DEF AnchorInv

\* What is known of the pass of a worker, as it stands.
LEMMA KnownOf ==
  ASSUME AnchorInv, NEW w \in Workers
  PROVE  /\ DOMAIN worker = Workers
         /\ WorkerTypes(worker[w]) /\ InTime(worker[w]) /\ Follows(worker[w])
         /\ worker[w].pc = "commit" => KeptSafe(worker[w].att)
         /\ clock \in Nat /\ Base /\ AttsSane
  BY DEF AnchorInv, WorkersSane, WorkerSane, Base

LEMMA SleepKeeps ==
  ASSUME AnchorInv, NEW w \in Workers, WakeUp(w) \/ PassDone(w) \/ PassFails(w)
  PROVE  AnchorInv'
<1>1. UNCHANGED <<retentionVars, atts>> BY DEF WakeUp, PassDone, PassFails
<1>2. clock \in Nat BY KnownOf
<1>3. CASE WakeUp(w)
  <2>1. PICK x : /\ worker' = [worker EXCEPT ![w] = x]
                 /\ x = [Asleep EXCEPT !.pc = "customer", !.now = clock, !.todo =
                          {c \in Customers : ClosedIn(c, clock - 10 * Interval, clock) # {}}]
    BY <1>3 DEF WakeUp
  <2>2. /\ x = [pc |-> x.pc, now |-> x.now, todo |-> x.todo, cust |-> x.cust, start |-> x.start,
                base |-> x.base, att |-> x.att, id |-> x.id]
        /\ x.pc = "customer" /\ x.now = clock /\ x.todo \subseteq Customers
    BY <2>1 DEF Asleep
  <2>3. WorkerSane(x)
    BY <1>2, <2>2 DEF WorkerSane, WorkerTypes, InTime, Follows, Building
  <2> QED BY <1>1, <2>1, <2>3, OneWorker
<1>4. CASE PassDone(w) \/ PassFails(w)
  <2>1. worker' = [worker EXCEPT ![w] = Asleep] BY <1>4 DEF PassDone, PassFails
  <2>2. WorkerSane(Asleep)
    BY <1>2 DEF WorkerSane, WorkerTypes, InTime, Follows, Building, Asleep
  <2> QED BY <1>1, <2>1, <2>2, OneWorker
<1> QED BY <1>3, <1>4

LEMMA ReadKeeps ==
  ASSUME AnchorInv, NEW w \in Workers, ReadLastWindow(w)
  PROVE  AnchorInv'
<1> DEFINE me == worker[w]
<1>1. WorkerTypes(me) /\ InTime(me) /\ Base /\ AttsSane /\ UNCHANGED <<retentionVars, atts>>
  BY KnownOf DEF ReadLastWindow
<1> DEFINE Reading(c) ==
             [me EXCEPT !.pc = "window", !.todo = @ \ {c}, !.cust = c,
                        !.base = Cardinality(AttsOf(c)),
                        !.start = IF AttsOf(c) = {} THEN me.now - Interval ELSE LastWindowEnd(c)]
<1>0. PICK c \in me.todo : worker' = [worker EXCEPT ![w] = Reading(c)]
  BY DEF ReadLastWindow
<1>2. PICK x : worker' = [worker EXCEPT ![w] = x] /\ x = Reading(c)
  BY <1>0
<1> HIDE DEF me
<1>3. /\ x = [pc |-> x.pc, now |-> x.now, todo |-> x.todo, cust |-> x.cust, start |-> x.start,
              base |-> x.base, att |-> x.att, id |-> x.id]
      /\ x.pc = "window" /\ x.now = me.now /\ x.todo = me.todo \ {c} /\ x.cust = c
      /\ x.base = Cardinality(AttsOf(c))
      /\ x.start = IF AttsOf(c) = {} THEN me.now - Interval ELSE LastWindowEnd(c)
  BY <1>1, <1>2 DEF WorkerTypes
<1>4. x.start \in Int /\ StartsAtLast(x.start, AttsOf(c))
  <2>1. CASE AttsOf(c) = {}
    <3>1. me.now \in Nat /\ Interval \in Nat BY <1>1, AnchorAssumption DEF WorkerTypes
    <3> QED BY <1>3, <2>1, <3>1 DEF StartsAtLast
  <2>2. CASE AttsOf(c) # {}
    BY <1>1, <1>3, <2>2, LastOfWindows
  <2> QED BY <2>1, <2>2
<1>5. Cardinality(AttsOf(c)) \in Nat BY <1>1, OursAreFinite
<1>6. WorkerTypes(x) BY <1>1, <1>3, <1>4, <1>5 DEF WorkerTypes, Building
<1>7. InTime(x) BY <1>1, <1>3 DEF InTime
<1>8. Follows(x) BY <1>3, <1>4, <1>5 DEF Follows
<1>9. WorkerSane(x) BY <1>3, <1>6, <1>7, <1>8 DEF WorkerSane
<1> QED BY <1>1, <1>2, <1>9, OneWorker

LEMMA BuildKeeps ==
  ASSUME AnchorInv, NEW w \in Workers, BuildWindow(w)
  PROVE  AnchorInv'
<1> DEFINE me == worker[w]
           closed == {Traj[s] : s \in ClosedIn(me.cust, me.start, me.now)}
           leaves == Sorted(TrajOrder, closed)
           roots == [i \in DOMAIN leaves |-> RootOf(leaves[i], me.cust, rows)]
           signed == [cust |-> me.cust, start |-> me.start, end |-> me.now, leaves |-> leaves,
                      roots |-> roots, root |-> BuildRoot(roots), exported |-> FALSE,
                      saw |-> rows, base |-> me.base, kept |-> {t \in closed : FirmlyHeld(t)}]
<1>1. /\ WorkerTypes(me) /\ InTime(me) /\ Follows(me) /\ UNCHANGED <<retentionVars, atts>>
      /\ rows \subseteq Spans /\ me.pc = "window"
  BY KnownOf DEF BuildWindow, At, Base
<1>2. PICK x : /\ worker' = [worker EXCEPT ![w] = x]
               /\ x = IF closed = {} THEN [me EXCEPT !.pc = "customer"]
                      ELSE [me EXCEPT !.pc = "commit", !.att = signed]
  BY DEF BuildWindow
<1>3. CASE closed = {}
  <2>1. x = [me EXCEPT !.pc = "customer"] BY <1>2, <1>3
  <2> HIDE DEF me, closed
  <2>2. WorkerSane(x)
    BY <1>1, <2>1 DEF WorkerSane, WorkerTypes, InTime, Follows, Building
  <2> QED BY <1>1, <1>2, <2>2, OneWorker
<1>4. CASE closed # {}
  <2>1. PICK a : a = signed OBVIOUS
  <2>2. /\ a = [cust |-> a.cust, start |-> a.start, end |-> a.end, leaves |-> a.leaves,
                roots |-> a.roots, root |-> a.root, exported |-> a.exported, saw |-> a.saw,
                base |-> a.base, kept |-> a.kept]
        /\ a.cust = me.cust /\ a.start = me.start /\ a.end = me.now /\ a.leaves = leaves
        /\ a.roots = roots /\ a.root = BuildRoot(roots) /\ a.saw = rows /\ a.base = me.base
        /\ a.kept = {t \in closed : FirmlyHeld(t)}
    BY <2>1
  <2>3. Closing(a) = closed
    BY <2>2 DEF Closing, RootsIn, ClosedIn
  <2>4. x = [me EXCEPT !.pc = "commit", !.att = a] BY <1>2, <1>4, <2>1
  <2> HIDE DEF me, closed, leaves
  <2>5. WellMade(a)
    <3>1. me.cust \in Customers /\ me.start \in Int /\ me.now \in Nat /\ me.base \in Nat
      BY <1>1 DEF WorkerTypes, Building
    <3>2. a.leaves = Sorted(TrajOrder, Closing(a)) BY <2>2, <2>3 DEF leaves
    <3> QED BY <1>1, <1>4, <2>2, <2>3, <3>1, <3>2 DEF WellMade
  <2>6. KeptSafe(a)
    <3> SUFFICES ASSUME NEW t \in a.kept PROVE Safe(t, a.saw) BY DEF KeptSafe
    <3>1. t \in closed /\ FirmlyHeld(t) /\ a.saw = rows BY <2>2
    <3>2. t \in Trajectories BY <2>3, <2>5, <3>1, LeavesClose
    <3> QED BY <3>1, <3>2 DEF FirmlyHeld, Safe
  <2>7. /\ x = [pc |-> x.pc, now |-> x.now, todo |-> x.todo, cust |-> x.cust, start |-> x.start,
                base |-> x.base, att |-> x.att, id |-> x.id]
        /\ x.pc = "commit" /\ x.att = a /\ x.now = me.now /\ x.todo = me.todo
        /\ x.cust = me.cust /\ x.start = me.start /\ x.base = me.base
    BY <1>1, <2>4 DEF WorkerTypes
  <2>8. WorkerTypes(x) BY <1>1, <2>2, <2>5, <2>7 DEF WorkerTypes, Building
  <2>9. InTime(x) BY <1>1, <2>7 DEF InTime
  <2>10. Follows(x) BY <1>1, <2>7 DEF Follows, Building
  <2>11. WorkerSane(x) BY <2>6, <2>7, <2>8, <2>9, <2>10 DEF WorkerSane
  <2> QED BY <1>1, <1>2, <2>11, OneWorker
<1> QED BY <1>3, <1>4

LEMMA ExportKeeps ==
  ASSUME AnchorInv, NEW w \in Workers, Export(w)
  PROVE  AnchorInv'
<1> DEFINE me == worker[w]
<1>1. /\ WorkerTypes(me) /\ InTime(me) /\ UNCHANGED <<retentionVars, atts>> /\ me.pc = "export"
      /\ DOMAIN worker = Workers
  BY KnownOf DEF Export, At
<1>2. PICK x : worker' = [worker EXCEPT ![w] = x]
               /\ (x = [me EXCEPT !.pc = "mark"] \/ x = [me EXCEPT !.pc = "customer"])
  <2>1. CASE Goto(w, "mark") BY <1>1, <2>1 DEF Goto
  <2>2. CASE Goto(w, "customer") BY <1>1, <2>2 DEF Goto
  <2> QED BY <2>1, <2>2 DEF Export
<1> HIDE DEF me
<1>3. WorkerSane(x)
  <2>1. CASE x = [me EXCEPT !.pc = "mark"]
    BY <1>1, <2>1 DEF WorkerSane, WorkerTypes, InTime, Follows, Building
  <2>2. CASE x = [me EXCEPT !.pc = "customer"]
    BY <1>1, <2>2 DEF WorkerSane, WorkerTypes, InTime, Follows, Building
  <2> QED BY <1>2, <2>1, <2>2
<1> QED BY <1>1, <1>2, <1>3, OneWorker

LEMMA OneMoreAttestation ==
  ASSUME atts \in Seq(Range(atts)), NEW a, atts' = Append(atts, a)
  PROVE  /\ Len(atts) \in Nat /\ DOMAIN atts = 1..Len(atts)
         /\ DOMAIN atts' = 1..(Len(atts) + 1) /\ atts'[Len(atts) + 1] = a
         /\ \A j \in DOMAIN atts : atts'[j] = atts[j]
         /\ atts' \in Seq(Range(atts'))
<1> DEFINE U == Range(atts) \cup {a}
<1>1. atts \in Seq(U)
  <2>1. Len(atts) \in Nat /\ DOMAIN atts = 1..Len(atts) /\ atts = [i \in 1..Len(atts) |-> atts[i]]
    OBVIOUS
  <2>2. \A i \in 1..Len(atts) : atts[i] \in U BY <2>1 DEF Range
  <2> HIDE DEF U
  <2> QED BY <2>1, <2>2
<1>4. a \in U OBVIOUS
<1> HIDE DEF U
<1>2. /\ Len(atts) \in Nat /\ DOMAIN atts = 1..Len(atts)
      /\ DOMAIN atts' = 1..(Len(atts) + 1) /\ atts'[Len(atts) + 1] = a
      /\ \A j \in DOMAIN atts : atts'[j] = atts[j]
  BY <1>1, <1>4
<1>3. atts' \in Seq(Range(atts'))
  <2> SUFFICES ASSUME NEW out, out = Append(atts, a) PROVE out \in Seq(Range(out)) OBVIOUS
  <2>1. Len(out) \in Nat /\ DOMAIN out = 1..Len(out) /\ out = [i \in 1..Len(out) |-> out[i]]
    <3>1. out \in Seq(U) BY <1>1, <1>4
    <3>2. SUFFICES ASSUME NEW s \in Seq(U)
                   PROVE  Len(s) \in Nat /\ DOMAIN s = 1..Len(s) /\ s = [i \in 1..Len(s) |-> s[i]]
      BY <3>1, Zenon
    <3> QED OBVIOUS
  <2>2. \A i \in 1..Len(out) : out[i] \in Range(out) BY <2>1 DEF Range
  <2> QED BY <2>1, <2>2
<1> QED BY <1>2, <1>3

LEMMA CommitKeeps ==
  ASSUME AnchorInv, NEW w \in Workers, CommitWindow(w)
  PROVE  AnchorInv'
<1> DEFINE me == worker[w]
<1>1. /\ WorkerTypes(me) /\ InTime(me) /\ Follows(me) /\ KeptSafe(me.att) /\ me.pc = "commit"
      /\ UNCHANGED retentionVars /\ DOMAIN worker = Workers /\ [Next]_vars /\ Base /\ AttsSane
  BY KnownOf DEF CommitWindow, At, WorkerStep, Next
<1>2. PICK a, x, n :
        /\ n = Len(atts) + 1
        /\ a = me.att /\ atts' = Append(atts, a) /\ worker' = [worker EXCEPT ![w] = x]
        /\ x = [me EXCEPT !.pc = "export", !.id = n, !.att = <<>>]
  BY DEF CommitWindow
<1>3. /\ WellMade(a) /\ KeptSafe(a) /\ a.end = me.now /\ a.end <= clock
      /\ a.cust = me.cust /\ a.start = me.start /\ a.base = me.base
  BY <1>1, <1>2 DEF WorkerTypes, InTime
<1> HIDE DEF me
<1>4. /\ Len(atts) \in Nat /\ DOMAIN atts = 1..Len(atts)
      /\ DOMAIN atts' = 1..n /\ atts'[n] = a
      /\ \A j \in DOMAIN atts : atts'[j] = atts[j]
      /\ atts' \in Seq(Range(atts'))
  BY <1>1, <1>2, OneMoreAttestation DEF Base
<1>0. n = Len(atts) + 1 BY <1>2
<1>5. Base' BY <1>1, <1>4, BaseStep
<1>6. UNCHANGED <<clock, rows, months, holds, ops, pass, arrived>> BY <1>1 DEF retentionVars
<1>7. \A b : KeptSafe(b) => KeptSafe(b)' BY <1>6 DEF KeptSafe, Safe, Held
<1>8. ASSUME NEW i \in DOMAIN atts' PROVE AttSane(atts[i])'
  <2>1. CASE i \in DOMAIN atts
    <3>1. PICK b : b = atts[i] OBVIOUS
    <3>2. WellMade(b) /\ b.end <= clock /\ KeptSafe(b) BY <1>1, <2>1, <3>1 DEF AttsSane, AttSane
    <3>3. KeptSafe(b)' BY <1>7, <3>2
    <3> QED BY <1>4, <1>6, <2>1, <3>1, <3>2, <3>3 DEF AttSane
  <2>2. CASE i = n
    <3>1. KeptSafe(a)' BY <1>3, <1>7
    <3> QED BY <1>3, <1>4, <1>6, <2>2, <3>1 DEF AttSane
  <2> QED BY <1>0, <1>4, <2>1, <2>2
<1>9. /\ AttsOf(a.cust)' = AttsOf(a.cust) \cup {n} /\ n \notin AttsOf(a.cust)
      /\ \A c : c # a.cust => AttsOf(c)' = AttsOf(c)
      /\ \A c : AttsOf(c) \subseteq DOMAIN atts
  BY <1>0, <1>4 DEF AttsOf
<1>10. ASSUME NEW set \in SUBSET DOMAIN atts, NEW start, StartsAtLast(start, set)
       PROVE  /\ \A j \in set : atts'[j].end <= start
              /\ set # {} => \E j \in set : atts'[j].end = start
  BY <1>4, <1>10 DEF StartsAtLast
<1>11. WindowsFollow'
  <2> SUFFICES ASSUME NEW i \in DOMAIN atts', atts'[i].base = Cardinality(Earlier(i)')
               PROVE  /\ \A j \in Earlier(i)' : atts'[j].end <= atts'[i].start
                      /\ Earlier(i)' # {} => \E j \in Earlier(i)' : atts'[j].end = atts'[i].start
    BY DEF WindowsFollow, StartsAtLast
  <2>1. CASE i \in DOMAIN atts
    <3>1. atts'[i] = atts[i] /\ i # n /\ i < n BY <1>0, <1>4, <2>1
    <3>2. Earlier(i)' = Earlier(i) BY <1>9, <1>0, <1>4, <2>1, <3>1 DEF Earlier
    <3>3. Earlier(i) \in SUBSET DOMAIN atts BY <1>9 DEF Earlier
    <3>4. StartsAtLast(atts[i].start, Earlier(i))
      BY <1>1, <2>1, <3>1, <3>2 DEF AttsSane, WindowsFollow
    <3> QED BY <1>10, <3>1, <3>2, <3>3, <3>4
  <2>2. CASE i = n
    <3>1. Earlier(n)' = AttsOf(a.cust) BY <1>0, <1>4, <1>9 DEF Earlier
    <3>2. a.base = Cardinality(AttsOf(me.cust)) /\ AttsOf(a.cust) = AttsOf(me.cust)
      BY <1>3, <1>4, <2>2, <3>1
    <3>3. StartsAtLast(a.start, AttsOf(a.cust))
      BY <1>1, <1>3, <3>2 DEF Follows, Building
    <3>4. AttsOf(a.cust) \in SUBSET DOMAIN atts BY <1>9
    <3> QED BY <1>4, <1>10, <2>2, <3>1, <3>3, <3>4
  <2> QED BY <1>0, <1>4, <2>1, <2>2
<1>12. AttsSane' BY <1>8, <1>11 DEF AttsSane
<1>13. ASSUME NEW you, Follows(you), WorkerTypes(you) PROVE Follows(you)'
  <2> SUFFICES ASSUME Building(you)
               PROVE  /\ you.base <= Cardinality(AttsOf(you.cust)')
                      /\ you.base = Cardinality(AttsOf(you.cust)') =>
                           /\ \A j \in AttsOf(you.cust)' : atts'[j].end <= you.start
                           /\ AttsOf(you.cust)' # {} =>
                                \E j \in AttsOf(you.cust)' : atts'[j].end = you.start
    BY DEF Follows, StartsAtLast
  <2>1. /\ you.base \in Nat /\ you.base <= Cardinality(AttsOf(you.cust))
        /\ you.base = Cardinality(AttsOf(you.cust)) => StartsAtLast(you.start, AttsOf(you.cust))
    BY <1>13 DEF Follows, WorkerTypes
  <2>2. CASE you.cust = a.cust
    <3>1. IsFiniteSet(AttsOf(a.cust)) /\ Cardinality(AttsOf(a.cust)) \in Nat BY <1>1, OursAreFinite
    <3>2. Cardinality(AttsOf(a.cust) \cup {n}) = Cardinality(AttsOf(a.cust)) + 1
      BY <1>9, <3>1, FS_AddElement
    <3>3. AttsOf(you.cust)' = AttsOf(a.cust) \cup {n} BY <1>9, <2>2
    <3> QED BY <2>1, <2>2, <3>1, <3>2, <3>3
  <2>3. CASE you.cust # a.cust
    <3>1. AttsOf(you.cust)' = AttsOf(you.cust) /\ AttsOf(you.cust) \in SUBSET DOMAIN atts BY <1>9, <2>3
    <3> QED BY <1>10, <2>1, <3>1
  <2> QED BY <2>2, <2>3
<1>14. DOMAIN atts \subseteq DOMAIN atts' /\ n \in DOMAIN atts' BY <1>0, <1>4
<1>15. ASSUME NEW v \in Workers PROVE WorkerSane(worker[v])'
  <2>1. CASE v # w
    <3>1. worker'[v] = worker[v] BY <1>1, <1>2, <2>1
    <3>2. SUFFICES ASSUME NEW you, you = worker[v] PROVE WorkerSane(you)' BY <3>1
    <3>3. WorkerTypes(you) /\ InTime(you) /\ Follows(you) /\ (you.pc = "commit" => KeptSafe(you.att))
      BY <3>2, KnownOf
    <3>4. InTime(you)' BY <1>6, <1>14, <3>3 DEF InTime
    <3> QED BY <1>7, <1>13, <3>3, <3>4 DEF WorkerSane
  <2>2. CASE v = w
    <3>1. worker'[v] = x BY <1>1, <1>2, <2>2
    <3>2. /\ x = [pc |-> x.pc, now |-> x.now, todo |-> x.todo, cust |-> x.cust, start |-> x.start,
                  base |-> x.base, att |-> x.att, id |-> x.id]
          /\ x.pc = "export" /\ x.id = n /\ x.now = me.now /\ x.todo = me.todo
      BY <1>1, <1>2 DEF WorkerTypes
    <3>3. WorkerTypes(x) BY <1>1, <3>2 DEF WorkerTypes, Building
    <3>4. InTime(x)' BY <1>1, <1>6, <1>14, <3>2 DEF InTime
    <3>5. Follows(x)' BY <3>2 DEF Follows, Building
    <3> QED BY <3>1, <3>2, <3>3, <3>4, <3>5 DEF WorkerSane
  <2> QED BY <2>1, <2>2
<1>16. WorkersSane' BY <1>1, <1>2, <1>15 DEF WorkersSane
<1> QED BY <1>5, <1>12, <1>16 DEF AnchorInv

LEMMA MarkKeeps ==
  ASSUME AnchorInv, NEW w \in Workers, MarkExported(w)
  PROVE  AnchorInv'
<1> DEFINE me == worker[w]
<1>1. /\ WorkerTypes(me) /\ InTime(me) /\ me.pc = "mark" /\ me.id \in DOMAIN atts
      /\ UNCHANGED retentionVars /\ DOMAIN worker = Workers /\ [Next]_vars /\ Base /\ AttsSane
  BY KnownOf DEF MarkExported, At, WorkerStep, Next, InTime
<1>2. PICK x : worker' = [worker EXCEPT ![w] = x] /\ x = [me EXCEPT !.pc = "customer"]
  BY <1>1 DEF MarkExported, Goto
<1>3. atts' = [atts EXCEPT ![me.id].exported = TRUE] BY DEF MarkExported
<1> HIDE DEF me
<1>4. UNCHANGED <<clock, rows, months, holds, ops, pass, arrived>> BY <1>1 DEF retentionVars
<1>5. DOMAIN atts' = DOMAIN atts /\ atts' \in Seq(Range(atts'))
  <2>1. Len(atts) \in Nat /\ DOMAIN atts = 1..Len(atts) BY <1>1 DEF Base
  <2>2. DOMAIN atts' = 1..Len(atts) /\ \A i \in 1..Len(atts) : atts'[i] \in Range(atts')
    BY <1>3, <2>1 DEF Range
  <2>3. atts' = [i \in 1..Len(atts) |-> atts'[i]] BY <1>3, <2>1
  <2> HIDE DEF Range
  <2> QED BY <2>1, <2>2, <2>3
<1>6. ASSUME NEW i \in DOMAIN atts
      PROVE  /\ WellMade(atts'[i]) /\ atts'[i].kept = atts[i].kept /\ atts'[i].saw = atts[i].saw
             /\ atts'[i].cust = atts[i].cust /\ atts'[i].start = atts[i].start
             /\ atts'[i].end = atts[i].end /\ atts'[i].base = atts[i].base
  <2>1. WellMade(atts[i]) BY <1>1 DEF AttsSane, AttSane
  <2>2. CASE i = me.id
    <3>1. atts'[i] = [atts[i] EXCEPT !.exported = TRUE] BY <1>1, <1>3, <2>2
    <3> QED BY <2>1, <3>1, ExportChanges
  <2>3. CASE i # me.id
    <3>1. atts'[i] = atts[i] BY <1>3, <2>3
    <3> QED BY <2>1, <3>1
  <2> QED BY <2>2, <2>3
<1>7. \A b, c : KeptSafe(b) /\ c.kept = b.kept /\ c.saw = b.saw => KeptSafe(c)'
  BY <1>4 DEF KeptSafe, Safe, Held
<1>8. ASSUME NEW i \in DOMAIN atts PROVE AttSane(atts[i])'
  <2>1. PICK b, c : b = atts[i] /\ c = atts'[i] OBVIOUS
  <2>2. b.end <= clock /\ KeptSafe(b) BY <1>1, <2>1 DEF AttsSane, AttSane
  <2>3. WellMade(c) /\ c.kept = b.kept /\ c.saw = b.saw /\ c.end = b.end BY <1>6, <2>1
  <2>4. KeptSafe(c)' BY <1>7, <2>2, <2>3
  <2> QED BY <1>4, <2>1, <2>2, <2>3, <2>4 DEF AttSane
<1>9. WindowsFollow' /\ \A you : Follows(you) => Follows(you)'
  BY <1>1, <1>5, <1>6, WindowsStay DEF AttsSane
<1>10. AttsSane' BY <1>5, <1>8, <1>9 DEF AttsSane
<1>11. \A b : KeptSafe(b) => KeptSafe(b)' BY <1>7
<1>12. \A you : InTime(you) => InTime(you)' BY <1>4, <1>5 DEF InTime
<1>13. WorkerSane(x)
  BY <1>1, <1>2 DEF WorkerSane, WorkerTypes, InTime, Follows, Building
<1>14. \A you : WorkerSane(you) => WorkerSane(you)'
  BY <1>9, <1>11, <1>12 DEF WorkerSane
<1>15. DOMAIN worker' = Workers /\ \A v \in Workers : worker'[v] = x \/ worker'[v] = worker[v]
  BY <1>1, <1>2
<1>16. WorkersSane' BY <1>13, <1>14, <1>15 DEF AnchorInv, WorkersSane
<1>17. Base' BY <1>1, <1>5, BaseStep
<1> QED BY <1>10, <1>16, <1>17 DEF AnchorInv

LEMMA AnchorStep == AnchorInv /\ [Next]_vars => AnchorInv'
<1> SUFFICES ASSUME AnchorInv, [Next]_vars PROVE AnchorInv' OBVIOUS
<1>1. CASE HoldChanges BY <1>1, HoldsKeep
<1>2. CASE TableStep BY <1>2, TableKeeps
<1>3. ASSUME NEW w \in Workers, WorkerStep(w) PROVE AnchorInv'
  BY <1>3, SleepKeeps, ReadKeeps, BuildKeeps, CommitKeeps, ExportKeeps, MarkKeeps DEF WorkerStep
<1>4. CASE UNCHANGED vars
  <2>1. UNCHANGED <<clock, rows, months, holds, ops, pass, arrived, atts, worker>>
    BY <1>4 DEF vars
  <2>2. Base' BY <2>1, BaseStep DEF AnchorInv, Base
  <2>3. AttsSane'
    BY <2>1 DEF AnchorInv, AttsSane, AttSane, KeptSafe, Safe, Held, WindowsFollow, Earlier, AttsOf, StartsAtLast
  <2>4. \A me : WorkerSane(me) => WorkerSane(me)'
    BY <2>1 DEF WorkerSane, InTime, Follows, AttsOf, StartsAtLast, KeptSafe, Safe, Held
  <2>5. WorkersSane' BY <2>1, <2>4 DEF AnchorInv, WorkersSane
  <2> QED BY <2>2, <2>3, <2>5 DEF AnchorInv
<1> QED BY <1>1, <1>2, <1>3, <1>4 DEF Next

THEOREM AnchorInvariant == Spec => []AnchorInv
  BY AnchorInit, AnchorStep, PTL DEF Spec

(* The window in which a root closes attests its trajectory, and no other    *)
(* window of the customer does.                                              *)
InTurn(c) == \A i \in AttsOf(c) : atts[i].base = Cardinality(Earlier(i))
InSight(s, c, i) ==
  /\ s \in atts[i].saw /\ OnlyRoot(s) /\ Cust[s] = c /\ End[s] < atts[i].end
  /\ \A j \in AttsOf(c) : j <= i =>
       s \in atts[j].saw /\ (Earlier(j) = {} => atts[j].start <= End[s])
AttestedOnce(s, c, i) ==
  \E j \in AttsOf(c) : j <= i /\ \A k \in AttsOf(c) : Traj[s] \in Range(atts[k].leaves) <=> k = j

LEMMA OneWindowEach ==
  ASSUME AttsSane, atts \in Seq(Range(atts)), NEW c, InTurn(c),
         NEW i \in AttsOf(c), NEW s, InSight(s, c, i)
  PROVE  AttestedOnce(s, c, i)
<1> DEFINE mine == AttsOf(c)
           Late == {j \in mine : j <= i /\ End[s] < atts[j].end}
<1>1. /\ mine \subseteq Nat
      /\ \A j \in mine : j \in DOMAIN atts /\ atts[j].cust = c /\ Earlier(j) = {k \in mine : k < j}
  BY DEF AttsOf, Earlier
<1>2. \A j \in mine : /\ WellMade(atts[j]) /\ atts[j].start \in Int /\ atts[j].end \in Nat
                      /\ StartsAtLast(atts[j].start, Earlier(j))
  BY <1>1 DEF AttsSane, AttSane, WindowsFollow, WellMade, InTurn
<1>3. s \in Spans /\ End[s] \in Nat /\ IsRoot(s)
  BY <1>1, <1>2, RetentionAssumption DEF WellMade, OnlyRoot, InSight
<1>4. \A j, k \in mine : k < j => atts[k].end <= atts[j].start
  BY <1>1, <1>2 DEF StartsAtLast
<1>5. PICK j \in Late : \A k \in Late : j <= k
  <2>1. i \in Late /\ Late \in SUBSET Nat BY <1>1 DEF InSight
  <2> HIDE DEF Late
  <2> QED BY <2>1, LeastOf
<1>6. j \in mine /\ j <= i /\ End[s] < atts[j].end
  BY <1>5
<1>7. atts[j].start <= End[s]
  <2>1. CASE Earlier(j) = {} BY <1>6, <2>1 DEF InSight
  <2>2. CASE Earlier(j) # {}
    <3>1. PICK k \in Earlier(j) : atts[k].end = atts[j].start
      BY <1>2, <1>6, <2>2 DEF StartsAtLast
    <3>2. k \in mine /\ k < j /\ k <= i /\ ~(j <= k) BY <1>1, <1>6, <3>1
    <3>3. ~(End[s] < atts[k].end) BY <1>5, <3>2
    <3> QED BY <1>2, <1>3, <1>6, <3>1, <3>2, <3>3
  <2> QED BY <2>1, <2>2
<1>8. \A k \in mine : Range(atts[k].leaves) = {Traj[r] : r \in RootsIn(atts[k])}
  BY <1>2, LeavesClose DEF Closing
<1> HIDE DEF Late
<1>9. Traj[s] \in Range(atts[j].leaves)
  <2>1. s \in RootsIn(atts[j]) BY <1>1, <1>3, <1>6, <1>7 DEF RootsIn, InSight
  <2> QED BY <1>6, <1>8, <2>1
<1>10. ASSUME NEW k \in mine, Traj[s] \in Range(atts[k].leaves) PROVE k = j
  <2>1. PICK r \in RootsIn(atts[k]) : Traj[r] = Traj[s] BY <1>8, <1>10
  <2>2. r \in Spans /\ IsRoot(r) BY <1>2, <2>1 DEF RootsIn, WellMade
  <2>3. r = s BY <2>1, <2>2 DEF OnlyRoot, InSight
  <2>4. atts[k].start <= End[s] /\ End[s] < atts[k].end BY <2>1, <2>3 DEF RootsIn
  <2>5. k \in Nat /\ j \in Nat BY <1>1, <1>6
  <2>6. ~(k < j) BY <1>2, <1>3, <1>4, <1>6, <1>7, <2>4
  <2>7. ~(j < k) BY <1>2, <1>3, <1>4, <1>6, <2>4
  <2> QED BY <2>5, <2>6, <2>7
<1> QED BY <1>6, <1>9, <1>10 DEF AttestedOnce

(* As long as no two passes build windows of a customer at once, a           *)
(* trajectory that closed is a leaf of exactly one attestation: windows leave *)
(* no gap and never overlap, for any customers, clock, workers and failures. *)
THEOREM ClosedAreAttestedOnce == Spec => []ClosedOnceAttested
<1>1. AnchorInv => ClosedOnceAttested
  <2> SUFFICES ASSUME AnchorInv, NEW c \in Customers,
                      \A i \in AttsOf(c) : atts[i].base = Cardinality({j \in AttsOf(c) : j < i}),
                      NEW i \in AttsOf(c), NEW s \in atts[i].saw,
                      OnlyRoot(s), Cust[s] = c, End[s] < atts[i].end,
                      \A j \in AttsOf(c) : j <= i =>
                        /\ s \in atts[j].saw
                        /\ {k \in AttsOf(c) : k < j} = {} => atts[j].start <= End[s]
               PROVE  \E j \in AttsOf(c) : j <= i /\
                        \A k \in AttsOf(c) : Traj[s] \in Range(atts[k].leaves) <=> k = j
    BY DEF ClosedOnceAttested
  <2>1. AttsSane /\ atts \in Seq(Range(atts)) BY DEF AnchorInv, Base
  <2>2. \A j \in AttsOf(c) : Earlier(j) = {k \in AttsOf(c) : k < j} BY DEF Earlier, AttsOf
  <2>3. InTurn(c) BY <2>2 DEF InTurn
  <2>4. InSight(s, c, i) BY <2>2 DEF InSight
  <2>5. AttestedOnce(s, c, i) BY <2>1, <2>3, <2>4, OneWindowEach
  <2> QED BY <2>5 DEF AttestedOnce
<1> QED BY <1>1, AnchorInvariant, PTL

(* The inclusion proof of any leaf of an attestation leads to its root.      *)
LEMMA LeavesProvable ==
  ASSUME NEW a, WellMade(a), NEW t \in Range(a.leaves)
  PROVE  ProofOf(a, t)
<1> DEFINE idx == CHOOSE i \in DOMAIN a.leaves : a.leaves[i] = t
           roots == a.roots
<1>1. a.leaves \in Seq(Trajectories) BY LeavesClose
<1>2. Len(a.leaves) \in Nat /\ DOMAIN a.leaves = 1..Len(a.leaves) BY <1>1
<1>3. idx \in 1..Len(a.leaves) BY <1>2 DEF Range
<1>4. DOMAIN roots = 1..Len(a.leaves) /\ roots = [i \in 1..Len(a.leaves) |-> roots[i]]
  BY <1>2 DEF WellMade
<1>5. roots \in Seq(Range(roots)) /\ Len(roots) = Len(a.leaves)
  <2>1. \A i \in 1..Len(a.leaves) : roots[i] \in Range(roots) BY <1>4 DEF Range
  <2> HIDE DEF roots
  <2> QED BY <1>2, <1>4, <2>1
<1>6. a.root = BuildRoot(roots) BY DEF WellMade
<1> HIDE DEF idx, roots
<1>7. idx - 1 \in 0..(Len(roots) - 1) /\ (idx - 1) + 1 = idx BY <1>2, <1>3, <1>5
<1>8. VerifyProof(roots[(idx - 1) + 1], BuildProof(roots, idx - 1), BuildRoot(roots))
  BY <1>5, <1>7, ProofsVerify
<1> QED BY <1>6, <1>7, <1>8 DEF ProofOf, idx, roots

(* What the sink promises of a trajectory that was there when it was attested *)
(* and is held since: its chain stays intact and its leaf recomputable, and   *)
(* the inclusion proof of every leaf leads to the signed root.                *)
THEOREM HeldStayProvable == Spec => []HeldStaysProvable
<1>1. AnchorInv => HeldStaysProvable
  <2> SUFFICES ASSUME AnchorInv, NEW i \in DOMAIN atts, NEW t \in Range(atts[i].leaves)
               PROVE  LET a == atts[i]
                          mine == {s \in Spans : Traj[s] = t}
                      IN /\ ProofOf(a, t)
                         /\ /\ t \in a.kept /\ mine \subseteq a.saw
                            /\ \A s \in mine : Cust[s] = a.cust /\ (IsRoot(s) \/ Parent[s] \in mine)
                            => /\ Findings(t) = {}
                               /\ \E j \in DOMAIN a.leaves :
                                    a.leaves[j] = t /\ a.roots[j] = RootOf(t, a.cust, rows)
    BY DEF HeldStaysProvable
  <2> DEFINE a == atts[i]
             mine == {s \in Spans : Traj[s] = t}
  <2>1. WellMade(a) /\ KeptSafe(a) /\ rows \subseteq Spans
    BY DEF AnchorInv, AttsSane, AttSane, Base
  <2>2. ProofOf(a, t) BY <2>1, LeavesProvable
  <2>3. ASSUME t \in a.kept, mine \subseteq a.saw,
               \A s \in mine : Cust[s] = a.cust /\ (IsRoot(s) \/ Parent[s] \in mine)
        PROVE  /\ Findings(t) = {}
               /\ \E j \in DOMAIN a.leaves : a.leaves[j] = t /\ a.roots[j] = RootOf(t, a.cust, rows)
    <3>1. {s \in rows : Traj[s] = t} = mine
      <4>1. {s \in a.saw : Traj[s] = t} \subseteq rows BY <2>1, <2>3 DEF KeptSafe, Safe
      <4> QED BY <2>1, <2>3, <4>1
    <3>2. Findings(t) = {} BY <2>3, <3>1 DEF Findings
    <3>3. /\ {s \in rows : Traj[s] = t /\ Cust[s] = a.cust} = mine
          /\ {s \in a.saw : Traj[s] = t /\ Cust[s] = a.cust} = mine
      BY <2>1, <2>3, <3>1 DEF WellMade
    <3>4. RootOf(t, a.cust, a.saw) = RootOf(t, a.cust, rows) BY <3>3 DEF RootOf
    <3>5. PICK j \in DOMAIN a.leaves : a.leaves[j] = t BY DEF Range
    <3>6. a.roots[j] = RootOf(t, a.cust, a.saw) BY <2>1, <3>5 DEF WellMade
    <3> QED BY <3>2, <3>4, <3>5, <3>6
  <2> QED BY <2>2, <2>3
<1> QED BY <1>1, AnchorInvariant, PTL

=============================================================================
