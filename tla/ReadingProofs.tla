---------------------------- MODULE ReadingProofs ----------------------------
(***************************************************************************)
(* Theorems about the readers of the ledger, for any documents, writers    *)
(* and requests: what pages, inventories and statistics say of a table     *)
(* that changes while they are made, and that the five readers of a        *)
(* trajectory agree on what is well formed.                                *)
(***************************************************************************)
EXTENDS Reading, FiniteSetTheorems, WellFoundedInduction, TLAPS

-----------------------------------------------------------------------------
(* Least numbers, and finite sets in a strict order.                         *)

Less == {p \in Nat \X Nat : p[1] < p[2]}

(* There is no infinite descent in the natural numbers.                      *)
LEMMA LessWellFounded == IsWellFoundedOn(Less, Nat)
<1>1. Less = OpToRel(<, Nat)
  BY DEF Less, OpToRel
<1> QED BY <1>1, NatLessThanWellFounded

(* A set of natural numbers that is not empty has a least element.           *)
LEMMA LeastOf ==
  ASSUME NEW T \in SUBSET Nat, T # {}
  PROVE  \E m \in T : \A n \in T : m <= n
<1>1. PICK m \in T : \A n \in T : <<n, m>> \notin Less
  BY LessWellFounded, WFMin
<1>2. ASSUME NEW n \in T PROVE m <= n
  <2>1. <<n, m>> \notin Less /\ n \in Nat /\ m \in Nat
    BY <1>1
  <2> QED BY <2>1 DEF Less
<1> QED BY <1>2

\* R puts the elements of S in a strict total order; <<x, y>> is "x is below y".
Orders(R, S) ==
  /\ \A x, y \in S : x # y => <<x, y>> \in R \/ <<y, x>> \in R
  /\ \A x, y, z \in S : <<x, y>> \in R /\ <<y, z>> \in R => <<x, z>> \in R
  /\ \A x \in S : <<x, x>> \notin R
Above(R, S, x) == {y \in S : <<x, y>> \in R}
Height(R, S, x) == Cardinality(Above(R, S, x))

(* What is above something has less above it.                                *)
LEMMA HeightsDescend ==
  ASSUME NEW S, NEW R, IsFiniteSet(S), Orders(R, S)
  PROVE  /\ \A x \in S : Height(R, S, x) \in Nat
         /\ \A x, y \in S : <<x, y>> \in R => Height(R, S, y) < Height(R, S, x)
<1>1. ASSUME NEW x \in S PROVE IsFiniteSet(Above(R, S, x)) /\ Height(R, S, x) \in Nat
  <2>1. Above(R, S, x) \in SUBSET S BY DEF Above
  <2> QED BY <2>1, FS_Subset, FS_CardinalityType DEF Height
<1>2. ASSUME NEW x \in S, NEW y \in S, <<x, y>> \in R
      PROVE  Height(R, S, y) < Height(R, S, x)
  <2>1. Above(R, S, y) \in SUBSET (Above(R, S, x) \ {y})
    BY <1>2 DEF Above, Orders
  <2>2. y \in Above(R, S, x) BY <1>2 DEF Above
  <2>3. IsFiniteSet(Above(R, S, x) \ {y}) /\ Cardinality(Above(R, S, x) \ {y}) = Height(R, S, x) - 1
    BY <1>1, <2>2, FS_RemoveElement DEF Height
  <2>4. Height(R, S, y) <= Height(R, S, x) - 1
    BY <2>1, <2>3, FS_Subset DEF Height
  <2> QED BY <2>4, <1>1
<1> QED BY <1>1, <1>2

(* A part of an ordered finite set that is not empty has a highest element.  *)
LEMMA HasHighest ==
  ASSUME NEW S, NEW R, IsFiniteSet(S), Orders(R, S), NEW T \in SUBSET S, T # {}
  PROVE  \E m \in T : \A x \in T \ {m} : <<x, m>> \in R
<1> DEFINE H == {Height(R, S, x) : x \in T}
<1>1. H \in SUBSET Nat /\ H # {} BY HeightsDescend
<1>2. PICK h \in H : \A g \in H : h <= g
  <2> HIDE DEF H
  <2> QED BY <1>1, LeastOf
<1>3. PICK m \in T : h = Height(R, S, m) BY <1>2
<1>4. ASSUME NEW x \in T \ {m} PROVE <<x, m>> \in R
  <2>1. Height(R, S, m) <= Height(R, S, x) BY <1>2, <1>3
  <2>2. Height(R, S, m) \in Nat /\ Height(R, S, x) \in Nat BY HeightsDescend
  <2>3. ~ (<<m, x>> \in R) BY <2>1, <2>2, HeightsDescend
  <2> QED BY <2>3 DEF Orders
<1> QED BY <1>4

(* A page: the elements with less than P above them.  Each of them is at its *)
(* place, each place has one, and what is not among them is below the last   *)
(* of P.                                                                     *)
LEMMA PageFacts ==
  ASSUME NEW S, NEW R, IsFiniteSet(S), Orders(R, S), NEW P \in Nat \ {0}, NEW T,
         T = {x \in S : Height(R, S, x) < P}
  PROVE  /\ IsFiniteSet(T) /\ Cardinality(T) \in Nat
         /\ \A x \in T : Height(R, S, x) \in 0..(Cardinality(T) - 1)
         /\ \A h \in 0..(Cardinality(T) - 1) : \E x \in T : Height(R, S, x) = h
         /\ \A x, y \in S : Height(R, S, x) = Height(R, S, y) => x = y
         /\ \A x \in S \ T : /\ Cardinality(T) = P
                             /\ \A y \in T : <<x, y>> \in R
<1> DEFINE N == Cardinality(T)
           H(x) == Height(R, S, x)
<1>1. IsFiniteSet(T) /\ N \in Nat /\ T \in SUBSET S BY FS_Subset, FS_CardinalityType
<1>2. \A x \in S : H(x) \in Nat BY HeightsDescend
<1>3. \A x, y \in S : <<x, y>> \in R => H(y) < H(x) BY HeightsDescend
<1>4. ASSUME NEW x \in S, NEW y \in S, H(x) = H(y) PROVE x = y
  <2>1. SUFFICES ASSUME x # y PROVE FALSE OBVIOUS
  <2>2. <<x, y>> \in R \/ <<y, x>> \in R BY <2>1 DEF Orders
  <2>3. H(y) < H(x) \/ H(x) < H(y) BY <2>2, <1>3
  <2>4. H(x) \in Nat /\ H(y) \in Nat BY <1>2
  <2> QED BY <2>3, <2>4, <1>4
<1>5. ASSUME NEW x \in T PROVE H(x) \in 0..(N - 1)
  <2>1. Above(R, S, x) \in SUBSET (T \ {x})
    <3> SUFFICES ASSUME NEW y \in Above(R, S, x) PROVE y \in T /\ y # x OBVIOUS
    <3>1. y \in S /\ <<x, y>> \in R BY DEF Above
    <3>2. H(y) < H(x) /\ H(x) < P BY <1>3, <3>1
    <3>3. H(y) < P BY <1>2, <3>1, <3>2
    <3> QED BY <3>1, <3>3 DEF Orders
  <2>2. IsFiniteSet(T \ {x}) /\ Cardinality(T \ {x}) = N - 1
    BY <1>1, FS_RemoveElement
  <2>3. H(x) <= N - 1 BY <2>1, <2>2, FS_Subset DEF Height
  <2> QED BY <2>3, <1>1, <1>2
<1>6. ASSUME NEW h \in 0..(N - 1) PROVE \E x \in T : H(x) = h
  <2> DEFINE f == [x \in T |-> H(x)]
  <2>1. f \in Injection(T, 0..(N - 1))
    BY <1>4, <1>5, <1>1 DEF Injection, IsInjective
  <2>2. IsFiniteSet(0..(N - 1)) /\ Cardinality(0..(N - 1)) = N
    BY <1>1, FS_Interval
  <2>3. f \in Surjection(T, 0..(N - 1))
    <3> HIDE DEF f
    <3> QED BY <2>1, <2>2, FS_Injection
  <2> QED BY <2>3 DEF Surjection
<1>7. ASSUME NEW x \in S \ T
      PROVE  N = P /\ \A y \in T : <<x, y>> \in R
  <2>1. \A z \in S \ T : ~ (H(z) < P) OBVIOUS
  <2>2. \A z \in S \ T : \A y \in T : <<z, y>> \in R
    <3> SUFFICES ASSUME NEW z \in S \ T, NEW y \in T PROVE <<z, y>> \in R OBVIOUS
    <3>1. H(y) < P /\ ~ (H(z) < P) /\ H(y) \in Nat /\ H(z) \in Nat BY <1>2, <2>1
    <3>2. ~ (<<y, z>> \in R)
      <4>1. SUFFICES ASSUME <<y, z>> \in R PROVE FALSE OBVIOUS
      <4>2. H(z) < H(y) BY <1>3, <4>1
      <4> QED BY <4>2, <3>1
    <3> QED BY <3>2 DEF Orders
  <2>3. PICK m \in S \ T : \A z \in (S \ T) \ {m} : <<z, m>> \in R
    <3>1. ASSUME NEW U \in SUBSET S, U # {}
          PROVE  \E m \in U : \A z \in U \ {m} : <<z, m>> \in R
      BY <3>1, HasHighest
    <3>2. S \ T \in SUBSET S /\ S \ T # {} OBVIOUS
    <3> QED BY <3>1, <3>2
  <2>4. Above(R, S, m) = T
    <3>1. \A y \in T : y \in Above(R, S, m) BY <2>2 DEF Above
    <3>2. ASSUME NEW y \in Above(R, S, m) PROVE y \in T
      BY <2>3 DEF Above, Orders
    <3> QED BY <3>1, <3>2
  <2>5. N = H(m) /\ ~ (N < P) BY <2>4, <2>1 DEF Height
  <2>6. N # 0 BY <2>5
  <2>7. PICK y \in T : H(y) = N - 1
    <3>1. N - 1 \in 0..(N - 1) BY <1>1, <2>6
    <3> QED BY <3>1, <1>6
  <2>8. N - 1 < P BY <2>7
  <2>9. N = P BY <1>1, <2>5, <2>8
  <2> QED BY <2>9, <2>2
<1> QED BY <1>1, <1>4, <1>5, <1>6, <1>7

-----------------------------------------------------------------------------
(* Rows                                                                      *)

\* The table is a finite set of documents.
RowsInv == rows \subseteq Spans /\ IsFiniteSet(rows)

(* The first of some documents is one of them, and none starts before it.    *)
LEMMA EarliestFacts ==
  ASSUME NEW S \in SUBSET Spans, S # {}
  PROVE  /\ Earliest(S) \in S
         /\ \A u \in S : Rank[Earliest(S)] <= Rank[u] /\ Start[Earliest(S)] <= Start[u]
<1> DEFINE Ranks == {Rank[u] : u \in S}
<1>1. Ranks \in SUBSET Nat /\ Ranks # {} BY ReportsAssumption
<1>2. PICK m \in Ranks : \A n \in Ranks : m <= n
  <2> HIDE DEF Ranks
  <2> QED BY <1>1, LeastOf
<1>3. PICK s \in S : m = Rank[s] BY <1>2
<1>4. \A u \in S : Rank[s] <= Rank[u] BY <1>2, <1>3
<1>5. Earliest(S) \in S /\ \A u \in S : Rank[Earliest(S)] <= Rank[u]
  BY <1>4 DEF Earliest
<1>6. ASSUME NEW u \in S PROVE Start[Earliest(S)] <= Start[u]
  <2>1. Rank[Earliest(S)] \in Nat /\ Rank[u] \in Nat /\ Rank[Earliest(S)] <= Rank[u]
    BY <1>5, ReportsAssumption
  <2>2. Start[Earliest(S)] \in Int /\ Start[u] \in Int
    BY <1>5, ReportsAssumption
  <2>3. ~ (Start[u] < Start[Earliest(S)])
    BY <1>5, <2>1, ReportsAssumption
  <2> QED BY <2>2, <2>3
<1> QED BY <1>5, <1>6

(* As many ids as documents: no two documents have one id.                   *)
LEMMA DistinctIds ==
  ASSUME NEW S, IsFiniteSet(S)
  PROVE  Cardinality(Ids(S)) = Cardinality(S)
           <=> \A s, u \in S : SpanId[s] = SpanId[u] => s = u
<1> DEFINE f == [s \in S |-> SpanId[s]]
           T == Ids(S)
<1>1. f \in Surjection(S, T) BY DEF Surjection, Ids
<1>2. Cardinality(T) = Cardinality(S) <=> f \in Injection(S, T)
  <2> HIDE DEF f, T
  <2> QED BY <1>1, FS_Surjection
<1>3. f \in Injection(S, T) <=> \A s, u \in S : SpanId[s] = SpanId[u] => s = u
  BY <1>1 DEF Injection, IsInjective, Surjection
<1> QED BY <1>2, <1>3

-----------------------------------------------------------------------------
(* The five readers of a trajectory.                                         *)

\* The rows of a trajectory that has any.
LEMMA TrajectoryRows ==
  ASSUME RowsInv, NEW t \in Present(rows)
  PROVE  /\ RowsOf(rows, t) # {} /\ RowsOf(rows, t) \in SUBSET Spans
         /\ IsFiniteSet(RowsOf(rows, t))
         /\ {Traj[s] : s \in RowsOf(rows, t)} = {t}
<1>1. RowsOf(rows, t) \in SUBSET rows BY DEF RowsOf
<1>2. RowsOf(rows, t) # {} /\ {Traj[s] : s \in RowsOf(rows, t)} = {t}
  BY DEF RowsOf, Present
<1> QED BY <1>1, <1>2, FS_Subset DEF RowsInv

(* The reporter's order of checks, and what the verifier notes of each, are  *)
(* two forms of one conjunction.                                             *)
LEMMA NoFaults ==
  ASSUME NEW S, NEW A, IsFiniteSet(S)
  PROVE  Loads(S, A) <=> FormFaults(S, A) = {}
<1> DEFINE Fault(f) ==
     CASE f = "empty" -> S = {}
       [] f = "roots" -> Cardinality(Roots(S)) # 1
       [] f = "trajectories" -> Cardinality({Traj[s] : s \in S}) # 1
       [] f = "duplicates" -> Cardinality(Ids(S)) # Cardinality(S)
       [] f = "parents" -> Orphans(S) # {}
       [] f = "hash" -> S \cap A # {}
       [] f = "root hash" -> BadRoots(S) # {}
       [] f = "parent hash" -> Mislinked(S) # {}
<1>1. FormFaults(S, A) = {} <=>
        \A f \in {"empty", "roots", "trajectories", "duplicates", "parents",
                  "hash", "root hash", "parent hash"} : ~ Fault(f)
  BY DEF FormFaults
<1>2. /\ Fault("empty") <=> S = {}
      /\ Fault("roots") <=> Cardinality(Roots(S)) # 1
      /\ Fault("trajectories") <=> Cardinality({Traj[s] : s \in S}) # 1
      /\ Fault("duplicates") <=> Cardinality(Ids(S)) # Cardinality(S)
      /\ Fault("parents") <=> Orphans(S) # {}
      /\ Fault("hash") <=> S \cap A # {}
      /\ Fault("root hash") <=> BadRoots(S) # {}
      /\ Fault("parent hash") <=> Mislinked(S) # {}
  OBVIOUS
<1>3. Fault("duplicates") <=> ~ \A s, u \in S : SpanId[s] = SpanId[u] => s = u
  BY <1>2, DistinctIds
<1> HIDE DEF Fault
<1> QED BY <1>1, <1>2, <1>3 DEF Loads

LEMMA ReadersAgree ==
  ASSUME RowsInv
  PROVE  LoadAgrees
<1> SUFFICES ASSUME NEW t \in Present(rows)
             PROVE  LET S == RowsOf(rows, t)
                        whole == /\ Cardinality(Roots(S)) = 1
                                 /\ Cardinality(Ids(S)) = Cardinality(S)
                    IN /\ Loads(S, altered) <=> FormFaults(S, altered) = {}
                       /\ Loads(S, altered) <=> whole /\ Reverified(S, altered)
                       /\ Loads(S, altered) <=> whole /\ ChainStatus(S) = "verified" /\ S \cap altered = {}
                       /\ Loads(S, altered) <=> whole /\ ChainVerified(S, altered) /\ BadRoots(S) = {}
  BY DEF LoadAgrees
<1> DEFINE S == RowsOf(rows, t)
           Whole == /\ Cardinality(Roots(S)) = 1
                    /\ Cardinality(Ids(S)) = Cardinality(S)
           Sound == /\ Orphans(S) = {} /\ S \cap altered = {}
                    /\ BadRoots(S) = {} /\ Mislinked(S) = {}
<1>1. S # {} /\ IsFiniteSet(S) /\ {Traj[s] : s \in S} = {t} BY TrajectoryRows
<1>2. Cardinality({Traj[s] : s \in S}) = 1 BY <1>1, FS_Singleton
<1> HIDE DEF S
<1>3. Loads(S, altered) <=> Whole /\ Sound
  BY <1>1, <1>2, DistinctIds DEF Loads
<1>4. Orphans(S) \subseteq S /\ BadRoots(S) \subseteq S /\ Mislinked(S) \subseteq S
  BY DEF Orphans, BadRoots, Roots, Mislinked
<1>5. Reverified(S, altered) <=> Sound
  BY <1>4 DEF Reverified
<1>6. ChainStatus(S) = "verified" <=> BadRoots(S) = {} /\ Mislinked(S) = {} /\ Orphans(S) = {}
  BY DEF ChainStatus
<1>7. ChainVerified(S, altered) /\ BadRoots(S) = {} <=> Sound
  BY <1>4 DEF ChainVerified
<1>8. Loads(S, altered) <=> FormFaults(S, altered) = {}
  BY <1>1, NoFaults
<1> QED BY <1>3, <1>5, <1>6, <1>7, <1>8 DEF S

-----------------------------------------------------------------------------
(* The verifier and the notice.                                              *)

LEMMA NoticeFollows ==
  ASSUME RowsInv
  PROVE  VerifiedIsNoticed
<1> SUFFICES ASSUME NEW t \in Present(rows), NEW S, S = RowsOf(rows, t),
                    Reasons(S) # {}, Declares(S, "ECOA"), VerifierOK(S, altered),
                    Decides(S) # {}
             PROVE  /\ Issued(S)
                    /\ Gaps(S) \subseteq {"human_review", "protected_class_check"}
                    /\ NotedGaps(S) \subseteq {"principal_reasons"}
  BY DEF VerifiedIsNoticed
<1>1. S \in SUBSET Spans /\ IsFiniteSet(S) BY TrajectoryRows
<1>2. /\ Evidence(S, "decision") = Decides(S)
      /\ Evidence(S, "principal_reasons") = Reasons(S)
      /\ Evidence(S, "model_governance") = ReasonCall(S)
      /\ Evidence(S, "credit_reporting_agency") = {s \in OfKind(S, "retrieval") : Body[s].source}
      /\ Evidence(S, "notice_delivery") = Delivery(S)
  BY DEF Evidence
<1>3. Issued(S) BY <1>2 DEF Issued, Required
<1>4. /\ OfKind(S, "retrieval") # {}
      /\ \A s \in OfKind(S, "retrieval") : Body[s].source
      /\ \E s \in OfKind(S, "side_effect") : Body[s].document /\ Body[s].success
  BY DEF VerifierOK, AdverseActionFaults
<1>5. ReasonCall(S) # {} BY DEF Reasons
<1>6. Delivery(S) # {} /\ \A s \in Delivery(S) : Body[s].success
  <2> DEFINE good == {s \in {u \in OfKind(S, "side_effect") : Body[u].document} : Body[s].success}
  <2>1. good # {} BY <1>4
  <2>2. good \in SUBSET Spans BY <1>1 DEF OfKind
  <2>3. Delivery(S) = {Earliest(good)} BY <2>1 DEF Delivery
  <2>4. Earliest(good) \in good
    <3> HIDE DEF good
    <3> QED BY <2>1, <2>2, EarliestFacts
  <2> QED BY <2>3, <2>4
<1>7. {"decision", "principal_reasons", "model_governance", "credit_reporting_agency",
       "notice_delivery"} \subseteq Rendered(S)
  BY <1>2, <1>4, <1>5, <1>6 DEF Rendered, Counted, Required
<1>8. Gaps(S) \subseteq {"human_review", "protected_class_check"}
  BY <1>7 DEF Gaps, Counted, Required
<1>9. NotedGaps(S) \subseteq {"principal_reasons"}
  BY <1>6 DEF NotedGaps
<1> QED BY <1>3, <1>8, <1>9

-----------------------------------------------------------------------------
(* The state of a read                                                       *)

Cursors == [time : Int, traj : Trajectories]
Pcs == Ended \cup {"idle", "list", "load", "stats", "total", "passing", "previous"}

ReaderType ==
  /\ reader = [pc |-> reader.pc, scope |-> reader.scope, tenant |-> reader.tenant,
               cursor |-> reader.cursor, ids |-> reader.ids, corpus |-> reader.corpus,
               current |-> reader.current, violating |-> reader.violating,
               scoped |-> reader.scoped, passing |-> reader.passing,
               previous |-> reader.previous, earlier |-> reader.earlier,
               later |-> reader.later, gone |-> reader.gone, touched |-> reader.touched]
  /\ reader.pc \in Pcs
  /\ reader.cursor \in Cursors \cup {None}
  /\ reader.ids \in Seq(Trajectories)
  /\ reader.current \subseteq Trajectories

\* A move of a trajectory that a read looks at is a change of its rows.
MovesAreChanges ==
  reader.earlier \cup reader.later \cup reader.gone \subseteq reader.touched

Named == {reader.ids[i] : i \in DOMAIN reader.ids}
Listable == InPeriod(InScope(rows))

\* What was there all along and moved to no later start was named, or is
\* still below the cursor.
NamedOrBelow ==
  reader.pc \in {"list", "load", "reported"} =>
    \A t \in Present(Listable) \ reader.later :
      \/ t \in Named
      \/ reader.pc = "list" /\ reader.cursor = None
      \/ reader.pc = "list" /\ Below(KeyOf(Listable, t), reader.cursor)

\* What was named, and stayed, and moved to no earlier start was named once,
\* and is not below the cursor.
NamedAndPassed ==
  reader.pc \in {"list", "load", "reported"} =>
    \A t \in Named \ (reader.earlier \cup reader.gone) :
      /\ \A i, j \in DOMAIN reader.ids : reader.ids[i] = t /\ reader.ids[j] = t => i = j
      /\ t \in Present(Listable)
      /\ reader.pc = "list" => /\ reader.cursor # None
                               /\ ~ Below(KeyOf(Listable, t), reader.cursor)

\* The corpus follows the list, and has what a trajectory had, and still has if
\* nothing was written to it.
CorpusFollows ==
  reader.pc \in {"list", "load", "reported"} =>
    /\ reader.corpus \in Seq([traj : Trajectories, calls : SUBSET Spans])
    /\ reader.pc = "list" => reader.corpus = <<>>
    /\ Len(reader.corpus) <= Len(reader.ids)
    /\ reader.pc = "reported" => Len(reader.corpus) = Len(reader.ids)
    /\ \A i \in DOMAIN reader.corpus :
         /\ reader.corpus[i].traj = reader.ids[i]
         /\ \A s \in reader.corpus[i].calls : Traj[s] = reader.ids[i]
         /\ reader.ids[i] \notin reader.touched =>
              reader.corpus[i].calls = Calls(RowsOf(rows, reader.ids[i]))

\* The figures of the statistics, as far as they are taken.
HasFailed(S) == \E s \in S : Body[s].kind = "policy_check" /\ Body[s].result = "fail"
BeganIn(t, a, b) ==
  LET began == FirstStart(RowsOf(InScope(rows), t)) IN a <= began /\ began < b

CurrentStands ==
  reader.pc \in {"total", "passing", "previous", "answered"} =>
    /\ \A t \in reader.current \ (reader.earlier \cup reader.gone) :
         t \in Present(InScope(rows)) /\ From <= FirstStart(RowsOf(InScope(rows), t))
    /\ \A t \in Present(InScope(rows)) \ reader.touched :
         /\ t \in reader.current <=> BeganIn(t, From, To)
         /\ t \in reader.violating <=>
              t \in reader.current /\ HasFailed(RowsOf(InScope(rows), t))

ScopedStands ==
  reader.pc = "passing" =>
    \A t \in Having(Base(From, To), Scoped) : t \in reader.scoped \cup reader.touched

PassingStands ==
  reader.pc \in {"previous", "answered"} =>
    reader.passing \subseteq reader.scoped \cup reader.touched

PreviousStands ==
  reader.pc = "answered" =>
    /\ \A t \in reader.previous : t \in Present(InScope(rows)) /\ FirstStart(RowsOf(InScope(rows), t)) < From
    /\ \A t \in Present(InScope(rows)) : t \in reader.previous <=> BeganIn(t, From - (To - From), From)

ReadingInv ==
  /\ world \in Worlds /\ RowsInv /\ ReaderType /\ MovesAreChanges
  /\ NamedOrBelow /\ NamedAndPassed /\ CorpusFollows
  /\ CurrentStands /\ ScopedStands /\ PassingStands /\ PreviousStands

-----------------------------------------------------------------------------
(* Writes during a read                                                      *)

Reading == reader.pc \notin Ended \cup {"idle"}

(* The rows of a trajectory that a read looks at are among its rows.         *)
LEMMA LookedRows ==
  ASSUME NEW S, NEW t
  PROVE  /\ RowsOf(InScope(S), t) = InScope(RowsOf(S, t))
         /\ RowsOf(InPeriod(S), t) = InPeriod(RowsOf(S, t))
         /\ RowsOf(Looked(S), t) = Looked(RowsOf(S, t))
         /\ Looked(S) \subseteq S /\ InScope(S) \subseteq S /\ InPeriod(S) \subseteq S
BY DEF RowsOf, InScope, InPeriod, Looked

LEMMA PresentRows ==
  ASSUME NEW S \in SUBSET Spans, NEW t
  PROVE  /\ t \in Present(S) <=> RowsOf(S, t) # {}
         /\ t \in Present(S) => t \in Trajectories /\ FirstStart(RowsOf(S, t)) \in Int
<1>1. t \in Present(S) <=> RowsOf(S, t) # {} BY DEF Present, RowsOf
<1>2. t \in Present(S) => t \in Trajectories BY ReadingAssumption DEF Present
<1>3. ASSUME RowsOf(S, t) # {} PROVE FirstStart(RowsOf(S, t)) \in Int
  <2>1. RowsOf(S, t) \in SUBSET Spans BY DEF RowsOf
  <2>2. Earliest(RowsOf(S, t)) \in Spans BY <1>3, <2>1, EarliestFacts
  <2> QED BY <2>2, ReportsAssumption DEF FirstStart
<1> QED BY <1>1, <1>2, <1>3

(* A write changes the histories of a read, and nothing else of it.          *)
LEMMA WriteFrame ==
  ASSUME ReaderType, Reading, NEW new
  PROVE  /\ Observed(new).pc = reader.pc /\ Observed(new).scope = reader.scope
         /\ Observed(new).tenant = reader.tenant /\ Observed(new).cursor = reader.cursor
         /\ Observed(new).ids = reader.ids /\ Observed(new).corpus = reader.corpus
         /\ Observed(new).current = reader.current
         /\ Observed(new).violating = reader.violating
         /\ Observed(new).scoped = reader.scoped /\ Observed(new).passing = reader.passing
         /\ Observed(new).previous = reader.previous
         /\ Observed(new) = [pc |-> reader.pc, scope |-> reader.scope, tenant |-> reader.tenant,
               cursor |-> reader.cursor, ids |-> reader.ids, corpus |-> reader.corpus,
               current |-> reader.current, violating |-> reader.violating,
               scoped |-> reader.scoped, passing |-> reader.passing,
               previous |-> reader.previous, earlier |-> Observed(new).earlier,
               later |-> Observed(new).later, gone |-> Observed(new).gone,
               touched |-> Observed(new).touched]
<1> DEFINE at(table, t) == RowsOf(Looked(table), t)
           before == {t \in Trajectories : at(rows, t) # {}}
           after == {t \in Trajectories : at(new, t) # {}}
           start(table, t) == FirstStart(at(table, t))
           e == reader.earlier \cup {t \in before \cap after : start(new, t) < start(rows, t)}
           l == IF reader.pc \in {"list", "load"}
                 THEN reader.later \cup (after \ before)
                        \cup {t \in before \cap after : start(new, t) > start(rows, t)}
                 ELSE reader.later
           g == reader.gone \cup (before \ after)
           c == reader.touched \cup {t \in Trajectories : RowsOf(rows, t) # RowsOf(new, t)}
<1>1. Observed(new) = [reader EXCEPT !.earlier = e, !.later = l, !.gone = g, !.touched = c]
  BY DEF Observed, Reading
<1> HIDE DEF e, l, g, c
<1>2. reader = [pc |-> reader.pc, scope |-> reader.scope, tenant |-> reader.tenant,
               cursor |-> reader.cursor, ids |-> reader.ids, corpus |-> reader.corpus,
               current |-> reader.current, violating |-> reader.violating,
               scoped |-> reader.scoped, passing |-> reader.passing,
               previous |-> reader.previous, earlier |-> reader.earlier,
               later |-> reader.later, gone |-> reader.gone, touched |-> reader.touched]
  BY DEF ReaderType
<1> QED BY ONLY <1>1, <1>2

(* Histories only grow, by trajectories.                                     *)
LEMMA WriteGrows ==
  ASSUME ReaderType, Reading, NEW new
  PROVE  /\ reader.touched \subseteq Observed(new).touched
         /\ Observed(new).earlier \cup Observed(new).later \cup Observed(new).gone
              \subseteq reader.earlier \cup reader.later \cup reader.gone \cup Trajectories
<1> DEFINE at(table, t) == RowsOf(Looked(table), t)
           before == {t \in Trajectories : at(rows, t) # {}}
           after == {t \in Trajectories : at(new, t) # {}}
           start(table, t) == FirstStart(at(table, t))
           e == {t \in before \cap after : start(new, t) < start(rows, t)}
           l == {t \in before \cap after : start(new, t) > start(rows, t)}
           c == {t \in Trajectories : RowsOf(rows, t) # RowsOf(new, t)}
<1>1. Observed(new) = [reader EXCEPT
       !.earlier = @ \cup e,
       !.later = IF reader.pc \in {"list", "load"} THEN @ \cup (after \ before) \cup l ELSE @,
       !.gone = @ \cup (before \ after),
       !.touched = @ \cup c]
  BY DEF Observed, Reading
<1>2. {"earlier", "later", "gone", "touched"} \subseteq DOMAIN reader
  BY DEF ReaderType
<1>3. /\ before \subseteq Trajectories /\ after \subseteq Trajectories
      /\ e \subseteq Trajectories /\ l \subseteq Trajectories
  OBVIOUS
<1> HIDE DEF before, after, e, l, c
<1> QED BY <1>1, <1>2, <1>3

(* A trajectory without a history of its own looks as before, or has moved   *)
(* in the direction that is not noted.                                       *)
LEMMA WriteHistories ==
  ASSUME ReaderType, Reading, NEW new \in SUBSET Spans, rows \in SUBSET Spans,
         NEW t \in Trajectories
  PROVE  /\ t \notin Observed(new).touched =>
              t \notin reader.touched /\ RowsOf(rows, t) = RowsOf(new, t)
         /\ t \notin Observed(new).earlier \cup Observed(new).gone =>
              /\ t \notin reader.earlier \cup reader.gone
              /\ t \in Present(Looked(rows)) =>
                   /\ t \in Present(Looked(new))
                   /\ FirstStart(RowsOf(Looked(rows), t)) <= FirstStart(RowsOf(Looked(new), t))
         /\ reader.pc \in {"list", "load"} /\ t \notin Observed(new).later =>
              /\ t \notin reader.later
              /\ t \in Present(Looked(new)) =>
                   /\ t \in Present(Looked(rows))
                   /\ FirstStart(RowsOf(Looked(new), t)) <= FirstStart(RowsOf(Looked(rows), t))
         /\ t \in Observed(new).earlier \cup Observed(new).later \cup Observed(new).gone =>
              \/ t \in reader.earlier \cup reader.later \cup reader.gone
              \/ t \in Observed(new).touched
<1> DEFINE at(table, u) == RowsOf(Looked(table), u)
           before == {u \in Trajectories : at(rows, u) # {}}
           after == {u \in Trajectories : at(new, u) # {}}
           start(table, u) == FirstStart(at(table, u))
<1>1. Observed(new) = [reader EXCEPT
       !.earlier = @ \cup {u \in before \cap after : start(new, u) < start(rows, u)},
       !.later = IF reader.pc \in {"list", "load"}
                 THEN @ \cup (after \ before)
                        \cup {u \in before \cap after : start(new, u) > start(rows, u)}
                 ELSE @,
       !.gone = @ \cup (before \ after),
       !.touched = @ \cup {u \in Trajectories : RowsOf(rows, u) # RowsOf(new, u)}]
  BY DEF Observed, Reading
<1>2. {"earlier", "later", "gone", "touched"} \subseteq DOMAIN reader
  BY DEF ReaderType
<1>3. /\ Observed(new).earlier = reader.earlier \cup {u \in before \cap after : start(new, u) < start(rows, u)}
      /\ Observed(new).later = IF reader.pc \in {"list", "load"}
                 THEN reader.later \cup (after \ before)
                        \cup {u \in before \cap after : start(new, u) > start(rows, u)}
                 ELSE reader.later
      /\ Observed(new).gone = reader.gone \cup (before \ after)
      /\ Observed(new).touched = reader.touched \cup {u \in Trajectories : RowsOf(rows, u) # RowsOf(new, u)}
  <2> HIDE DEF before, after, start
  <2> QED BY <1>1, <1>2
<1>4. /\ t \in before <=> t \in Present(Looked(rows))
      /\ t \in after <=> t \in Present(Looked(new))
      /\ t \in before => start(rows, t) \in Int
      /\ t \in after => start(new, t) \in Int
  BY LookedRows, PresentRows
<1>5. RowsOf(rows, t) = RowsOf(new, t) => at(rows, t) = at(new, t)
  BY LookedRows
<1>6. start(rows, t) = FirstStart(RowsOf(Looked(rows), t)) /\ start(new, t) = FirstStart(RowsOf(Looked(new), t))
  OBVIOUS
<1>7. (t \in before <=> at(rows, t) # {}) /\ (t \in after <=> at(new, t) # {})
  OBVIOUS
<1>8. at(rows, t) = at(new, t) => start(rows, t) = start(new, t)
  OBVIOUS
<1> HIDE DEF before, after, start, at
<1>9. t \notin Observed(new).touched =>
        t \notin reader.touched /\ RowsOf(rows, t) = RowsOf(new, t)
  BY <1>3
<1>10. t \notin Observed(new).earlier \cup Observed(new).gone =>
              /\ t \notin reader.earlier \cup reader.gone
              /\ t \in before => t \in after /\ start(rows, t) <= start(new, t)
  BY <1>3, <1>4
<1>11. reader.pc \in {"list", "load"} /\ t \notin Observed(new).later =>
              /\ t \notin reader.later
              /\ t \in after => t \in before /\ start(new, t) <= start(rows, t)
  BY <1>3, <1>4
<1>12. ASSUME t \in Observed(new).earlier \cup Observed(new).later \cup Observed(new).gone,
              t \notin reader.earlier \cup reader.later \cup reader.gone
       PROVE  t \in Observed(new).touched
  <2>1. at(rows, t) # at(new, t)
    <3> SUFFICES ASSUME at(rows, t) = at(new, t) PROVE FALSE OBVIOUS
    <3>1. (t \in before <=> t \in after) /\ start(rows, t) = start(new, t) BY <1>7, <1>8
    <3> QED BY <3>1, <1>3, <1>4, <1>12
  <2> QED BY <2>1, <1>5, <1>3
<1> QED BY <1>4, <1>6, <1>9, <1>10, <1>11, <1>12

-----------------------------------------------------------------------------
(* Pages                                                                     *)

(* Below is a strict order of keys, total for keys of different              *)
(* trajectories, and moving a key to an earlier start keeps it below.        *)
LEMMA BelowFacts ==
  /\ \A j, k \in Cursors : j.traj # k.traj => Below(j, k) \/ Below(k, j)
  /\ \A j, k, l \in Cursors : Below(j, k) /\ Below(k, l) => Below(j, l)
  /\ \A k \in Cursors : ~ Below(k, k)
  /\ \A j, k, l \in Cursors :
       j.traj = k.traj /\ j.time <= k.time /\ Below(k, l) => Below(j, l)
<1>1. \A k \in Cursors : k.time \in Int /\ k.traj \in Trajectories /\ TrajRank[k.traj] \in Int
  BY ReadingAssumption DEF Cursors
<1>2. \A j, k \in Cursors : j.traj # k.traj => TrajRank[j.traj] # TrajRank[k.traj]
  BY <1>1, ReadingAssumption
<1>3. ASSUME NEW j \in Cursors, NEW k \in Cursors, j.traj # k.traj
      PROVE  Below(j, k) \/ Below(k, j)
  BY <1>1, <1>2, <1>3 DEF Below
<1>4. \A j, k, l \in Cursors : Below(j, k) /\ Below(k, l) => Below(j, l)
  BY <1>1 DEF Below
<1>5. \A k \in Cursors : ~ Below(k, k) BY <1>1 DEF Below
<1>6. ASSUME NEW j \in Cursors, NEW k \in Cursors, NEW l \in Cursors,
             j.traj = k.traj, j.time <= k.time, Below(k, l)
      PROVE  Below(j, l)
  BY <1>1, <1>6 DEF Below
<1> QED BY <1>3, <1>4, <1>5, <1>6

\* Keys of different trajectories.
IsKeys(K) ==
  /\ K \subseteq Cursors /\ IsFiniteSet(K)
  /\ \A j, k \in K : j.traj = k.traj => j = k

(* The keys of a finite set of rows.                                         *)
LEMMA KeysFacts ==
  ASSUME NEW S \in SUBSET Spans, IsFiniteSet(S)
  PROVE  /\ IsKeys(Keys(S))
         /\ \A t \in Present(S) : KeyOf(S, t) \in Keys(S)
         /\ \A k \in Keys(S) : k.traj \in Present(S) /\ k = KeyOf(S, k.traj)
<1> DEFINE f == [s \in S |-> Traj[s]]
           P == Present(S)
<1>1. IsFiniteSet(P)
  <2>1. f \in Surjection(S, P) BY DEF Surjection, Present
  <2> HIDE DEF f, P
  <2> QED BY <2>1, FS_Surjection
<1> DEFINE g == [t \in P |-> KeyOf(S, t)]
           K == Keys(S)
<1>2. IsFiniteSet(K)
  <2>1. g \in Surjection(P, K) BY DEF Surjection, Keys
  <2> HIDE DEF g, P, K
  <2> QED BY <1>1, <2>1, FS_Surjection
<1>3. \A t \in Present(S) : KeyOf(S, t) \in Cursors /\ KeyOf(S, t).traj = t
  BY PresentRows DEF KeyOf, Cursors
<1> HIDE DEF f, P, g
<1> QED BY <1>2, <1>3 DEF Keys, IsKeys

(* A page has rows it is open for, each once and in order; what is open and   *)
(* not on it is below its last row, and then the page is full.               *)
LEMMA PageRows ==
  ASSUME NEW open, IsKeys(open)
  PROVE  /\ Page(open) \in Seq(open)
         /\ \A i, j \in 1..Len(Page(open)) : Page(open)[i] = Page(open)[j] => i = j
         /\ \A i \in 1..Len(Page(open)) : ~ Below(Page(open)[i], Page(open)[Len(Page(open))])
         /\ \A k \in open :
              \/ \E i \in 1..Len(Page(open)) : Page(open)[i] = k
              \/ Len(Page(open)) = PageLimit /\ Below(k, Page(open)[Len(Page(open))])
<1> DEFINE R == {p \in open \X open : Below(p[1], p[2])}
           T == Top(open)
           N == Cardinality(T)
           page == Page(open)
<1>1. Orders(R, open)
  <2>1. /\ \A j, k \in open : j # k => Below(j, k) \/ Below(k, j)
        /\ \A j, k, l \in open : Below(j, k) /\ Below(k, l) => Below(j, l)
        /\ \A k \in open : ~ Below(k, k)
    BY BelowFacts DEF IsKeys
  <2>2. \A j, k \in open : <<j, k>> \in R <=> Below(j, k) OBVIOUS
  <2> HIDE DEF R
  <2> QED BY <2>1, <2>2 DEF Orders
<1>2. \A k \in open : Ahead(k, open) = Height(R, open, k)
  <2> SUFFICES ASSUME NEW k \in open PROVE Ahead(k, open) = Height(R, open, k) OBVIOUS
  <2>1. {j \in open : Below(k, j)} = Above(R, open, k) BY DEF Above
  <2> QED BY <2>1 DEF Ahead, Height
<1>3. T = {k \in open : Height(R, open, k) < PageLimit} BY <1>2 DEF Top
<1>4. IsFiniteSet(open) /\ PageLimit \in Nat \ {0} BY ReadingAssumption DEF IsKeys
<1>5. /\ N \in Nat
      /\ \A x \in T : Height(R, open, x) \in 0..(N - 1)
      /\ \A h \in 0..(N - 1) : \E x \in T : Height(R, open, x) = h
      /\ \A x, y \in open : Height(R, open, x) = Height(R, open, y) => x = y
      /\ \A x \in open \ T : N = PageLimit /\ \A y \in T : <<x, y>> \in R
  <2> HIDE DEF R, T
  <2>1. ASSUME NEW P \in Nat \ {0}, NEW U, U = {k \in open : Height(R, open, k) < P}
        PROVE  /\ Cardinality(U) \in Nat
               /\ \A x \in U : Height(R, open, x) \in 0..(Cardinality(U) - 1)
               /\ \A h \in 0..(Cardinality(U) - 1) : \E x \in U : Height(R, open, x) = h
               /\ \A x, y \in open : Height(R, open, x) = Height(R, open, y) => x = y
               /\ \A x \in open \ U : Cardinality(U) = P /\ \A y \in U : <<x, y>> \in R
    BY <1>1, <1>4, <2>1, PageFacts
  <2> QED BY <1>3, <1>4, <2>1
<1>6. page = [i \in 1..N |-> CHOOSE k \in open : Ahead(k, open) = i - 1]
  BY DEF Page
<1>7. T \subseteq open BY DEF Top
<1>8. ASSUME NEW i \in 1..N PROVE page[i] \in T /\ Height(R, open, page[i]) = i - 1
  <2>1. i - 1 \in 0..(N - 1) BY <1>5
  <2>2. PICK x \in T : Height(R, open, x) = i - 1 BY <1>5, <2>1
  <2>3. x \in open /\ Ahead(x, open) = i - 1 BY <1>2, <1>7, <2>2
  <2>4. page[i] \in open /\ Ahead(page[i], open) = i - 1 BY <1>6, <2>3
  <2>5. Height(R, open, page[i]) = i - 1 BY <1>2, <2>4
  <2>6. page[i] = x BY <1>5, <1>7, <2>2, <2>4, <2>5
  <2> QED BY <2>2, <2>6
<1>9. page \in Seq(open) /\ Len(page) = N
  <2>1. page \in [1..N -> open] BY <1>6, <1>7, <1>8
  <2> HIDE DEF page, N
  <2> QED BY <2>1, <1>5
<1> HIDE DEF page, N, R, T
<1>10. ASSUME NEW i \in 1..N, NEW j \in 1..N, page[i] = page[j] PROVE i = j
  <2>1. i - 1 = j - 1 BY <1>8, <1>10
  <2> QED BY <2>1, <1>5
<1>11. ASSUME NEW i \in 1..N PROVE ~ Below(page[i], page[N])
  <2>1. N \in 1..N BY <1>5
  <2>2. page[i] \in open /\ page[N] \in open BY <1>7, <1>8, <2>1
  <2>3. Height(R, open, page[i]) = i - 1 /\ Height(R, open, page[N]) = N - 1 BY <1>8, <2>1
  <2>4. <<page[i], page[N]>> \in R => N - 1 < i - 1
    BY <1>1, <1>4, <2>2, <2>3, HeightsDescend
  <2>5. ~ (<<page[i], page[N]>> \in R) BY <2>4, <1>5
  <2> QED BY <2>2, <2>5 DEF R
<1>12. ASSUME NEW k \in open
       PROVE  (\E i \in 1..N : page[i] = k) \/ (N = PageLimit /\ Below(k, page[N]))
  <2>1. CASE k \in T
    <3>1. Height(R, open, k) \in 0..(N - 1) BY <1>5, <2>1
    <3>2. Height(R, open, k) + 1 \in 1..N BY <3>1, <1>5
    <3>3. Height(R, open, page[Height(R, open, k) + 1]) = Height(R, open, k) 
      BY <1>8, <3>1, <3>2
    <3>4. page[Height(R, open, k) + 1] = k BY <1>5, <1>7, <1>8, <3>2, <3>3
    <3> QED BY <3>2, <3>4
  <2>2. CASE k \notin T
    <3>1. N = PageLimit /\ \A y \in T : <<k, y>> \in R BY <1>5, <2>2
    <3>2. N \in 1..N BY <3>1, <1>4
    <3>3. <<k, page[N]>> \in R BY <3>1, <3>2, <1>8
    <3> QED BY <3>1, <3>3 DEF R
  <2> QED BY <2>1, <2>2
<1> QED BY <1>9, <1>10, <1>11, <1>12 DEF page

-----------------------------------------------------------------------------
(* The invariant, action by action                                           *)

LEMMA IdleStands ==
  ASSUME reader' = Idle
  PROVE  ReaderType' /\ MovesAreChanges' /\ NamedOrBelow' /\ NamedAndPassed'
         /\ CorpusFollows' /\ CurrentStands' /\ ScopedStands' /\ PassingStands'
         /\ PreviousStands'
<1>1. ReaderType' BY DEF ReaderType, Idle, Pcs
<1>2. reader'.pc = "idle" BY DEF Idle
<1>3. MovesAreChanges' BY DEF MovesAreChanges, Idle
<1> QED BY <1>1, <1>2, <1>3 DEF NamedOrBelow, NamedAndPassed, CorpusFollows,
      CurrentStands, ScopedStands, PassingStands, PreviousStands

LEMMA WriteStands ==
  ASSUME ReadingInv, rows' \subseteq Spans, IsFiniteSet(rows'), world' = world,
         reader' = Observed(rows')
  PROVE  ReadingInv'
<1>1. CASE ~ Reading
  <2>1. reader' = Idle BY <1>1 DEF Observed, Reading
  <2> QED BY <2>1, IdleStands DEF ReadingInv, RowsInv
<1>2. CASE Reading
  <2>1. ReaderType /\ rows \in SUBSET Spans /\ rows' \in SUBSET Spans
    BY DEF ReadingInv, RowsInv
  <2>2. /\ reader'.pc = reader.pc /\ reader'.scope = reader.scope
        /\ reader'.tenant = reader.tenant /\ reader'.cursor = reader.cursor
        /\ reader'.ids = reader.ids /\ reader'.corpus = reader.corpus
        /\ reader'.current = reader.current /\ reader'.violating = reader.violating
        /\ reader'.scoped = reader.scoped /\ reader'.passing = reader.passing
        /\ reader'.previous = reader.previous
    BY <1>2, <2>1, WriteFrame
  <2>3. ReaderType'
    <3>1. reader' = [pc |-> reader.pc, scope |-> reader.scope, tenant |-> reader.tenant,
               cursor |-> reader.cursor, ids |-> reader.ids, corpus |-> reader.corpus,
               current |-> reader.current, violating |-> reader.violating,
               scoped |-> reader.scoped, passing |-> reader.passing,
               previous |-> reader.previous, earlier |-> reader'.earlier,
               later |-> reader'.later, gone |-> reader'.gone, touched |-> reader'.touched]
      BY <1>2, <2>1, WriteFrame
    <3> QED BY <2>1, <2>2, <3>1 DEF ReaderType
  <2>4. ASSUME NEW t \in Trajectories
        PROVE  /\ t \notin reader'.touched =>
                    t \notin reader.touched /\ RowsOf(rows, t) = RowsOf(rows', t)
               /\ t \notin reader'.earlier \cup reader'.gone =>
                    /\ t \notin reader.earlier \cup reader.gone
                    /\ t \in Present(Looked(rows)) =>
                         /\ t \in Present(Looked(rows'))
                         /\ FirstStart(RowsOf(Looked(rows), t)) <= FirstStart(RowsOf(Looked(rows'), t))
               /\ reader.pc \in {"list", "load"} /\ t \notin reader'.later =>
                    /\ t \notin reader.later
                    /\ t \in Present(Looked(rows')) =>
                         /\ t \in Present(Looked(rows))
                         /\ FirstStart(RowsOf(Looked(rows'), t)) <= FirstStart(RowsOf(Looked(rows), t))
    BY <1>2, <2>1, WriteHistories
  <2>5. reader.pc \notin {"reported", "answered", "failed", "idle"} BY <1>2 DEF Reading, Ended
  <2>6. reader.pc \in {"list", "load"} =>
          Listable = Looked(rows) /\ Listable' = Looked(rows')
    BY <2>2 DEF Listable, Looked, InScope
  <2>7. reader.pc \notin {"list", "load"} =>
          InScope(rows) = Looked(rows) /\ InScope(rows)' = Looked(rows')
    BY <2>2 DEF Looked, InScope
  <2>8. /\ Looked(rows) \in SUBSET Spans /\ Looked(rows') \in SUBSET Spans
        /\ InScope(rows)' \in SUBSET Spans
    BY <2>1 DEF Looked, InPeriod, InScope
  <2>9. reader.ids \in Seq(Trajectories) /\ Named \subseteq Trajectories /\ Named' = Named
    BY <2>1, <2>2 DEF ReaderType, Named
  <2>10. /\ \A t \in Present(Looked(rows)) : t \in Trajectories /\ KeyOf(Looked(rows), t) \in Cursors
         /\ \A t \in Present(Looked(rows')) : t \in Trajectories /\ KeyOf(Looked(rows'), t) \in Cursors
    BY <2>8, PresentRows DEF KeyOf, Cursors
  <2>11. MovesAreChanges'
    <3> SUFFICES ASSUME NEW t \in reader'.earlier \cup reader'.later \cup reader'.gone
                 PROVE  t \in reader'.touched
      BY DEF MovesAreChanges
    <3>1. reader.touched \subseteq reader'.touched
          /\ reader'.earlier \cup reader'.later \cup reader'.gone
               \subseteq reader.earlier \cup reader.later \cup reader.gone \cup Trajectories
      BY <1>2, <2>1, WriteGrows
    <3>2. t \in Trajectories => t \in reader.earlier \cup reader.later \cup reader.gone
                                \/ t \in reader'.touched
      BY <1>2, <2>1, WriteHistories
    <3>3. reader.earlier \cup reader.later \cup reader.gone \subseteq reader.touched
      BY DEF ReadingInv, MovesAreChanges
    <3> QED BY <3>1, <3>2, <3>3
  <2>12. NamedOrBelow'
    <3> SUFFICES ASSUME reader.pc \in {"list", "load"}, NEW t \in Present(Listable') \ reader'.later
                 PROVE  \/ t \in Named
                        \/ reader.pc = "list" /\ reader.cursor = None
                        \/ reader.pc = "list" /\ Below(KeyOf(Listable', t), reader.cursor)
      BY <2>2, <2>5, <2>9 DEF NamedOrBelow
    <3>1. t \in Present(Looked(rows')) /\ t \in Trajectories BY <2>6, <2>10
    <3>2. /\ t \in Present(Listable) \ reader.later
          /\ FirstStart(RowsOf(Listable', t)) <= FirstStart(RowsOf(Listable, t))
      BY <2>4, <2>6, <3>1
    <3>3. \/ t \in Named
          \/ reader.pc = "list" /\ reader.cursor = None
          \/ reader.pc = "list" /\ Below(KeyOf(Listable, t), reader.cursor)
      BY <3>2 DEF ReadingInv, NamedOrBelow
    <3>4. reader.cursor = None \/ reader.cursor \in Cursors BY <2>1 DEF ReaderType
    <3>5. /\ KeyOf(Listable, t) \in Cursors /\ KeyOf(Listable', t) \in Cursors
          /\ KeyOf(Listable, t).traj = KeyOf(Listable', t).traj
          /\ KeyOf(Listable', t).time <= KeyOf(Listable, t).time
      BY <2>6, <2>10, <3>1, <3>2 DEF KeyOf
    <3> QED BY <3>3, <3>4, <3>5, BelowFacts
  <2>13. NamedAndPassed'
    <3> SUFFICES ASSUME reader.pc \in {"list", "load"},
                        NEW t \in Named \ (reader'.earlier \cup reader'.gone)
                 PROVE  /\ \A i, j \in DOMAIN reader.ids : reader.ids[i] = t /\ reader.ids[j] = t => i = j
                        /\ t \in Present(Listable')
                        /\ reader.pc = "list" => /\ reader.cursor # None
                                                 /\ ~ Below(KeyOf(Listable', t), reader.cursor)
      BY <2>2, <2>5, <2>9 DEF NamedAndPassed
    <3>1. t \in Trajectories /\ t \in Named \ (reader.earlier \cup reader.gone) BY <2>4, <2>9
    <3>2. /\ \A i, j \in DOMAIN reader.ids : reader.ids[i] = t /\ reader.ids[j] = t => i = j
          /\ t \in Present(Listable)
          /\ reader.pc = "list" => /\ reader.cursor # None
                                   /\ ~ Below(KeyOf(Listable, t), reader.cursor)
      BY <3>1 DEF ReadingInv, NamedAndPassed
    <3>3. /\ t \in Present(Listable')
          /\ FirstStart(RowsOf(Listable, t)) <= FirstStart(RowsOf(Listable', t))
      BY <2>4, <2>6, <3>1, <3>2
    <3>4. reader.cursor = None \/ reader.cursor \in Cursors BY <2>1 DEF ReaderType
    <3>5. /\ KeyOf(Listable, t) \in Cursors /\ KeyOf(Listable', t) \in Cursors
          /\ KeyOf(Listable, t).traj = KeyOf(Listable', t).traj
          /\ KeyOf(Listable, t).time <= KeyOf(Listable', t).time
      BY <2>6, <2>10, <3>2, <3>3 DEF KeyOf
    <3> QED BY <3>2, <3>3, <3>4, <3>5, BelowFacts
  <2>14. CorpusFollows'
    <3> SUFFICES ASSUME reader.pc \in {"list", "load"}, NEW i \in DOMAIN reader.corpus,
                        reader.ids[i] \notin reader'.touched
                 PROVE  reader.corpus[i].calls = Calls(RowsOf(rows', reader.ids[i]))
      BY <2>2, <2>5 DEF ReadingInv, CorpusFollows
    <3>1. /\ Len(reader.corpus) <= Len(reader.ids)
          /\ reader.corpus \in Seq([traj : Trajectories, calls : SUBSET Spans])
          /\ reader.ids[i] \notin reader.touched =>
               reader.corpus[i].calls = Calls(RowsOf(rows, reader.ids[i]))
      BY DEF ReadingInv, CorpusFollows
    <3>2. i \in 1..Len(reader.ids) BY <3>1, <2>9
    <3>3. reader.ids[i] \in Trajectories BY <3>2, <2>9
    <3> QED BY <3>1, <3>3, <2>4
  <2>15. ASSUME NEW t \in Trajectories, t \notin reader'.touched,
                reader.pc \notin {"list", "load"}
         PROVE  RowsOf(InScope(rows), t) = RowsOf(InScope(rows)', t)
    <3>1. RowsOf(rows, t) = RowsOf(rows', t) BY <2>4, <2>15
    <3>2. RowsOf(Looked(rows), t) = RowsOf(Looked(rows'), t) BY <3>1, LookedRows
    <3> QED BY <3>2, <2>7, <2>15
  <2>16. CurrentStands'
    <3> SUFFICES ASSUME reader.pc \in {"total", "passing", "previous"}
                 PROVE  /\ \A t \in reader.current \ (reader'.earlier \cup reader'.gone) :
                             /\ t \in Present(InScope(rows)')
                             /\ From <= FirstStart(RowsOf(InScope(rows)', t))
                        /\ \A t \in Present(InScope(rows)') \ reader'.touched :
                             /\ t \in reader.current <=> BeganIn(t, From, To)'
                             /\ t \in reader.violating <=>
                                  t \in reader.current /\ HasFailed(RowsOf(InScope(rows)', t))
      BY <2>2, <2>5 DEF CurrentStands, HasFailed
    <3>1. CurrentStands BY DEF ReadingInv
    <3>2. ASSUME NEW t \in reader.current \ (reader'.earlier \cup reader'.gone)
          PROVE  /\ t \in Present(InScope(rows)')
                 /\ From <= FirstStart(RowsOf(InScope(rows)', t))
      <4>1. t \in Trajectories BY <2>1 DEF ReaderType
      <4>2. t \in Present(InScope(rows)) /\ From <= FirstStart(RowsOf(InScope(rows), t))
        BY <4>1, <2>4, <3>1 DEF CurrentStands
      <4>3. /\ t \in Present(InScope(rows)')
            /\ FirstStart(RowsOf(InScope(rows), t)) <= FirstStart(RowsOf(InScope(rows)', t))
        BY <4>1, <4>2, <2>4, <2>7
      <4>4. FirstStart(RowsOf(InScope(rows), t)) \in Int /\ FirstStart(RowsOf(InScope(rows)', t)) \in Int
        BY <4>2, <4>3, <2>7, <2>8, PresentRows
      <4> QED BY <4>2, <4>3, <4>4, ReadingAssumption
    <3>3. ASSUME NEW t \in Present(InScope(rows)') \ reader'.touched
          PROVE  /\ t \in reader.current <=> BeganIn(t, From, To)'
                 /\ t \in reader.violating <=>
                      t \in reader.current /\ HasFailed(RowsOf(InScope(rows)', t))
      <4>1. t \in Trajectories BY <2>8, PresentRows
      <4>2. RowsOf(InScope(rows), t) = RowsOf(InScope(rows)', t) BY <4>1, <2>15
      <4>3. t \in Present(InScope(rows)) \ reader.touched
        BY <4>1, <4>2, <2>4, <2>7, <2>8, PresentRows
      <4>4. BeganIn(t, From, To)' <=> BeganIn(t, From, To) BY <4>2 DEF BeganIn
      <4>5. /\ t \in reader.current <=> BeganIn(t, From, To)
            /\ t \in reader.violating <=>
                 t \in reader.current /\ HasFailed(RowsOf(InScope(rows), t))
        BY <4>3, <3>1 DEF CurrentStands
      <4> QED BY <4>2, <4>4, <4>5
    <3> QED BY <3>2, <3>3
  <2>17. ScopedStands'
    <3> SUFFICES ASSUME reader.pc = "passing", NEW t \in Having(Base(From, To), Scoped)',
                        t \notin reader'.touched
                 PROVE  t \in reader.scoped
      BY <2>2 DEF ScopedStands
    <3>1. PICK s \in InScope(rows)' :
            s \in Scoped /\ Traj[s] = t /\ t \in Began(InScope(rows)', From, To)
      BY DEF Having, Base
    <3>2. t \in Trajectories BY <3>1, <2>8, PresentRows DEF Began
    <3>3. RowsOf(InScope(rows), t) = RowsOf(InScope(rows)', t) BY <3>2, <2>15
    <3>4. s \in RowsOf(InScope(rows), t) BY <3>1, <3>3 DEF RowsOf
    <3>5. t \in Began(InScope(rows), From, To)
      BY <3>1, <3>3, <3>4 DEF Began, Present, RowsOf
    <3>6. t \in Having(Base(From, To), Scoped)
      BY <3>1, <3>4, <3>5 DEF Having, Base, RowsOf
    <3>7. t \notin reader.touched BY <3>2, <2>4
    <3> QED BY <3>6, <3>7 DEF ReadingInv, ScopedStands
  <2>18. PassingStands'
    <3>1. reader.touched \subseteq reader'.touched BY <1>2, <2>1, WriteGrows
    <3> QED BY <2>2, <3>1 DEF ReadingInv, PassingStands
  <2>19. PreviousStands' BY <2>2, <2>5 DEF PreviousStands
  <2> QED BY <2>3, <2>11, <2>12, <2>13, <2>14, <2>16, <2>17, <2>18, <2>19
        DEF ReadingInv, RowsInv
<1> QED BY <1>1, <1>2

\* A page is taken of one reading of the table.
LEMMA PageStands ==
  ASSUME ReadingInv, ListPage
  PROVE  ReadingInv'
<1> DEFINE L == Listable
           open == After(Keys(L), reader.cursor)
           page == Page(open)
           last == page[Len(page)]
           full == Len(page) = PageLimit
           names == [i \in DOMAIN page |-> page[i].traj]
           ids == reader.ids \o names
<1>1. /\ reader.pc = "list" /\ rows' = rows /\ world' = world
      /\ reader' = [reader EXCEPT !.ids = ids, !.cursor = IF full THEN last ELSE None,
                                  !.pc = IF full THEN "list" ELSE "load"]
  BY DEF ListPage, Listable
<1>2. ReaderType /\ RowsInv BY DEF ReadingInv
<1>3. /\ reader'.pc = (IF full THEN "list" ELSE "load") /\ reader'.ids = ids
      /\ reader'.cursor = (IF full THEN last ELSE None)
      /\ reader'.scope = reader.scope /\ reader'.corpus = reader.corpus
      /\ reader'.current = reader.current
      /\ reader'.earlier = reader.earlier /\ reader'.later = reader.later
      /\ reader'.gone = reader.gone /\ reader'.touched = reader.touched
  <2>1. {"pc", "ids", "cursor"} \subseteq DOMAIN reader BY <1>2 DEF ReaderType
  <2> HIDE DEF ids, full, last
  <2> QED BY <1>1, <2>1
<1>4. L \in SUBSET Spans /\ IsFiniteSet(L)
  <2>1. L \subseteq rows BY DEF Listable, InPeriod, InScope
  <2> QED BY <1>2, <2>1, FS_Subset DEF RowsInv
<1>5. /\ IsKeys(Keys(L))
      /\ \A t \in Present(L) : KeyOf(L, t) \in Keys(L)
      /\ \A k \in Keys(L) : k.traj \in Present(L) /\ k = KeyOf(L, k.traj)
  <2> HIDE DEF L
  <2> QED BY <1>4, KeysFacts
<1>6. open \subseteq Keys(L) /\ open \subseteq Cursors /\ IsKeys(open)
  <2>1. open \subseteq Keys(L) BY DEF After
  <2> HIDE DEF open
  <2> QED BY <1>5, <2>1, FS_Subset DEF IsKeys
<1>7. /\ page \in Seq(open)
      /\ \A i, j \in 1..Len(page) : page[i] = page[j] => i = j
      /\ \A i \in 1..Len(page) : ~ Below(page[i], last)
      /\ \A k \in open : \/ \E i \in 1..Len(page) : page[i] = k
                         \/ full /\ Below(k, last)
  <2> HIDE DEF open
  <2> QED BY <1>6, PageRows
<1>8. reader.ids \in Seq(Trajectories) /\ reader.cursor \in Cursors \cup {None}
  BY <1>2 DEF ReaderType
<1>9. Listable' = Listable BY <1>1, <1>3 DEF Listable, InScope
<1>10. \A k \in open : k \in Keys(L) /\ (reader.cursor = None \/ Below(k, reader.cursor))
  BY DEF After
<1>11. \A k \in Keys(L) : k \notin open => reader.cursor # None /\ ~ Below(k, reader.cursor)
  BY DEF After
<1> HIDE DEF L, open, page
<1>12. /\ Len(page) \in Nat /\ DOMAIN page = 1..Len(page)
       /\ \A i \in 1..Len(page) : page[i] \in open /\ page[i].traj \in Trajectories
  BY <1>6, <1>7 DEF Cursors
<1>13. names \in Seq(Trajectories) /\ Len(names) = Len(page)
       /\ \A i \in 1..Len(page) : names[i] = page[i].traj
  BY <1>12
<1> HIDE DEF names
<1>14. /\ ids \in Seq(Trajectories) /\ Len(ids) = Len(reader.ids) + Len(page)
       /\ DOMAIN ids = 1..(Len(reader.ids) + Len(page))
       /\ \A i \in 1..Len(reader.ids) : ids[i] = reader.ids[i]
       /\ \A i \in 1..Len(page) : ids[Len(reader.ids) + i] = page[i].traj
  BY <1>8, <1>12, <1>13
<1>15. full => last \in Cursors /\ last \in open
  <2>1. PageLimit \in Nat \ {0} BY ReadingAssumption
  <2> QED BY <1>6, <1>12, <2>1
<1> HIDE DEF ids
<1>16. ReaderType'
  <2>1. reader.pc = "list" /\ reader'.ids \in Seq(Trajectories)
        /\ reader'.cursor \in Cursors \cup {None} /\ reader'.pc \in Pcs
    BY <1>1, <1>3, <1>14, <1>15 DEF Pcs
  <2>2. reader' = [pc |-> reader'.pc, scope |-> reader'.scope, tenant |-> reader'.tenant,
               cursor |-> reader'.cursor, ids |-> reader'.ids, corpus |-> reader'.corpus,
               current |-> reader'.current, violating |-> reader'.violating,
               scoped |-> reader'.scoped, passing |-> reader'.passing,
               previous |-> reader'.previous, earlier |-> reader'.earlier,
               later |-> reader'.later, gone |-> reader'.gone, touched |-> reader'.touched]
    <3> HIDE DEF full, last
    <3> QED BY <1>1, <1>2 DEF ReaderType
  <2> QED BY <1>2, <1>3, <2>1, <2>2 DEF ReaderType
<1>17. MovesAreChanges' BY <1>3 DEF ReadingInv, MovesAreChanges
<1>18. Named = {reader.ids[i] : i \in 1..Len(reader.ids)}
       /\ Named' = Named \cup {page[i].traj : i \in 1..Len(page)}
  <2>1. Named = {reader.ids[i] : i \in 1..Len(reader.ids)} BY <1>8 DEF Named
  <2>2. Named' = {ids[i] : i \in 1..(Len(reader.ids) + Len(page))} BY <1>3, <1>14 DEF Named
  <2>3. Len(reader.ids) \in Nat BY <1>8
  <2>4. ASSUME NEW i \in 1..(Len(reader.ids) + Len(page))
        PROVE  ids[i] \in Named \cup {page[j].traj : j \in 1..Len(page)}
    <3>1. CASE i \in 1..Len(reader.ids) BY <3>1, <2>1, <1>14
    <3>2. CASE i \notin 1..Len(reader.ids)
      <4>1. i - Len(reader.ids) \in 1..Len(page) /\ i = Len(reader.ids) + (i - Len(reader.ids))
        BY <2>3, <3>2, <1>12
      <4> QED BY <4>1, <1>14
    <3> QED BY <3>1, <3>2
  <2>5. \A i \in 1..Len(reader.ids) : i \in 1..(Len(reader.ids) + Len(page)) /\ ids[i] = reader.ids[i]
    BY <2>3, <1>12, <1>14
  <2>6. \A i \in 1..Len(page) : Len(reader.ids) + i \in 1..(Len(reader.ids) + Len(page))
                                /\ ids[Len(reader.ids) + i] = page[i].traj
    BY <2>3, <1>12, <1>14
  <2> QED BY <2>1, <2>2, <2>4, <2>5, <2>6
<1>19. NamedOrBelow'
  <2> SUFFICES ASSUME NEW t \in Present(L), t \notin reader.later
               PROVE  t \in Named' \/ (full /\ Below(KeyOf(L, t), last))
    BY <1>3, <1>9 DEF NamedOrBelow, L
  <2>1. KeyOf(L, t) \in Keys(L) BY <1>5
  <2>2. \/ t \in Named \/ reader.cursor = None \/ Below(KeyOf(L, t), reader.cursor)
    BY <1>1 DEF ReadingInv, NamedOrBelow, L
  <2>3. CASE t \in Named BY <2>3, <1>18
  <2>4. CASE t \notin Named
    <3>1. KeyOf(L, t) \in open BY <2>1, <2>2, <2>4, <1>11
    <3>2. CASE \E i \in 1..Len(page) : page[i] = KeyOf(L, t)
      BY <3>2, <1>18 DEF KeyOf
    <3> QED BY <3>1, <3>2, <1>7
  <2> QED BY <2>3, <2>4
<1>20. NamedAndPassed'
  <2> SUFFICES ASSUME NEW t \in Named', t \notin reader.earlier \cup reader.gone
               PROVE  /\ \A i, j \in DOMAIN ids : ids[i] = t /\ ids[j] = t => i = j
                      /\ t \in Present(L)
                      /\ full => last # None /\ ~ Below(KeyOf(L, t), last)
    BY <1>3, <1>9 DEF NamedAndPassed, L
  <2>1. full => last # None BY <1>15, ReadingAssumption DEF Cursors
  <2>2. Len(reader.ids) \in Nat BY <1>8
  <2>3. CASE t \in Named
    <3>1. /\ \A i, j \in DOMAIN reader.ids : reader.ids[i] = t /\ reader.ids[j] = t => i = j
          /\ t \in Present(L)
          /\ reader.cursor # None /\ ~ Below(KeyOf(L, t), reader.cursor)
      BY <2>3, <1>1 DEF ReadingInv, NamedAndPassed, L
    <3>2. KeyOf(L, t) \in Keys(L) /\ KeyOf(L, t) \in Cursors /\ reader.cursor \in Cursors
      BY <3>1, <1>5, <1>8 DEF IsKeys
    <3>3. full => ~ Below(KeyOf(L, t), last)
      <4> SUFFICES ASSUME full, Below(KeyOf(L, t), last) PROVE FALSE OBVIOUS
      <4>1. last \in Cursors /\ Below(last, reader.cursor) BY <1>10, <1>15, <3>1
      <4>2. Below(KeyOf(L, t), reader.cursor) BY <4>1, <3>2, BelowFacts
      <4> QED BY <3>1, <4>2
    <3>4. \A i \in 1..Len(page) : page[i].traj # t
      <4> SUFFICES ASSUME NEW i \in 1..Len(page), page[i].traj = t PROVE FALSE OBVIOUS
      <4>1. page[i] \in open /\ page[i] = KeyOf(L, t) BY <1>5, <1>10, <1>12
      <4> QED BY <4>1, <1>10, <3>1
    <3>5. ASSUME NEW i \in DOMAIN ids, ids[i] = t PROVE i \in DOMAIN reader.ids /\ reader.ids[i] = t
      <4>1. i \in 1..Len(reader.ids)
        <5> SUFFICES ASSUME i \notin 1..Len(reader.ids) PROVE FALSE OBVIOUS
        <5>1. i - Len(reader.ids) \in 1..Len(page) /\ i = Len(reader.ids) + (i - Len(reader.ids))
          BY <2>2, <1>12, <1>14
        <5>2. ids[i] = page[i - Len(reader.ids)].traj BY <5>1, <1>14
        <5> QED BY <5>1, <5>2, <3>4, <3>5
      <4> QED BY <4>1, <1>8, <1>14, <3>5
    <3> QED BY <2>1, <3>1, <3>3, <3>5
  <2>4. CASE t \notin Named
    <3>1. PICK n \in 1..Len(page) : page[n].traj = t BY <2>4, <1>18
    <3>2. page[n] \in open /\ page[n] \in Keys(L) /\ page[n] = KeyOf(L, t) /\ t \in Present(L)
      BY <3>1, <1>5, <1>10, <1>12
    <3>3. ASSUME NEW i \in DOMAIN ids, ids[i] = t PROVE i = Len(reader.ids) + n
      <4>1. i \notin 1..Len(reader.ids) BY <2>4, <1>14, <1>18, <3>3
      <4>2. i - Len(reader.ids) \in 1..Len(page) /\ i = Len(reader.ids) + (i - Len(reader.ids))
        BY <2>2, <1>12, <1>14, <4>1
      <4>3. page[i - Len(reader.ids)].traj = t BY <4>2, <1>14, <3>3
      <4>4. page[i - Len(reader.ids)] = page[n]
        BY <4>2, <4>3, <3>2, <1>5, <1>10, <1>12
      <4>5. i - Len(reader.ids) = n BY <4>2, <4>4, <1>7
      <4> QED BY <4>2, <4>5
    <3>4. ~ Below(KeyOf(L, t), last) BY <3>2, <1>7
    <3> QED BY <2>1, <3>2, <3>3, <3>4
  <2> QED BY <2>3, <2>4
<1>21. CorpusFollows'
  <2>1. reader.corpus = <<>> BY <1>1 DEF ReadingInv, CorpusFollows
  <2>2. Len(ids) >= 0 /\ reader'.pc # "reported" BY <1>3, <1>8, <1>12, <1>14
  <2> QED BY <1>3, <2>1, <2>2 DEF CorpusFollows
<1>22. reader'.pc \in {"list", "load"} BY <1>3
<1> QED BY <1>1, <1>2, <1>16, <1>17, <1>19, <1>20, <1>21, <1>22
      DEF ReadingInv, RowsInv, CurrentStands, ScopedStands, PassingStands, PreviousStands

LEMMA RequestStands ==
  ASSUME ReadingInv, NEW r, Request(r)
  PROVE  ReadingInv'
<1>1. /\ r \in world.requests /\ world' = world /\ rows' = rows
      /\ reader' = [Idle EXCEPT !.pc = r.kind, !.scope = r.scope, !.tenant = r.tenant]
  BY DEF Request
<1>2. r.kind \in {"list", "stats"} BY <1>1, ReadingAssumption DEF ReadingInv
<1>3. /\ reader'.pc = r.kind /\ reader'.ids = <<>> /\ reader'.cursor = None
      /\ reader'.corpus = <<>> /\ reader'.current = {}
      /\ reader'.earlier = {} /\ reader'.later = {} /\ reader'.gone = {}
  BY <1>1 DEF Idle
<1>4. ReaderType'
  <2>1. reader' = [pc |-> r.kind, scope |-> r.scope, tenant |-> r.tenant,
                   cursor |-> None, ids |-> <<>>, corpus |-> <<>>,
                   current |-> {}, violating |-> {}, scoped |-> {}, passing |-> {}, previous |-> {},
                   earlier |-> {}, later |-> {}, gone |-> {}, touched |-> {}]
    BY <1>1 DEF Idle
  <2> QED BY <1>2, <2>1 DEF ReaderType, Pcs
<1>5. Named' = {} BY <1>3 DEF Named
<1>6. reader'.pc = "list" \/ reader'.pc = "stats" BY <1>2, <1>3
<1>7. NamedOrBelow' BY <1>3, <1>6 DEF NamedOrBelow
<1>8. NamedAndPassed' BY <1>5 DEF NamedAndPassed
<1>9. CorpusFollows' BY <1>3, <1>6 DEF CorpusFollows
<1>10. MovesAreChanges' BY <1>3 DEF MovesAreChanges
<1>11. CurrentStands' /\ ScopedStands' /\ PassingStands' /\ PreviousStands'
  BY <1>6 DEF CurrentStands, ScopedStands, PassingStands, PreviousStands
<1> QED BY <1>1, <1>4, <1>7, <1>8, <1>9, <1>10, <1>11 DEF ReadingInv, RowsInv

\* What the invariant needs of a step of the reader that leaves the list as it is.
LEMMA ListStands ==
  ASSUME ReadingInv, ReaderType', world' = world, rows' = rows,
         reader.pc = "load", reader'.pc \in {"load", "reported", "failed"},
         reader'.scope = reader.scope, reader'.ids = reader.ids,
         reader'.earlier = reader.earlier, reader'.later = reader.later,
         reader'.gone = reader.gone, reader'.touched = reader.touched,
         CorpusFollows'
  PROVE  ReadingInv'
<1>1. Named' = Named BY DEF Named
<1>2. Listable' = Listable BY DEF Listable, InScope
<1>3. NamedOrBelow' BY <1>1, <1>2 DEF ReadingInv, NamedOrBelow
<1>4. NamedAndPassed' BY <1>1, <1>2 DEF ReadingInv, NamedAndPassed
<1>5. MovesAreChanges' BY DEF ReadingInv, MovesAreChanges
<1> QED BY <1>3, <1>4, <1>5 DEF ReadingInv, RowsInv, CurrentStands, ScopedStands,
      PassingStands, PreviousStands

LEMMA LoadStands ==
  ASSUME ReadingInv, LoadNext
  PROVE  ReadingInv'
<1> DEFINE n == Len(reader.corpus)
           t == reader.ids[n + 1]
           S == RowsOf(rows, t)
           loads == /\ S # {} /\ (reader.scope = None \/ Tenant[Earliest(S)] = reader.scope)
                    /\ Loads(S, altered)
           entry == [traj |-> t, calls |-> Calls(S)]
<1>1. /\ reader.pc = "load" /\ n < Len(reader.ids) /\ world' = world /\ rows' = rows
      /\ reader' = [reader EXCEPT !.pc = IF loads THEN "load" ELSE "failed",
                                  !.corpus = IF loads THEN Append(reader.corpus, entry)
                                             ELSE reader.corpus]
  BY DEF LoadNext
<1>2. ReaderType BY DEF ReadingInv
<1> HIDE DEF loads, entry, t, n
<1>3. /\ reader'.pc = (IF loads THEN "load" ELSE "failed")
      /\ reader'.corpus = (IF loads THEN Append(reader.corpus, entry) ELSE reader.corpus)
      /\ reader'.ids = reader.ids /\ reader'.cursor = reader.cursor
      /\ reader'.scope = reader.scope /\ reader'.current = reader.current
      /\ reader'.earlier = reader.earlier /\ reader'.later = reader.later
      /\ reader'.gone = reader.gone /\ reader'.touched = reader.touched
  <2>1. {"pc", "corpus"} \subseteq DOMAIN reader BY <1>2 DEF ReaderType
  <2> QED BY <1>1, <2>1
<1>4. ReaderType'
  <2>1. reader' = [pc |-> reader'.pc, scope |-> reader'.scope, tenant |-> reader'.tenant,
               cursor |-> reader'.cursor, ids |-> reader'.ids, corpus |-> reader'.corpus,
               current |-> reader'.current, violating |-> reader'.violating,
               scoped |-> reader'.scoped, passing |-> reader'.passing,
               previous |-> reader'.previous, earlier |-> reader'.earlier,
               later |-> reader'.later, gone |-> reader'.gone, touched |-> reader'.touched]
    BY <1>1, <1>2 DEF ReaderType
  <2> QED BY <1>2, <1>3, <2>1 DEF ReaderType, Pcs, Ended
<1>5. CorpusFollows'
  <2>1. /\ reader.corpus \in Seq([traj : Trajectories, calls : SUBSET Spans])
        /\ \A i \in DOMAIN reader.corpus :
             /\ reader.corpus[i].traj = reader.ids[i]
             /\ \A s \in reader.corpus[i].calls : Traj[s] = reader.ids[i]
             /\ reader.ids[i] \notin reader.touched =>
                  reader.corpus[i].calls = Calls(RowsOf(rows, reader.ids[i]))
    BY <1>1 DEF ReadingInv, CorpusFollows
  <2>2. SUFFICES ASSUME loads PROVE CorpusFollows'
    BY <1>3 DEF CorpusFollows
  <2>3. n \in Nat /\ DOMAIN reader.corpus = 1..n /\ n + 1 <= Len(reader.ids) /\ n + 1 \in 1..Len(reader.ids)
    BY <1>1, <1>2, <2>1 DEF n, ReaderType
  <2>4. t \in Trajectories BY <1>2, <2>3 DEF t, ReaderType
  <2>5. entry \in [traj : Trajectories, calls : SUBSET Spans] /\ entry.traj = t
        /\ entry.calls = Calls(S) /\ \A s \in Calls(S) : Traj[s] = t
    BY <2>4 DEF entry, Calls, OfKind, InPeriod, RowsOf, ReadingInv, RowsInv
  <2>6. /\ reader'.corpus \in Seq([traj : Trajectories, calls : SUBSET Spans])
        /\ Len(reader'.corpus) = n + 1 /\ DOMAIN reader'.corpus = 1..(n + 1)
        /\ \A i \in 1..n : reader'.corpus[i] = reader.corpus[i]
        /\ reader'.corpus[n + 1] = entry
    BY <1>3, <2>1, <2>2, <2>3, <2>5 DEF n
  <2>7. ASSUME NEW i \in 1..(n + 1)
        PROVE  /\ reader'.corpus[i].traj = reader.ids[i]
               /\ \A s \in reader'.corpus[i].calls : Traj[s] = reader.ids[i]
               /\ reader.ids[i] \notin reader.touched =>
                    reader'.corpus[i].calls = Calls(RowsOf(rows, reader.ids[i]))
    <3>1. CASE i \in 1..n BY <3>1, <2>1, <2>3, <2>6
    <3>2. CASE i = n + 1 BY <3>2, <2>5, <2>6 DEF t
    <3> QED BY <3>1, <3>2, <2>3
  <2> QED BY <1>1, <1>3, <2>2, <2>3, <2>6, <2>7 DEF CorpusFollows
<1> QED BY <1>1, <1>3, <1>4, <1>5, ListStands

LEMMA ExtractStands ==
  ASSUME ReadingInv, Extract
  PROVE  ReadingInv'
<1> DEFINE formed == Refusal(reader.corpus, reader.tenant) = None
<1>1. /\ reader.pc = "load" /\ Len(reader.corpus) = Len(reader.ids)
      /\ world' = world /\ rows' = rows
      /\ reader' = [reader EXCEPT !.pc = IF formed THEN "reported" ELSE "failed"]
  BY DEF Extract
<1>2. ReaderType BY DEF ReadingInv
<1> HIDE DEF formed
<1>3. /\ reader'.pc = (IF formed THEN "reported" ELSE "failed")
      /\ reader'.corpus = reader.corpus /\ reader'.ids = reader.ids
      /\ reader'.cursor = reader.cursor
      /\ reader'.scope = reader.scope /\ reader'.current = reader.current
      /\ reader'.earlier = reader.earlier /\ reader'.later = reader.later
      /\ reader'.gone = reader.gone /\ reader'.touched = reader.touched
  <2>1. "pc" \in DOMAIN reader BY <1>2 DEF ReaderType
  <2> QED BY <1>1, <2>1
<1>4. ReaderType'
  <2>1. reader' = [pc |-> reader'.pc, scope |-> reader'.scope, tenant |-> reader'.tenant,
               cursor |-> reader'.cursor, ids |-> reader'.ids, corpus |-> reader'.corpus,
               current |-> reader'.current, violating |-> reader'.violating,
               scoped |-> reader'.scoped, passing |-> reader'.passing,
               previous |-> reader'.previous, earlier |-> reader'.earlier,
               later |-> reader'.later, gone |-> reader'.gone, touched |-> reader'.touched]
    BY <1>1, <1>2 DEF ReaderType
  <2> QED BY <1>2, <1>3, <2>1 DEF ReaderType, Pcs, Ended
<1>5. CorpusFollows' BY <1>1, <1>3 DEF ReadingInv, CorpusFollows
<1> QED BY <1>1, <1>3, <1>4, <1>5, ListStands DEF Ended

\* What the invariant needs of a step of the statistics.
LEMMA FiguresStand ==
  ASSUME ReadingInv, ReaderType', world' = world, rows' = rows,
         reader.pc \in {"stats", "total", "passing", "previous"},
         reader'.pc \in {"total", "passing", "previous", "answered"},
         reader'.earlier = reader.earlier, reader'.later = reader.later,
         reader'.gone = reader.gone, reader'.touched = reader.touched,
         CurrentStands', ScopedStands', PassingStands', PreviousStands'
  PROVE  ReadingInv'
<1>1. MovesAreChanges' BY DEF ReadingInv, MovesAreChanges
<1> QED BY <1>1 DEF ReadingInv, RowsInv, NamedOrBelow, NamedAndPassed, CorpusFollows

(* A trajectory began in a window if its first row in scope did.             *)
LEMMA BeganFacts ==
  ASSUME rows \in SUBSET Spans, NEW a, NEW b
  PROVE  /\ Began(InScope(rows), a, b) \subseteq Trajectories
         /\ \A t : t \in Began(InScope(rows), a, b)
              <=> t \in Present(InScope(rows)) /\ BeganIn(t, a, b)
<1>1. InScope(rows) \in SUBSET Spans BY DEF InScope
<1>2. Began(InScope(rows), a, b) \subseteq Present(InScope(rows)) BY DEF Began
<1>3. Present(InScope(rows)) \subseteq Trajectories BY <1>1, PresentRows
<1> QED BY <1>2, <1>3 DEF Began, BeganIn

LEMMA DispositionsStand ==
  ASSUME ReadingInv, Dispositions
  PROVE  ReadingInv'
<1> DEFINE began == Began(InScope(rows), From, To)
           violating == {t \in began : Disposition(RowsOf(InScope(rows), t)) = "violation"}
<1>1. /\ reader.pc = "stats" /\ world' = world /\ rows' = rows
      /\ reader' = [[reader EXCEPT !.current = began, !.violating = violating] EXCEPT !.pc = "total"]
  BY DEF Dispositions, Statement
<1>2. ReaderType /\ rows \in SUBSET Spans BY DEF ReadingInv, RowsInv
<1>3. /\ began \subseteq Trajectories
      /\ \A t : t \in began <=> t \in Present(InScope(rows)) /\ BeganIn(t, From, To)
  BY <1>2, BeganFacts
<1>4. \A t \in began : t \in violating <=> HasFailed(RowsOf(InScope(rows), t))
  <2> SUFFICES ASSUME NEW t \in began
               PROVE  Disposition(RowsOf(InScope(rows), t)) = "violation"
                        <=> HasFailed(RowsOf(InScope(rows), t))
    OBVIOUS
  <2>1. "fail" \in {Body[s].result : s \in OfKind(RowsOf(InScope(rows), t), "policy_check")}
          <=> HasFailed(RowsOf(InScope(rows), t))
    BY DEF OfKind, HasFailed
  <2> QED BY <2>1 DEF Disposition
<1>5. violating \subseteq began OBVIOUS
<1> HIDE DEF began, violating
<1>6. /\ reader'.pc = "total" /\ reader'.current = began /\ reader'.violating = violating
      /\ reader'.ids = reader.ids /\ reader'.cursor = reader.cursor /\ reader'.scope = reader.scope
      /\ reader'.earlier = reader.earlier /\ reader'.later = reader.later
      /\ reader'.gone = reader.gone /\ reader'.touched = reader.touched
  <2>1. {"pc", "current", "violating"} \subseteq DOMAIN reader BY <1>2 DEF ReaderType
  <2> QED BY <1>1, <2>1
<1>7. ReaderType'
  <2>1. reader' = [pc |-> reader'.pc, scope |-> reader'.scope, tenant |-> reader'.tenant,
               cursor |-> reader'.cursor, ids |-> reader'.ids, corpus |-> reader'.corpus,
               current |-> reader'.current, violating |-> reader'.violating,
               scoped |-> reader'.scoped, passing |-> reader'.passing,
               previous |-> reader'.previous, earlier |-> reader'.earlier,
               later |-> reader'.later, gone |-> reader'.gone, touched |-> reader'.touched]
    BY <1>1, <1>2 DEF ReaderType
  <2> QED BY <1>2, <1>3, <1>6, <2>1 DEF ReaderType, Pcs
<1>8. InScope(rows)' = InScope(rows) BY <1>1, <1>6 DEF InScope
<1>9. CurrentStands'
  <2>1. \A t : BeganIn(t, From, To)' <=> BeganIn(t, From, To) BY <1>8 DEF BeganIn
  <2>2. \A t : BeganIn(t, From, To) => From <= FirstStart(RowsOf(InScope(rows), t))
    BY DEF BeganIn
  <2> QED BY <1>3, <1>4, <1>5, <1>6, <1>8, <2>1, <2>2 DEF CurrentStands, HasFailed
<1>10. ScopedStands' /\ PassingStands' /\ PreviousStands'
  BY <1>6 DEF ScopedStands, PassingStands, PreviousStands
<1> QED BY <1>1, <1>6, <1>7, <1>9, <1>10, FiguresStand

LEMMA TotalStands ==
  ASSUME ReadingInv, ControlTotal
  PROVE  ReadingInv'
<1> DEFINE scoped == Having(Base(From, To), Scoped)
<1>1. /\ reader.pc = "total" /\ world' = world /\ rows' = rows
      /\ reader' = [[reader EXCEPT !.scoped = scoped] EXCEPT !.pc = "passing"]
  BY DEF ControlTotal, Statement
<1>2. ReaderType BY DEF ReadingInv
<1> HIDE DEF scoped
<1>3. /\ reader'.pc = "passing" /\ reader'.scoped = scoped
      /\ reader'.current = reader.current /\ reader'.violating = reader.violating
      /\ reader'.ids = reader.ids /\ reader'.cursor = reader.cursor /\ reader'.scope = reader.scope
      /\ reader'.earlier = reader.earlier /\ reader'.later = reader.later
      /\ reader'.gone = reader.gone /\ reader'.touched = reader.touched
  <2>1. {"pc", "scoped"} \subseteq DOMAIN reader BY <1>2 DEF ReaderType
  <2> QED BY <1>1, <2>1
<1>4. ReaderType'
  <2>1. reader' = [pc |-> reader'.pc, scope |-> reader'.scope, tenant |-> reader'.tenant,
               cursor |-> reader'.cursor, ids |-> reader'.ids, corpus |-> reader'.corpus,
               current |-> reader'.current, violating |-> reader'.violating,
               scoped |-> reader'.scoped, passing |-> reader'.passing,
               previous |-> reader'.previous, earlier |-> reader'.earlier,
               later |-> reader'.later, gone |-> reader'.gone, touched |-> reader'.touched]
    BY <1>1, <1>2 DEF ReaderType
  <2> QED BY <1>2, <1>3, <2>1 DEF ReaderType, Pcs
<1>5. InScope(rows)' = InScope(rows) BY <1>1, <1>3 DEF InScope
<1>6. CurrentStands'
  BY <1>1, <1>3, <1>5 DEF ReadingInv, CurrentStands, BeganIn, HasFailed
<1>7. ScopedStands' BY <1>3, <1>5 DEF ScopedStands, scoped, Having, Base
<1>8. PassingStands' /\ PreviousStands' BY <1>3 DEF PassingStands, PreviousStands
<1> QED BY <1>1, <1>3, <1>4, <1>6, <1>7, <1>8, FiguresStand

LEMMA PassingStandsStep ==
  ASSUME ReadingInv, ControlPassing
  PROVE  ReadingInv'
<1> DEFINE passing == Having(Base(From, To), Scoped) \cap Having(Base(From, To), Reviews)
<1>1. /\ reader.pc = "passing" /\ world' = world /\ rows' = rows
      /\ reader' = [[reader EXCEPT !.passing = passing] EXCEPT !.pc = "previous"]
  BY DEF ControlPassing, Statement
<1>2. ReaderType BY DEF ReadingInv
<1>3. passing \subseteq reader.scoped \cup reader.touched
  BY <1>1 DEF ReadingInv, ScopedStands
<1> HIDE DEF passing
<1>4. /\ reader'.pc = "previous" /\ reader'.passing = passing /\ reader'.scoped = reader.scoped
      /\ reader'.current = reader.current /\ reader'.violating = reader.violating
      /\ reader'.ids = reader.ids /\ reader'.cursor = reader.cursor /\ reader'.scope = reader.scope
      /\ reader'.earlier = reader.earlier /\ reader'.later = reader.later
      /\ reader'.gone = reader.gone /\ reader'.touched = reader.touched
  <2>1. {"pc", "passing"} \subseteq DOMAIN reader BY <1>2 DEF ReaderType
  <2> QED BY <1>1, <2>1
<1>5. ReaderType'
  <2>1. reader' = [pc |-> reader'.pc, scope |-> reader'.scope, tenant |-> reader'.tenant,
               cursor |-> reader'.cursor, ids |-> reader'.ids, corpus |-> reader'.corpus,
               current |-> reader'.current, violating |-> reader'.violating,
               scoped |-> reader'.scoped, passing |-> reader'.passing,
               previous |-> reader'.previous, earlier |-> reader'.earlier,
               later |-> reader'.later, gone |-> reader'.gone, touched |-> reader'.touched]
    BY <1>1, <1>2 DEF ReaderType
  <2> QED BY <1>2, <1>4, <2>1 DEF ReaderType, Pcs
<1>6. InScope(rows)' = InScope(rows) BY <1>1, <1>4 DEF InScope
<1>7. CurrentStands'
  BY <1>1, <1>4, <1>6 DEF ReadingInv, CurrentStands, BeganIn, HasFailed
<1>8. PassingStands' BY <1>3, <1>4 DEF PassingStands
<1>9. ScopedStands' /\ PreviousStands' BY <1>4 DEF ScopedStands, PreviousStands
<1> QED BY <1>1, <1>4, <1>5, <1>7, <1>8, <1>9, FiguresStand

LEMMA PreviousStep ==
  ASSUME ReadingInv, Previous
  PROVE  ReadingInv'
<1> DEFINE before == Began(InScope(rows), From - (To - From), From)
<1>1. /\ reader.pc = "previous" /\ world' = world /\ rows' = rows
      /\ reader' = [[reader EXCEPT !.previous = before] EXCEPT !.pc = "answered"]
  BY DEF Previous, Statement
<1>2. ReaderType /\ rows \in SUBSET Spans BY DEF ReadingInv, RowsInv
<1>3. \A t : t \in before <=> t \in Present(InScope(rows)) /\ BeganIn(t, From - (To - From), From)
  BY <1>2, BeganFacts
<1> HIDE DEF before
<1>4. /\ reader'.pc = "answered" /\ reader'.previous = before
      /\ reader'.scoped = reader.scoped /\ reader'.passing = reader.passing
      /\ reader'.current = reader.current /\ reader'.violating = reader.violating
      /\ reader'.ids = reader.ids /\ reader'.cursor = reader.cursor /\ reader'.scope = reader.scope
      /\ reader'.earlier = reader.earlier /\ reader'.later = reader.later
      /\ reader'.gone = reader.gone /\ reader'.touched = reader.touched
  <2>1. {"pc", "previous"} \subseteq DOMAIN reader BY <1>2 DEF ReaderType
  <2> QED BY <1>1, <2>1
<1>5. ReaderType'
  <2>1. reader' = [pc |-> reader'.pc, scope |-> reader'.scope, tenant |-> reader'.tenant,
               cursor |-> reader'.cursor, ids |-> reader'.ids, corpus |-> reader'.corpus,
               current |-> reader'.current, violating |-> reader'.violating,
               scoped |-> reader'.scoped, passing |-> reader'.passing,
               previous |-> reader'.previous, earlier |-> reader'.earlier,
               later |-> reader'.later, gone |-> reader'.gone, touched |-> reader'.touched]
    BY <1>1, <1>2 DEF ReaderType
  <2> QED BY <1>2, <1>4, <2>1 DEF ReaderType, Pcs, Ended
<1>6. InScope(rows)' = InScope(rows) BY <1>1, <1>4 DEF InScope
<1>7. CurrentStands'
  BY <1>1, <1>4, <1>6 DEF ReadingInv, CurrentStands, BeganIn, HasFailed
<1>8. PassingStands' BY <1>1, <1>4 DEF ReadingInv, PassingStands
<1>9. PreviousStands'
  <2>1. \A t : BeganIn(t, From - (To - From), From)' <=> BeganIn(t, From - (To - From), From)
    BY <1>6 DEF BeganIn
  <2>2. \A t : BeganIn(t, From - (To - From), From) => FirstStart(RowsOf(InScope(rows), t)) < From
    BY DEF BeganIn
  <2> QED BY <1>3, <1>4, <1>6, <2>1, <2>2 DEF PreviousStands
<1>10. ScopedStands' BY <1>4 DEF ScopedStands
<1> QED BY <1>1, <1>4, <1>5, <1>7, <1>8, <1>9, <1>10, FiguresStand


LEMMA RestStands ==
  ASSUME ReadingInv, Rest
  PROVE  ReadingInv'
<1>1. reader' = Idle /\ world' = world /\ rows' = rows BY DEF Rest
<1> QED BY <1>1, IdleStands DEF ReadingInv, RowsInv

\* What is stored or deleted leaves a finite set of documents.
LEMMA StoreStands ==
  ASSUME ReadingInv, NEW s \in Spans, Store(s)
  PROVE  ReadingInv'
<1>1. rows' = rows \cup {s} /\ reader' = Observed(rows') /\ world' = world BY DEF Store
<1>2. rows' \subseteq Spans BY <1>1 DEF ReadingInv, RowsInv
<1>3. IsFiniteSet(rows') BY <1>1, FS_AddElement DEF ReadingInv, RowsInv
<1> QED BY <1>1, <1>2, <1>3, WriteStands

LEMMA ExpireStands ==
  ASSUME ReadingInv, Expire
  PROVE  ReadingInv'
<1>1. /\ rows' \in SUBSET rows /\ reader' = Observed(rows') /\ world' = world
  BY DEF Expire
<1>2. rows' \subseteq Spans BY <1>1 DEF ReadingInv, RowsInv
<1>3. IsFiniteSet(rows') BY <1>1, FS_Subset DEF ReadingInv, RowsInv
<1> QED BY <1>1, <1>2, <1>3, WriteStands

\* The invariant does not look at the bytes of the documents.
LEMMA SameStands ==
  ASSUME ReadingInv, world' = world, rows' = rows, reader' = reader
  PROVE  ReadingInv'
<1>1. RowsInv' /\ ReaderType' /\ MovesAreChanges' /\ Named' = Named
  BY DEF ReadingInv, RowsInv, ReaderType, MovesAreChanges, Named
<1>2. Listable' = Listable /\ InScope(rows)' = InScope(rows)
  BY DEF Listable, InScope
<1>3. NamedOrBelow' /\ NamedAndPassed' /\ CorpusFollows'
  BY <1>1, <1>2 DEF ReadingInv, NamedOrBelow, NamedAndPassed, CorpusFollows
<1>4. CurrentStands' /\ PassingStands'
  BY <1>2 DEF ReadingInv, CurrentStands, PassingStands, BeganIn, HasFailed
<1>5. ScopedStands' /\ PreviousStands'
  BY <1>2 DEF ReadingInv, ScopedStands, PreviousStands, BeganIn, Base
<1> QED BY <1>1, <1>3, <1>4, <1>5 DEF ReadingInv

\* Every step keeps the invariant.
LEMMA StepStands ==
  ASSUME ReadingInv, [ReadingNext]_readingVars
  PROVE  ReadingInv'
<1>1. CASE \E s \in Spans : Store(s) BY <1>1, StoreStands
<1>2. CASE \E s \in Spans : Alter(s) BY <1>2, SameStands DEF Alter
<1>3. CASE Expire BY <1>3, ExpireStands
<1>4. CASE \E w \in world.requests : Request(w) BY <1>4, RequestStands
<1>5. CASE ListPage BY <1>5, PageStands
<1>6. CASE LoadNext BY <1>6, LoadStands
<1>7. CASE Extract BY <1>7, ExtractStands
<1>8. CASE Dispositions BY <1>8, DispositionsStand
<1>9. CASE ControlTotal BY <1>9, TotalStands
<1>10. CASE ControlPassing BY <1>10, PassingStandsStep
<1>11. CASE Previous BY <1>11, PreviousStep
<1>12. CASE Rest BY <1>12, RestStands
<1>13. CASE UNCHANGED readingVars BY <1>13, SameStands DEF readingVars
<1> QED BY <1>1, <1>2, <1>3, <1>4, <1>5, <1>6, <1>7, <1>8, <1>9, <1>10, <1>11, <1>12,
           <1>13 DEF ReadingNext, Read

(* The table is a finite set of documents, and what a read has taken of it    *)
(* so far stands in the relations above to what the table holds now.         *)
THEOREM ReadingInvariant == ReadingSpec => []ReadingInv
<1>1. ReadingInit => ReadingInv
  <2> SUFFICES ASSUME ReadingInit PROVE ReadingInv OBVIOUS
  <2>1. world \in Worlds /\ rows = {} /\ reader = Idle BY DEF ReadingInit
  <2>2. RowsInv BY <2>1, FS_EmptySet DEF RowsInv
  <2>3. ReaderType BY <2>1 DEF ReaderType, Idle, Pcs
  <2>4. reader.pc = "idle" BY <2>1 DEF Idle
  <2>5. MovesAreChanges BY <2>1 DEF MovesAreChanges, Idle
  <2> QED BY <2>1, <2>2, <2>3, <2>4, <2>5 DEF ReadingInv, NamedOrBelow, NamedAndPassed,
            CorpusFollows, CurrentStands, ScopedStands, PassingStands, PreviousStands
<1>2. ReadingInv /\ [ReadingNext]_readingVars => ReadingInv' BY StepStands
<1> QED BY <1>1, <1>2, PTL DEF ReadingSpec


-----------------------------------------------------------------------------
(* What the invariant says of the answers                                    *)

(* The places of a listing that name a trajectory are finitely many, at      *)
(* least one if it is named, and one if no two places name it.               *)
LEMMA TimesFacts ==
  ASSUME ReaderType, NEW t
  PROVE  /\ Times(t) \in Nat
         /\ t \in Named => Times(t) >= 1
         /\ (\A i, j \in DOMAIN reader.ids : reader.ids[i] = t /\ reader.ids[j] = t => i = j)
              => Times(t) <= 1
<1> DEFINE places == {i \in DOMAIN reader.ids : reader.ids[i] = t}
<1>1. IsFiniteSet(places) /\ Times(t) = Cardinality(places) /\ Times(t) \in Nat
  <2>1. DOMAIN reader.ids = 1..Len(reader.ids) /\ Len(reader.ids) \in Nat BY DEF ReaderType
  <2>2. IsFiniteSet(DOMAIN reader.ids) BY <2>1, FS_Interval
  <2> QED BY <2>2, FS_Subset, FS_CardinalityType DEF Times
<1>2. ASSUME t \in Named PROVE Times(t) >= 1
  <2>1. places # {} BY <1>2 DEF Named
  <2> HIDE DEF places
  <2> QED BY <1>1, <2>1, FS_EmptySet
<1>3. ASSUME \A i, j \in DOMAIN reader.ids : reader.ids[i] = t /\ reader.ids[j] = t => i = j
      PROVE  Times(t) <= 1
  <2>1. CASE places = {} BY <1>1, <2>1, FS_EmptySet
  <2>2. CASE places # {}
    <3>1. PICK i \in places : TRUE BY <2>2
    <3>2. places = {i} BY <1>3, <3>1
    <3> QED BY <1>1, <3>2, FS_Singleton
  <2> QED BY <2>1, <2>2
<1> QED BY <1>1, <1>2, <1>3

LEMMA ListingFollows ==
  ASSUME ReadingInv
  PROVE  ListedOnce
<1> SUFFICES ASSUME Listing, NEW t \in Trajectories
             PROVE  /\ t \in Present(InPeriod(InScope(rows))) /\ t \notin reader.later => Times(t) >= 1
                    /\ Times(t) > 1 => t \in reader.earlier \cup reader.gone
  BY DEF ListedOnce
<1>1. ReaderType /\ reader.pc \in {"load", "reported"} BY DEF ReadingInv, Listing
<1>2. ASSUME t \in Present(InPeriod(InScope(rows))), t \notin reader.later
      PROVE  Times(t) >= 1
  <2>1. t \in Named BY <1>1, <1>2 DEF ReadingInv, NamedOrBelow, Listable
  <2> QED BY <1>1, <2>1, TimesFacts
<1>3. ASSUME t \notin reader.earlier \cup reader.gone PROVE ~ (Times(t) > 1)
  <2>1. \A i, j \in DOMAIN reader.ids : reader.ids[i] = t /\ reader.ids[j] = t => i = j
    BY <1>1, <1>3 DEF ReadingInv, NamedAndPassed, Named
  <2>2. Times(t) <= 1 /\ Times(t) \in Nat BY <1>1, <2>1, TimesFacts
  <2> QED BY <2>2
<1> QED BY <1>2, <1>3

(* Paging over a table that is written to: see ListedOnce.  A trajectory of  *)
(* the period that was there all along is named, once.                       *)
THEOREM EachIsListedOnce == ReadingSpec => []ListedOnce
<1>1. ReadingInv => ListedOnce BY ListingFollows
<1> QED BY <1>1, ReadingInvariant, PTL

(* A use of a span is a place of the corpus that has it; in a row of the     *)
(* inventory are the uses of one model, in the tenant's scope.               *)
LEMMA InventoryUses ==
  ASSUME NEW corpus, NEW tenant
  PROVE  LET inv == Inventory(corpus, tenant)
         IN /\ \A i \in DOMAIN corpus : \A s \in corpus[i].calls :
                 tenant \in {None, Tenant[s]} =>
                   /\ Body[s].model \in DOMAIN inv
                   /\ [at |-> i, span |-> s] \in inv[Body[s].model].uses
            /\ \A m \in DOMAIN inv : \A u \in inv[m].uses :
                 /\ Body[u.span].model = m
                 /\ \E i \in DOMAIN corpus : u = [at |-> i, span |-> u.span] /\ u.span \in corpus[i].calls
<1> DEFINE uses == Uses(corpus, tenant)
           inv == Inventory(corpus, tenant)
<1>1. ASSUME NEW i \in DOMAIN corpus, NEW s \in corpus[i].calls, tenant \in {None, Tenant[s]}
      PROVE  [at |-> i, span |-> s] \in uses
  BY <1>1 DEF Uses
<1>2. ASSUME NEW u \in uses
      PROVE  \E i \in DOMAIN corpus : u = [at |-> i, span |-> u.span] /\ u.span \in corpus[i].calls
  <2>1. PICK i \in DOMAIN corpus : u \in {[at |-> i, span |-> s] : s \in corpus[i].calls}
    BY DEF Uses
  <2>2. PICK s \in corpus[i].calls : u = [at |-> i, span |-> s] BY <2>1
  <2> QED BY <2>2
<1>3. /\ DOMAIN inv = {Body[u.span].model : u \in uses}
      /\ \A m \in DOMAIN inv : inv[m].uses = {u \in uses : Body[u.span].model = m}
  BY DEF Inventory, Models, Row, UsesOf
<1> HIDE DEF uses, inv
<1>4. ASSUME NEW i \in DOMAIN corpus, NEW s \in corpus[i].calls, tenant \in {None, Tenant[s]}
      PROVE  /\ Body[s].model \in DOMAIN inv
             /\ [at |-> i, span |-> s] \in inv[Body[s].model].uses
  <2> DEFINE u == [at |-> i, span |-> s]
  <2>1. u \in uses /\ u.span = s BY <1>1, <1>4
  <2> QED BY <2>1, <1>3
<1>5. \A m \in DOMAIN inv : \A u \in inv[m].uses :
        /\ Body[u.span].model = m
        /\ \E i \in DOMAIN corpus : u = [at |-> i, span |-> u.span] /\ u.span \in corpus[i].calls
  BY <1>2, <1>3
<1> QED BY <1>4, <1>5 DEF inv

LEMMA InventoryFollows ==
  ASSUME ReadingInv
  PROVE  CountedOnce
<1> DEFINE inv == Inventory(reader.corpus, reader.tenant)
<1> SUFFICES ASSUME reader.pc = "reported",
                    NEW s \in Calls(InScope(rows)), Traj[s] \notin reader.touched,
                    reader.tenant \in {None, Tenant[s]}
             PROVE  \E m \in DOMAIN inv :
                      /\ Cardinality({u \in inv[m].uses : u.span = s}) = 1
                      /\ \A n \in DOMAIN inv \ {m} : \A u \in inv[n].uses : u.span # s
  BY DEF CountedOnce
<1> DEFINE t == Traj[s]
           m == Body[s].model
<1>1. /\ s \in Listable /\ s \in rows /\ s \in Calls(RowsOf(rows, t))
      /\ t \in Present(Listable) /\ t \in Trajectories
  <2>1. s \in InPeriod(InScope(rows)) /\ s \in OfKind({s}, "model_call")
    BY DEF Calls, OfKind
  <2>2. s \in rows /\ From <= Start[s] /\ Start[s] <= To BY <2>1 DEF InPeriod, InScope
  <2>3. s \in Calls(RowsOf(rows, t)) BY <2>1, <2>2 DEF Calls, OfKind, InPeriod, RowsOf
  <2>4. t \in Trajectories BY <2>2, ReadingAssumption DEF ReadingInv, RowsInv
  <2> QED BY <2>1, <2>2, <2>3, <2>4 DEF Listable, Present
<1>2. t \notin reader.earlier \cup reader.later \cup reader.gone
  BY DEF ReadingInv, MovesAreChanges
<1>3. t \in Named BY <1>1, <1>2 DEF ReadingInv, NamedOrBelow
<1>4. \A i, j \in DOMAIN reader.ids : reader.ids[i] = t /\ reader.ids[j] = t => i = j
  BY <1>2, <1>3 DEF ReadingInv, NamedAndPassed
<1>5. /\ DOMAIN reader.corpus = DOMAIN reader.ids
      /\ \A i \in DOMAIN reader.corpus :
           /\ \A v \in reader.corpus[i].calls : Traj[v] = reader.ids[i]
           /\ reader.ids[i] = t => reader.corpus[i].calls = Calls(RowsOf(rows, t))
  BY DEF ReadingInv, CorpusFollows, ReaderType
<1>6. PICK i \in DOMAIN reader.corpus : reader.ids[i] = t BY <1>3, <1>5 DEF Named
<1>7. s \in reader.corpus[i].calls BY <1>1, <1>5, <1>6
<1> DEFINE use == [at |-> i, span |-> s]
<1> HIDE DEF inv, t
<1>8. m \in DOMAIN inv /\ use \in inv[m].uses
  BY <1>7, InventoryUses DEF inv
<1>9. ASSUME NEW n \in DOMAIN inv, NEW u \in inv[n].uses, u.span = s
      PROVE  n = m /\ u = use
  <2>1. Body[u.span].model = n BY InventoryUses DEF inv
  <2>2. PICK j \in DOMAIN reader.corpus :
          u = [at |-> j, span |-> u.span] /\ u.span \in reader.corpus[j].calls
    BY InventoryUses DEF inv
  <2>3. reader.ids[j] = t BY <1>5, <1>9, <2>2 DEF t
  <2>4. j = i BY <1>4, <1>5, <1>6, <2>3
  <2> QED BY <1>9, <2>1, <2>2, <2>4
<1>10. {u \in inv[m].uses : u.span = s} = {use} BY <1>8, <1>9
<1>11. Cardinality({u \in inv[m].uses : u.span = s}) = 1 BY <1>10, FS_Singleton
<1> QED BY <1>8, <1>9, <1>11

(* The model inventory of a corpus that took several requests: each call of  *)
(* an untouched trajectory is in one row, once.                              *)
THEOREM EachCallIsCounted == ReadingSpec => []CountedOnce
<1>1. ReadingInv => CountedOnce BY InventoryFollows
<1> QED BY <1>1, ReadingInvariant, PTL

LEMMA FiguresFollow ==
  ASSUME ReadingInv
  PROVE  StatsAgree
<1> SUFFICES ASSUME reader.pc = "answered"
             PROVE  /\ reader.current \cap reader.previous \subseteq reader.earlier \cup reader.gone
                    /\ reader.passing \ reader.scoped \subseteq reader.touched
                    /\ \A t \in Present(InScope(rows)) \ reader.touched :
                         LET mine == RowsOf(InScope(rows), t)
                             began == FirstStart(mine)
                         IN /\ t \in reader.current <=> began >= From /\ began < To
                            /\ t \in reader.previous <=> began < From /\ 2 * From <= began + To
                            /\ t \in reader.violating <=>
                                 t \in reader.current /\ \E s \in mine :
                                   Body[s].kind = "policy_check" /\ Body[s].result = "fail"
  BY DEF StatsAgree
<1>1. InScope(rows) \in SUBSET Spans BY LookedRows DEF ReadingInv, RowsInv
<1>2. \A t \in Present(InScope(rows)) : FirstStart(RowsOf(InScope(rows), t)) \in Int
  BY <1>1, PresentRows
<1>3. ASSUME NEW t \in reader.current \cap reader.previous,
             t \notin reader.earlier \cup reader.gone
      PROVE  FALSE
  <2>1. t \in Present(InScope(rows)) /\ From <= FirstStart(RowsOf(InScope(rows), t))
    BY <1>3 DEF ReadingInv, CurrentStands
  <2>2. FirstStart(RowsOf(InScope(rows), t)) < From
    BY DEF ReadingInv, PreviousStands
  <2> QED BY <1>2, <2>1, <2>2, ReadingAssumption
<1>4. reader.passing \ reader.scoped \subseteq reader.touched
  BY DEF ReadingInv, PassingStands
<1>5. ASSUME NEW t \in Present(InScope(rows)) \ reader.touched
      PROVE  LET mine == RowsOf(InScope(rows), t)
                 began == FirstStart(mine)
             IN /\ t \in reader.current <=> began >= From /\ began < To
                /\ t \in reader.previous <=> began < From /\ 2 * From <= began + To
                /\ t \in reader.violating <=>
                     t \in reader.current /\ \E s \in mine :
                       Body[s].kind = "policy_check" /\ Body[s].result = "fail"
  <2> DEFINE mine == RowsOf(InScope(rows), t)
             began == FirstStart(mine)
  <2>1. began \in Int /\ From \in Int /\ To \in Int BY <1>2, ReadingAssumption
  <2>2. /\ t \in reader.current <=> BeganIn(t, From, To)
        /\ t \in reader.violating <=> t \in reader.current /\ HasFailed(mine)
    BY DEF ReadingInv, CurrentStands
  <2>3. t \in reader.previous <=> BeganIn(t, From - (To - From), From)
    BY DEF ReadingInv, PreviousStands
  <2>4. /\ BeganIn(t, From, To) <=> From <= began /\ began < To
        /\ BeganIn(t, From - (To - From), From) <=> From - (To - From) <= began /\ began < From
    BY DEF BeganIn
  <2>5. From - (To - From) <= began <=> 2 * From <= began + To
    <3> HIDE DEF began
    <3> QED BY <2>1
  <2>6. From <= began <=> began >= From
    <3> HIDE DEF began
    <3> QED BY <2>1
  <2> QED BY <2>2, <2>3, <2>4, <2>5, <2>6 DEF HasFailed
<1> QED BY <1>3, <1>4, <1>5

(* The figures of the dashboard, each of another statement: see StatsAgree.  *)
THEOREM FiguresAgree == ReadingSpec => []StatsAgree
<1>1. ReadingInv => StatsAgree BY FiguresFollow
<1> QED BY <1>1, ReadingInvariant, PTL

(* The five readers of a trajectory find the same ones well formed, in every *)
(* table that the writers can make.                                          *)
THEOREM ReadersOfOneMind == ReadingSpec => []LoadAgrees
<1>1. ReadingInv => LoadAgrees BY ReadersAgree DEF ReadingInv
<1> QED BY <1>1, ReadingInvariant, PTL

(* A trajectory that the verifier passes yields a notice without the gaps    *)
(* the verifier asks about, in every table that the writers can make.        *)
THEOREM VerifiedYieldsNotice == ReadingSpec => []VerifiedIsNoticed
<1>1. ReadingInv => VerifiedIsNoticed BY NoticeFollows DEF ReadingInv
<1> QED BY <1>1, ReadingInvariant, PTL

=============================================================================
