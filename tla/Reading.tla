------------------------------- MODULE Reading -------------------------------
(***************************************************************************)
(* The read side of the ledger against its writers, and the report client  *)
(* that pages through it.  A request is one transaction at READ COMMITTED: *)
(* each statement sees what was committed when it starts, so a list that   *)
(* takes several requests, and statistics that take several statements,    *)
(* see a table that changes under them.  The access_log row that each       *)
(* answer commits is left out: nothing here reads it, so that the readers  *)
(* share nothing, and one is followed at a time.                           *)
(***************************************************************************)
EXTENDS Reports

CONSTANTS
  Trajectories, TrajRank, \* the trajectory ids and their order
  From, To,               \* the reporting period, and the window of /stats
  PageLimit,              \* limit of GET /trajectories
  Expiring,               \* the documents whose retention has run out
  Alterable,              \* bound: the documents that may be altered in storage
  Worlds                  \* bound: what recorders post and readers ask for

ASSUME ReadingAssumption ==
  /\ Traj \in [Spans -> Trajectories]
  /\ TrajRank \in [Trajectories -> Int]
  /\ \A t, u \in Trajectories : TrajRank[t] = TrajRank[u] => t = u
  /\ PageLimit \in Nat \ {0}
  /\ From \in Int /\ To \in Int /\ From <= To
  /\ None \notin [time : Int, traj : Trajectories]
  /\ \A w \in Worlds : /\ w.posted \subseteq Spans
                        /\ \A r \in w.requests : r.kind \in {"list", "stats"}

VARIABLES world, rows, altered, reader

readingVars == <<world, rows, altered, reader>>

Ended == {"reported", "failed", "answered"}

\* History fields: the trajectories whose first start, among the rows that the
\* read looks at, moved earlier or moved later (or that came), those that went,
\* and those with any change, during the read.
Idle ==
  [pc |-> "idle", scope |-> None, tenant |-> None,
   cursor |-> None, ids |-> <<>>, corpus |-> <<>>,
   current |-> {}, violating |-> {}, scoped |-> {}, passing |-> {}, previous |-> {},
   earlier |-> {}, later |-> {}, gone |-> {}, touched |-> {}]

ReadingInit ==
  /\ world \in Worlds
  /\ rows = {}
  /\ altered = {}
  /\ reader = Idle

RowsOf(table, t) == {s \in table : Traj[s] = t}
InScope(table) == {s \in table : reader.scope = None \/ Tenant[s] = reader.scope}
FirstStart(S) == Start[Earliest(S)]
Present(S) == {Traj[s] : s \in S}

\* Spans are filtered by their own start time, both bounds included.
InPeriod(S) == {s \in S : From <= Start[s] /\ Start[s] <= To}

\* The rows that the read looks at.
Looked(table) == IF reader.pc \in {"list", "load"} THEN InPeriod(InScope(table)) ELSE InScope(table)

-----------------------------------------------------------------------------
(* The writers. *)

\* What a write does to the histories of the read that is going on; after its
\* end, the answer is a thing of the past.
Observed(new) ==
  LET at(table, t) == RowsOf(Looked(table), t)
      before == {t \in Trajectories : at(rows, t) # {}}
      after == {t \in Trajectories : at(new, t) # {}}
      start(table, t) == FirstStart(at(table, t))
  IN IF reader.pc \in Ended \cup {"idle"} THEN Idle
     ELSE [reader EXCEPT
       !.earlier = @ \cup {t \in before \cap after : start(new, t) < start(rows, t)},
       !.later = IF reader.pc \in {"list", "load"}
                 THEN @ \cup (after \ before)
                        \cup {t \in before \cap after : start(new, t) > start(rows, t)}
                 ELSE @,
       !.gone = @ \cup (before \ after),
       !.touched = @ \cup {t \in Trajectories : RowsOf(rows, t) # RowsOf(new, t)}]

\* POST /spans commits a batch of one document; two requests that race may
\* store two of one span_id (see module Ingest).
Store(s) ==
  /\ s \in world.posted \ rows
  /\ rows' = rows \cup {s}
  /\ reader' = Observed(rows')
  /\ UNCHANGED <<world, altered>>

\* A retention pass commits what it deleted (see module Retention).
Expire ==
  \E purged \in SUBSET (rows \cap Expiring) \ {{}} :
    /\ rows' = rows \ purged
    /\ altered' = altered \ purged
    /\ reader' = Observed(rows')
    /\ UNCHANGED world

\* The bytes of a stored body change: what the tamper check is there for.
Alter(s) ==
  /\ s \in (rows \cap Alterable) \ altered
  /\ altered' = altered \cup {s}
  /\ UNCHANGED <<world, rows, reader>>

-----------------------------------------------------------------------------
(* load_corpus_from_ledger and the inventory made of it.  scope is the       *)
(* token's customer, None for an admin; tenant is the filter of the report. *)

KeyOf(S, t) == [time |-> FirstStart(RowsOf(S, t)), traj |-> t]
Keys(S) == {KeyOf(S, t) : t \in Present(S)}

\* The order of the pages: by the first start, and the trajectory id.
Below(k, c) ==
  \/ k.time < c.time
  \/ k.time = c.time /\ TrajRank[k.traj] < TrajRank[c.traj]

\* Mutant: ties of the start time are not told apart.
AfterByTime(keys, cursor) == {k \in keys : cursor = None \/ k.time < cursor.time}

\* A page continues strictly below its cursor.
After(keys, cursor) == {k \in keys : cursor = None \/ Below(k, cursor)}

\* The rows of one page: ordered by (first_start, trajectory_id), descending,
\* so that each row has as many rows above it as precede it.
Ahead(k, open) == Cardinality({j \in open : Below(k, j)})
Top(open) == {k \in open : Ahead(k, open) < PageLimit}
Page(open) ==
  [i \in 1..Cardinality(Top(open)) |-> CHOOSE k \in open : Ahead(k, open) = i - 1]

Request(r) ==
  /\ reader.pc = "idle"
  /\ r \in world.requests
  /\ reader' = [Idle EXCEPT !.pc = r.kind, !.scope = r.scope, !.tenant = r.tenant]
  /\ UNCHANGED <<world, rows, altered>>

\* GET /trajectories: only a full page has a next cursor.
ListPage ==
  /\ reader.pc = "list"
  /\ LET page == Page(After(Keys(InPeriod(InScope(rows))), reader.cursor))
         full == Len(page) = PageLimit
     IN reader' = [reader EXCEPT
          !.ids = @ \o [i \in DOMAIN page |-> page[i].traj],
          !.cursor = IF full THEN page[Len(page)] ELSE None,
          !.pc = IF full THEN "list" ELSE "load"]
  /\ UNCHANGED <<world, rows, altered>>

Calls(S) == OfKind(InPeriod(S), "model_call")

\* GET /trajectories/{id}/spans, and from_spans: any error ends the report.
LoadNext ==
  /\ reader.pc = "load"
  /\ Len(reader.corpus) < Len(reader.ids)
  /\ LET t == reader.ids[Len(reader.corpus) + 1]
         S == RowsOf(rows, t)
         found == S # {} /\ (reader.scope = None \/ Tenant[Earliest(S)] = reader.scope)
     IN reader' = [reader EXCEPT
          !.pc = IF found /\ Loads(S, altered) THEN "load" ELSE "failed",
          !.corpus = IF found /\ Loads(S, altered)
                     THEN Append(@, [traj |-> t, calls |-> Calls(S)]) ELSE @]
  /\ UNCHANGED <<world, rows, altered>>

\* extract_model_inventory over the corpus.
Extract ==
  /\ reader.pc = "load"
  /\ Len(reader.corpus) = Len(reader.ids)
  /\ reader' = [reader EXCEPT !.pc =
       IF Refusal(reader.corpus, reader.tenant) = None THEN "reported" ELSE "failed"]
  /\ UNCHANGED <<world, rows, altered>>

-----------------------------------------------------------------------------
(* GET /stats with a window: a statement a step.  The dashboard takes the    *)
(* trajectories by when they began, the end excluded.  The plain counts and  *)
(* the coverage by regime are further statements of the same shape.          *)

\* Mutant: the end of the window is included.
BeganUpTo(S, a, b) ==
  {t \in Present(S) : a <= FirstStart(RowsOf(S, t)) /\ FirstStart(RowsOf(S, t)) <= b}

Began(S, a, b) ==
  {t \in Present(S) : a <= FirstStart(RowsOf(S, t)) /\ FirstStart(RowsOf(S, t)) < b}
Base(a, b) == {s \in InScope(rows) : Traj[s] \in Began(InScope(rows), a, b)}
Having(S, sought) == {Traj[s] : s \in S \cap sought}

Disposition(S) ==
  LET results == {Body[s].result : s \in OfKind(S, "policy_check")}
  IN IF "fail" \in results THEN "violation"
     ELSE IF "warn" \in results THEN "warn" ELSE "clean"

Statement(from, to, updated) ==
  /\ reader.pc = from
  /\ reader' = [updated EXCEPT !.pc = to]
  /\ UNCHANGED <<world, rows, altered>>

Dispositions == Statement("stats", "total",
  [reader EXCEPT !.current = Began(InScope(rows), From, To),
                 !.violating = {t \in Began(InScope(rows), From, To) :
                                  Disposition(RowsOf(InScope(rows), t)) = "violation"}])

\* The control "Human review present": in scope by regime, passing by a span.
Scoped == {s \in Spans : "ECOA" \in Body[s].regimes}
Reviews == {s \in Spans : Body[s].kind = "human_approval"}

ControlTotal == Statement("total", "passing",
  [reader EXCEPT !.scoped = Having(Base(From, To), Scoped)])

ControlPassing == Statement("passing", "previous",
  [reader EXCEPT !.passing = Having(Base(From, To), Scoped) \cap Having(Base(From, To), Reviews)])

\* The window of the same length before this one; then the answer.
Previous == Statement("previous", "answered",
  [reader EXCEPT !.previous = Began(InScope(rows), From - (To - From), From)])

-----------------------------------------------------------------------------
Rest ==
  /\ reader.pc \in Ended
  /\ reader' = Idle
  /\ UNCHANGED <<world, rows, altered>>

Read == ListPage \/ LoadNext \/ Extract \/ Dispositions
        \/ ControlTotal \/ ControlPassing \/ Previous

ReadingNext ==
  \/ \E s \in Spans : Store(s) \/ Alter(s)
  \/ Expire
  \/ \E w \in world.requests : Request(w)
  \/ Read
  \/ Rest

ReadingSpec == ReadingInit /\ [][ReadingNext]_readingVars

-----------------------------------------------------------------------------
(* Properties. *)

Times(t) == Cardinality({i \in DOMAIN reader.ids : reader.ids[i] = t})
Listing == reader.pc \in {"load", "reported"}

\* Paging: a listing that ran to its end names every trajectory that was in
\* the period from its beginning to now and did not come to start later, and
\* it names one twice only if its first start moved to an earlier time behind
\* the cursor, as the late root span of a trajectory makes it do, or if it was
\* deleted and came again.
ListedOnce ==
  Listing => \A t \in Trajectories :
    /\ t \in Present(InPeriod(InScope(rows))) /\ t \notin reader.later => Times(t) >= 1
    /\ Times(t) > 1 => t \in reader.earlier \cup reader.gone

\* Inventory: each model call of the period, in the tenant's scope and in a
\* trajectory nothing was written to while the report was made, is counted in
\* the row of its model, exactly once, whatever was written to the others.
CountedOnce ==
  reader.pc = "reported" =>
    LET inv == Inventory(reader.corpus, reader.tenant)
    IN \A s \in Calls(InScope(rows)) :
         /\ Traj[s] \notin reader.touched
         /\ reader.tenant \in {None, Tenant[s]}
         => \E m \in DOMAIN inv :
              /\ Cardinality({u \in inv[m].uses : u.span = s}) = 1
              /\ \A n \in DOMAIN inv \ {m} : \A u \in inv[n].uses : u.span # s

\* Statistics: although each figure is of another statement, a trajectory is
\* in this window and in the one before only if it moved to an earlier start
\* in between, or was deleted and came again, passes a control it is not in scope of only if it was written
\* to, and is counted where it began if it was not.
StatsAgree ==
  reader.pc = "answered" =>
    /\ reader.current \cap reader.previous \subseteq reader.earlier \cup reader.gone
    /\ reader.passing \ reader.scoped \subseteq reader.touched
    /\ \A t \in Present(InScope(rows)) \ reader.touched :
         LET mine == RowsOf(InScope(rows), t)
             began == FirstStart(mine)
         IN /\ t \in reader.current <=> began >= From /\ began < To
            /\ t \in reader.previous <=> began < From /\ 2 * From <= began + To
            /\ t \in reader.violating <=>
                 t \in reader.current /\ \E s \in mine :
                   Body[s].kind = "policy_check" /\ Body[s].result = "fail"

\* One notion of a well-formed trajectory: the reporter loads exactly what the
\* verifier script finds no fault of form or chain in, and what the two routes
\* of the ledger and the manifest call verified, given that it has one root,
\* no span twice and no altered row.
LoadAgrees ==
  \A t \in Present(rows) :
    LET S == RowsOf(rows, t)
        whole == /\ Cardinality(Roots(S)) = 1
                 /\ Cardinality(Ids(S)) = Cardinality(S)
    IN
      /\ Loads(S, altered) <=> FormFaults(S, altered) = {}
      /\ Loads(S, altered) <=> whole /\ Reverified(S, altered)
      /\ Loads(S, altered) <=> whole /\ ChainStatus(S) = "verified" /\ S \cap altered = {}
      /\ Loads(S, altered) <=> whole /\ ChainVerified(S, altered) /\ BadRoots(S) = {}

\* The verifier and the notice: a trajectory under ECOA that the verifier
\* passes, and that holds a decision and reason codes, yields a notice whose
\* only gaps are those the verifier does not ask for.
VerifiedIsNoticed ==
  \A t \in Present(rows) :
    LET S == RowsOf(rows, t)
    IN /\ Reasons(S) # {}
       /\ Declares(S, "ECOA")
       /\ VerifierOK(S, altered)
       /\ Decides(S) # {}
       => /\ Issued(S)
          /\ Gaps(S) \subseteq {"human_review", "protected_class_check"}
          /\ NotedGaps(S) \subseteq {"principal_reasons"}

-----------------------------------------------------------------------------
(* What the comments say, and the code does not do. *)

\* The registry join tries every card a model was used under before it falls
\* back on the model's identity: an entry for one of the cards, if there is
\* one, governs the row.
CardBeforeIdentity ==
  reader.pc = "reported" =>
    LET inv == Inventory(reader.corpus, reader.tenant)
        hasCard(m) == {i \in DOMAIN Registry : Registry[i].card \in inv[m].cards}
    IN \A m \in DOMAIN inv : hasCard(m) # {} => inv[m].entry \in hasCard(m)
=============================================================================
