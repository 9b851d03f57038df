------------------------------- MODULE Ingest -------------------------------
(***************************************************************************)
(* POST /spans of the ledger (api/routes/ingest.py with SpanRepo,          *)
(* QuarantineRepo and BatchRepo of storage/repository.py).  A request      *)
(* validates its documents one by one, reading what other requests have    *)
(* committed so far (read committed), collects those it accepts, and       *)
(* inserts them at the end in the transaction that also writes its         *)
(* quarantine rows and its ingest_batches row.  Recorders deliver at least *)
(* once, so that any batch may be posted again at any time, also while its *)
(* first request is still running.                                         *)
(***************************************************************************)
EXTENDS SpanLedger, Integers, Sequences

CONSTANTS
    Batches,   \* the batches that recorders post: sequences of documents
    Requests   \* requests that can be in progress at once

ASSUME BatchAssumption == Batches \subseteq Seq(Docs) /\ IsFiniteSet(Docs)

VARIABLES
    request,   \* each request in progress: its batch and how far it is
    counted,   \* the sum of ingest_batches.accepted
    unlinked   \* history: rows inserted without their parent link checked

vars == <<ledgerVars, request, counted, unlinked>>

\* step: "idle", "fetch" the document, fetch its "parent".
Fresh(step, batch) == [step |-> step, batch |-> batch, pos |-> 1, sink |-> <<>>,
                       rejected |-> {}, unseen |-> {}]
Idle == Fresh("idle", <<>>)

Progress ==
    [step : {"idle", "fetch", "parent"}, batch : Seq(Docs), pos : Nat \ {0},
     sink : Seq(Docs), rejected : SUBSET (Docs \X Codes), unseen : SUBSET Docs]

TypeOK ==
    /\ stored \in SUBSET Docs
    /\ quarantined \in SUBSET (Docs \X Codes)
    /\ answered \in SUBSET SUBSET Docs
    /\ request \in [Requests -> Progress]
    /\ \A r \in Requests : request[r].pos <= Len(request[r].batch) + 1
    /\ counted \in Nat
    /\ unlinked \in SUBSET Docs

Init ==
    /\ LedgerInit
    /\ request = [r \in Requests |-> Idle]
    /\ counted = 0
    /\ unlinked = {}

InBatch(b) == {b[i] : i \in 1..Len(b)}

Document(r) == request[r].batch[request[r].pos]

Pending(r) == request[r].pos <= Len(request[r].batch)

-----------------------------------------------------------------------------
Receive(r, b) ==
    /\ request[r] = Idle
    /\ request' = [request EXCEPT ![r] = Fresh("fetch", b)]
    /\ UNCHANGED <<ledgerVars, counted, unlinked>>

\* On to the next document, with this one in the sink, rejected, or neither.
Move(r, sink, rejected, unseen) ==
    /\ LET q == request[r] IN request' = [request EXCEPT ![r] =
          [step |-> "fetch", batch |-> q.batch, pos |-> q.pos + 1,
           sink |-> q.sink \o sink, rejected |-> q.rejected \cup rejected,
           unseen |-> q.unseen \cup unseen]]
    /\ UNCHANGED <<ledgerVars, counted, unlinked>>

\* Mutant: a rejection without its quarantine row.
RejectUnwritten(r, code) == Move(r, <<>>, {}, {})

Reject(r, code) == Move(r, <<>>, {<<Document(r), code>>}, {})
Accept(r, unseen) == Move(r, <<Document(r)>>, {}, unseen)

At(r, step) == request[r].step = step /\ Pending(r)

\* Checks 1 to 4: shape, tenant, schema version, content hash.
RejectDefect(r) ==
    /\ At(r, "fetch")
    /\ Defect[Document(r)] # None
    /\ Reject(r, Defect[Document(r)])

\* Check 5.  scalar_one_or_none() raises if two rows match: then see Fail.
Fetch(r) ==
    /\ At(r, "fetch")
    /\ Defect[Document(r)] = None
    /\ \/ /\ StoredAs(Id[Document(r)]) = {}
          /\ request' = [request EXCEPT ![r].step = "parent"]
          /\ UNCHANGED <<ledgerVars, counted, unlinked>>
       \/ \E s \in StoredAs(Id[Document(r)]) :
             /\ StoredAs(Id[Document(r)]) = {s}
             /\ IF Hash[s] = Hash[Document(r)]
                   THEN Move(r, <<>>, {}, {})
                   ELSE Reject(r, "LE004")

\* Mutant: a stored parent is enough, whatever its hash.
FetchParentLax(r) ==
    /\ At(r, "parent")
    /\ LET d == Document(r) IN
          Accept(r, IF Parent[d] # None /\ StoredAs(Parent[d]) = {} THEN {d} ELSE {})

\* Check 6, best effort: an absent parent is tolerated.
FetchParent(r) ==
    /\ At(r, "parent")
    /\ LET d == Document(r) IN
          IF Parent[d] = None THEN Accept(r, {})
          ELSE \/ StoredAs(Parent[d]) = {} /\ Accept(r, {d})
               \/ \E p \in StoredAs(Parent[d]) :
                     /\ StoredAs(Parent[d]) = {p}
                     /\ IF Hash[p] = ParentHash[d] THEN Accept(r, {}) ELSE Reject(r, "LE005")

\* Mutant: the conflict clause left out, every row of the sink counts.
InsertedAll(sink) == {sink[i] : i \in 1..Len(sink)}

\* INSERT ... ON CONFLICT DO NOTHING: the first of a key, in the table or in
\* the statement.
Inserted(sink) ==
    {sink[i] : i \in {j \in 1..Len(sink) :
                        /\ \A s \in stored : RowKey[s] # RowKey[sink[j]]
                        /\ \A k \in 1..(j - 1) : RowKey[sink[k]] # RowKey[sink[j]]}}

\* bulk_insert, the batch row and the quarantine rows, commit and 202.  A
\* request that inserts a key another one has inserted waits for its commit, so
\* the insertion counts at the commit.
Commit(r) ==
    /\ request[r].step = "fetch"
    /\ ~Pending(r)
    /\ LET S == Inserted(request[r].sink) IN
          /\ stored' = stored \cup S
          /\ counted' = counted + Cardinality(S)
          /\ unlinked' = unlinked \cup (S \cap request[r].unseen)
    /\ quarantined' = quarantined \cup request[r].rejected
    /\ answered' = answered \cup {InBatch(request[r].batch)}
    /\ request' = [request EXCEPT ![r] = Idle]

\* The session is closed without a commit: two rows for one span, a deadlock of
\* two multi-row inserts, no partition for a start_time, a dead process.  The
\* recorder gets a 5xx or nothing, and retries.
Fail(r) ==
    /\ request[r] # Idle
    /\ request' = [request EXCEPT ![r] = Idle]
    /\ UNCHANGED <<ledgerVars, counted, unlinked>>

Step(r) ==
    \/ \E b \in Batches : Receive(r, b)
    \/ RejectDefect(r) \/ Fetch(r) \/ FetchParent(r) \/ Commit(r) \/ Fail(r)

Next == \E r \in Requests : Step(r)

Spec == Init /\ [][Next]_vars

-----------------------------------------------------------------------------
\* Requests that race, repeat and fail leave the tables as one that takes whole
\* batches one after the other would: the first document of a key stays, nothing
\* is quarantined without a reason that holds in the table, and a batch is
\* answered only in the step that gives each of its documents a row, its own or
\* an earlier one of that key, or a quarantine row (ingest.py:95-119,
\* repository.py:419-443).
Contract == LedgerSpec

\* The accepted counts of the batch rows add up to the rows of the table, however
\* often a batch was posted and whichever request won a race (ingest.py:108-118).
AcceptedAddsUp == counted = Cardinality(stored)

\* A stored span whose link was checked has a stored parent with the hash that
\* it names, although the parent was read in an earlier step and the rows of the
\* same batch were not seen (ingest.py:239-256).
CheckedLinksHold ==
    \A d \in stored \ unlinked : Parent[d] # None =>
        \E p \in stored : Id[p] = Parent[d] /\ Hash[p] = ParentHash[d]

-----------------------------------------------------------------------------
(* What the documentation says, and the code does not do. *)

\* ingest.py:3-4 "Every reject is quarantined (not silently dropped)": a document
\* of an answered batch is in the table, content and all, or in quarantine.
NothingSilentlyDropped ==
    \A batch \in answered : \A d \in batch :
        \/ \E s \in stored : Hash[s] = Hash[d]
        \/ \E q \in quarantined : q[1] = d
=============================================================================
