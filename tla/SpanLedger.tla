----------------------------- MODULE SpanLedger -----------------------------
(***************************************************************************)
(* What ingest promises of the ledger's tables, whatever the order of the  *)
(* requests: an append-only table in which the first document of a key     *)
(* stays, and an answer for every document of a batch, given in one step   *)
(* with what it writes.  api/routes/ingest.py is shown to implement it in  *)
(* module Ingest.                                                          *)
(***************************************************************************)
EXTENDS FiniteSets

CONSTANTS
    Docs,      \* the raw documents the recorders may post
    Id,        \* (span_id, trajectory_id) of each
    RowKey,    \* (trajectory_id, span_id, start_time): the primary key
    Hash,      \* the canonical hash ingest computes, exact by assumption
    Parent,    \* (parent_span_id, trajectory_id) of each, or None
    ParentHash,\* provenance.parent_content_hash, which Hash does not cover
    Defect,    \* the reason to reject it that lies in the document alone
    None

\* Equal content is equal in all that is hashed.
ASSUME DocAssumption ==
    \A d, e \in Docs : Hash[d] = Hash[e] =>
        /\ Id[d] = Id[e]
        /\ RowKey[d] = RowKey[e]
        /\ Parent[d] = Parent[e]

ASSUME KeyAssumption == \A d, e \in Docs : RowKey[d] = RowKey[e] => Id[d] = Id[e]

StaticCodes == {"LE001", "LE002", "LE003", "LE006"}
Codes == StaticCodes \cup {"LE004", "LE005"}

ASSUME DefectAssumption == Defect \in [Docs -> StaticCodes \cup {None}] /\ None \notin StaticCodes

VARIABLES
    stored,      \* the rows of spans
    quarantined, \* the rows of quarantine: document and reason code
    answered     \* history: the sets of documents answered 202

ledgerVars == <<stored, quarantined, answered>>

StoredAs(id) == {s \in stored : Id[s] = id}

\* Why a document may be quarantined, given what is stored.
Justified(d, code) ==
    \/ code \in StaticCodes /\ Defect[d] = code
    \/ code = "LE004" /\ \E s \in StoredAs(Id[d]) : Hash[s] # Hash[d]
    \/ code = "LE005" /\ \E p \in StoredAs(Parent[d]) : Hash[p] # ParentHash[d]

\* One batch is answered in one step: the rows it adds are of sound documents
\* and of keys that were free, its new quarantine rows have a reason, and each
\* of its documents has a row, perhaps an earlier one of its key, or a
\* quarantine row.
Record(batch) ==
    /\ stored \subseteq stored'
    /\ stored' \ stored \subseteq batch
    /\ \A d \in stored' \ stored :
          /\ Defect[d] = None
          /\ \A s \in stored' : RowKey[s] = RowKey[d] => s = d
    /\ quarantined \subseteq quarantined'
    /\ \A q \in quarantined' \ quarantined :
          q[1] \in batch /\ Justified(q[1], q[2])
    /\ \A d \in batch : \/ \E s \in stored' : RowKey[s] = RowKey[d]
                        \/ \E q \in quarantined' : q[1] = d
    /\ answered' = answered \cup {batch}

LedgerInit == stored = {} /\ quarantined = {} /\ answered = {}

LedgerNext == \E batch \in SUBSET Docs : Record(batch)

LedgerSpec == LedgerInit /\ [][LedgerNext]_ledgerVars
=============================================================================
