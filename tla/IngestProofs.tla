---------------------------- MODULE IngestProofs ----------------------------
(***************************************************************************)
(* Theorems about ingest, for every set of documents with an exact hash,   *)
(* every set of batches and every number of concurrent requests: the main  *)
(* one is that Ingest implements SpanLedger.                               *)
(***************************************************************************)
EXTENDS Ingest, FiniteSetTheorems, WellFoundedInduction, TLAPS

-----------------------------------------------------------------------------
(* The first row of a key in a statement *)

Less == {p \in Nat \X Nat : p[1] < p[2]}

(* There is no infinite descent in the natural numbers.                      *)
LEMMA LessWellFounded == IsWellFoundedOn(Less, Nat)
<1>1. Less = OpToRel(<, Nat)
  BY DEF Less, OpToRel
<1> QED BY <1>1, NatLessThanWellFounded

(* A set of natural numbers that is not empty has a least element.           *)
LEMMA LeastElement ==
    ASSUME NEW T \in SUBSET Nat, T # {}
    PROVE  \E m \in T : \A n \in T : m <= n
<1>1. \E m \in T : \A n \in T : <<n, m>> \notin Less
  BY LessWellFounded, WFMin
<1>2. PICK m \in T : \A n \in T : <<n, m>> \notin Less
  BY <1>1
<1>3. ASSUME NEW n \in T
      PROVE  m <= n
  <2>1. <<n, m>> \notin Less /\ n \in Nat /\ m \in Nat
    BY <1>2
  <2>2. ~(n < m)
    BY <2>1 DEF Less
  <2> QED BY <2>1, <2>2
<1> QED BY <1>3

(* Every document of the sink finds a row of its key after the insertion:    *)
(* one that was there, or the first of that key in the sink.                 *)
LEMMA SinkHasRows ==
    ASSUME NEW sink \in Seq(Docs), NEW i \in 1..Len(sink)
    PROVE  \E s \in stored \cup Inserted(sink) : RowKey[s] = RowKey[sink[i]]
<1> DEFINE Same == {j \in 1..Len(sink) : RowKey[sink[j]] = RowKey[sink[i]]}
<1>1. CASE \E s \in stored : RowKey[s] = RowKey[sink[i]]
  BY <1>1
<1>2. CASE ~ \E s \in stored : RowKey[s] = RowKey[sink[i]]
  <2>1. Same \in SUBSET Nat /\ i \in Same
    OBVIOUS
  <2>2. PICK m \in Same : \A n \in Same : m <= n
    BY <2>1, LeastElement
  <2>3. \A k \in 1..(m - 1) : RowKey[sink[k]] # RowKey[sink[m]]
    BY <2>2
  <2>4. sink[m] \in Inserted(sink)
    BY <1>2, <2>2, <2>3 DEF Inserted
  <2> QED BY <2>2, <2>4
<1> QED BY <1>1, <1>2

(* What is inserted has free keys, and one row for each.                     *)
LEMMA InsertedIsFree ==
    ASSUME NEW sink \in Seq(Docs)
    PROVE  /\ Inserted(sink) \subseteq {sink[i] : i \in 1..Len(sink)}
           /\ \A d \in Inserted(sink) : \A s \in stored : RowKey[s] # RowKey[d]
           /\ \A d, e \in Inserted(sink) : RowKey[d] = RowKey[e] => d = e
<1>1. ASSUME NEW d \in Inserted(sink), NEW e \in Inserted(sink),
             RowKey[d] = RowKey[e]
      PROVE  d = e
  <2>1. PICK i \in 1..Len(sink) : /\ d = sink[i]
                                  /\ \A k \in 1..(i - 1) : RowKey[sink[k]] # RowKey[d]
    BY DEF Inserted
  <2>2. PICK j \in 1..Len(sink) : /\ e = sink[j]
                                  /\ \A k \in 1..(j - 1) : RowKey[sink[k]] # RowKey[e]
    BY DEF Inserted
  <2>3. ~(i < j) /\ ~(j < i)
    BY <1>1, <2>1, <2>2
  <2> QED BY <2>1, <2>2, <2>3
<1> QED BY <1>1 DEF Inserted

(* The empty sequence is one of documents.                                   *)
LEMMA EmptySeq == <<>> \in Seq(Docs) /\ Len(<<>>) = 0
OBVIOUS

(* A request that has just begun.                                            *)
LEMMA FreshRequest ==
    ASSUME NEW step \in {"idle", "fetch"}, NEW b \in Seq(Docs)
    PROVE  /\ Fresh(step, b) \in Progress
           /\ Fresh(step, b).step # "parent" /\ Fresh(step, b).pos = 1
           /\ Fresh(step, b).sink = <<>> /\ Fresh(step, b).rejected = {}
<1>1. Fresh(step, b) \in Progress
  BY EmptySeq DEF Fresh, Progress
<1> QED BY <1>1 DEF Fresh

-----------------------------------------------------------------------------
(* The inductive invariant *)

\* What a request has found out about the documents before pos stays true while
\* others commit, because rows are only added: those in the sink are sound, those
\* rejected have a reason, and every other one has a row.
SoundRequest(q) ==
    /\ \A i \in 1..Len(q.sink) :
          /\ q.sink[i] \in InBatch(q.batch)
          /\ Defect[q.sink[i]] = None
          /\ \/ q.sink[i] \in q.unseen
             \/ Parent[q.sink[i]] = None
             \/ \E p \in stored : /\ Id[p] = Parent[q.sink[i]]
                                  /\ Hash[p] = ParentHash[q.sink[i]]
    /\ \A x \in q.rejected : x[1] \in InBatch(q.batch) /\ Justified(x[1], x[2])
    /\ \A i \in 1..(q.pos - 1) :
          \/ \E s \in stored : RowKey[s] = RowKey[q.batch[i]]
          \/ \E x \in q.rejected : x[1] = q.batch[i]
          \/ \E j \in 1..Len(q.sink) : q.sink[j] = q.batch[i]
    /\ q.step = "parent" => /\ q.pos <= Len(q.batch)
                            /\ Defect[q.batch[q.pos]] = None

RequestsSound == \A r \in Requests : SoundRequest(request[r])

IngestInv ==
    /\ TypeOK
    /\ RequestsSound
    /\ AcceptedAddsUp
    /\ CheckedLinksHold

(* A request that is replaced by one that is sound of the same tables.       *)
LEMMA SoundReplaced ==
    ASSUME NEW u \in Requests, NEW m, SoundRequest(m),
           request'[u] = m, stored' = stored
    PROVE  SoundRequest(request[u])'
BY DEF SoundRequest, Justified, StoredAs

(* Rows are only added, so that what a request found out stays true.         *)
LEMMA SoundStaysSound ==
    ASSUME NEW u \in Requests, SoundRequest(request[u]),
           request'[u] = request[u], stored \subseteq stored'
    PROVE  SoundRequest(request[u])'
<1> DEFINE q == request[u]
<1>1. \A i \in 1..Len(q.sink) :
         /\ q.sink[i] \in InBatch(q.batch)
         /\ Defect[q.sink[i]] = None
         /\ \/ q.sink[i] \in q.unseen
            \/ Parent[q.sink[i]] = None
            \/ \E p \in stored' : /\ Id[p] = Parent[q.sink[i]]
                                  /\ Hash[p] = ParentHash[q.sink[i]]
  BY DEF SoundRequest
<1>2. \A x \in q.rejected : x[1] \in InBatch(q.batch) /\ Justified(x[1], x[2])'
  BY DEF SoundRequest, Justified, StoredAs
<1>3. \A i \in 1..(q.pos - 1) :
         \/ \E s \in stored' : RowKey[s] = RowKey[q.batch[i]]
         \/ \E x \in q.rejected : x[1] = q.batch[i]
         \/ \E j \in 1..Len(q.sink) : q.sink[j] = q.batch[i]
  BY DEF SoundRequest
<1>4. q.step = "parent" => q.pos <= Len(q.batch) /\ Defect[q.batch[q.pos]] = None
  BY DEF SoundRequest
<1> QED BY <1>1, <1>2, <1>3, <1>4 DEF SoundRequest, Justified, StoredAs

(* Initially nothing is stored and no request is in progress.                *)
LEMMA InvInit ==
    ASSUME Init
    PROVE  IngestInv
<1>1. TypeOK
  <2>1. Idle \in Progress
    BY FreshRequest, EmptySeq DEF Idle
  <2>2. Idle.pos <= Len(Idle.batch) + 1
    BY EmptySeq DEF Idle, Fresh
  <2> QED BY <2>1, <2>2 DEF Init, LedgerInit, TypeOK
<1>2. RequestsSound
  BY DEF Init, RequestsSound, SoundRequest, Idle, Fresh, InBatch
<1>3. AcceptedAddsUp /\ CheckedLinksHold
  BY FS_EmptySet DEF Init, LedgerInit, AcceptedAddsUp, CheckedLinksHold
<1> QED BY <1>1, <1>2, <1>3 DEF IngestInv

(* A request that begins or gives up leaves the tables alone.                *)
LEMMA ReceiveFailKeepInv ==
    ASSUME IngestInv, NEW r \in Requests,
           \/ Fail(r)
           \/ \E b \in Batches : Receive(r, b)
    PROVE  IngestInv'
<1>1. UNCHANGED <<ledgerVars, counted, unlinked>>
  BY DEF Fail, Receive
<1>2. PICK n \in Progress :
         /\ request' = [request EXCEPT ![r] = n]
         /\ n.step # "parent" /\ n.pos = 1 /\ n.sink = <<>> /\ n.rejected = {}
  <2>1. CASE Fail(r)
    BY <2>1, FreshRequest, EmptySeq DEF Fail, Idle
  <2>2. CASE \E b \in Batches : Receive(r, b)
    BY <2>2, FreshRequest, BatchAssumption DEF Receive
  <2> QED BY <2>1, <2>2
<1>3. TypeOK'
  <2>1. n.pos <= Len(n.batch) + 1
    BY <1>2 DEF Progress
  <2> QED BY <1>1, <1>2, <2>1 DEF IngestInv, TypeOK, ledgerVars
<1>4. RequestsSound'
  <2> SUFFICES ASSUME NEW u \in Requests
               PROVE  SoundRequest(request[u])'
    BY DEF RequestsSound
  <2>1. CASE u = r
    <3>1. request'[u] = n
      BY <1>2, <2>1 DEF IngestInv, TypeOK
    <3> QED BY <1>2, <3>1 DEF SoundRequest
  <2>2. CASE u # r
    <3>1. request'[u] = request[u] /\ stored' = stored
      BY <1>1, <1>2, <2>2 DEF IngestInv, TypeOK, ledgerVars
    <3>2. SoundRequest(request[u])
      BY DEF IngestInv, RequestsSound
    <3> QED BY <3>1, <3>2, SoundStaysSound
  <2> QED BY <2>1, <2>2
<1> QED BY <1>1, <1>3, <1>4
        DEF IngestInv, AcceptedAddsUp, CheckedLinksHold, ledgerVars

(* Moving on keeps the invariant if the document has a row, a reason to be   *)
(* rejected, or a place in the sink, with its link checked or known not to   *)
(* be.                                                                       *)
LEMMA MoveKeepsInv ==
    ASSUME IngestInv, NEW r \in Requests, Pending(r),
           NEW sink \in Seq(Docs), NEW rejected \in SUBSET (Docs \X Codes),
           NEW unseen \in SUBSET Docs,
           Move(r, sink, rejected, unseen),
           \A i \in 1..Len(sink) :
              /\ sink[i] = Document(r)
              /\ Defect[sink[i]] = None
              /\ \/ sink[i] \in unseen
                 \/ Parent[sink[i]] = None
                 \/ \E p \in stored : /\ Id[p] = Parent[sink[i]]
                                      /\ Hash[p] = ParentHash[sink[i]],
           \A x \in rejected : x[1] = Document(r) /\ Justified(x[1], x[2]),
           \/ \E s \in stored : RowKey[s] = RowKey[Document(r)]
           \/ \E x \in rejected : x[1] = Document(r)
           \/ \E j \in 1..Len(sink) : sink[j] = Document(r)
    PROVE  IngestInv'
<1> DEFINE q == request[r]
           n == [step |-> "fetch", batch |-> q.batch, pos |-> q.pos + 1,
                 sink |-> q.sink \o sink, rejected |-> q.rejected \cup rejected,
                 unseen |-> q.unseen \cup unseen]
<1>1. /\ UNCHANGED <<ledgerVars, counted, unlinked>>
      /\ request' = [request EXCEPT ![r] = n]
  BY DEF Move
<1>2. /\ q \in Progress
      /\ q.batch \in Seq(Docs) /\ q.sink \in Seq(Docs)
      /\ q.pos \in Nat /\ q.pos \in 1..Len(q.batch)
      /\ SoundRequest(q)
  <2>1. q \in Progress
    BY DEF IngestInv, TypeOK
  <2>2. q.batch \in Seq(Docs) /\ q.sink \in Seq(Docs) /\ q.pos \in Nat \ {0}
    BY <2>1 DEF Progress
  <2>3. q.pos <= Len(q.batch)
    BY DEF Pending
  <2>4. q.pos \in 1..Len(q.batch)
    BY <2>2, <2>3
  <2>5. SoundRequest(q)
    BY DEF IngestInv, RequestsSound
  <2> QED BY <2>1, <2>2, <2>4, <2>5
<1>3. /\ n.step = "fetch" /\ n.batch = q.batch /\ n.pos = q.pos + 1
      /\ n.sink = q.sink \o sink
      /\ n.rejected = q.rejected \cup rejected
      /\ n.unseen = q.unseen \cup unseen
      /\ n \in Progress
  <2> HIDE DEF q
  <2>1. n \in Progress
    BY <1>2 DEF Progress
  <2> QED BY <2>1
<1>4. TypeOK'
  <2> HIDE DEF n
  <2>1. n.pos <= Len(n.batch) + 1
    BY <1>2, <1>3 DEF Progress
  <2> QED BY <1>1, <1>3, <2>1 DEF IngestInv, TypeOK, ledgerVars
<1>5. Document(r) \in InBatch(q.batch)
  BY <1>2 DEF Document, InBatch
<1> HIDE DEF q, n
<1>6. RequestsSound'
  <2> SUFFICES ASSUME NEW u \in Requests
               PROVE  SoundRequest(request[u])'
    BY DEF RequestsSound
  <2>1. CASE u = r
    <3>1. request'[u] = n /\ stored' = stored
      BY <1>1, <2>1 DEF IngestInv, TypeOK, ledgerVars
    <3>2. \A i \in 1..Len(n.sink) :
             \/ i \in 1..Len(q.sink) /\ n.sink[i] = q.sink[i]
             \/ \E k \in 1..Len(sink) : n.sink[i] = sink[k]
      <4> SUFFICES ASSUME NEW i \in 1..Len(n.sink)
                   PROVE  \/ i \in 1..Len(q.sink) /\ n.sink[i] = q.sink[i]
                          \/ \E k \in 1..Len(sink) : n.sink[i] = sink[k]
        OBVIOUS
      <4>1. CASE i <= Len(q.sink)
        BY <1>2, <1>3, <4>1
      <4>2. CASE i > Len(q.sink)
        <5>1. n.sink[i] = sink[i - Len(q.sink)] /\ i - Len(q.sink) \in 1..Len(sink)
          BY <1>2, <1>3, <4>2
        <5> QED BY <5>1
      <4> QED BY <1>2, <4>1, <4>2
    <3>3. /\ \A i \in 1..Len(q.sink) : \E k \in 1..Len(n.sink) : n.sink[k] = q.sink[i]
          /\ \A i \in 1..Len(sink) : \E k \in 1..Len(n.sink) : n.sink[k] = sink[i]
      <4>1. \A i \in 1..Len(q.sink) : i \in 1..Len(n.sink) /\ n.sink[i] = q.sink[i]
        BY <1>2, <1>3
      <4>2. \A i \in 1..Len(sink) : /\ Len(q.sink) + i \in 1..Len(n.sink)
                                    /\ n.sink[Len(q.sink) + i] = sink[i]
        BY <1>2, <1>3
      <4> QED BY <4>1, <4>2
    <3>4. \A i \in 1..Len(n.sink) :
             /\ n.sink[i] \in InBatch(n.batch)
             /\ Defect[n.sink[i]] = None
             /\ \/ n.sink[i] \in n.unseen
                \/ Parent[n.sink[i]] = None
                \/ \E p \in stored : /\ Id[p] = Parent[n.sink[i]]
                                     /\ Hash[p] = ParentHash[n.sink[i]]
      <4> SUFFICES ASSUME NEW i \in 1..Len(n.sink)
                   PROVE  /\ n.sink[i] \in InBatch(n.batch)
                          /\ Defect[n.sink[i]] = None
                          /\ \/ n.sink[i] \in n.unseen
                             \/ Parent[n.sink[i]] = None
                             \/ \E p \in stored : /\ Id[p] = Parent[n.sink[i]]
                                                  /\ Hash[p] = ParentHash[n.sink[i]]
        OBVIOUS
      <4>1. CASE i \in 1..Len(q.sink) /\ n.sink[i] = q.sink[i]
        <5>1. /\ q.sink[i] \in InBatch(q.batch)
              /\ Defect[q.sink[i]] = None
              /\ \/ q.sink[i] \in q.unseen
                 \/ Parent[q.sink[i]] = None
                 \/ \E p \in stored : /\ Id[p] = Parent[q.sink[i]]
                                      /\ Hash[p] = ParentHash[q.sink[i]]
          BY <1>2, <4>1 DEF SoundRequest
        <5> QED BY <1>3, <4>1, <5>1
      <4>2. CASE \E k \in 1..Len(sink) : n.sink[i] = sink[k]
        BY <1>3, <1>5, <4>2
      <4> QED BY <3>2, <4>1, <4>2
    <3>5. \A x \in n.rejected : x[1] \in InBatch(n.batch) /\ Justified(x[1], x[2])
      BY <1>2, <1>3, <1>5 DEF SoundRequest
    <3>6. \A i \in 1..(n.pos - 1) :
             \/ \E s \in stored : RowKey[s] = RowKey[n.batch[i]]
             \/ \E x \in n.rejected : x[1] = n.batch[i]
             \/ \E j \in 1..Len(n.sink) : n.sink[j] = n.batch[i]
      <4> SUFFICES ASSUME NEW i \in 1..(n.pos - 1)
                   PROVE  \/ \E s \in stored : RowKey[s] = RowKey[n.batch[i]]
                          \/ \E x \in n.rejected : x[1] = n.batch[i]
                          \/ \E j \in 1..Len(n.sink) : n.sink[j] = n.batch[i]
        OBVIOUS
      <4>1. CASE i = q.pos
        <5>1. n.batch[i] = Document(r)
          BY <1>3, <4>1 DEF Document, q
        <5>2. CASE \E s \in stored : RowKey[s] = RowKey[Document(r)]
          BY <5>1, <5>2
        <5>3. CASE \E x \in rejected : x[1] = Document(r)
          BY <1>3, <5>1, <5>3
        <5>4. CASE \E j \in 1..Len(sink) : sink[j] = Document(r)
          BY <3>3, <5>1, <5>4
        <5> QED BY <5>2, <5>3, <5>4
      <4>2. CASE i # q.pos
        <5>1. i \in 1..(q.pos - 1)
          BY <1>2, <1>3, <4>2
        <5>2. /\ n.batch[i] = q.batch[i]
              /\ \/ \E s \in stored : RowKey[s] = RowKey[q.batch[i]]
                 \/ \E x \in q.rejected : x[1] = q.batch[i]
                 \/ \E j \in 1..Len(q.sink) : q.sink[j] = q.batch[i]
          BY <1>2, <1>3, <5>1 DEF SoundRequest
        <5> QED BY <1>3, <3>3, <5>2
      <4> QED BY <4>1, <4>2
    <3>7. SoundRequest(n)
      BY <1>3, <3>4, <3>5, <3>6 DEF SoundRequest
    <3> QED BY <3>1, <3>7 DEF SoundRequest, Justified, StoredAs
  <2>2. CASE u # r
    <3>1. request'[u] = request[u] /\ stored' = stored
      BY <1>1, <2>2 DEF IngestInv, TypeOK, ledgerVars
    <3>2. SoundRequest(request[u])
      BY DEF IngestInv, RequestsSound
    <3> QED BY <3>1, <3>2, SoundStaysSound
  <2> QED BY <2>1, <2>2
<1> QED BY <1>1, <1>4, <1>6
        DEF IngestInv, AcceptedAddsUp, CheckedLinksHold, ledgerVars
(* The rows a commit adds are of documents of its batch, sound and with free *)
(* keys; the counter moves by their number.                                  *)
LEMMA CommitKeepsInv ==
    ASSUME IngestInv, NEW r \in Requests, Commit(r)
    PROVE  IngestInv'
<1> DEFINE q == request[r]
           S == Inserted(q.sink)
<1>1. /\ q \in Progress
      /\ q.batch \in Seq(Docs) /\ q.sink \in Seq(Docs)
      /\ q.rejected \in SUBSET (Docs \X Codes)
      /\ SoundRequest(q)
  <2>1. q \in Progress
    BY DEF IngestInv, TypeOK
  <2>2. SoundRequest(q)
    BY DEF IngestInv, RequestsSound
  <2> QED BY <2>1, <2>2 DEF Progress
<1>2. /\ stored' = stored \cup S
      /\ counted' = counted + Cardinality(S)
      /\ unlinked' = unlinked \cup (S \cap q.unseen)
      /\ quarantined' = quarantined \cup q.rejected
      /\ answered' = answered \cup {InBatch(q.batch)}
      /\ request' = [request EXCEPT ![r] = Idle]
  BY DEF Commit
<1>3. /\ S \subseteq {q.sink[i] : i \in 1..Len(q.sink)}
      /\ S \subseteq Docs
      /\ S \cap stored = {}
  <2>1. S \subseteq {q.sink[i] : i \in 1..Len(q.sink)}
        /\ \A d \in S : \A s \in stored : RowKey[s] # RowKey[d]
    BY <1>1, InsertedIsFree
  <2>2. \A i \in 1..Len(q.sink) : q.sink[i] \in Docs
    BY <1>1
  <2> HIDE DEF S, q
  <2> QED BY <2>1, <2>2
<1>4. InBatch(q.batch) \in SUBSET Docs
  BY <1>1 DEF InBatch
<1> HIDE DEF S, q
<1>5. IsFiniteSet(S) /\ IsFiniteSet(stored) /\ stored \subseteq Docs
  BY <1>3, BatchAssumption, FS_Subset DEF IngestInv, TypeOK
<1>6. Cardinality(S) \in Nat /\ Cardinality(stored \cup S) = Cardinality(stored) + Cardinality(S)
  <2>1. stored \cap S = {}
    BY <1>3
  <2>2. Cardinality(stored \cup S) = Cardinality(stored) + Cardinality(S) - Cardinality({})
    BY <1>5, <2>1, FS_Union
  <2> QED BY <1>5, <2>2, FS_EmptySet, FS_CardinalityType
<1>7. TypeOK'
  <2>1. Idle \in Progress /\ Idle.pos <= Len(Idle.batch) + 1
    <3>1. Idle \in Progress
      BY FreshRequest, EmptySeq DEF Idle
    <3>2. Idle.pos <= Len(Idle.batch) + 1
      BY EmptySeq DEF Idle, Fresh
    <3> QED BY <3>1, <3>2
  <2>2. request' \in [Requests -> Progress]
        /\ \A u \in Requests : request'[u].pos <= Len(request'[u].batch) + 1
    BY <1>2, <2>1 DEF IngestInv, TypeOK
  <2>3. stored' \in SUBSET Docs /\ unlinked' \in SUBSET Docs
    BY <1>2, <1>3, <1>5 DEF IngestInv, TypeOK
  <2>4. counted' \in Nat
    BY <1>2, <1>6 DEF IngestInv, TypeOK
  <2>5. quarantined' \in SUBSET (Docs \X Codes)
    BY <1>1, <1>2 DEF IngestInv, TypeOK
  <2>6. answered' \in SUBSET SUBSET Docs
    BY <1>2, <1>4 DEF IngestInv, TypeOK
  <2> QED BY <2>2, <2>3, <2>4, <2>5, <2>6 DEF TypeOK
<1>8. RequestsSound'
  <2> SUFFICES ASSUME NEW u \in Requests
               PROVE  SoundRequest(request[u])'
    BY DEF RequestsSound
  <2>1. CASE u = r
    <3>1. request'[u] = Idle
      BY <1>2, <2>1 DEF IngestInv, TypeOK
    <3>2. Idle.step # "parent" /\ Idle.pos = 1 /\ Idle.sink = <<>> /\ Idle.rejected = {}
      BY FreshRequest, EmptySeq DEF Idle
    <3> QED BY <3>1, <3>2 DEF SoundRequest
  <2>2. CASE u # r
    <3>1. request'[u] = request[u] /\ stored \subseteq stored'
      BY <1>2, <2>2 DEF IngestInv, TypeOK
    <3>2. SoundRequest(request[u])
      BY DEF IngestInv, RequestsSound
    <3> QED BY <3>1, <3>2, SoundStaysSound
  <2> QED BY <2>1, <2>2
<1>9. AcceptedAddsUp'
  BY <1>2, <1>6 DEF IngestInv, AcceptedAddsUp
<1>10. CheckedLinksHold'
  <2> SUFFICES ASSUME NEW d \in stored' \ unlinked', Parent[d] # None
               PROVE  \E p \in stored' : Id[p] = Parent[d] /\ Hash[p] = ParentHash[d]
    BY DEF CheckedLinksHold
  <2>1. CASE d \in stored
    BY <1>2, <2>1 DEF IngestInv, CheckedLinksHold
  <2>2. CASE d \in S /\ d \notin q.unseen
    BY <1>1, <1>2, <1>3, <2>2 DEF SoundRequest
  <2> QED BY <1>2, <2>1, <2>2
<1> QED BY <1>7, <1>8, <1>9, <1>10 DEF IngestInv

-----------------------------------------------------------------------------
(* The steps *)

(* The document that a request is at is one of its batch.                    *)
LEMMA DocumentOfBatch ==
    ASSUME IngestInv, NEW r \in Requests, Pending(r)
    PROVE  Document(r) \in Docs
<1>1. request[r] \in Progress
  BY DEF IngestInv, TypeOK
<1>2. request[r].batch \in Seq(Docs) /\ request[r].pos \in Nat \ {0}
  BY <1>1 DEF Progress
<1>3. request[r].pos \in 1..Len(request[r].batch)
  BY <1>2 DEF Pending
<1> QED BY <1>2, <1>3 DEF Document

(* The sequence of one document.                                             *)
LEMMA OneDocument ==
    ASSUME NEW d \in Docs
    PROVE  /\ <<d>> \in Seq(Docs) /\ Len(<<d>>) = 1
           /\ 1 \in 1..Len(<<d>>) /\ <<d>>[1] = d
           /\ \A i \in 1..Len(<<d>>) : <<d>>[i] = d
<1>1. <<d>> \in Seq(Docs) /\ Len(<<d>>) = 1 /\ <<d>>[1] = d
  OBVIOUS
<1> QED BY <1>1

(* A document with a row needs nothing more.                                 *)
LEMMA SkipKeepsInv ==
    ASSUME IngestInv, NEW r \in Requests, Pending(r), Move(r, <<>>, {}, {}),
           NEW s \in stored, RowKey[s] = RowKey[Document(r)]
    PROVE  IngestInv'
<1> DEFINE sink == <<>>
<1>1. sink \in Seq(Docs) /\ 1..Len(sink) = {}
  BY EmptySeq
<1>2. Move(r, sink, {}, {})
  OBVIOUS
<1> HIDE DEF sink
<1> QED BY <1>1, <1>2, MoveKeepsInv

(* A rejection with a reason.                                                *)
LEMMA RejectKeepsInv ==
    ASSUME IngestInv, NEW r \in Requests, Pending(r), Document(r) \in Docs,
           NEW code \in Codes, Reject(r, code), Justified(Document(r), code)
    PROVE  IngestInv'
<1> DEFINE sink == <<>>
           rejected == {<<Document(r), code>>}
<1>1. sink \in Seq(Docs) /\ 1..Len(sink) = {}
  BY EmptySeq
<1>2. Move(r, sink, rejected, {})
  BY DEF Reject
<1>3. rejected \in SUBSET (Docs \X Codes)
  OBVIOUS
<1>4. /\ \A x \in rejected : x[1] = Document(r) /\ Justified(x[1], x[2])
      /\ \E x \in rejected : x[1] = Document(r)
  OBVIOUS
<1> HIDE DEF sink, rejected
<1> QED BY <1>1, <1>2, <1>3, <1>4, MoveKeepsInv

(* An acceptance of a sound document, its link checked or noted as unseen.   *)
LEMMA AcceptKeepsInv ==
    ASSUME IngestInv, NEW r \in Requests, Pending(r), Document(r) \in Docs,
           NEW unseen \in SUBSET Docs, Accept(r, unseen),
           Defect[Document(r)] = None,
           \/ Document(r) \in unseen
           \/ Parent[Document(r)] = None
           \/ \E p \in stored : /\ Id[p] = Parent[Document(r)]
                                /\ Hash[p] = ParentHash[Document(r)]
    PROVE  IngestInv'
<1> DEFINE sink == <<Document(r)>>
<1>1. /\ sink \in Seq(Docs) /\ 1 \in 1..Len(sink)
      /\ sink[1] = Document(r)
      /\ \A i \in 1..Len(sink) : sink[i] = Document(r)
  BY OneDocument
<1>2. Move(r, sink, {}, unseen)
  BY DEF Accept
<1> HIDE DEF sink
<1>3. \A i \in 1..Len(sink) :
         /\ sink[i] = Document(r)
         /\ Defect[sink[i]] = None
         /\ \/ sink[i] \in unseen
            \/ Parent[sink[i]] = None
            \/ \E p \in stored : /\ Id[p] = Parent[sink[i]]
                                 /\ Hash[p] = ParentHash[sink[i]]
  BY <1>1
<1>4. \E j \in 1..Len(sink) : sink[j] = Document(r)
  BY <1>1
<1>5. \A x \in {} : x[1] = Document(r) /\ Justified(x[1], x[2])
  OBVIOUS
<1>6. {} \in SUBSET (Docs \X Codes)
  OBVIOUS
<1> QED BY <1>1, <1>2, <1>3, <1>4, <1>5, <1>6, MoveKeepsInv

(* Going on to the parent of a sound document keeps the invariant.           *)
LEMMA LookAtParentKeepsInv ==
    ASSUME IngestInv, NEW r \in Requests, Pending(r), Defect[Document(r)] = None,
           request' = [request EXCEPT ![r].step = "parent"],
           UNCHANGED <<ledgerVars, counted, unlinked>>
    PROVE  IngestInv'
<1> DEFINE q == request[r]
           n == [q EXCEPT !.step = "parent"]
<1>1. q \in Progress /\ SoundRequest(q) /\ q.pos <= Len(q.batch)
  BY DEF IngestInv, TypeOK, RequestsSound, Pending
<1>2. /\ n \in Progress
      /\ n.step = "parent" /\ n.batch = q.batch /\ n.pos = q.pos
      /\ n.sink = q.sink /\ n.rejected = q.rejected /\ n.unseen = q.unseen
  BY <1>1 DEF Progress
<1>3. request' = [request EXCEPT ![r] = n]
  OBVIOUS
<1> HIDE DEF n
<1>4. TypeOK'
  <2>1. request' \in [Requests -> Progress]
        /\ \A u \in Requests : request'[u].pos <= Len(request'[u].batch) + 1
    BY <1>2, <1>3 DEF IngestInv, TypeOK
  <2> QED BY <2>1 DEF IngestInv, TypeOK, ledgerVars
<1>5. RequestsSound'
  <2> SUFFICES ASSUME NEW u \in Requests
               PROVE  SoundRequest(request[u])'
    BY DEF RequestsSound
  <2>1. CASE u = r
    <3>1. request'[u] = n /\ stored' = stored
      BY <1>3, <2>1 DEF IngestInv, TypeOK, ledgerVars
    <3>2. Defect[q.batch[q.pos]] = None
      BY DEF Document
    <3> HIDE DEF q
    <3>3. SoundRequest(n)
      BY <1>1, <1>2, <3>2 DEF SoundRequest
    <3>4. PICK m : m = n
      OBVIOUS
    <3>5. request'[u] = m /\ stored' = stored /\ SoundRequest(m)
      BY <3>1, <3>3, <3>4
    <3> QED BY <3>5, SoundReplaced
  <2>2. CASE u # r
    <3>1. request'[u] = request[u] /\ stored' = stored
      BY <1>3, <2>2 DEF IngestInv, TypeOK, ledgerVars
    <3>2. SoundRequest(request[u])
      BY DEF IngestInv, RequestsSound
    <3> QED BY <3>1, <3>2, SoundStaysSound
  <2> QED BY <2>1, <2>2
<1> QED BY <1>4, <1>5
        DEF IngestInv, AcceptedAddsUp, CheckedLinksHold, ledgerVars

(* A step of a request receives a batch or fails, moves on with one document, *)
(* goes on to look at its parent, or commits.                                 *)
LEMMA StepKeepsInv ==
    ASSUME IngestInv, NEW r \in Requests, Step(r)
    PROVE  IngestInv'
<1> DEFINE d == Document(r)
<1>1. CASE \E b \in Batches : Receive(r, b)
  BY <1>1, ReceiveFailKeepInv
<1>2. CASE Fail(r)
  BY <1>2, ReceiveFailKeepInv
<1>3. CASE Commit(r)
  BY <1>3, CommitKeepsInv
<1>4. CASE RejectDefect(r)
  <2>1. Pending(r) /\ d \in Docs
    BY <1>4, DocumentOfBatch DEF RejectDefect, At
  <2>2. Defect[d] \in Codes /\ Justified(d, Defect[d])
    BY <1>4, <2>1, DefectAssumption DEF RejectDefect, Codes, Justified
  <2>3. Reject(r, Defect[d])
    BY <1>4 DEF RejectDefect
  <2> QED BY <2>1, <2>2, <2>3, RejectKeepsInv
<1>5. CASE Fetch(r)
  <2>1. Pending(r) /\ d \in Docs /\ Defect[d] = None
    BY <1>5, DocumentOfBatch DEF Fetch, At
  <2>2. CASE /\ request' = [request EXCEPT ![r].step = "parent"]
             /\ UNCHANGED <<ledgerVars, counted, unlinked>>
    BY <2>1, <2>2, LookAtParentKeepsInv
  <2>3. CASE \E s \in StoredAs(Id[d]) :
               /\ StoredAs(Id[d]) = {s}
               /\ IF Hash[s] = Hash[d] THEN Move(r, <<>>, {}, {}) ELSE Reject(r, "LE004")
    <3>1. PICK s \in StoredAs(Id[d]) :
             IF Hash[s] = Hash[d] THEN Move(r, <<>>, {}, {}) ELSE Reject(r, "LE004")
      BY <2>3
    <3>2. s \in stored /\ s \in Docs
      BY DEF StoredAs, IngestInv, TypeOK
    <3>3. CASE Hash[s] = Hash[d]
      <4>1. RowKey[s] = RowKey[d]
        BY <2>1, <3>2, <3>3, DocAssumption
      <4>2. Move(r, <<>>, {}, {})
        BY <3>1, <3>3
      <4> QED BY <2>1, <3>2, <4>1, <4>2, SkipKeepsInv
    <3>4. CASE Hash[s] # Hash[d]
      <4>1. Reject(r, "LE004")
        BY <3>1, <3>4
      <4>2. Justified(d, "LE004") /\ "LE004" \in Codes
        BY <3>4 DEF Justified, Codes
      <4> QED BY <2>1, <4>1, <4>2, RejectKeepsInv
    <3> QED BY <3>3, <3>4
  <2> QED BY <1>5, <2>2, <2>3 DEF Fetch
<1>6. CASE FetchParent(r)
  <2>1. Pending(r) /\ d \in Docs /\ Defect[d] = None
    <3>1. Pending(r) /\ d \in Docs
      BY <1>6, DocumentOfBatch DEF FetchParent, At
    <3>2. Defect[d] = None
      BY <1>6 DEF FetchParent, At, IngestInv, RequestsSound, SoundRequest, Document
    <3> QED BY <3>1, <3>2
  <2>2. CASE Parent[d] = None /\ Accept(r, {})
    BY <2>1, <2>2, AcceptKeepsInv
  <2>3. CASE Accept(r, {d})
    BY <2>1, <2>3, AcceptKeepsInv
  <2>4. CASE \E p \in StoredAs(Parent[d]) :
               IF Hash[p] = ParentHash[d] THEN Accept(r, {}) ELSE Reject(r, "LE005")
    <3>1. PICK p \in StoredAs(Parent[d]) :
             IF Hash[p] = ParentHash[d] THEN Accept(r, {}) ELSE Reject(r, "LE005")
      BY <2>4
    <3>2. p \in stored /\ Id[p] = Parent[d]
      BY DEF StoredAs
    <3>3. CASE Hash[p] = ParentHash[d]
      <4>1. Accept(r, {})
        BY <3>1, <3>3
      <4> QED BY <2>1, <3>2, <3>3, <4>1, AcceptKeepsInv
    <3>4. CASE Hash[p] # ParentHash[d]
      <4>1. Reject(r, "LE005")
        BY <3>1, <3>4
      <4>2. Justified(d, "LE005") /\ "LE005" \in Codes
        BY <3>4 DEF Justified, Codes
      <4> QED BY <2>1, <4>1, <4>2, RejectKeepsInv
    <3> QED BY <3>3, <3>4
  <2> QED BY <1>6, <2>2, <2>3, <2>4 DEF FetchParent
<1> QED BY <1>1, <1>2, <1>3, <1>4, <1>5, <1>6 DEF Step

-----------------------------------------------------------------------------
(* The theorems *)

(* The inductive invariant holds in every reachable state.                   *)
THEOREM Inductive == Spec => []IngestInv
<1>1. Init => IngestInv
  BY InvInit
<1>2. IngestInv /\ [Next]_vars => IngestInv'
  <2> SUFFICES ASSUME IngestInv, [Next]_vars
               PROVE  IngestInv'
    OBVIOUS
  <2>1. CASE Next
    BY <2>1, StepKeepsInv DEF Next
  <2>2. CASE UNCHANGED vars
    BY <2>2 DEF vars, ledgerVars, IngestInv, TypeOK, RequestsSound, SoundRequest,
       Justified, StoredAs, AcceptedAddsUp, CheckedLinksHold
  <2> QED BY <2>1, <2>2
<1> QED BY <1>1, <1>2, PTL DEF Spec

(* The batch rows count the rows of the table (ingest.py:108-118).           *)
THEOREM CountsAddUp == Spec => []AcceptedAddsUp
<1>1. IngestInv => AcceptedAddsUp
  BY DEF IngestInv
<1> QED BY <1>1, Inductive, PTL

(* A checked link names a stored parent and its hash (ingest.py:239-256).    *)
THEOREM LinksHold == Spec => []CheckedLinksHold
<1>1. IngestInv => CheckedLinksHold
  BY DEF IngestInv
<1> QED BY <1>1, Inductive, PTL

(* A commit records its batch: one step of the abstract ledger.              *)
LEMMA CommitRecords ==
    ASSUME IngestInv, NEW r \in Requests, Commit(r)
    PROVE  LedgerNext
<1> DEFINE q == request[r]
           S == Inserted(q.sink)
           batch == InBatch(q.batch)
<1>1. /\ q \in Progress
      /\ q.batch \in Seq(Docs) /\ q.sink \in Seq(Docs) /\ q.pos \in Nat
      /\ q.rejected \in SUBSET (Docs \X Codes)
      /\ Len(q.batch) < q.pos
      /\ SoundRequest(q)
  <2>1. q \in Progress
    BY DEF IngestInv, TypeOK
  <2>2. /\ q.batch \in Seq(Docs) /\ q.sink \in Seq(Docs) /\ q.pos \in Nat
        /\ q.rejected \in SUBSET (Docs \X Codes)
    BY <2>1 DEF Progress
  <2>3. Len(q.batch) < q.pos
    BY <2>2 DEF Commit, Pending
  <2>4. SoundRequest(q)
    BY DEF IngestInv, RequestsSound
  <2> QED BY <2>1, <2>2, <2>3, <2>4
<1>2. /\ stored' = stored \cup S
      /\ quarantined' = quarantined \cup q.rejected
      /\ answered' = answered \cup {batch}
  BY DEF Commit
<1>3. /\ S \subseteq {q.sink[i] : i \in 1..Len(q.sink)}
      /\ \A d \in S : \A s \in stored : RowKey[s] # RowKey[d]
      /\ \A d, e \in S : RowKey[d] = RowKey[e] => d = e
  BY <1>1, InsertedIsFree
<1>4. batch \in SUBSET Docs
  BY <1>1 DEF InBatch
<1>5. \A i \in 1..Len(q.sink) : \E s \in stored \cup S : RowKey[s] = RowKey[q.sink[i]]
  BY <1>1, SinkHasRows
<1>6. \A i \in 1..Len(q.batch) :
         \/ \E s \in stored : RowKey[s] = RowKey[q.batch[i]]
         \/ \E x \in q.rejected : x[1] = q.batch[i]
         \/ \E j \in 1..Len(q.sink) : q.sink[j] = q.batch[i]
  <2>1. \A i \in 1..Len(q.batch) : i \in 1..(q.pos - 1)
    BY <1>1
  <2> QED BY <1>1, <2>1 DEF SoundRequest
<1>7. \A d \in batch : \/ \E s \in stored' : RowKey[s] = RowKey[d]
                       \/ \E x \in quarantined' : x[1] = d
  <2> SUFFICES ASSUME NEW i \in 1..Len(q.batch)
               PROVE  \/ \E s \in stored' : RowKey[s] = RowKey[q.batch[i]]
                      \/ \E x \in quarantined' : x[1] = q.batch[i]
    BY DEF InBatch
  <2> HIDE DEF q, S
  <2> QED BY <1>2, <1>5, <1>6
<1>8. \A d \in S : d \in batch /\ Defect[d] = None
  BY <1>1, <1>3 DEF SoundRequest
<1>9. \A x \in q.rejected : x[1] \in batch /\ Justified(x[1], x[2])
  BY <1>1 DEF SoundRequest
<1> HIDE DEF q, S, batch
<1>10. \A d \in stored' \ stored :
          /\ Defect[d] = None
          /\ \A s \in stored' : RowKey[s] = RowKey[d] => s = d
  BY <1>2, <1>3, <1>8
<1>11. Record(batch)
  BY <1>2, <1>7, <1>8, <1>9, <1>10 DEF Record
<1> QED BY <1>4, <1>11 DEF LedgerNext

(* Concurrent, repeated and failing requests implement the abstract ledger,  *)
(* for every set of documents with an exact hash (ingest.py:78-119).         *)
THEOREM IngestImplementsLedger == Spec => Contract
<1>1. Init => LedgerInit
  BY DEF Init
<1>2. IngestInv /\ [Next]_vars => [LedgerNext]_ledgerVars
  <2> SUFFICES ASSUME IngestInv, [Next]_vars
               PROVE  LedgerNext \/ UNCHANGED ledgerVars
    OBVIOUS
  <2>1. CASE UNCHANGED vars
    BY <2>1 DEF vars
  <2>2. ASSUME NEW r \in Requests, Step(r)
        PROVE  LedgerNext \/ UNCHANGED ledgerVars
    <3>1. CASE Commit(r)
      BY <3>1, CommitRecords
    <3>2. CASE ~Commit(r)
      BY <2>2, <3>2 DEF Step, Receive, Fail, RejectDefect, Fetch, FetchParent,
         Reject, Accept, Move
    <3> QED BY <3>1, <3>2
  <2> QED BY <2>1, <2>2 DEF Next
<1> QED BY <1>1, <1>2, Inductive, PTL DEF Spec, Contract, LedgerSpec
=============================================================================
