-------------------------- MODULE SpanBuilderProofs --------------------------
(***************************************************************************)
(* Theorems about the recorder's spans.  First the tree of SpanBuilder,    *)
(* for any numbers of spans and tasks; then, further down, the adapters of *)
(* Instrumentation, for any deployment, runs, contexts and bounds.         *)
(***************************************************************************)
EXTENDS SpanBuilder, Instrumentation, SequenceTheorems, FiniteSetTheorems, TLAPS

\* The states of a span whose function has been called: only these are ever the
\* parent of another span.
Ran == {"running", "closing", "looped", "done", "failed"}

\* The scopes of a task are active spans it has opened, nested in each other and in
\* the span that it has inherited; all but the innermost are running.
Nested(t) ==
    /\ t \notin started => scopes[t] = <<>> /\ inherited[t] = None
    /\ \A i \in 1..Len(scopes[t]) :
          /\ state[scopes[t][i]] \in Active
          /\ opener[scopes[t][i]] = t
          /\ i > 1 => state[scopes[t][i]] = "running"
          /\ i < Len(scopes[t]) => parent[scopes[t][i]] = scopes[t][i + 1]
          /\ i = Len(scopes[t]) => parent[scopes[t][i]] = inherited[t]
    /\ \A i, j \in 1..Len(scopes[t]) : scopes[t][i] = scopes[t][j] => i = j

Scoped == \A t \in Tasks : Nested(t)

\* A span has a parent that ran, or none, and a task inherits only from others.
ParentsRan ==
    /\ \A s \in Spans :
          /\ state[s] = "unopened" => parent[s] = None /\ opener[s] = None
          /\ state[s] # "unopened" => opener[s] \in started
          /\ parent[s] # None => state[parent[s]] \in Ran
    /\ \A t \in Tasks : inherited[t] # None =>
          state[inherited[t]] \in Ran /\ opener[inherited[t]] # t

\* What is parked with a span is its children, each of them once, in the order in
\* which they closed; they have shipped up to the cursor.
Parked ==
    \A p \in Spans :
        /\ \A i \in 1..Len(pending[p]) :
              parent[pending[p][i]] = p /\ state[pending[p][i]] = "done"
        /\ \A i, j \in 1..Len(pending[p]) : pending[p][i] = pending[p][j] => i = j
        /\ state[p] # "done" => cursor[p] <= Len(pending[p])
        /\ state[p] # "done" => \A i \in 1..Len(pending[p]) :
              i > cursor[p] => pending[p][i] \notin ShippedSpans

\* Only closed spans ship, every closed root has, and a span that is late has a
\* parent in another task.
Closed ==
    /\ \A i \in 1..Len(shipped) : state[shipped[i].span] = "done"
    /\ \A s \in Spans : state[s] = "done" /\ s \notin ShippedSpans => parent[s] # None
    /\ \A s \in late : state[s] = "done" /\ parent[s] # None

IInv ==
    /\ TypeOK
    /\ Scoped
    /\ ParentsRan
    /\ Parked
    /\ Closed
    /\ ChainHolds
    /\ LostForAReason
    /\ LateOnlyAcrossTasks

-----------------------------------------------------------------------------
(* Sequences, element by element. *)

LEMMA PushFacts ==
    ASSUME NEW S, NEW q \in Seq(S), NEW x \in S
    PROVE  /\ <<x>> \o q \in Seq(S)
           /\ Len(<<x>> \o q) = Len(q) + 1
           /\ (<<x>> \o q)[1] = x
           /\ \A i \in 1..Len(q) + 1 : i > 1 => (<<x>> \o q)[i] = q[i - 1]
<1>1. <<x>> \in Seq(S) /\ Len(<<x>>) = 1 /\ <<x>>[1] = x
  OBVIOUS
<1>2. QED
  BY <1>1, ConcatProperties, LenProperties

LEMMA AppendFacts ==
    ASSUME NEW S, NEW q \in Seq(S), NEW x \in S
    PROVE  /\ Append(q, x) \in Seq(S)
           /\ Len(Append(q, x)) = Len(q) + 1
           /\ \A i \in 1..Len(q) : Append(q, x)[i] = q[i]
           /\ Append(q, x)[Len(q) + 1] = x
OBVIOUS

LEMMA TailFacts ==
    ASSUME NEW S, NEW q \in Seq(S), q # <<>>
    PROVE  /\ Tail(q) \in Seq(S)
           /\ Len(q) \in Nat \ {0}
           /\ Len(Tail(q)) = Len(q) - 1
           /\ \A i \in 1..Len(Tail(q)) : Tail(q)[i] = q[i + 1]
           /\ Head(q) = q[1]
           /\ q[1] \in S
OBVIOUS

(* What the sequences hold are spans. *)
LEMMA Members ==
    ASSUME TypeOK
    PROVE  /\ \A t \in Tasks : \A i \in 1..Len(scopes[t]) : scopes[t][i] \in Spans
           /\ \A p \in Spans : \A i \in 1..Len(pending[p]) : pending[p][i] \in Spans
           /\ \A i \in 1..Len(shipped) : shipped[i].span \in Spans
           /\ ShippedSpans \subseteq Spans
<1> DEFINE Sent == [span : Spans, stamp : Spans \cup {None}]
<1>1. shipped \in Seq(Sent)
  BY DEF TypeOK
<1>2. \A i \in 1..Len(shipped) : shipped[i] \in Sent
  BY <1>1, ElementOfSeq
<1>3. \A i \in 1..Len(shipped) : shipped[i].span \in Spans
  BY <1>2
<1>4. \A t \in Tasks : \A i \in 1..Len(scopes[t]) : scopes[t][i] \in Spans
  <2> SUFFICES ASSUME NEW t \in Tasks
               PROVE  \A i \in 1..Len(scopes[t]) : scopes[t][i] \in Spans
    OBVIOUS
  <2>1. scopes[t] \in Seq(Spans)
    BY DEF TypeOK
  <2>2. QED
    BY <2>1, ElementOfSeq
<1>5. \A p \in Spans : \A i \in 1..Len(pending[p]) : pending[p][i] \in Spans
  <2> SUFFICES ASSUME NEW p \in Spans
               PROVE  \A i \in 1..Len(pending[p]) : pending[p][i] \in Spans
    OBVIOUS
  <2>1. pending[p] \in Seq(Spans)
    BY DEF TypeOK
  <2>2. QED
    BY <2>1, ElementOfSeq
<1>6. ShippedSpans \subseteq Spans
  BY <1>3 DEF ShippedSpans
<1>7. QED
  BY <1>3, <1>4, <1>5, <1>6

(* The innermost scope of a task is a span of its own and of no other task. *)
LEMMA HeadFacts ==
    ASSUME IInv, NEW t \in Tasks, scopes[t] # <<>>
    PROVE  /\ scopes[t] \in Seq(Spans)
           /\ Head(scopes[t]) \in Spans
           /\ Head(scopes[t]) = scopes[t][1]
           /\ Len(scopes[t]) \in Nat \ {0}
           /\ state[Head(scopes[t])] \in Active
           /\ opener[Head(scopes[t])] = t
           /\ \A u \in Tasks : \A i \in 1..Len(scopes[u]) :
                 scopes[u][i] = Head(scopes[t]) => u = t /\ i = 1
<1>1. scopes[t] \in Seq(Spans)
  BY DEF IInv, TypeOK
<1>2. /\ Head(scopes[t]) \in Spans
      /\ Head(scopes[t]) = scopes[t][1]
      /\ Len(scopes[t]) \in Nat \ {0}
  BY <1>1, TailFacts
<1>3. 1 \in 1..Len(scopes[t])
  BY <1>2
<1>4. QED
  BY <1>1, <1>2, <1>3 DEF IInv, Scoped, Nested

(* What a task sees as its current parent has run and was opened by a task that *)
(* has begun.                                                                   *)
LEMMA CurrentFacts ==
    ASSUME IInv, NEW t \in Tasks, InAgentCode(t)
    PROVE  /\ Current(t) \in Spans \cup {None}
           /\ Current(t) # None => /\ Current(t) \in Spans
                                   /\ state[Current(t)] \in Ran
                                   /\ opener[Current(t)] \in started
<1>1. CASE scopes[t] = <<>>
  <2>1. Current(t) = inherited[t] /\ inherited[t] \in Spans \cup {None}
    BY <1>1 DEF Current, IInv, TypeOK
  <2>2. inherited[t] # None => state[inherited[t]] \in Ran
    BY DEF IInv, ParentsRan
  <2>3. QED
    BY <2>1, <2>2 DEF IInv, ParentsRan, Ran
<1>2. CASE scopes[t] # <<>>
  <2>1. Current(t) = Head(scopes[t]) /\ Head(scopes[t]) \in Spans
    BY <1>2, HeadFacts DEF Current
  <2>2. state[Head(scopes[t])] = "running" /\ opener[Head(scopes[t])] = t
    BY <1>2, HeadFacts DEF InAgentCode, In
  <2>3. QED
    BY <2>1, <2>2 DEF InAgentCode, Ran
<1>3. QED
  BY <1>1, <1>2

(* The state of the innermost span of t moves on, and the rest stays. *)
LEMMA MovesOn ==
    ASSUME IInv, NEW t \in Tasks, scopes[t] # <<>>, NEW st \in {"running", "closing", "looped"},
           Goto(Head(scopes[t]), st),
           st = "looped" => cursor[Head(scopes[t])] = Len(pending[Head(scopes[t])]),
           UNCHANGED <<scopes, treeVars, taskVars, closeVars>>
    PROVE  IInv'
<1> DEFINE h == Head(scopes[t])
<1>1. /\ h \in Spans
      /\ state[h] \in Active
      /\ \A u \in Tasks : \A i \in 1..Len(scopes[u]) :
            scopes[u][i] = h => u = t /\ i = 1
  BY HeadFacts
<1>2. /\ state' = [state EXCEPT ![h] = st]
      /\ UNCHANGED <<scopes, parent, opener, started, inherited>>
      /\ UNCHANGED <<pending, cursor, shipped, late>>
  BY DEF Goto, treeVars, taskVars, closeVars
<1>3. \A x \in Spans : state'[x] = IF x = h THEN st ELSE state[x]
  BY <1>1, <1>2 DEF IInv, TypeOK
<1>4. TypeOK'
  BY <1>1, <1>2 DEF IInv, TypeOK, States, Active
<1>5. Scoped'
  <2> SUFFICES ASSUME NEW u \in Tasks
               PROVE  Nested(u)'
    BY DEF Scoped
  <2>1. \A i \in 1..Len(scopes[u]) : scopes[u][i] \in Spans
    BY Members DEF IInv
  <2>2. QED
    BY <1>1, <1>2, <1>3, <2>1 DEF IInv, Scoped, Nested, Active
<1>6. ParentsRan'
  BY <1>1, <1>2, <1>3 DEF IInv, TypeOK, ParentsRan, Ran, Active
<1>7. \A x \in Spans : state'[x] = "done" <=> state[x] = "done"
  BY <1>1, <1>3 DEF Active
<1>8. ShippedSpans' = ShippedSpans
  BY <1>2 DEF ShippedSpans
<1>9. Parked'
  BY <1>2, <1>7, <1>8, Members DEF IInv, Parked
<1>10. Closed' /\ ChainHolds' /\ LateOnlyAcrossTasks'
  <2>1. Closed'
    BY <1>2, <1>7, <1>8, Members DEF IInv, TypeOK, Closed
  <2>2. ChainHolds'
    BY <1>2 DEF IInv, ChainHolds
  <2>3. LateOnlyAcrossTasks'
    BY <1>2 DEF IInv, LateOnlyAcrossTasks
  <2>4. QED
    BY <2>1, <2>2, <2>3
<1>11. LostForAReason'
  <2> SUFFICES ASSUME NEW x \in Spans, state[x] = "done", x \notin ShippedSpans, x \notin late
               PROVE  \/ state'[parent[x]] = "failed"
                      \/ /\ state'[parent[x]] \in {"running", "closing"}
                         /\ \E i \in 1..Len(pending[parent[x]]) :
                               i > cursor[parent[x]] /\ pending[parent[x]][i] = x
    BY <1>2, <1>7, <1>8 DEF LostForAReason
  <2>1. parent[x] \in Spans
    BY DEF IInv, TypeOK, Closed
  <2>2. CASE parent[x] = h
    <3>1. \E i \in 1..Len(pending[h]) : i > cursor[h] /\ pending[h][i] = x
      BY <1>1, <2>2 DEF IInv, LostForAReason, Active
    <3>2. pending[h] \in Seq(Spans) /\ cursor[h] \in Nat
      BY <1>1 DEF IInv, TypeOK
    <3>3. st # "looped"
      BY <3>1, <3>2
    <3>4. QED
      BY <1>1, <1>3, <2>2, <3>1, <3>3
  <2>3. CASE parent[x] # h
    BY <1>3, <2>1, <2>3 DEF IInv, LostForAReason
  <2>4. QED
    BY <2>2, <2>3
<1>12. QED
  BY <1>4, <1>5, <1>6, <1>9, <1>10, <1>11 DEF IInv

(* Leaving the innermost scope keeps the others nested. *)
LEMMA LeavesScope ==
    ASSUME IInv, NEW t \in Tasks, scopes[t] # <<>>, Leave(t),
           UNCHANGED <<treeVars, taskVars>>,
           \A x \in Spans : x # Head(scopes[t]) => state'[x] = state[x]
    PROVE  /\ Scoped'
           /\ scopes' \in [Tasks -> Seq(Spans)]
<1> DEFINE h == Head(scopes[t])
<1>1. /\ h \in Spans
      /\ h = scopes[t][1]
      /\ \A u \in Tasks : \A i \in 1..Len(scopes[u]) :
            scopes[u][i] = h => u = t /\ i = 1
  BY HeadFacts
<1>2. /\ scopes' = [scopes EXCEPT ![t] = Tail(scopes[t])]
      /\ UNCHANGED <<parent, opener, started, inherited>>
  BY DEF Leave, treeVars, taskVars
<1>3. scopes \in [Tasks -> Seq(Spans)]
  BY DEF IInv, TypeOK
<1>4. /\ Tail(scopes[t]) \in Seq(Spans)
      /\ Len(scopes[t]) \in Nat \ {0}
      /\ Len(Tail(scopes[t])) = Len(scopes[t]) - 1
      /\ \A i \in 1..Len(Tail(scopes[t])) : Tail(scopes[t])[i] = scopes[t][i + 1]
  BY <1>3, TailFacts
<1>5. scopes' \in [Tasks -> Seq(Spans)]
  BY <1>2, <1>3, <1>4
<1>6. Scoped'
  <2> SUFFICES ASSUME NEW u \in Tasks
               PROVE  Nested(u)'
    BY DEF Scoped
  <2>1. CASE u # t
    <3>1. scopes'[u] = scopes[u]
      BY <1>2, <1>3, <2>1
    <3>2. \A i \in 1..Len(scopes[u]) : state'[scopes[u][i]] = state[scopes[u][i]]
      BY <1>1, <2>1, Members DEF IInv
    <3>3. Nested(u)
      BY DEF IInv, Scoped
    <3>4. u \notin started' => scopes'[u] = <<>> /\ inherited'[u] = None
      BY <1>2, <3>1, <3>3 DEF Nested
    <3>5. \A i \in 1..Len(scopes[u]) :
             /\ state'[scopes[u][i]] \in Active
             /\ opener[scopes[u][i]] = u
             /\ i > 1 => state'[scopes[u][i]] = "running"
             /\ i < Len(scopes[u]) => parent[scopes[u][i]] = scopes[u][i + 1]
             /\ i = Len(scopes[u]) => parent[scopes[u][i]] = inherited[u]
      BY <3>2, <3>3 DEF Nested
    <3>6. \A i, j \in 1..Len(scopes[u]) : scopes[u][i] = scopes[u][j] => i = j
      BY <3>3 DEF Nested
    <3>7. UNCHANGED <<parent, opener, inherited>>
      BY <1>2
    <3>8. QED
      BY <3>1, <3>4, <3>5, <3>6, <3>7 DEF Nested
  <2>2. CASE u = t
    <3> DEFINE old == scopes[t]
               rest == Tail(old)
    <3>1. scopes'[u] = rest
      BY <1>2, <1>3, <2>2
    <3>2. \A i \in 1..Len(rest) : /\ i \in Nat
                                  /\ i + 1 \in 1..Len(old)
                                  /\ i + 1 > 1
                                  /\ rest[i] = old[i + 1]
                                  /\ rest[i] \in Spans
                                  /\ rest[i] # h
      BY <1>1, <1>4, Members DEF IInv
    <3>3. \A i \in 1..Len(rest) : state'[rest[i]] = "running" /\ opener[rest[i]] = t
      <4>1. \A i \in 1..Len(old) : /\ opener[old[i]] = t
                                   /\ i > 1 => state[old[i]] = "running"
        BY DEF IInv, Scoped, Nested
      <4>2. \A i \in 1..Len(rest) : state[rest[i]] = "running" /\ opener[rest[i]] = t
        BY <3>2, <4>1
      <4>3. QED
        BY <3>2, <4>2
    <3>4. \A i \in 1..Len(rest) : i < Len(rest) => parent[rest[i]] = rest[i + 1]
      <4> SUFFICES ASSUME NEW i \in 1..Len(rest), i < Len(rest)
                   PROVE  parent[rest[i]] = rest[i + 1]
        OBVIOUS
      <4>1. i + 1 \in 1..Len(rest) /\ i + 1 < Len(old)
        BY <1>4
      <4>2. rest[i] = old[i + 1] /\ rest[i + 1] = old[(i + 1) + 1]
        BY <3>2, <4>1
      <4>3. QED
        BY <3>2, <4>1, <4>2 DEF IInv, Scoped, Nested
    <3>5. \A i \in 1..Len(rest) : i = Len(rest) => parent[rest[i]] = inherited[t]
      BY <1>4, <3>2 DEF IInv, Scoped, Nested
    <3>6. \A i, j \in 1..Len(rest) : rest[i] = rest[j] => i = j
      <4> SUFFICES ASSUME NEW i \in 1..Len(rest), NEW j \in 1..Len(rest), rest[i] = rest[j]
                   PROVE  i = j
        OBVIOUS
      <4>1. i + 1 = j + 1
        BY <3>2 DEF IInv, Scoped, Nested
      <4>2. QED
        BY <3>2, <4>1
    <3>7. t \in started
      BY DEF IInv, Scoped, Nested
    <3>8. \A i \in 1..Len(rest) : state'[rest[i]] \in Active
      BY <3>3 DEF Active
    <3>9. UNCHANGED <<parent, opener, started, inherited>>
      BY <1>2
    <3> HIDE DEF rest
    <3>10. \A i \in 1..Len(rest) :
              /\ state'[rest[i]] \in Active
              /\ opener'[rest[i]] = t
              /\ i > 1 => state'[rest[i]] = "running"
              /\ i < Len(rest) => parent'[rest[i]] = rest[i + 1]
              /\ i = Len(rest) => parent'[rest[i]] = inherited'[t]
      BY <3>3, <3>4, <3>5, <3>8, <3>9
    <3>11. t \in started'
      BY <3>7, <3>9
    <3>12. QED
      BY <2>2, <3>1, <3>6, <3>10, <3>11 DEF Nested
  <2>3. QED
    BY <2>1, <2>2
<1>7. QED
  BY <1>5, <1>6

(* The innermost span of t is given up without being closed. *)
LEMMA GivesUp ==
    ASSUME IInv, NEW t \in Tasks, scopes[t] # <<>>, NEW st \in {"failed", "abandoned"},
           Goto(Head(scopes[t]), st), Leave(t),
           st = "abandoned" => state[Head(scopes[t])] = "gating",
           UNCHANGED <<treeVars, taskVars, closeVars>>
    PROVE  IInv'
<1> DEFINE h == Head(scopes[t])
<1>1. /\ h \in Spans
      /\ state[h] \in Active
  BY HeadFacts
<1>2. /\ state' = [state EXCEPT ![h] = st]
      /\ UNCHANGED <<parent, opener, started, inherited>>
      /\ UNCHANGED <<pending, cursor, shipped, late>>
  BY DEF Goto, treeVars, taskVars, closeVars
<1>3. \A x \in Spans : state'[x] = IF x = h THEN st ELSE state[x]
  BY <1>1, <1>2 DEF IInv, TypeOK
<1>4. Scoped' /\ scopes' \in [Tasks -> Seq(Spans)]
  BY <1>3, LeavesScope
<1>5. TypeOK'
  <2>1. state' \in [Spans -> States]
    BY <1>1, <1>2 DEF IInv, TypeOK, States
  <2>2. QED
    BY <1>2, <1>4, <2>1 DEF IInv, TypeOK
<1>6. ParentsRan'
  <2>1. \A x \in Spans : state[x] \in Ran => state'[x] \in Ran
    BY <1>3 DEF Ran
  <2>2. ASSUME NEW x \in Spans
        PROVE  /\ state'[x] = "unopened" => parent[x] = None /\ opener[x] = None
               /\ state'[x] # "unopened" => opener[x] \in started
               /\ parent[x] # None => state'[parent[x]] \in Ran
    BY <1>1, <1>3, <2>1 DEF IInv, TypeOK, ParentsRan, Active
  <2>3. ASSUME NEW u \in Tasks, inherited[u] # None
        PROVE  state'[inherited[u]] \in Ran /\ opener[inherited[u]] # u
    BY <2>1, <2>3 DEF IInv, TypeOK, ParentsRan
  <2>4. QED
    BY <1>2, <2>2, <2>3 DEF ParentsRan
<1>7. \A x \in Spans : state'[x] = "done" <=> state[x] = "done"
  BY <1>1, <1>3 DEF Active
<1>8. ShippedSpans' = ShippedSpans
  BY <1>2 DEF ShippedSpans
<1>9. Parked'
  BY <1>2, <1>7, <1>8, Members DEF IInv, Parked
<1>10. Closed' /\ ChainHolds' /\ LateOnlyAcrossTasks'
  <2>1. Closed'
    BY <1>2, <1>7, <1>8, Members DEF IInv, TypeOK, Closed
  <2>2. ChainHolds'
    BY <1>2 DEF IInv, ChainHolds
  <2>3. LateOnlyAcrossTasks'
    BY <1>2 DEF IInv, LateOnlyAcrossTasks
  <2>4. QED
    BY <2>1, <2>2, <2>3
<1>11. LostForAReason'
  <2> SUFFICES ASSUME NEW x \in Spans, state[x] = "done", x \notin ShippedSpans, x \notin late
               PROVE  \/ state'[parent[x]] = "failed"
                      \/ /\ state'[parent[x]] \in {"running", "closing"}
                         /\ \E i \in 1..Len(pending[parent[x]]) :
                               i > cursor[parent[x]] /\ pending[parent[x]][i] = x
    BY <1>2, <1>7, <1>8 DEF LostForAReason
  <2>1. parent[x] \in Spans
    BY DEF IInv, TypeOK, Closed
  <2>2. state[parent[x]] \in Ran
    BY <2>1, BuilderAssumption DEF IInv, ParentsRan
  <2>3. parent[x] = h => st = "failed"
    BY <2>2 DEF Ran
  <2>4. QED
    BY <1>3, <2>1, <2>3 DEF IInv, LostForAReason
<1>12. QED
  BY <1>4, <1>5, <1>6, <1>9, <1>10, <1>11 DEF IInv

-----------------------------------------------------------------------------
(* The steps of a task. *)

LEMMA StartInv ==
    ASSUME IInv, NEW t \in Tasks, Start(t)
    PROVE  IInv'
<1>1. /\ started' = started \cup {t}
      /\ UNCHANGED <<state, scopes, parent, opener, inherited>>
      /\ UNCHANGED <<pending, cursor, shipped, late>>
  BY DEF Start, treeVars, closeVars
<1>2. ShippedSpans' = ShippedSpans
  BY <1>1 DEF ShippedSpans
<1>3. TypeOK'
  BY <1>1 DEF IInv, TypeOK
<1>4. Scoped'
  BY <1>1 DEF IInv, Scoped, Nested
<1>5. ParentsRan'
  BY <1>1 DEF IInv, ParentsRan
<1>6. Parked' /\ Closed'
  BY <1>1, <1>2 DEF IInv, Parked, Closed
<1>7. ChainHolds' /\ LostForAReason' /\ LateOnlyAcrossTasks'
  BY <1>1, <1>2 DEF IInv, ChainHolds, LostForAReason, LateOnlyAcrossTasks
<1>8. QED
  BY <1>3, <1>4, <1>5, <1>6, <1>7 DEF IInv

LEMMA SpawnInv ==
    ASSUME IInv, NEW t \in Tasks, NEW u \in Tasks, Spawn(t, u)
    PROVE  IInv'
<1>1. /\ InAgentCode(t)
      /\ u \notin started
      /\ started' = started \cup {u}
      /\ inherited' = [inherited EXCEPT ![u] = Current(t)]
      /\ UNCHANGED <<state, scopes, parent, opener>>
      /\ UNCHANGED <<pending, cursor, shipped, late>>
  BY DEF Spawn, treeVars, closeVars
<1>2. /\ Current(t) \in Spans \cup {None}
      /\ Current(t) # None => /\ state[Current(t)] \in Ran
                              /\ opener[Current(t)] \in started
  BY <1>1, CurrentFacts
<1>3. \A v \in Tasks : inherited'[v] = IF v = u THEN Current(t) ELSE inherited[v]
  BY <1>1 DEF IInv, TypeOK
<1>4. ShippedSpans' = ShippedSpans
  BY <1>1 DEF ShippedSpans
<1>5. TypeOK'
  BY <1>1, <1>2 DEF IInv, TypeOK
<1>6. Scoped'
  <2> SUFFICES ASSUME NEW v \in Tasks
               PROVE  Nested(v)'
    BY DEF Scoped
  <2>1. Nested(v)
    BY DEF IInv, Scoped
  <2>2. CASE v = u
    <3>1. scopes[v] = <<>>
      BY <1>1, <2>1, <2>2 DEF Nested
    <3>2. scopes'[v] = <<>> /\ Len(scopes'[v]) = 0 /\ v \in started'
      BY <1>1, <2>2, <3>1
    <3>3. QED
      BY <3>2 DEF Nested
  <2>3. CASE v # u
    BY <1>1, <1>3, <2>1, <2>3 DEF Nested
  <2>4. QED
    BY <2>2, <2>3
<1>7. ParentsRan'
  BY <1>1, <1>2, <1>3 DEF IInv, ParentsRan
<1>8. Parked' /\ Closed'
  BY <1>1, <1>4 DEF IInv, Parked, Closed
<1>9. ChainHolds' /\ LostForAReason' /\ LateOnlyAcrossTasks'
  BY <1>1, <1>4 DEF IInv, ChainHolds, LostForAReason, LateOnlyAcrossTasks
<1>10. QED
  BY <1>5, <1>6, <1>7, <1>8, <1>9 DEF IInv

LEMMA OpenInv ==
    ASSUME IInv, NEW t \in Tasks, NEW s \in Spans, Open(t, s)
    PROVE  IInv'
<1> DEFINE old == scopes[t]
           new == <<s>> \o old
<1>1. /\ InAgentCode(t)
      /\ t \in started
      /\ state[s] = "unopened"
      /\ state' = [state EXCEPT ![s] = "gating"]
      /\ parent' = [parent EXCEPT ![s] = Current(t)]
      /\ opener' = [opener EXCEPT ![s] = t]
      /\ scopes' = [scopes EXCEPT ![t] = new]
      /\ UNCHANGED <<started, inherited>>
      /\ UNCHANGED <<pending, cursor, shipped, late>>
  BY DEF Open, InAgentCode, Goto, taskVars, closeVars
<1>2. /\ Current(t) \in Spans \cup {None}
      /\ Current(t) # None => state[Current(t)] \in Ran /\ Current(t) # s
  BY <1>1, CurrentFacts DEF Ran
<1>3. \A x \in Spans :
         /\ state'[x] = IF x = s THEN "gating" ELSE state[x]
         /\ parent'[x] = IF x = s THEN Current(t) ELSE parent[x]
         /\ opener'[x] = IF x = s THEN t ELSE opener[x]
  BY <1>1 DEF IInv, TypeOK
<1>4. old \in Seq(Spans) /\ scopes \in [Tasks -> Seq(Spans)]
  BY DEF IInv, TypeOK
<1>5. /\ new \in Seq(Spans)
      /\ Len(new) = Len(old) + 1
      /\ new[1] = s
      /\ \A i \in 1..Len(old) + 1 : i > 1 => new[i] = old[i - 1]
  BY <1>4, PushFacts
<1>6. TypeOK'
  BY <1>1, <1>2, <1>5 DEF IInv, TypeOK, States, Active
<1>7. \A u \in Tasks : \A i \in 1..Len(scopes[u]) : scopes[u][i] # s
  BY <1>1 DEF IInv, Scoped, Nested, Active
<1>8. Scoped'
  <2> SUFFICES ASSUME NEW u \in Tasks
               PROVE  Nested(u)'
    BY DEF Scoped
  <2>1. Nested(u)
    BY DEF IInv, Scoped
  <2>2. CASE u # t
    <3>1. scopes'[u] = scopes[u]
      BY <1>1, <1>4, <2>2
    <3>2. \A i \in 1..Len(scopes[u]) :
             /\ state'[scopes[u][i]] = state[scopes[u][i]]
             /\ parent'[scopes[u][i]] = parent[scopes[u][i]]
             /\ opener'[scopes[u][i]] = opener[scopes[u][i]]
      BY <1>3, <1>7, Members DEF IInv
    <3>3. u \notin started' => scopes'[u] = <<>> /\ inherited'[u] = None
      BY <1>1, <3>1, <2>1 DEF Nested
    <3>4. \A i \in 1..Len(scopes[u]) :
             /\ state'[scopes[u][i]] \in Active
             /\ opener'[scopes[u][i]] = u
             /\ i > 1 => state'[scopes[u][i]] = "running"
             /\ i < Len(scopes[u]) => parent'[scopes[u][i]] = scopes[u][i + 1]
             /\ i = Len(scopes[u]) => parent'[scopes[u][i]] = inherited[u]
      BY <3>2, <2>1 DEF Nested
    <3>5. \A i, j \in 1..Len(scopes[u]) : scopes[u][i] = scopes[u][j] => i = j
      BY <2>1 DEF Nested
    <3>6. inherited'[u] = inherited[u]
      BY <1>1
    <3>7. QED
      BY <3>1, <3>3, <3>4, <3>5, <3>6 DEF Nested
  <2>3. CASE u = t
    <3>1. scopes'[u] = new
      BY <1>1, <1>4, <2>3
    <3>2. Len(old) \in Nat
      BY <1>4
    <3>3. \A i \in 1..Len(new) : i > 1 => /\ i - 1 \in 1..Len(old)
                                          /\ new[i] = old[i - 1]
                                          /\ new[i] \in Spans
                                          /\ new[i] # s
      BY <1>5, <1>7, <3>2, Members DEF IInv
    <3>4. \A i \in 1..Len(old) : state[old[i]] = "running"
      <4>1. CASE old = <<>>
        BY <4>1
      <4>2. CASE old # <<>>
        <5>1. state[old[1]] = "running"
          BY <1>1, <4>2, HeadFacts DEF InAgentCode, In
        <5>2. \A i \in 1..Len(old) : i > 1 => state[old[i]] = "running"
          BY DEF IInv, Scoped, Nested
        <5>3. QED
          BY <3>2, <5>1, <5>2
      <4>3. QED
        BY <4>1, <4>2
    <3>5. \A i \in 1..Len(new) :
             /\ state'[new[i]] \in Active
             /\ opener'[new[i]] = t
             /\ i > 1 => state'[new[i]] = "running"
      <4> SUFFICES ASSUME NEW i \in 1..Len(new)
                   PROVE  /\ state'[new[i]] \in Active
                          /\ opener'[new[i]] = t
                          /\ i > 1 => state'[new[i]] = "running"
        OBVIOUS
      <4>1. CASE i = 1
        BY <1>3, <1>5, <4>1 DEF Active
      <4>2. CASE i > 1
        <5>1. state[old[i - 1]] = "running" /\ opener[old[i - 1]] = t
          BY <3>3, <3>4, <4>2 DEF IInv, Scoped, Nested
        <5>2. QED
          BY <1>3, <3>3, <4>2, <5>1 DEF Active
      <4>3. QED
        BY <1>5, <3>2, <4>1, <4>2
    <3>6. Current(t) = IF Len(new) = 1 THEN inherited[t] ELSE new[2]
      <4>1. CASE old = <<>>
        BY <1>5, <4>1 DEF Current
      <4>2. CASE old # <<>>
        BY <1>5, <3>2, <4>2, HeadFacts DEF Current
      <4>3. QED
        BY <4>1, <4>2
    <3>7. \A i \in 1..Len(new) :
             /\ i < Len(new) => parent'[new[i]] = new[i + 1]
             /\ i = Len(new) => parent'[new[i]] = inherited[t]
      <4> SUFFICES ASSUME NEW i \in 1..Len(new)
                   PROVE  /\ i < Len(new) => parent'[new[i]] = new[i + 1]
                          /\ i = Len(new) => parent'[new[i]] = inherited[t]
        OBVIOUS
      <4>1. CASE i = 1
        BY <1>3, <1>5, <3>6, <4>1
      <4>2. CASE i > 1
        <5>1. /\ i - 1 \in 1..Len(old)
              /\ parent'[new[i]] = parent[old[i - 1]]
          BY <1>3, <3>3, <4>2
        <5>2. CASE i < Len(new)
          <6>1. i + 1 \in 1..Len(new) /\ i + 1 > 1 /\ (i + 1) - 1 = (i - 1) + 1
            BY <1>5, <3>2, <4>2, <5>2
          <6>2. new[i + 1] = old[(i - 1) + 1]
            BY <3>3, <6>1
          <6>3. i - 1 < Len(old)
            BY <1>5, <3>2, <5>2
          <6>4. QED
            BY <5>1, <5>2, <6>2, <6>3 DEF IInv, Scoped, Nested
        <5>3. CASE i = Len(new)
          <6>1. i - 1 = Len(old)
            BY <1>5, <3>2, <5>3
          <6>2. QED
            BY <5>1, <5>3, <6>1 DEF IInv, Scoped, Nested
        <5>4. QED
          BY <5>2, <5>3
      <4>3. QED
        BY <1>5, <3>2, <4>1, <4>2
    <3>8. \A i, j \in 1..Len(new) : new[i] = new[j] => i = j
      <4> SUFFICES ASSUME NEW i \in 1..Len(new), NEW j \in 1..Len(new), new[i] = new[j]
                   PROVE  i = j
        OBVIOUS
      <4>1. i \in Nat /\ j \in Nat /\ i >= 1 /\ j >= 1
        BY <1>5, <3>2
      <4>2. CASE i > 1 /\ j > 1
        <5>1. i - 1 = j - 1
          BY <3>3, <4>2 DEF IInv, Scoped, Nested
        <5>2. QED
          BY <4>1, <5>1
      <4>3. CASE i = 1
        <5>1. ~ (j > 1)
          <6>1. new[i] = s
            BY <1>5, <4>3
          <6>2. j > 1 => new[j] # s
            BY <3>3
          <6>3. QED
            BY <6>1, <6>2
        <5>2. QED
          BY <4>1, <4>3, <5>1
      <4>4. CASE j = 1
        <5>1. ~ (i > 1)
          <6>1. new[j] = s
            BY <1>5, <4>4
          <6>2. i > 1 => new[i] # s
            BY <3>3
          <6>3. QED
            BY <6>1, <6>2
        <5>2. QED
          BY <4>1, <4>4, <5>1
      <4>5. QED
        BY <4>1, <4>2, <4>3, <4>4
    <3>9. QED
      BY <1>1, <2>3, <3>1, <3>5, <3>7, <3>8 DEF Nested
  <2>4. QED
    BY <2>2, <2>3
<1>9. ParentsRan'
  <2>1. \A x \in Spans : state[x] \in Ran => x # s /\ state'[x] = state[x]
    BY <1>1, <1>3 DEF Ran
  <2>2. ASSUME NEW x \in Spans
        PROVE  /\ state'[x] = "unopened" => parent'[x] = None /\ opener'[x] = None
               /\ state'[x] # "unopened" => opener'[x] \in started
               /\ parent'[x] # None => state'[parent'[x]] \in Ran
    BY <1>1, <1>2, <1>3, <2>1 DEF IInv, TypeOK, ParentsRan
  <2>3. ASSUME NEW u \in Tasks, inherited[u] # None
        PROVE  state'[inherited[u]] \in Ran /\ opener'[inherited[u]] # u
    BY <1>3, <2>1, <2>3 DEF IInv, TypeOK, ParentsRan
  <2>4. QED
    BY <1>1, <2>2, <2>3 DEF ParentsRan
<1>10. \A x \in Spans : /\ state'[x] = "done" <=> state[x] = "done"
                        /\ state[x] = "done" => x # s /\ parent'[x] = parent[x]
  BY <1>1, <1>3
<1>11. ShippedSpans' = ShippedSpans
  BY <1>1 DEF ShippedSpans
<1>12. Parked'
  BY <1>1, <1>10, <1>11, Members DEF IInv, Parked
<1>13. Closed'
  BY <1>1, <1>10, <1>11, Members DEF IInv, TypeOK, Closed
<1>14. \A i \in 1..Len(shipped) : parent'[shipped[i].span] = parent[shipped[i].span]
  BY <1>10, Members DEF IInv, Closed
<1>15. ChainHolds'
  BY <1>1, <1>14 DEF IInv, ChainHolds
<1>16. LateOnlyAcrossTasks'
  <2> SUFFICES ASSUME NEW x \in late
               PROVE  opener'[x] # opener'[parent'[x]]
    BY <1>1 DEF LateOnlyAcrossTasks
  <2>1. x \in Spans /\ state[x] = "done" /\ parent[x] \in Spans
    BY DEF IInv, TypeOK, Closed
  <2>2. parent[x] # s
    BY <1>1, <2>1, BuilderAssumption DEF IInv, ParentsRan, Ran
  <2>3. QED
    BY <1>3, <1>10, <2>1, <2>2 DEF IInv, LateOnlyAcrossTasks
<1>17. LostForAReason'
  <2> SUFFICES ASSUME NEW x \in Spans, state[x] = "done", x \notin ShippedSpans
               PROVE  \/ x \in late
                      \/ state'[parent[x]] = "failed"
                      \/ /\ state'[parent[x]] \in {"running", "closing"}
                         /\ \E i \in 1..Len(pending[parent[x]]) :
                               i > cursor[parent[x]] /\ pending[parent[x]][i] = x
    BY <1>1, <1>10, <1>11 DEF LostForAReason
  <2>1. parent[x] \in Spans /\ parent[x] # s
    <3>1. parent[x] # None /\ parent[x] \in Spans
      BY DEF IInv, TypeOK, Closed
    <3>2. state[parent[x]] \in Ran
      BY <3>1 DEF IInv, ParentsRan
    <3>3. QED
      BY <1>1, <3>1, <3>2 DEF Ran
  <2>2. state'[parent[x]] = state[parent[x]]
    BY <1>3, <2>1
  <2>3. QED
    BY <2>2 DEF IInv, LostForAReason
<1>18. QED
  BY <1>6, <1>8, <1>9, <1>12, <1>13, <1>15, <1>16, <1>17 DEF IInv

(* Exporting a span appends it to what has shipped. *)
LEMMA ShipFacts ==
    ASSUME TypeOK, NEW c \in Spans, NEW d \in Spans \cup {None}, Ship(c, d)
    PROVE  /\ shipped' \in Seq([span : Spans, stamp : Spans \cup {None}])
           /\ Len(shipped) \in Nat
           /\ Len(shipped') = Len(shipped) + 1
           /\ \A i \in 1..Len(shipped) : shipped'[i] = shipped[i]
           /\ shipped'[Len(shipped) + 1].span = c
           /\ shipped'[Len(shipped) + 1].stamp = d
           /\ ShippedSpans' = ShippedSpans \cup {c}
<1> DEFINE Sent == [span : Spans, stamp : Spans \cup {None}]
           r == [span |-> c, stamp |-> d]
<1>1. shipped \in Seq(Sent) /\ r \in Sent /\ r.span = c /\ r.stamp = d
  BY DEF TypeOK
<1>2. shipped' = Append(shipped, r)
  BY DEF Ship
<1>3. /\ shipped' \in Seq(Sent)
      /\ Len(shipped) \in Nat
      /\ Len(shipped') = Len(shipped) + 1
      /\ \A i \in 1..Len(shipped) : shipped'[i] = shipped[i]
      /\ shipped'[Len(shipped) + 1] = r
  <2> HIDE DEF r, Sent
  <2>1. QED
    BY <1>1, <1>2, AppendFacts, LenProperties
<1>4. 1..Len(shipped') = 1..Len(shipped) \cup {Len(shipped) + 1}
  BY <1>3
<1>5. ShippedSpans' = ShippedSpans \cup {c}
  <2> HIDE DEF r, Sent
  <2>1. QED
    BY <1>1, <1>3, <1>4 DEF ShippedSpans
<1>6. QED
  BY <1>1, <1>3, <1>5

(* The chain goes on with a span whose parent has not shipped yet. *)
LEMMA ChainExtends ==
    ASSUME IInv, NEW c \in Spans, Ship(c, parent[c]),
           c \notin ShippedSpans, parent[c] \notin ShippedSpans, parent[c] # c,
           UNCHANGED parent
    PROVE  ChainHolds'
<1> DEFINE n == Len(shipped)
<1>1. /\ n \in Nat
      /\ Len(shipped') = n + 1
      /\ \A i \in 1..n : shipped'[i] = shipped[i]
      /\ shipped'[n + 1].span = c
      /\ shipped'[n + 1].stamp = parent[c]
  BY ShipFacts DEF IInv, TypeOK
<1>2. \A i \in 1..n + 1 : i = n + 1 \/ i \in 1..n
  BY <1>1
<1>3. \A i \in 1..n : shipped[i].span # c /\ parent[c] # shipped[i].span
  BY DEF ShippedSpans
<1> HIDE DEF n
<1>4. \A i \in 1..n + 1 : shipped'[i].stamp = parent[shipped'[i].span]
  BY <1>1, <1>2 DEF IInv, ChainHolds, n
<1>5. \A i, j \in 1..n + 1 : shipped'[i].span = shipped'[j].span => i = j
  BY <1>1, <1>2, <1>3 DEF IInv, ChainHolds, n
<1>6. \A i, j \in 1..n + 1 : parent[shipped'[j].span] = shipped'[i].span => j < i
  <2> SUFFICES ASSUME NEW i \in 1..n + 1, NEW j \in 1..n + 1,
                      parent[shipped'[j].span] = shipped'[i].span
               PROVE  j < i
    OBVIOUS
  <2>1. CASE j = n + 1
    BY <1>1, <1>2, <1>3, <2>1
  <2>2. CASE j \in 1..n /\ i = n + 1
    BY <1>1, <2>2
  <2>3. CASE j \in 1..n /\ i \in 1..n
    BY <1>1, <2>3 DEF IInv, ChainHolds, n
  <2>4. QED
    BY <1>2, <2>1, <2>2, <2>3
<1>7. QED
  BY <1>1, <1>4, <1>5, <1>6 DEF ChainHolds

LEMMA ShipChildInv ==
    ASSUME IInv, NEW t \in Tasks, ShipChild(t)
    PROVE  IInv'
<1> DEFINE s == Head(scopes[t])
           k == cursor[s] + 1
           c == pending[s][k]
<1>1. /\ scopes[t] # <<>>
      /\ state[s] = "closing"
      /\ cursor[s] < Len(pending[s])
      /\ Ship(c, s)
      /\ cursor' = [cursor EXCEPT ![s] = cursor[s] + 1]
      /\ UNCHANGED <<state, scopes, parent, opener, started, inherited>>
      /\ UNCHANGED <<pending, late>>
  BY DEF ShipChild, In, treeVars, taskVars
<1>2. s \in Spans
  BY <1>1, HeadFacts
<1>3. cursor[s] \in Nat /\ Len(pending[s]) \in Nat /\ k \in 1..Len(pending[s])
  <2>1. cursor[s] \in Nat /\ pending[s] \in Seq(Spans)
    BY <1>2 DEF IInv, TypeOK
  <2>2. QED
    BY <1>1, <2>1
<1>4. c \in Spans /\ parent[c] = s /\ state[c] = "done"
  BY <1>2, <1>3, Members DEF IInv, Parked
<1>5. c \notin ShippedSpans
  BY <1>1, <1>2, <1>3 DEF IInv, Parked
<1>6. s \notin ShippedSpans /\ s # c
  BY <1>1, <1>4 DEF IInv, Closed, ShippedSpans
<1>7. \A x \in Spans : cursor'[x] = IF x = s THEN k ELSE cursor[x]
  BY <1>1 DEF IInv, TypeOK
<1> HIDE DEF c
<1>8. /\ shipped' \in Seq([span : Spans, stamp : Spans \cup {None}])
      /\ Len(shipped) \in Nat
      /\ Len(shipped') = Len(shipped) + 1
      /\ \A i \in 1..Len(shipped) : shipped'[i] = shipped[i]
      /\ shipped'[Len(shipped) + 1].span = c
      /\ ShippedSpans' = ShippedSpans \cup {c}
  BY <1>1, <1>2, <1>4, ShipFacts DEF IInv
<1>9. TypeOK'
  <2>1. cursor[s] + 1 \in Nat /\ cursor \in [Spans -> Nat]
    BY <1>3 DEF IInv, TypeOK
  <2>2. cursor' \in [Spans -> Nat]
    BY <1>1, <2>1
  <2>3. UNCHANGED <<state, scopes, parent, opener, started, inherited, pending, late>>
    BY <1>1
  <2>4. QED
    BY <1>8, <2>2, <2>3 DEF IInv, TypeOK
<1>10. Scoped' /\ ParentsRan' /\ LateOnlyAcrossTasks'
  <2>1. Scoped'
    BY <1>1 DEF IInv, Scoped, Nested
  <2>2. ParentsRan'
    BY <1>1 DEF IInv, ParentsRan
  <2>3. LateOnlyAcrossTasks'
    BY <1>1 DEF IInv, LateOnlyAcrossTasks
  <2>4. QED
    BY <2>1, <2>2, <2>3
<1>11. Parked'
  <2> SUFFICES ASSUME NEW p \in Spans, state[p] # "done"
               PROVE  /\ cursor'[p] <= Len(pending[p])
                      /\ \A i \in 1..Len(pending[p]) :
                            i > cursor'[p] => pending[p][i] \notin ShippedSpans \cup {c}
    BY <1>1, <1>8 DEF IInv, Parked
  <2>1. CASE p # s
    BY <1>4, <1>7, <2>1 DEF IInv, Parked
  <2>2. CASE p = s
    <3>1. cursor'[p] = k
      BY <1>7, <2>2
    <3>2. ASSUME NEW i \in 1..Len(pending[p]), i > k
          PROVE  pending[p][i] \notin ShippedSpans \cup {c}
      <4>1. i > cursor[s] /\ i # k
        BY <1>3, <3>2
      <4>2. pending[p][i] # c
        BY <1>2, <1>3, <2>2, <4>1 DEF IInv, Parked, c
      <4>3. QED
        BY <2>2, <4>1, <4>2 DEF IInv, Parked
    <3>3. QED
      BY <1>3, <2>2, <3>1, <3>2
  <2>3. QED
    BY <2>1, <2>2
<1>12. Closed'
  <2>1. \A i \in 1..Len(shipped) + 1 : state[shipped'[i].span] = "done"
    <3>1. \A i \in 1..Len(shipped) + 1 : i = Len(shipped) + 1 \/ i \in 1..Len(shipped)
      BY <1>8
    <3>2. QED
      BY <1>4, <1>8, <3>1 DEF IInv, Closed
  <2>2. QED
    BY <1>1, <1>8, <2>1 DEF IInv, Closed
<1>13. ChainHolds'
  BY <1>1, <1>4, <1>5, <1>6, ChainExtends
<1>14. LostForAReason'
  <2> SUFFICES ASSUME NEW x \in Spans, state[x] = "done", x \notin ShippedSpans, x # c,
                      x \notin late, state[parent[x]] # "failed"
               PROVE  /\ state[parent[x]] \in {"running", "closing"}
                      /\ \E i \in 1..Len(pending[parent[x]]) :
                            i > cursor'[parent[x]] /\ pending[parent[x]][i] = x
    BY <1>1, <1>8 DEF LostForAReason
  <2>1. parent[x] \in Spans
    BY DEF IInv, TypeOK, Closed
  <2>2. /\ state[parent[x]] \in {"running", "closing"}
        /\ \E i \in 1..Len(pending[parent[x]]) :
              i > cursor[parent[x]] /\ pending[parent[x]][i] = x
    BY DEF IInv, LostForAReason
  <2>3. PICK i \in 1..Len(pending[parent[x]]) :
                i > cursor[parent[x]] /\ pending[parent[x]][i] = x
    BY <2>2
  <2>4. parent[x] = s => i # k
    BY <2>3 DEF c
  <2>5. i > cursor'[parent[x]]
    BY <1>3, <1>7, <2>1, <2>3, <2>4
  <2>6. QED
    BY <2>2, <2>3, <2>5
<1>15. QED
  BY <1>9, <1>10, <1>11, <1>12, <1>13, <1>14 DEF IInv

(* The parent of the innermost span of t is another span: the next scope of t,   *)
(* which is running, or a span of another task.                                 *)
LEMMA ParentFacts ==
    ASSUME IInv, NEW t \in Tasks, scopes[t] # <<>>, parent[Head(scopes[t])] # None
    PROVE  /\ parent[Head(scopes[t])] \in Spans
           /\ parent[Head(scopes[t])] # Head(scopes[t])
           /\ state[parent[Head(scopes[t])]] \in Ran
           /\ \/ state[parent[Head(scopes[t])]] = "running"
              \/ opener[parent[Head(scopes[t])]] # t
<1> DEFINE s == Head(scopes[t])
<1>1. /\ s \in Spans
      /\ s = scopes[t][1]
      /\ Len(scopes[t]) \in Nat \ {0}
      /\ opener[s] = t
  BY HeadFacts
<1>2. parent[s] \in Spans /\ state[parent[s]] \in Ran
  BY <1>1 DEF IInv, TypeOK, ParentsRan
<1>3. CASE Len(scopes[t]) = 1
  <2>1. parent[s] = inherited[t]
    BY <1>1, <1>3 DEF IInv, Scoped, Nested
  <2>2. opener[parent[s]] # t
    BY <2>1 DEF IInv, ParentsRan
  <2>3. QED
    BY <1>1, <1>2, <2>2
<1>4. CASE Len(scopes[t]) > 1
  <2>1. 1 \in 1..Len(scopes[t]) /\ 2 \in 1..Len(scopes[t]) /\ 1 + 1 = 2
    BY <1>1, <1>4
  <2>2. parent[s] = scopes[t][2]
    BY <1>1, <1>4, <2>1 DEF IInv, Scoped, Nested
  <2>3. state[scopes[t][2]] = "running" /\ scopes[t][1] # scopes[t][2]
    BY <2>1 DEF IInv, Scoped, Nested
  <2>4. QED
    BY <1>1, <1>2, <2>2, <2>3
<1>5. \A n \in Nat \ {0} : n = 1 \/ n > 1
  OBVIOUS
<1>6. QED
  BY <1>1, <1>3, <1>4, <1>5

LEMMA CloseEndsInv ==
    ASSUME IInv, NEW t \in Tasks, CloseEnds(t)
    PROVE  IInv'
<1> DEFINE s == Head(scopes[t])
           p == parent[s]
<1>1. /\ scopes[t] # <<>>
      /\ state[s] = "looped"
      /\ state' = [state EXCEPT ![s] = "done"]
      /\ p = None => ShipRoot(s)
      /\ p # None => Park(s, p)
      /\ Leave(t)
      /\ UNCHANGED <<parent, opener, started, inherited, cursor>>
  BY DEF CloseEnds, In, Goto, treeVars, taskVars
<1>2. s \in Spans /\ opener[s] = t
  BY <1>1, HeadFacts
<1>3. \A x \in Spans : state'[x] = IF x = s THEN "done" ELSE state[x]
  BY <1>1, <1>2 DEF IInv, TypeOK
<1>4. Scoped' /\ scopes' \in [Tasks -> Seq(Spans)]
  <2>1. UNCHANGED <<treeVars, taskVars>>
    BY <1>1 DEF treeVars, taskVars
  <2>2. QED
    BY <1>1, <1>3, <2>1, LeavesScope
<1>5. ParentsRan'
  BY <1>1, <1>2, <1>3 DEF IInv, TypeOK, ParentsRan, Ran
<1>6. state' \in [Spans -> States]
  BY <1>1, <1>2 DEF IInv, TypeOK, States
<1>7. s \notin ShippedSpans
  BY <1>1 DEF IInv, Closed, ShippedSpans
<1>8. \A q \in Spans : \A i \in 1..Len(pending[q]) :
         pending[q][i] \in Spans /\ pending[q][i] # s
  BY <1>1, Members DEF IInv, Parked
<1>9. \A q \in Spans : pending[q] \in Seq(Spans) /\ Len(pending[q]) \in Nat
  BY LenProperties DEF IInv, TypeOK
<1>10. ASSUME NEW x \in Spans, state[x] = "done", x \notin ShippedSpans, x \notin late
       PROVE  parent[x] \in Spans /\ parent[x] # s
  <2>1. parent[x] \in Spans
    BY <1>10 DEF IInv, TypeOK, Closed
  <2>2. state[parent[x]] \in {"failed", "running", "closing"}
    BY <1>10 DEF IInv, LostForAReason
  <2>3. QED
    BY <1>1, <2>1, <2>2
<1>11. CASE p = None
  <2>1. /\ pending' = [pending EXCEPT ![s] = <<>>]
        /\ Ship(s, p)
        /\ late' = late
    BY <1>1, <1>11 DEF ShipRoot
  <2>2. /\ shipped' \in Seq([span : Spans, stamp : Spans \cup {None}])
        /\ Len(shipped) \in Nat
        /\ Len(shipped') = Len(shipped) + 1
        /\ \A i \in 1..Len(shipped) : shipped'[i] = shipped[i]
        /\ shipped'[Len(shipped) + 1].span = s
        /\ ShippedSpans' = ShippedSpans \cup {s}
    BY <1>2, <1>11, <2>1, ShipFacts DEF IInv
  <2>3. \A q \in Spans : pending'[q] = IF q = s THEN <<>> ELSE pending[q]
    BY <2>1 DEF IInv, TypeOK
  <2>4. TypeOK'
    <3>1. pending' \in [Spans -> Seq(Spans)]
      <4>1. <<>> \in Seq(Spans)
        BY EmptySeq
      <4>2. QED
        BY <2>1, <4>1 DEF IInv, TypeOK
    <3>2. QED
      BY <1>1, <1>4, <1>6, <2>1, <2>2, <3>1 DEF IInv, TypeOK
  <2>5. Parked'
    <3> SUFFICES ASSUME NEW q \in Spans, q # s
                 PROVE  /\ \A i \in 1..Len(pending[q]) :
                              parent[pending[q][i]] = q /\ state'[pending[q][i]] = "done"
                        /\ \A i, j \in 1..Len(pending[q]) :
                              pending[q][i] = pending[q][j] => i = j
                        /\ state[q] # "done" => cursor[q] <= Len(pending[q])
                        /\ state[q] # "done" => \A i \in 1..Len(pending[q]) :
                              i > cursor[q] => pending[q][i] \notin ShippedSpans \cup {s}
      BY <1>1, <1>3, <2>2, <2>3 DEF Parked
    <3>1. /\ \A i \in 1..Len(pending[q]) :
               parent[pending[q][i]] = q /\ state[pending[q][i]] = "done"
          /\ \A i, j \in 1..Len(pending[q]) : pending[q][i] = pending[q][j] => i = j
          /\ state[q] # "done" => cursor[q] <= Len(pending[q])
          /\ state[q] # "done" => \A i \in 1..Len(pending[q]) :
               i > cursor[q] => pending[q][i] \notin ShippedSpans
      BY DEF IInv, Parked
    <3>2. \A i \in 1..Len(pending[q]) : pending[q][i] \in Spans /\ pending[q][i] # s
      BY <1>8
    <3>3. \A i \in 1..Len(pending[q]) : state'[pending[q][i]] = "done"
      BY <1>3, <3>1, <3>2
    <3>4. state'[q] = state[q]
      BY <1>3
    <3>5. QED
      BY <3>1, <3>2, <3>3, <3>4
  <2>6. Closed'
    <3>1. \A i \in 1..Len(shipped) + 1 : i = Len(shipped) + 1 \/ i \in 1..Len(shipped)
      BY <2>2
    <3>2. \A i \in 1..Len(shipped) : state'[shipped[i].span] = "done"
      BY <1>3, Members DEF IInv, Closed
    <3>3. \A i \in 1..Len(shipped') : state'[shipped'[i].span] = "done"
      BY <1>2, <1>3, <2>2, <3>1, <3>2
    <3>4. \A x \in late : x \in Spans /\ state'[x] = "done" /\ parent[x] # None
      BY <1>3 DEF IInv, TypeOK, Closed
    <3>5. QED
      BY <1>1, <1>3, <2>1, <2>2, <3>3, <3>4 DEF IInv, Closed
  <2>7. ChainHolds'
    <3>1. p \notin ShippedSpans /\ p # s
      BY <1>2, <1>11, Members, BuilderAssumption DEF IInv
    <3>2. QED
      BY <1>1, <1>2, <1>7, <2>1, <3>1, ChainExtends
  <2>8. LateOnlyAcrossTasks'
    BY <1>1, <2>1 DEF IInv, LateOnlyAcrossTasks
  <2>9. LostForAReason'
    <3> SUFFICES ASSUME NEW x \in Spans, x # s, state[x] = "done", x \notin ShippedSpans,
                        x \notin late
                 PROVE  \/ state'[parent[x]] = "failed"
                        \/ /\ state'[parent[x]] \in {"running", "closing"}
                           /\ \E i \in 1..Len(pending'[parent[x]]) :
                                 i > cursor[parent[x]] /\ pending'[parent[x]][i] = x
      BY <1>1, <1>3, <2>1, <2>2 DEF LostForAReason
    <3>1. parent[x] \in Spans /\ parent[x] # s
      BY <1>10
    <3>2. state'[parent[x]] = state[parent[x]] /\ pending'[parent[x]] = pending[parent[x]]
      BY <1>3, <2>3, <3>1
    <3>3. QED
      BY <3>2 DEF IInv, LostForAReason
  <2>10. QED
    BY <1>4, <1>5, <2>4, <2>5, <2>6, <2>7, <2>8, <2>9 DEF IInv
<1>12. CASE p # None
  <2>1. /\ pending' = [pending EXCEPT ![s] = <<>>, ![p] = Append(@, s)]
        /\ late' = IF state[p] \in {"looped", "done"} THEN late \cup {s} ELSE late
        /\ shipped' = shipped
    BY <1>1, <1>12 DEF Park
  <2>2. /\ p \in Spans
        /\ p # s
        /\ state[p] \in Ran
        /\ state[p] = "running" \/ opener[p] # t
    BY <1>1, <1>12, ParentFacts
  <2> DEFINE old == pending[p]
             new == Append(old, s)
  <2>3. \A q \in Spans : pending'[q] = IF q = s THEN <<>> ELSE IF q = p THEN new ELSE pending[q]
    BY <1>2, <2>1, <2>2 DEF IInv, TypeOK
  <2>4. /\ new \in Seq(Spans)
        /\ Len(old) \in Nat
        /\ Len(new) = Len(old) + 1
        /\ \A i \in 1..Len(old) : new[i] = old[i]
        /\ new[Len(old) + 1] = s
    BY <1>2, <1>9, <2>2, AppendFacts
  <2> HIDE DEF new
  <2>5. ShippedSpans' = ShippedSpans
    BY <2>1 DEF ShippedSpans
  <2>6. TypeOK'
    <3>1. pending' \in [Spans -> Seq(Spans)]
      <4>1. pending' = [q \in Spans |-> pending'[q]]
        BY <2>1 DEF IInv, TypeOK
      <4>2. \A q \in Spans : pending'[q] \in Seq(Spans)
        BY <1>9, <2>3, <2>4, EmptySeq
      <4>3. QED
        BY <4>1, <4>2
    <3>2. late' \in SUBSET Spans
      BY <1>2, <2>1 DEF IInv, TypeOK
    <3>3. QED
      BY <1>1, <1>4, <1>6, <2>1, <3>1, <3>2 DEF IInv, TypeOK
  <2>7. \A i \in 1..Len(new) : i = Len(old) + 1 \/ i \in 1..Len(old)
    BY <2>4
  <2>8. Parked'
    <3> SUFFICES ASSUME NEW q \in Spans, q # s
                 PROVE  /\ \A i \in 1..Len(pending'[q]) :
                              parent[pending'[q][i]] = q /\ state'[pending'[q][i]] = "done"
                        /\ \A i, j \in 1..Len(pending'[q]) :
                              pending'[q][i] = pending'[q][j] => i = j
                        /\ state[q] # "done" => cursor[q] <= Len(pending'[q])
                        /\ state[q] # "done" => \A i \in 1..Len(pending'[q]) :
                              i > cursor[q] => pending'[q][i] \notin ShippedSpans
      BY <1>1, <1>3, <2>3, <2>5 DEF Parked
    <3>1. CASE q # p
      BY <1>3, <1>8, <2>3, <3>1 DEF IInv, Parked
    <3>2. CASE q = p
      <4>1. pending'[q] = new
        BY <2>3, <3>2
      <4>2. \A i \in 1..Len(new) : parent[new[i]] = p /\ state'[new[i]] = "done"
        <5>1. parent[s] = p /\ state'[s] = "done"
          BY <1>2, <1>3
        <5>2. \A i \in 1..Len(old) : parent[old[i]] = p /\ state[old[i]] = "done"
          BY <2>2 DEF IInv, Parked
        <5>3. \A i \in 1..Len(old) : parent[old[i]] = p /\ state'[old[i]] = "done"
          BY <1>3, <1>8, <2>2, <5>2
        <5>4. QED
          BY <2>4, <2>7, <5>1, <5>3
      <4>3. \A i, j \in 1..Len(new) : new[i] = new[j] => i = j
        <5>1. \A i, j \in 1..Len(old) : old[i] = old[j] => i = j
          BY <2>2 DEF IInv, Parked
        <5>2. \A i \in 1..Len(old) : new[i] = old[i] /\ old[i] # s
          BY <1>8, <2>2, <2>4
        <5>3. QED
          BY <2>4, <2>7, <5>1, <5>2
      <4>4. state[p] # "done" => cursor[p] <= Len(new)
        <5>1. cursor[p] \in Nat
          BY <2>2 DEF IInv, TypeOK
        <5>2. QED
          BY <2>2, <2>4, <5>1 DEF IInv, Parked
      <4>5. state[p] # "done" => \A i \in 1..Len(new) :
               i > cursor[p] => new[i] \notin ShippedSpans
        <5>1. state[p] # "done" => \A i \in 1..Len(old) :
                 i > cursor[p] => old[i] \notin ShippedSpans
          BY <2>2 DEF IInv, Parked
        <5>2. \A i \in 1..Len(new) :
                 \/ new[i] = s
                 \/ i \in 1..Len(old) /\ new[i] = old[i]
          BY <2>4, <2>7
        <5>3. QED
          BY <1>7, <5>1, <5>2
      <4>6. QED
        BY <3>2, <4>1, <4>2, <4>3, <4>4, <4>5
    <3>3. QED
      BY <3>1, <3>2
  <2>9. Closed'
    <3>1. \A i \in 1..Len(shipped) : state'[shipped[i].span] = "done"
      BY <1>3, Members DEF IInv, Closed
    <3>2. \A x \in late' : x \in Spans /\ state'[x] = "done" /\ parent[x] # None
      BY <1>2, <1>3, <1>12, <2>1 DEF IInv, TypeOK, Closed
    <3>3. QED
      BY <1>1, <1>3, <1>12, <2>1, <2>5, <3>1, <3>2 DEF IInv, Closed
  <2>10. ChainHolds'
    BY <1>1, <2>1 DEF IInv, ChainHolds
  <2>11. LateOnlyAcrossTasks'
    BY <1>1, <1>2, <2>1, <2>2 DEF IInv, LateOnlyAcrossTasks
  <2>12. LostForAReason'
    <3> SUFFICES ASSUME NEW x \in Spans, state'[x] = "done", x \notin ShippedSpans,
                        x \notin late'
                 PROVE  \/ state'[parent[x]] = "failed"
                        \/ /\ state'[parent[x]] \in {"running", "closing"}
                           /\ \E i \in 1..Len(pending'[parent[x]]) :
                                 i > cursor[parent[x]] /\ pending'[parent[x]][i] = x
      BY <1>1, <2>5 DEF LostForAReason
    <3>1. CASE x = s
      <4>1. state[p] \in {"running", "closing", "failed"}
        BY <2>1, <2>2, <3>1 DEF Ran
      <4>2. state'[p] = state[p] /\ pending'[p] = new
        BY <1>3, <2>2, <2>3
      <4>3. cursor[p] \in Nat /\ cursor[p] <= Len(old)
        BY <2>2, <4>1 DEF IInv, TypeOK, Parked
      <4>4. Len(old) + 1 \in 1..Len(new) /\ Len(old) + 1 > cursor[p]
        BY <2>4, <4>3
      <4>5. QED
        BY <2>4, <3>1, <4>1, <4>2, <4>4
    <3>2. CASE x # s
      <4>1. state[x] = "done" /\ x \notin late
        BY <1>3, <2>1, <3>2
      <4>2. parent[x] \in Spans /\ parent[x] # s
        BY <1>10, <4>1
      <4>3. state'[parent[x]] = state[parent[x]]
        BY <1>3, <4>2
      <4>4. CASE state[parent[x]] = "failed"
        BY <4>3, <4>4
      <4>5. CASE state[parent[x]] # "failed"
        <5>1. /\ state[parent[x]] \in {"running", "closing"}
              /\ \E i \in 1..Len(pending[parent[x]]) :
                    i > cursor[parent[x]] /\ pending[parent[x]][i] = x
          BY <4>1, <4>5 DEF IInv, LostForAReason
        <5>2. PICK i \in 1..Len(pending[parent[x]]) :
                      i > cursor[parent[x]] /\ pending[parent[x]][i] = x
          BY <5>1
        <5>3. CASE parent[x] = p
          <6>1. pending'[parent[x]] = new /\ i \in 1..Len(old)
            BY <2>2, <2>3, <5>2, <5>3
          <6>2. i \in 1..Len(new) /\ new[i] = old[i]
            BY <2>4, <6>1
          <6>3. QED
            BY <4>3, <5>1, <5>2, <5>3, <6>1, <6>2
        <5>4. CASE parent[x] # p
          BY <2>3, <4>2, <4>3, <5>1, <5>4
        <5>5. QED
          BY <5>3, <5>4
      <4>6. QED
        BY <4>4, <4>5
    <3>3. QED
      BY <3>1, <3>2
  <2>13. QED
    BY <1>4, <1>5, <2>6, <2>8, <2>9, <2>10, <2>11, <2>12 DEF IInv
<1>13. QED
  BY <1>11, <1>12

-----------------------------------------------------------------------------
LEMMA InitInv == Init => IInv
<1> SUFFICES ASSUME Init
             PROVE  IInv
  OBVIOUS
<1>1. TypeOK
  BY DEF Init, TypeOK, States
<1>2. \A t \in Tasks : scopes[t] = <<>> /\ inherited[t] = None
  BY DEF Init
<1>3. \A s \in Spans : /\ state[s] = "unopened" /\ pending[s] = <<>> /\ cursor[s] = 0
                       /\ parent[s] = None /\ opener[s] = None
  BY DEF Init
<1>4. shipped = <<>> /\ late = {}
  BY DEF Init
<1>5. Scoped
  BY <1>2 DEF Scoped, Nested
<1>6. ParentsRan
  BY <1>2, <1>3 DEF ParentsRan
<1>7. Parked
  BY <1>3 DEF Parked
<1>8. Closed /\ ChainHolds /\ LostForAReason /\ LateOnlyAcrossTasks
  BY <1>3, <1>4 DEF Closed, ChainHolds, LostForAReason, LateOnlyAcrossTasks
<1>9. QED
  BY <1>1, <1>5, <1>6, <1>7, <1>8 DEF IInv

LEMMA StepInv == IInv /\ [Next]_vars => IInv'
<1> SUFFICES ASSUME IInv, [Next]_vars
             PROVE  IInv'
  OBVIOUS
<1>1. CASE UNCHANGED vars
  <2>1. /\ UNCHANGED <<state, scopes, parent, opener, started, inherited>>
        /\ UNCHANGED <<pending, cursor, shipped, late>>
    BY <1>1 DEF vars, treeVars, taskVars, closeVars
  <2>2. ShippedSpans' = ShippedSpans
    BY <2>1 DEF ShippedSpans
  <2>3. TypeOK' /\ Scoped' /\ ParentsRan'
    BY <2>1 DEF IInv, TypeOK, Scoped, Nested, ParentsRan
  <2>4. Parked' /\ Closed'
    BY <2>1, <2>2 DEF IInv, Parked, Closed
  <2>5. ChainHolds' /\ LostForAReason' /\ LateOnlyAcrossTasks'
    BY <2>1, <2>2 DEF IInv, ChainHolds, LostForAReason, LateOnlyAcrossTasks
  <2>6. QED
    BY <2>3, <2>4, <2>5 DEF IInv
<1>2. ASSUME NEW t \in Tasks, TaskStep(t)
      PROVE  IInv'
  <2>1. CASE Start(t)
    BY <2>1, StartInv
  <2>2. ASSUME NEW u \in Tasks, Spawn(t, u)
        PROVE  IInv'
    BY <2>2, SpawnInv
  <2>3. ASSUME NEW s \in Spans, Open(t, s)
        PROVE  IInv'
    BY <2>3, OpenInv
  <2>4. CASE GatePasses(t)
    BY <2>4, MovesOn DEF GatePasses, In
  <2>5. CASE GateBlocks(t) \/ FunctionEnds(t)
    BY <2>5, MovesOn DEF GateBlocks, FunctionEnds, EndsFrom, In
  <2>6. CASE GateCancelled(t)
    BY <2>6, GivesUp DEF GateCancelled, In
  <2>7. CASE ShipChild(t)
    BY <2>7, ShipChildInv
  <2>8. CASE LoopEnds(t)
    BY <2>8, MovesOn DEF LoopEnds, In
  <2>9. CASE CloseEnds(t)
    BY <2>9, CloseEndsInv
  <2>10. CASE CloseFails(t)
    BY <2>10, GivesUp DEF CloseFails, In
  <2>11. QED
    BY <1>2, <2>1, <2>2, <2>3, <2>4, <2>5, <2>6, <2>7, <2>8, <2>9, <2>10 DEF TaskStep
<1>3. QED
  BY <1>1, <1>2 DEF Next

(* The strengthened invariant of the tree (builder.py:110-252). *)
THEOREM Inductive == Spec => []IInv
BY InitInv, StepInv, PTL DEF Spec

(* Every span is in a known state, with a list of spans parked with it. *)
THEOREM TypeCorrect == Spec => []TypeOK
BY Inductive, PTL DEF IInv

(* Spans ship once, before their parents and with their hash (builder.py:14-20). *)
THEOREM SpansChain == Spec => []ChainHolds
BY Inductive, PTL DEF IInv

(* A closed span that never ships was closed too late, or its parent's close *)
(* failed (builder.py:178-182, 231-250).                                     *)
THEOREM LossesHaveReasons == Spec => []LostForAReason
BY Inductive, PTL DEF IInv

(* One task alone never closes a span too late (propagation.py:48-60). *)
THEOREM LateFromOtherTasks == Spec => []LateOnlyAcrossTasks
BY Inductive, PTL DEF IInv

-----------------------------------------------------------------------------
(* Events and spans                                                          *)

Everywhere == Contexts \cup {Pool}
Happening == [run : Runs, what : {"start", "end", "failed", "call", "suppressed"}, ctx : Everywhere]
SpanTypes == {"model_call", "traced"} \cup {LangGraphType[k] : k \in Kinds}
             \cup {CrewType[k] : k \in Kinds}
Recorded == [run : Runs, type : SpanTypes, parent : Nat, closed : BOOLEAN, parked : Nat, shipped : Nat]

AdapterTypeInv ==
  /\ deployment \in Deployments
  /\ phase \in [Runs -> {"new", "running", "called", "over"}]
  /\ attempts \in [Runs -> Nat]
  /\ inflight \subseteq [run : Runs, what : {"start", "end"}, attempt : Nat]
  /\ open \in [Runs -> Nat]
  /\ cur \in [Everywhere -> Nat]
  /\ flag \in [Everywhere -> BOOLEAN]
  /\ tokens \in [Runs -> [ctx : Everywhere, old : BOOLEAN, set : BOOLEAN]]
  /\ cm \in [span : Nat, ctx : Everywhere, old : Nat, live : BOOLEAN]
  /\ spans \in Seq(Recorded)
  /\ handled \in Seq(Happening)

\* Where a model call of LangGraph is, and what of it may still be on its way.
ModelCall(r) == KindOf(r) = "llm"
CallStage(r) ==
  /\ phase[r] = "new" => \A e \in inflight : e.run # r
  /\ phase[r] # "over" =>
       /\ When(r, "end") = {}
       /\ \A e \in inflight : e.run = r => e = Event(r, "start", 1) /\ ~tokens[r].set
  /\ phase[r] = "over" => \A e \in inflight : e.run = r =>
                            e = Event(r, "end", attempts[r]) /\ When(r, "end") = {}
  /\ phase[r] = "new" => ~tokens[r].set
CallStages == deployment = "langgraph" => \A r \in Runs : ModelCall(r) => CallStage(r)

\* r ended while q, that began in it, had not.
Passed(r, q) ==
  \E i \in Began(r), j \in Began(q), l \in When(r, "end") :
    /\ i < j /\ j < l
    /\ \A m \in When(r, "end") : m < i \/ j < m
    /\ \A k \in When(q, "end") : j < k => l < k

\* Why the flag of a context may stay set for good.
LostAt(r, c) ==
  /\ ModelCall(r)
  /\ \E j \in Began(r) : handled[j].ctx = c
  /\ \/ When(r, "end") # {} /\ \A k \in When(r, "end") : handled[k].ctx # c
     \/ \E q \in Runs : ModelCall(q) /\ q # r /\ Passed(r, q)
Lost(c) == \E r \in Runs : LostAt(r, c)
Holding(r, c) == tokens[r].set /\ tokens[r].ctx = c

\* At moment j the call w, that began in c, was under way; it has its token yet
\* or it ended since.
UnderWay(w, c, j) ==
  /\ ModelCall(w)
  /\ Holding(w, c) \/ When(w, "end") # {}
  /\ \A m \in When(w, "end") : j < m
  /\ \E i \in Began(w) : i < j /\ handled[i].ctx = c

TokenStands(r) ==
  tokens[r].set =>
    /\ ModelCall(r) /\ When(r, "end") = {}
    /\ \E j \in Began(r) :
         /\ handled[j].ctx = tokens[r].ctx
         /\ tokens[r].old => \/ Lost(tokens[r].ctx)
                             \/ \E w \in Runs \ {r} : UnderWay(w, tokens[r].ctx, j)

FlagStands ==
  /\ deployment # "langgraph" => \A c \in Everywhere : ~flag[c]
  /\ deployment # "langgraph" => \A r \in Runs : ~tokens[r].set
  /\ \A r \in Runs : TokenStands(r)
  /\ \A c \in Everywhere : flag[c] => Lost(c) \/ \E r \in Runs : Holding(r, c)

MissedForAReason(i) ==
  \E r \in Runs :
    /\ ModelCall(r)
    /\ \E j \in Began(r) \cup When(r, "end") : j < i /\ handled[j].ctx = handled[i].ctx
    /\ \/ \A k \in When(r, "end") : k < i => handled[k].ctx # handled[i].ctx
       \/ \E q \in Runs : ModelCall(q) /\ q # r /\ Passed(r, q)
MissesStand ==
  \A i \in DOMAIN handled :
    handled[i].what = "suppressed" /\ KindOf(handled[i].run) = "direct" => MissedForAReason(i)

SuppressionInv == AdapterTypeInv /\ CallStages /\ FlagStands /\ MissesStand

\* What is in the map, and what was opened and is in it no more.
Framed(r) == KindOf(r) \in FrameworkKinds \ {"feedback"}
FramedAre ==
  /\ \A e \in inflight : KindOf(e.run) \in FrameworkKinds
  /\ \A r \in Runs : KindOf(r) = "feedback" /\ When(r, "call") # {} => deployment = "crewai"
OpenStands(r) ==
  open[r] # 0 =>
    \/ KindOf(r) = "feedback" /\ deployment # "crewai"
    \/ Framed(r) /\ \E i \in When(r, "start") : \A k \in When(r, "end") : k < i
\* A span of a block is in the one object, or another block came in between.
Shared(r, s) ==
  \E j \in When(r, "start") :
    \/ cm.span = s /\ phase[r] = "running"
    \/ \E q \in Runs \ {r} :
         /\ KindOf(q) = "traced"
         /\ \E i \in When(q, "start") :
              j < i /\ (phase[r] = "running" \/ \E k \in When(r, "end") : i < k)
StartedTwice(r) ==
  \E i, j \in When(r, "start") : i < j /\ \A k \in When(r, "end") : ~(i < k /\ k < j)
OpenSpan(r, s) ==
  \/ KindOf(r) = "feedback" /\ deployment # "crewai"
  \/ Framed(r) /\ (open[r] = s \/ StartedTwice(r))
  \/ KindOf(r) = "traced" /\ phase[r] # "new" /\ Shared(r, s)
OpenSpansStand == \A s \in DOMAIN spans : ~spans[s].closed => OpenSpan(spans[s].run, s)
LeftOpenInv == AdapterTypeInv /\ FramedAre /\ (\A r \in Runs : OpenStands(r)) /\ OpenSpansStand

-----------------------------------------------------------------------------
(* One happening, one span                                                   *)

\* What a happening adds to the history.
Logged(r, w, c) ==
  /\ Len(handled) \in Nat /\ DOMAIN handled = 1..Len(handled)
  /\ handled' \in Seq(Happening) /\ DOMAIN handled' = 1..(Len(handled) + 1)
  /\ \A i \in 1..Len(handled) : handled'[i] = handled[i]
  /\ handled'[Len(handled) + 1] = [run |-> r, what |-> w, ctx |-> c]
  /\ \A q, x : When(q, x) \subseteq 1..Len(handled)
  /\ \A q, x : (q = r /\ x = w => When(q, x)' = When(q, x) \cup {Len(handled) + 1})
                /\ (q # r \/ x # w => When(q, x)' = When(q, x))

LEMMA LogFacts ==
  ASSUME handled \in Seq(Happening), NEW r \in Runs, NEW c \in Everywhere,
         NEW w \in {"start", "end", "failed", "call", "suppressed"}, Log(r, w, c)
  PROVE  Logged(r, w, c)
<1> DEFINE e == [run |-> r, what |-> w, ctx |-> c]
<1>1. e \in Happening BY DEF Happening
<1>2. handled' = Append(handled, e) BY DEF Log
<1>3. e.run = r /\ e.what = w OBVIOUS
<1> HIDE DEF e
<1>4. /\ Len(handled) \in Nat /\ DOMAIN handled = 1..Len(handled)
      /\ handled' \in Seq(Happening) /\ DOMAIN handled' = 1..(Len(handled) + 1)
      /\ \A i \in 1..Len(handled) : handled'[i] = handled[i]
      /\ handled'[Len(handled) + 1] = e
  BY <1>1, <1>2
<1>5. \A q, x : When(q, x) \subseteq 1..Len(handled) BY <1>4 DEF When
<1>6. ASSUME NEW q, NEW x
      PROVE  (q = r /\ x = w => When(q, x)' = When(q, x) \cup {Len(handled) + 1})
             /\ (q # r \/ x # w => When(q, x)' = When(q, x))
  BY <1>3, <1>4 DEF When
<1> QED BY <1>4, <1>5, <1>6 DEF e, Logged

\* A history that stays as it is.
LEMMA SameHistory ==
  ASSUME handled' = handled
  PROVE  \A q, x : When(q, x)' = When(q, x)
BY DEF When

\* A span that is opened comes last.
LEMMA OpenedFacts ==
  ASSUME spans \in Seq(Recorded), NEW r \in Runs, NEW type \in SpanTypes, NEW under \in Nat
  PROVE  LET S == Opened(r, type, under) IN
         /\ Len(spans) \in Nat /\ DOMAIN spans = 1..Len(spans)
         /\ S \in Seq(Recorded) /\ DOMAIN S = 1..(Len(spans) + 1)
         /\ \A i \in 1..Len(spans) : S[i] = spans[i]
         /\ S[Len(spans) + 1].run = r /\ ~S[Len(spans) + 1].closed
<1> DEFINE e == [run |-> r, type |-> type, parent |-> under,
                 closed |-> FALSE, parked |-> 0, shipped |-> 0]
<1>1. e \in Recorded BY DEF Recorded
<1>2. e.run = r /\ ~e.closed OBVIOUS
<1>3. Opened(r, type, under) = Append(spans, e) BY DEF Opened
<1> HIDE DEF e
<1> QED BY <1>1, <1>2, <1>3

\* A span that is closed is closed, and the others are as they were.
LEMMA CloseFacts ==
  ASSUME NEW S \in Seq(Recorded), NEW i
  PROVE  /\ CloseSpan(S, i) \in Seq(Recorded) /\ DOMAIN CloseSpan(S, i) = DOMAIN S
         /\ \A j \in DOMAIN S : /\ CloseSpan(S, i)[j].run = S[j].run
                                /\ CloseSpan(S, i)[j].closed <=> j = i \/ S[j].closed
<1> DEFINE D == CloseSpan(S, i)
<1>1. /\ DOMAIN D = DOMAIN S
      /\ \A j \in DOMAIN S : D[j] =
           IF j = i THEN [S[j] EXCEPT !.closed = TRUE, !.parked = IF S[j].parent = 0 THEN @ ELSE @ + 1,
                                      !.shipped = IF S[j].parent = 0 THEN @ + 1 ELSE @]
           ELSE IF S[j].parent = i THEN [S[j] EXCEPT !.shipped = @ + S[j].parked, !.parked = 0]
           ELSE S[j]
  BY DEF CloseSpan
<1> HIDE DEF D
<1>2. ASSUME NEW j \in DOMAIN S
      PROVE  /\ D[j] \in Recorded /\ D[j].run = S[j].run
             /\ D[j].closed <=> j = i \/ S[j].closed
  <2>0. S[j] \in Recorded OBVIOUS
  <2>1. /\ S[j] \in Recorded /\ S[j].run \in Runs /\ S[j].type \in SpanTypes
        /\ S[j].parent \in Nat /\ S[j].parked \in Nat /\ S[j].shipped \in Nat
        /\ S[j].closed \in BOOLEAN
    BY <2>0 DEF Recorded
  <2>2. CASE j = i
    <3> DEFINE wait == IF S[j].parent = 0 THEN S[j].parked ELSE S[j].parked + 1
               sent == IF S[j].parent = 0 THEN S[j].shipped + 1 ELSE S[j].shipped
    <3>1. D[j] = [S[j] EXCEPT !.closed = TRUE, !.parked = wait, !.shipped = sent]
      BY <1>1, <2>2
    <3>2. wait \in Nat /\ sent \in Nat BY <2>1
    <3> HIDE DEF wait, sent
    <3> QED BY <2>1, <2>2, <3>1, <3>2 DEF Recorded
  <2>3. CASE j # i /\ S[j].parent = i
    <3> DEFINE sent == S[j].shipped + S[j].parked
    <3>1. D[j] = [S[j] EXCEPT !.shipped = sent, !.parked = 0]
      BY <1>1, <2>3
    <3>2. sent \in Nat BY <2>1
    <3> HIDE DEF sent
    <3>3. D[j] \in Recorded
      <4>1. D[j] = [run |-> S[j].run, type |-> S[j].type, parent |-> S[j].parent,
                    closed |-> S[j].closed, parked |-> 0, shipped |-> sent]
        BY <2>0, <3>1 DEF Recorded
      <4> QED BY <2>1, <3>2, <4>1 DEF Recorded
    <3>4. D[j].run = S[j].run /\ D[j].closed = S[j].closed
      BY <2>1, <3>1, <3>2 DEF Recorded
    <3> QED BY <2>3, <3>3, <3>4
  <2>4. CASE j # i /\ S[j].parent # i
    BY <1>1, <2>1, <2>4
  <2> QED BY <2>2, <2>3, <2>4
<1>3. D \in Seq(Recorded)
  <2>1. DOMAIN S = 1..Len(S) /\ Len(S) \in Nat OBVIOUS
  <2>2. D = [j \in 1..Len(S) |-> D[j]] BY <1>1, <2>1 DEF D, CloseSpan
  <2>3. \A j \in 1..Len(S) : D[j] \in Recorded BY <1>2, <2>1
  <2> QED BY <2>1, <2>2, <2>3
<1> QED BY <1>1, <1>2, <1>3 DEF D

-----------------------------------------------------------------------------
(* Types, and what a step does to the spans                                  *)

LEMMA RunFacts ==
  ASSUME AdapterTypeInv, NEW r \in Runs
  PROVE  /\ KindOf(r) \in Kinds /\ Home(r) \in Everywhere /\ Home(r) # Pool
         /\ SpanTypeOf(r) \in SpanTypes
         /\ open[r] \in Nat /\ attempts[r] \in Nat
         /\ \A c \in Everywhere : cur[c] \in Nat /\ ParentSpan(r, c) \in Nat /\ flag[c] \in BOOLEAN
         /\ Pool \in Everywhere
<1>1. deployment \in Deployments BY DEF AdapterTypeInv
<1>2. /\ KindOf(r) \in Kinds /\ Home(r) \in Contexts /\ ParentOf(r) \in Runs \cup {NoRun}
      /\ Pool \notin Contexts
  BY <1>1, InstrumentationAssumption DEF KindOf, Home, ParentOf
<1>3. SpanTypeOf(r) \in SpanTypes BY <1>2 DEF SpanTypeOf, SpanTypes
<1>4. \A q \in Runs : open[q] \in Nat BY DEF AdapterTypeInv
<1>5. \A c \in Everywhere : cur[c] \in Nat /\ ParentSpan(r, c) \in Nat /\ flag[c] \in BOOLEAN
  BY <1>2, <1>4 DEF ParentSpan, AdapterTypeInv
<1> QED BY <1>2, <1>3, <1>4, <1>5 DEF AdapterTypeInv, Everywhere

\* Spans stay in their places, and closed ones stay closed.
SpansKept ==
  /\ spans \in Seq(Recorded) /\ spans' \in Seq(Recorded)
  /\ \A s \in DOMAIN spans :
       /\ s \in DOMAIN spans' /\ spans'[s].run = spans[s].run
       /\ spans[s].closed => spans'[s].closed

\* A span is opened, and stays open or not.
SpanAdded(r) ==
  /\ DOMAIN spans = 1..Len(spans) /\ Len(spans) \in Nat
  /\ DOMAIN spans' = 1..(Len(spans) + 1) /\ spans'[Len(spans) + 1].run = r

LEMMA OpensAndCloses ==
  ASSUME spans \in Seq(Recorded), NEW r \in Runs, NEW type \in SpanTypes, NEW under \in Nat,
         spans' = CloseSpan(Opened(r, type, under), Len(spans) + 1)
  PROVE  SpansKept /\ SpanAdded(r) /\ spans'[Len(spans) + 1].closed
<1> DEFINE S == Opened(r, type, under)
<1>1. /\ Len(spans) \in Nat /\ DOMAIN spans = 1..Len(spans)
      /\ S \in Seq(Recorded) /\ DOMAIN S = 1..(Len(spans) + 1)
      /\ \A i \in 1..Len(spans) : S[i] = spans[i]
      /\ S[Len(spans) + 1].run = r
  BY OpenedFacts
<1> HIDE DEF S
<1>2. /\ spans' \in Seq(Recorded) /\ DOMAIN spans' = DOMAIN S
      /\ \A j \in DOMAIN S : /\ spans'[j].run = S[j].run
                             /\ spans'[j].closed <=> j = Len(spans) + 1 \/ S[j].closed
  BY <1>1, CloseFacts DEF S
<1> QED BY <1>1, <1>2 DEF SpansKept, SpanAdded

LEMMA StartFacts ==
  ASSUME AdapterTypeInv, NEW r \in Runs, NEW c \in Everywhere, NEW under \in Nat,
         StartSpan(r, c, under)
  PROVE  /\ SpansKept /\ open' \in [Runs -> Nat]
         /\ \/ Log(r, "failed", c) /\ open' = open /\ spans' = spans
            \/ /\ Log(r, "start", c) /\ SpanAdded(r)
               /\ \A s \in DOMAIN spans : spans'[s] = spans[s]
               /\ open' = [open EXCEPT ![r] = Len(spans) + 1]
<1>1. CASE Log(r, "failed", c) /\ open' = open /\ spans' = spans
  BY <1>1 DEF AdapterTypeInv, SpansKept
<1>2. CASE /\ Log(r, "start", c) /\ spans' = Opened(r, SpanTypeOf(r), under)
           /\ open' = [open EXCEPT ![r] = Len(spans) + 1]
  <2>1. SpanTypeOf(r) \in SpanTypes BY RunFacts
  <2>2. /\ Len(spans) \in Nat /\ DOMAIN spans = 1..Len(spans)
        /\ spans' \in Seq(Recorded) /\ DOMAIN spans' = 1..(Len(spans) + 1)
        /\ \A i \in 1..Len(spans) : spans'[i] = spans[i]
        /\ spans'[Len(spans) + 1].run = r
    BY <1>2, <2>1, OpenedFacts DEF AdapterTypeInv
  <2>3. open' \in [Runs -> Nat] BY <1>2, <2>2 DEF AdapterTypeInv
  <2> QED BY <1>2, <2>2, <2>3 DEF SpansKept, SpanAdded, AdapterTypeInv
<1> QED BY <1>1, <1>2 DEF StartSpan

LEMMA EndFacts ==
  ASSUME AdapterTypeInv, NEW r \in Runs, NEW c \in Everywhere, EndSpan(r, c)
  PROVE  /\ SpansKept /\ open' \in [Runs -> Nat] /\ Log(r, "end", c)
         /\ open' = [open EXCEPT ![r] = 0]
         /\ DOMAIN spans' = DOMAIN spans
         /\ open[r] # 0 /\ open[r] \in DOMAIN spans => spans'[open[r]].closed
<1>1. Log(r, "end", c) /\ open' = [open EXCEPT ![r] = 0] BY DEF EndSpan
<1>2. open' \in [Runs -> Nat] /\ spans \in Seq(Recorded) BY <1>1 DEF AdapterTypeInv
<1>3. CASE open[r] = 0
  <2>1. spans' = spans BY <1>3 DEF EndSpan
  <2> QED BY <1>1, <1>2, <1>3, <2>1 DEF SpansKept
<1>4. CASE open[r] # 0
  <2>1. spans' = CloseSpan(spans, open[r]) BY <1>4 DEF EndSpan
  <2>2. /\ spans' \in Seq(Recorded) /\ DOMAIN spans' = DOMAIN spans
        /\ \A j \in DOMAIN spans : /\ spans'[j].run = spans[j].run
                                   /\ spans'[j].closed <=> j = open[r] \/ spans[j].closed
    BY <1>2, <2>1, CloseFacts
  <2> QED BY <1>1, <1>2, <2>2 DEF SpansKept
<1> QED BY <1>3, <1>4

LEMMA CallFacts ==
  ASSUME AdapterTypeInv, NEW r \in Runs, WrappedCall(r)
  PROVE  /\ SpansKept
         /\ \/ /\ spans' = spans
               /\ \/ flag[Home(r)] /\ Log(r, "suppressed", Home(r))
                  \/ Log(r, "failed", Home(r))
            \/ /\ Log(r, "call", Home(r)) /\ SpanAdded(r)
               /\ spans'[Len(spans) + 1].closed
<1>1. cur[Home(r)] \in Nat /\ Home(r) \in Everywhere BY RunFacts
<1>2. CASE flag[Home(r)] /\ Log(r, "suppressed", Home(r)) /\ spans' = spans
  BY <1>2 DEF SpansKept, AdapterTypeInv
<1>3. CASE Log(r, "failed", Home(r)) /\ spans' = spans
  BY <1>3 DEF SpansKept, AdapterTypeInv
<1>4. CASE /\ Log(r, "call", Home(r))
           /\ spans' = CloseSpan(Opened(r, "model_call", cur[Home(r)]), Len(spans) + 1)
  <2>1. "model_call" \in SpanTypes /\ spans \in Seq(Recorded) BY DEF SpanTypes, AdapterTypeInv
  <2> QED BY <1>1, <1>4, <2>1, OpensAndCloses
<1> QED BY <1>2, <1>3, <1>4 DEF WrappedCall

\* What every step does: a happening at most, and no span forgotten.
Steps ==
  /\ deployment' = deployment /\ SpansKept
  /\ \/ handled' = handled
     \/ \E q \in Runs, c \in Everywhere, w \in {"start", "end", "failed", "call", "suppressed"} :
          Log(q, w, c)

LEMMA TypeInit ==
  ASSUME AdapterInit
  PROVE  AdapterTypeInv
<1>1. attempts \in [Runs -> Nat] /\ open \in [Runs -> Nat] /\ cur \in [Everywhere -> Nat]
  BY DEF AdapterInit, Everywhere
<1>2. spans \in Seq(Recorded) /\ handled \in Seq(Happening) BY DEF AdapterInit
<1>3. NoToken \in [ctx : Everywhere, old : BOOLEAN, set : BOOLEAN]
  BY DEF NoToken, Everywhere
<1>4. Unentered \in [span : Nat, ctx : Everywhere, old : Nat, live : BOOLEAN]
  BY DEF Unentered, Everywhere
<1>5. tokens \in [Runs -> [ctx : Everywhere, old : BOOLEAN, set : BOOLEAN]]
  BY <1>3 DEF AdapterInit
<1>6. flag \in [Everywhere -> BOOLEAN] BY DEF AdapterInit, Everywhere
<1>7. phase \in [Runs -> {"new", "running", "called", "over"}] BY DEF AdapterInit
<1> QED BY <1>1, <1>2, <1>4, <1>5, <1>6, <1>7 DEF AdapterInit, AdapterTypeInv

\* The steps of the runs keep the types.
LEMMA RunTypes ==
  ASSUME AdapterTypeInv, NEW r \in Runs, RunStep(r)
  PROVE  AdapterTypeInv' /\ Steps
<1>1. ASSUME NEW c \in Everywhere, NEW w \in {"start", "end", "failed", "call", "suppressed"},
             Log(r, w, c)
      PROVE  handled' \in Seq(Happening)
  <2>1. handled \in Seq(Happening) BY DEF AdapterTypeInv
  <2> QED BY <1>1, <2>1, LogFacts DEF Logged
<1>2. ASSUME spans' = spans
      PROVE  SpansKept
  BY <1>2 DEF SpansKept, AdapterTypeInv
<1>0. /\ Home(r) \in Everywhere /\ cur[Home(r)] \in Nat /\ attempts[r] \in Nat
      /\ \A q, n : q \in Runs /\ n \in Nat =>
           /\ Event(q, "start", n) \in [run : Runs, what : {"start", "end"}, attempt : Nat]
           /\ Event(q, "end", n) \in [run : Runs, what : {"start", "end"}, attempt : Nat]
  BY RunFacts DEF Event
<1> USE DEF AdapterTypeInv, Steps
<1>3. CASE Begin(r)
  <2>0. Event(r, "start", 1) \in [run : Runs, what : {"start", "end"}, attempt : Nat] BY <1>0
  <2>1. inflight' \subseteq [run : Runs, what : {"start", "end"}, attempt : Nat]
    BY <2>0, <1>3 DEF Begin
  <2> QED BY <1>2, <1>3, <2>1 DEF Begin
<1>4. CASE Retry(r)
  <2>0. /\ Event(r, "end", attempts[r]) \in [run : Runs, what : {"start", "end"}, attempt : Nat]
        /\ Event(r, "start", attempts[r] + 1) \in [run : Runs, what : {"start", "end"}, attempt : Nat]
    <3> DEFINE n == attempts[r] + 1
    <3>1. n \in Nat BY <1>0
    <3> HIDE DEF n
    <3>2. Event(r, "start", n) \in [run : Runs, what : {"start", "end"}, attempt : Nat]
      BY <1>0, <3>1
    <3> QED BY <1>0, <3>2 DEF n
  <2>1. inflight' \subseteq [run : Runs, what : {"start", "end"}, attempt : Nat]
    BY <2>0, <1>4 DEF Retry
  <2>2. attempts' \in [Runs -> Nat] BY <1>0, <1>4 DEF Retry
  <2> QED BY <1>2, <1>4, <2>1, <2>2 DEF Retry
<1>5. CASE Finish(r)
  <2>0. Event(r, "end", attempts[r]) \in [run : Runs, what : {"start", "end"}, attempt : Nat] BY <1>0
  <2>1. inflight' \subseteq [run : Runs, what : {"start", "end"}, attempt : Nat]
    BY <2>0, <1>5 DEF Finish
  <2> QED BY <1>2, <1>5, <2>1 DEF Finish
<1>6. ASSUME WrappedCall(r)
      PROVE  /\ SpansKept /\ handled' \in Seq(Happening) /\ spans' \in Seq(Recorded)
             /\ \E w \in {"start", "end", "failed", "call", "suppressed"} : Log(r, w, Home(r))
  <2>1. SpansKept /\ \E w \in {"start", "end", "failed", "call", "suppressed"} : Log(r, w, Home(r))
    BY <1>6, CallFacts
  <2> QED BY <1>0, <1>1, <2>1 DEF SpansKept
<1>7. CASE CallInside(r) BY <1>0, <1>6, <1>7 DEF CallInside
<1>8. CASE CallDirect(r) BY <1>0, <1>6, <1>8 DEF CallDirect
<1>9. CASE TracedEnter(r)
  <2>1. CASE Log(r, "failed", Home(r)) /\ UNCHANGED <<spans, cm, cur>>
    <3>1. handled' \in Seq(Happening) BY <1>0, <1>1, <2>1
    <3> QED BY <1>0, <1>2, <1>9, <2>1, <3>1 DEF TracedEnter
  <2>2. CASE /\ Log(r, "start", Home(r)) /\ spans' = Opened(r, "traced", cur[Home(r)])
             /\ cm' = [span |-> Len(spans) + 1, ctx |-> Home(r), old |-> cur[Home(r)], live |-> TRUE]
             /\ cur' = [cur EXCEPT ![Home(r)] = Len(spans) + 1]
    <3>1. handled' \in Seq(Happening) BY <1>0, <1>1, <2>2
    <3>2. /\ Len(spans) \in Nat /\ DOMAIN spans = 1..Len(spans)
          /\ spans' \in Seq(Recorded) /\ DOMAIN spans' = 1..(Len(spans) + 1)
          /\ \A i \in 1..Len(spans) : spans'[i] = spans[i]
      BY <1>0, <2>2, OpenedFacts DEF SpanTypes
    <3>3. SpansKept BY <3>2 DEF SpansKept
    <3>4. cm' \in [span : Nat, ctx : Everywhere, old : Nat, live : BOOLEAN]
      BY <1>0, <2>2, <3>2
    <3>5. cur' \in [Everywhere -> Nat] BY <1>0, <2>2, <3>2
    <3> QED BY <1>0, <1>9, <2>2, <3>1, <3>2, <3>3, <3>4, <3>5 DEF TracedEnter
  <2> QED BY <1>9, <2>1, <2>2 DEF TracedEnter
<1>10. CASE TracedExit(r)
  <2>1. Log(r, "end", Home(r)) BY <1>10 DEF TracedExit
  <2>2. handled' \in Seq(Happening) BY <1>0, <1>1, <2>1
  <2>3. SpansKept /\ spans' \in Seq(Recorded)
    <3>1. CASE cm.span = 0 BY <1>2, <1>10, <3>1 DEF TracedExit
    <3>2. CASE cm.span # 0
      <4>1. spans' = CloseSpan(spans, cm.span) BY <1>10, <3>2 DEF TracedExit
      <4> QED BY <4>1, CloseFacts DEF SpansKept
    <3> QED BY <3>1, <3>2
  <2>4. cm' \in [span : Nat, ctx : Everywhere, old : Nat, live : BOOLEAN]
    BY <1>10 DEF TracedExit
  <2>5. cur' \in [Everywhere -> Nat]
    <3>1. cm.old \in Nat OBVIOUS
    <3> QED BY <1>0, <1>10, <3>1 DEF TracedExit
  <2> QED BY <1>0, <1>10, <2>1, <2>2, <2>3, <2>4, <2>5 DEF TracedExit
<1> QED BY <1>3, <1>4, <1>5, <1>7, <1>8, <1>9, <1>10 DEF RunStep

\* And so do those of the adapters.
LEMMA HandlerTypes ==
  ASSUME AdapterTypeInv, NEW r \in Runs, Handler(r)
  PROVE  AdapterTypeInv' /\ Steps
<1>1. ASSUME NEW c \in Everywhere, NEW w \in {"start", "end", "failed", "call", "suppressed"},
             Log(r, w, c)
      PROVE  handled' \in Seq(Happening)
  <2>1. handled \in Seq(Happening) BY DEF AdapterTypeInv
  <2> QED BY <1>1, <2>1, LogFacts DEF Logged
<1>2. ASSUME spans' = spans
      PROVE  SpansKept
  BY <1>2 DEF SpansKept, AdapterTypeInv
<1>3. /\ Home(r) \in Everywhere /\ Pool \in Everywhere /\ SpanTypeOf(r) \in SpanTypes
      /\ \A c \in Everywhere : ParentSpan(r, c) \in Nat /\ cur[c] \in Nat /\ flag[c] \in BOOLEAN
  BY RunFacts
<1>4. ASSUME NEW what, NEW c, Take(r, what, c)
      PROVE  /\ inflight' \subseteq [run : Runs, what : {"start", "end"}, attempt : Nat]
             /\ deployment' \in Deployments /\ deployment' = deployment
             /\ phase' \in [Runs -> {"new", "running", "called", "over"}]
             /\ attempts' \in [Runs -> Nat] /\ cur' \in [Everywhere -> Nat]
             /\ cm' \in [span : Nat, ctx : Everywhere, old : Nat, live : BOOLEAN]
  BY <1>4 DEF Take, AdapterTypeInv
<1>5. ASSUME NEW c \in Everywhere, NEW under \in Nat, StartSpan(r, c, under)
      PROVE  /\ SpansKept /\ spans' \in Seq(Recorded) /\ handled' \in Seq(Happening)
             /\ open' \in [Runs -> Nat]
             /\ \E q \in Runs, d \in Everywhere,
                   w \in {"start", "end", "failed", "call", "suppressed"} : Log(q, w, d)
  <2>1. /\ SpansKept /\ open' \in [Runs -> Nat]
        /\ \E w \in {"start", "end", "failed", "call", "suppressed"} : Log(r, w, c)
    BY <1>5, StartFacts
  <2> QED BY <1>1, <2>1 DEF SpansKept
<1>6. ASSUME NEW c \in Everywhere, EndSpan(r, c)
      PROVE  /\ SpansKept /\ spans' \in Seq(Recorded) /\ handled' \in Seq(Happening)
             /\ open' \in [Runs -> Nat]
             /\ Log(r, "end", c)
  <2>1. SpansKept /\ open' \in [Runs -> Nat] /\ Log(r, "end", c) BY <1>6, EndFacts
  <2> QED BY <1>1, <2>1 DEF SpansKept
<1>7. ASSUME NEW c \in {Home(r), Pool}, LangGraphStart(r, c)
      PROVE  AdapterTypeInv' /\ Steps
  <2>1. c \in Everywhere BY <1>3
  <2>2. flag' \in [Everywhere -> BOOLEAN] /\ tokens' \in [Runs -> [ctx : Everywhere, old : BOOLEAN, set : BOOLEAN]]
    <3>1. [ctx |-> c, old |-> flag[c], set |-> TRUE] \in [ctx : Everywhere, old : BOOLEAN, set : BOOLEAN]
      BY <1>3, <2>1
    <3>2. CASE KindOf(r) = "llm"
      <4>1. /\ flag' = [flag EXCEPT ![c] = TRUE]
            /\ tokens' = [tokens EXCEPT ![r] = [ctx |-> c, old |-> flag[c], set |-> TRUE]]
        BY <1>7, <3>2 DEF LangGraphStart
      <4> QED BY <2>1, <3>1, <4>1 DEF AdapterTypeInv
    <3>3. CASE KindOf(r) # "llm" BY <1>7, <3>3 DEF LangGraphStart, AdapterTypeInv
    <3> QED BY <3>2, <3>3
  <2>3. StartSpan(r, c, ParentSpan(r, c)) /\ Take(r, "start", c) BY <1>7 DEF LangGraphStart
  <2>4. ParentSpan(r, c) \in Nat BY <1>3, <2>1
  <2>5. /\ SpansKept /\ spans' \in Seq(Recorded) /\ handled' \in Seq(Happening)
        /\ open' \in [Runs -> Nat]
        /\ \E q \in Runs, d \in Everywhere,
              w \in {"start", "end", "failed", "call", "suppressed"} : Log(q, w, d)
    BY <1>5, <2>1, <2>3, <2>4
  <2> QED BY <1>4, <2>1, <2>2, <2>3, <2>5 DEF AdapterTypeInv, Steps
<1>8. ASSUME NEW c \in {Home(r), Pool}, LangGraphEnd(r, c)
      PROVE  AdapterTypeInv' /\ Steps
  <2>1. c \in Everywhere BY <1>3
  <2>2. flag' \in [Everywhere -> BOOLEAN] /\ tokens' \in [Runs -> [ctx : Everywhere, old : BOOLEAN, set : BOOLEAN]]
    <3>1. NoToken \in [ctx : Everywhere, old : BOOLEAN, set : BOOLEAN] BY DEF NoToken, Everywhere
    <3>2. tokens[r].old \in BOOLEAN BY DEF AdapterTypeInv
    <3> QED BY <1>8, <2>1, <3>1, <3>2 DEF LangGraphEnd, AdapterTypeInv
  <2>3. EndSpan(r, c) /\ Take(r, "end", c) BY <1>8 DEF LangGraphEnd
  <2> QED BY <1>4, <1>6, <2>1, <2>2, <2>3 DEF AdapterTypeInv, Steps
<1>9. CASE CrewStart(r)
  <2>1. StartSpan(r, Pool, ParentSpan(r, Pool)) /\ Take(r, "start", Pool) /\ UNCHANGED <<flag, tokens>>
    BY <1>9 DEF CrewStart
  <2> QED BY <1>3, <1>4, <1>5, <2>1 DEF AdapterTypeInv, Steps
<1>10. CASE CrewEnd(r)
  <2>1. EndSpan(r, Pool) /\ Take(r, "end", Pool) /\ UNCHANGED <<flag, tokens>>
    BY <1>10 DEF CrewEnd
  <2> QED BY <1>3, <1>4, <1>6, <2>1 DEF AdapterTypeInv, Steps
<1>11. CASE CrewFeedback(r)
  <2>1. Take(r, "start", Pool) /\ UNCHANGED <<open, flag, tokens>> BY <1>11 DEF CrewFeedback
  <2>2. CASE Log(r, "failed", Pool) /\ UNCHANGED spans
    <3>1. handled' \in Seq(Happening) BY <1>1, <1>3, <2>2
    <3> QED BY <1>2, <1>3, <1>4, <2>1, <2>2, <3>1 DEF AdapterTypeInv, Steps
  <2>3. CASE /\ Log(r, "call", Pool)
             /\ spans' = CloseSpan(Opened(r, SpanTypeOf(r), ParentSpan(r, Pool)), Len(spans) + 1)
    <3>1. handled' \in Seq(Happening) BY <1>1, <1>3, <2>3
    <3>2. spans \in Seq(Recorded) /\ ParentSpan(r, Pool) \in Nat BY <1>3 DEF AdapterTypeInv
    <3>3. SpansKept /\ spans' \in Seq(Recorded)
      BY <1>3, <2>3, <3>2, OpensAndCloses DEF SpansKept
    <3> QED BY <1>3, <1>4, <2>1, <2>3, <3>1, <3>3 DEF AdapterTypeInv, Steps
  <2> QED BY <1>11, <2>2, <2>3 DEF CrewFeedback
<1>12. CASE LitePre(r)
  <2>1. StartSpan(r, Home(r), cur[Home(r)]) /\ Take(r, "start", Home(r)) /\ UNCHANGED <<flag, tokens>>
    BY <1>12 DEF LitePre
  <2> QED BY <1>3, <1>4, <1>5, <2>1 DEF AdapterTypeInv, Steps
<1>13. CASE LiteEnd(r)
  <2>1. Take(r, "end", Pool) /\ UNCHANGED <<flag, tokens>> BY <1>13 DEF LiteEnd
  <2>2. CASE EndSpan(r, Pool)
    BY <1>3, <1>4, <1>6, <2>1, <2>2 DEF AdapterTypeInv, Steps
  <2>3. CASE Log(r, "failed", Pool) /\ UNCHANGED <<open, spans>>
    <3>1. handled' \in Seq(Happening) BY <1>1, <1>3, <2>3
    <3> QED BY <1>2, <1>3, <1>4, <2>1, <2>3, <3>1 DEF AdapterTypeInv, Steps
  <2>4. CASE /\ Log(r, "end", Pool) /\ UNCHANGED open
             /\ spans' = CloseSpan(Opened(r, "model_call", cur[Pool]), Len(spans) + 1)
    <3>1. handled' \in Seq(Happening) BY <1>1, <1>3, <2>4
    <3>2. spans \in Seq(Recorded) /\ cur[Pool] \in Nat /\ "model_call" \in SpanTypes
      BY <1>3 DEF AdapterTypeInv, SpanTypes
    <3>3. SpansKept /\ spans' \in Seq(Recorded)
      BY <1>3, <2>4, <3>2, OpensAndCloses DEF SpansKept
    <3> QED BY <1>3, <1>4, <2>1, <2>4, <3>1, <3>3 DEF AdapterTypeInv, Steps
  <2> QED BY <1>13, <2>2, <2>3, <2>4 DEF LiteEnd
<1> QED BY <1>7, <1>8, <1>9, <1>10, <1>11, <1>12, <1>13 DEF Handler

LEMMA TypeStep ==
  ASSUME AdapterTypeInv, [AdapterNext]_adapterVars
  PROVE  AdapterTypeInv' /\ Steps
<1>1. CASE UNCHANGED adapterVars
  BY <1>1 DEF adapterVars, AdapterTypeInv, Steps, SpansKept
<1>2. CASE AdapterNext BY <1>2, RunTypes, HandlerTypes DEF AdapterNext
<1> QED BY <1>1, <1>2

-----------------------------------------------------------------------------
(* What a context has of a model call                                        *)

\* The history grows at its end.
Grows ==
  /\ DOMAIN handled \subseteq Nat
  /\ \A i \in DOMAIN handled : i \in DOMAIN handled' /\ handled'[i] = handled[i]
  /\ \A q, x : When(q, x) \subseteq When(q, x)' /\ When(q, x) \subseteq DOMAIN handled
  /\ \A q, x : \A i \in When(q, x)' :
       i \in Nat /\ (i \in When(q, x) \/ \A j \in DOMAIN handled : j < i)

LEMMA GrowsStep ==
  ASSUME AdapterTypeInv, Steps
  PROVE  Grows
<1>0. handled \in Seq(Happening) BY DEF AdapterTypeInv
<1>1. CASE handled' = handled
  <2>1. \A q, x : When(q, x)' = When(q, x) BY <1>1, SameHistory
  <2>2. DOMAIN handled \subseteq Nat BY <1>0
  <2>3. \A q, x : When(q, x) \subseteq DOMAIN handled BY DEF When
  <2> QED BY <1>1, <2>1, <2>2, <2>3 DEF Grows
<1>2. ASSUME NEW r \in Runs, NEW c \in Everywhere,
             NEW w \in {"start", "end", "failed", "call", "suppressed"}, Log(r, w, c)
      PROVE  Grows
  <2>1. Logged(r, w, c) BY <1>0, <1>2, LogFacts
  <2>2. \A p, x : When(p, x) \subseteq When(p, x)' BY <2>1 DEF Logged
  <2>3. ASSUME NEW p, NEW x, NEW i \in When(p, x)'
        PROVE  i \in Nat /\ (i \in When(p, x) \/ \A j \in DOMAIN handled : j < i)
    BY <2>1 DEF Logged
  <2> QED BY <2>1, <2>2, <2>3 DEF Grows, Logged
<1> QED BY <1>1, <1>2 DEF Steps

LEMMA PassedStays ==
  ASSUME Grows, NEW r, NEW q, Passed(r, q)
  PROVE  Passed(r, q)'
<1>1. PICK i \in Began(r), j \in Began(q), l \in When(r, "end") :
        /\ i < j /\ j < l
        /\ \A m \in When(r, "end") : m < i \/ j < m
        /\ \A k \in When(q, "end") : j < k => l < k
  BY DEF Passed
<1>2. i \in Began(r)' /\ j \in Began(q)' /\ l \in When(r, "end")' BY DEF Grows, Began
<1>3. j \in DOMAIN handled /\ l \in DOMAIN handled BY DEF Grows, Began
<1>4. \A m \in When(r, "end")' : m < i \/ j < m BY <1>1, <1>3 DEF Grows
<1>5. \A k \in When(q, "end")' : j < k => l < k BY <1>1, <1>3 DEF Grows
<1> QED BY <1>1, <1>2, <1>4, <1>5 DEF Passed

\* What was lost stays lost, as long as the run does not end once more.
LEMMA LostStays ==
  ASSUME Grows, deployment' = deployment, NEW r, NEW c, LostAt(r, c),
         When(r, "end") # {} => When(r, "end")' = When(r, "end")
  PROVE  LostAt(r, c)'
<1>1. ModelCall(r)' = ModelCall(r) /\ \A q : ModelCall(q)' = ModelCall(q) BY DEF ModelCall, KindOf
<1>2. \E j \in Began(r)' : handled'[j].ctx = c
  BY DEF LostAt, Grows, Began
<1>3. CASE When(r, "end") # {} /\ \A k \in When(r, "end") : handled[k].ctx # c
  <2>1. \A k \in When(r, "end")' : handled'[k].ctx # c BY <1>3 DEF Grows
  <2> QED BY <1>1, <1>2, <1>3, <2>1 DEF LostAt
<1>4. ASSUME NEW q \in Runs, ModelCall(q), q # r, Passed(r, q)
      PROVE  LostAt(r, c)'
  <2>1. Passed(r, q)' BY <1>4, PassedStays
  <2> QED BY <1>1, <1>2, <1>4, <2>1 DEF LostAt
<1> QED BY <1>3, <1>4 DEF LostAt

\* So does the reason why a call was missed.
LEMMA MissStays ==
  ASSUME Grows, deployment' = deployment, NEW i \in DOMAIN handled, MissedForAReason(i)
  PROVE  MissedForAReason(i)'
<1>1. \A q : ModelCall(q)' = ModelCall(q) BY DEF ModelCall, KindOf
<1>2. PICK r \in Runs :
        /\ ModelCall(r)
        /\ \E j \in Began(r) \cup When(r, "end") : j < i /\ handled[j].ctx = handled[i].ctx
        /\ \/ \A k \in When(r, "end") : k < i => handled[k].ctx # handled[i].ctx
           \/ \E q \in Runs : ModelCall(q) /\ q # r /\ Passed(r, q)
  BY DEF MissedForAReason
<1>3. \E j \in (Began(r) \cup When(r, "end"))' : j < i /\ handled'[j].ctx = handled'[i].ctx
  <2>1. PICK j \in Began(r) \cup When(r, "end") : j < i /\ handled[j].ctx = handled[i].ctx
    BY <1>2
  <2>2. j \in DOMAIN handled /\ j \in (Began(r) \cup When(r, "end"))' BY DEF Grows, Began
  <2>3. handled'[j] = handled[j] /\ handled'[i] = handled[i] BY <2>2 DEF Grows
  <2> QED BY <2>1, <2>2, <2>3
<1>4. CASE \A k \in When(r, "end") : k < i => handled[k].ctx # handled[i].ctx
  <2>1. \A k \in When(r, "end")' : k < i => handled'[k].ctx # handled'[i].ctx
    <3> TAKE k \in When(r, "end")'
    <3> HAVE k < i
    <3>1. k \in When(r, "end") BY DEF Grows
    <3>2. k \in DOMAIN handled BY <3>1 DEF Grows
    <3>3. handled'[k] = handled[k] /\ handled'[i] = handled[i] BY <3>2 DEF Grows
    <3> QED BY <1>4, <3>1, <3>3
  <2> QED BY <1>1, <1>2, <1>3, <2>1 DEF MissedForAReason
<1>5. ASSUME NEW q \in Runs, ModelCall(q), q # r, Passed(r, q)
      PROVE  MissedForAReason(i)'
  <2>1. Passed(r, q)' BY <1>5, PassedStays
  <2> QED BY <1>1, <1>2, <1>3, <1>5, <2>1 DEF MissedForAReason
<1> QED BY <1>2, <1>4, <1>5

\* A run that a step does not touch stays at its stage.
StageKept(q) ==
  /\ phase'[q] = phase[q] /\ attempts'[q] = attempts[q]
  /\ When(q, "end")' = When(q, "end")
  /\ \A e \in inflight' : e.run = q => e \in inflight
  /\ tokens'[q] = tokens[q]

LEMMA StageStays ==
  ASSUME NEW q, CallStage(q), StageKept(q)
  PROVE  CallStage(q)'
BY DEF CallStage, StageKept, Event

\* Where the steps of a run take the model calls of LangGraph.
LEMMA RunStages ==
  ASSUME AdapterTypeInv, CallStages, deployment = "langgraph", NEW r \in Runs, RunStep(r)
  PROVE  CallStages'
<1>0. /\ handled \in Seq(Happening) /\ Home(r) \in Everywhere
      /\ phase \in [Runs -> {"new", "running", "called", "over"}] /\ attempts \in [Runs -> Nat]
  BY RunFacts DEF AdapterTypeInv
<1>1. ASSUME handled' = handled
      PROVE  \A q : When(q, "end")' = When(q, "end")
  BY <1>1, SameHistory
<1>2. ASSUME NEW w \in {"start", "failed", "call", "suppressed"}, Log(r, w, Home(r))
      PROVE  \A q : When(q, "end")' = When(q, "end")
  <2>1. Logged(r, w, Home(r)) BY <1>0, <1>2, LogFacts
  <2> QED BY <2>1 DEF Logged
<1>3. ASSUME Log(r, "end", Home(r))
      PROVE  \A q : q # r => When(q, "end")' = When(q, "end")
  <2>1. Logged(r, "end", Home(r)) BY <1>0, <1>3, LogFacts
  <2> QED BY <2>1 DEF Logged
<1>4. deployment' = deployment /\ \A q : ModelCall(q)' = ModelCall(q)
  BY DEF RunStep, Begin, Retry, Finish, CallInside, CallDirect, TracedEnter, TracedExit, ModelCall, KindOf
<1>5. CASE Begin(r)
  <2>1. \A q : When(q, "end")' = When(q, "end") BY <1>1, <1>5 DEF Begin
  <2>2. ASSUME NEW q \in Runs, ModelCall(q), CallStage(q)
        PROVE  CallStage(q)'
    <3>1. CASE q # r
      <4>1. StageKept(q) BY <1>0, <1>5, <2>1, <3>1 DEF Begin, StageKept, Event
      <4> QED BY <2>2, <4>1, StageStays
    <3>2. CASE q = r
      <4>1. /\ phase[r] = "new" /\ phase'[r] = "running" /\ tokens' = tokens
            /\ inflight' = inflight \cup {Event(r, "start", 1)}
        BY <1>0, <1>5, <2>2, <3>2 DEF Begin, ModelCall
      <4> QED BY <2>1, <2>2, <3>2, <4>1 DEF CallStage, Event
    <3> QED BY <3>1, <3>2
  <2> QED BY <1>4, <2>2 DEF CallStages
<1>6. CASE Retry(r) BY <1>6 DEF Retry
<1>7. CASE Finish(r)
  <2>1. \A q : When(q, "end")' = When(q, "end") BY <1>1, <1>7 DEF Finish
  <2>2. ASSUME NEW q \in Runs, ModelCall(q), CallStage(q)
        PROVE  CallStage(q)'
    <3>1. CASE q # r
      <4>1. StageKept(q) BY <1>0, <1>7, <2>1, <3>1 DEF Finish, StageKept, Event
      <4> QED BY <2>2, <4>1, StageStays
    <3>2. CASE q = r
      <4>1. /\ phase[r] = "called" /\ phase'[r] = "over" /\ tokens' = tokens /\ attempts' = attempts
            /\ inflight' = inflight \cup {Event(r, "end", attempts[r])}
        BY <1>0, <1>7, <2>2, <3>2 DEF Finish, ModelCall
      <4>2. \A e \in inflight : e.run # r BY <1>7 DEF Finish, Settled, Awaited
      <4> QED BY <2>1, <2>2, <3>2, <4>1, <4>2 DEF CallStage, Event
    <3> QED BY <3>1, <3>2
  <2> QED BY <1>4, <2>2 DEF CallStages
<1>8. ASSUME WrappedCall(r)
      PROVE  \A q : When(q, "end")' = When(q, "end")
  BY <1>2, <1>8 DEF WrappedCall
<1>9. CASE CallInside(r)
  <2>1. \A q : When(q, "end")' = When(q, "end") BY <1>8, <1>9 DEF CallInside
  <2>2. ASSUME NEW q \in Runs, ModelCall(q), CallStage(q)
        PROVE  CallStage(q)'
    <3>1. CASE q # r
      <4>1. StageKept(q) BY <1>0, <1>9, <2>1, <3>1 DEF CallInside, StageKept
      <4> QED BY <2>2, <4>1, StageStays
    <3>2. CASE q = r
      <4>1. /\ phase[r] = "running" /\ phase'[r] = "called" /\ tokens' = tokens /\ inflight' = inflight
        BY <1>0, <1>9 DEF CallInside
      <4> QED BY <2>1, <2>2, <3>2, <4>1 DEF CallStage
    <3> QED BY <3>1, <3>2
  <2> QED BY <1>4, <2>2 DEF CallStages
<1>10. CASE CallDirect(r) \/ TracedEnter(r) \/ TracedExit(r)
  <2>1. ASSUME NEW q, q # r
        PROVE  When(q, "end")' = When(q, "end")
    BY <1>2, <1>3, <1>8, <1>10, <2>1 DEF CallDirect, TracedEnter, TracedExit
  <2>2. ~ModelCall(r) BY <1>10 DEF CallDirect, TracedEnter, TracedExit, ModelCall
  <2>3. ASSUME NEW q \in Runs, ModelCall(q), CallStage(q)
        PROVE  CallStage(q)'
    <3>1. q # r BY <2>2, <2>3
    <3>2. StageKept(q)
      BY <1>0, <1>10, <2>1, <3>1 DEF CallDirect, TracedEnter, TracedExit, StageKept
    <3> QED BY <2>3, <3>2, StageStays
  <2> QED BY <1>4, <2>3 DEF CallStages
<1> QED BY <1>5, <1>6, <1>7, <1>9, <1>10 DEF RunStep

\* What the start of a model call finds.
LEMMA StartFinds ==
  ASSUME AdapterTypeInv, CallStages, NEW r \in Runs, NEW c, LangGraphStart(r, c), ModelCall(r)
  PROVE  When(r, "end") = {} /\ ~tokens[r].set
<1>1. deployment = "langgraph" /\ \E e \in inflight : e.run = r /\ e.what = "start"
  BY DEF LangGraphStart, Take
<1>2. CallStage(r) BY <1>1 DEF CallStages
<1> QED BY <1>1, <1>2 DEF CallStage, Event

\* And its end.
LEMMA EndFinds ==
  ASSUME AdapterTypeInv, CallStages, NEW r \in Runs, NEW c, LangGraphEnd(r, c), ModelCall(r)
  PROVE  When(r, "end") = {}
<1>1. deployment = "langgraph" /\ \E e \in inflight : e.run = r /\ e.what = "end"
  BY DEF LangGraphEnd, Take
<1>2. CallStage(r) BY <1>1 DEF CallStages
<1> QED BY <1>1, <1>2 DEF CallStage, Event

LEMMA HandlerStages ==
  ASSUME AdapterTypeInv, CallStages, deployment = "langgraph", NEW r \in Runs, Handler(r)
  PROVE  CallStages'
<1>0. /\ handled \in Seq(Happening) /\ Home(r) \in Everywhere /\ Pool \in Everywhere
      /\ tokens \in [Runs -> [ctx : Everywhere, old : BOOLEAN, set : BOOLEAN]]
  BY RunFacts DEF AdapterTypeInv
<1>1. PICK c \in {Home(r), Pool} : LangGraphStart(r, c) \/ LangGraphEnd(r, c)
  BY DEF Handler, CrewStart, CrewEnd, CrewFeedback, LitePre, LiteEnd
<1>2. c \in Everywhere BY <1>0
<1>3. deployment' = deployment /\ (\A q : ModelCall(q)' = ModelCall(q)) /\ phase' = phase /\ attempts' = attempts
  BY <1>1 DEF LangGraphStart, LangGraphEnd, Take, ModelCall, KindOf
<1>4. CASE LangGraphStart(r, c)
  <2>1. \A q : When(q, "end")' = When(q, "end")
    <3>1. Log(r, "start", c) \/ Log(r, "failed", c) BY <1>4 DEF LangGraphStart, StartSpan
    <3>2. Logged(r, "start", c) \/ Logged(r, "failed", c) BY <1>0, <1>2, <3>1, LogFacts
    <3> QED BY <3>2 DEF Logged
  <2>2. PICK e \in inflight : e.run = r /\ e.what = "start" /\ inflight' = inflight \ {e}
    BY <1>4 DEF LangGraphStart, Take
  <2>3. ASSUME NEW q \in Runs, ModelCall(q), CallStage(q)
        PROVE  CallStage(q)'
    <3>1. CASE q # r
      <4>1. StageKept(q) BY <1>0, <1>3, <1>4, <2>1, <2>2, <3>1 DEF LangGraphStart, StageKept
      <4> QED BY <2>3, <4>1, StageStays
    <3>2. CASE q = r
      <4>1. phase[r] # "new" /\ phase[r] # "over" BY <2>2, <2>3, <3>2 DEF CallStage, Event
      <4>2. \A d \in inflight' : d.run # r
        BY <2>2, <2>3, <3>2, <4>1 DEF CallStage, Event
      <4> QED BY <1>3, <2>1, <2>3, <3>2, <4>1, <4>2 DEF CallStage
    <3> QED BY <3>1, <3>2
  <2> QED BY <1>3, <2>3 DEF CallStages
<1>5. CASE LangGraphEnd(r, c)
  <2>1. \A q : q # r => When(q, "end")' = When(q, "end")
    <3>1. Log(r, "end", c) BY <1>5 DEF LangGraphEnd, EndSpan
    <3>2. Logged(r, "end", c) BY <1>0, <1>2, <3>1, LogFacts
    <3> QED BY <3>2 DEF Logged
  <2>2. PICK e \in inflight : e.run = r /\ e.what = "end" /\ inflight' = inflight \ {e}
    BY <1>5 DEF LangGraphEnd, Take
  <2>3. ASSUME NEW q \in Runs, ModelCall(q), CallStage(q)
        PROVE  CallStage(q)'
    <3>1. CASE q # r
      <4>1. StageKept(q) BY <1>0, <1>3, <1>5, <2>1, <2>2, <3>1 DEF LangGraphEnd, StageKept
      <4> QED BY <2>3, <4>1, StageStays
    <3>2. CASE q = r
      <4>1. phase[r] = "over" BY <2>2, <2>3, <3>2 DEF CallStage, Event
      <4>2. \A d \in inflight' : d.run # r
        BY <2>2, <2>3, <3>2, <4>1 DEF CallStage, Event
      <4> QED BY <1>3, <2>3, <3>2, <4>1, <4>2 DEF CallStage
    <3> QED BY <3>1, <3>2
  <2> QED BY <1>3, <2>3 DEF CallStages
<1> QED BY <1>1, <1>4, <1>5

LEMMA StagesStep ==
  ASSUME AdapterTypeInv, CallStages, [AdapterNext]_adapterVars
  PROVE  CallStages'
<1>1. deployment' = deployment BY TypeStep DEF Steps
<1>2. CASE deployment # "langgraph" BY <1>1, <1>2 DEF CallStages
<1>3. CASE deployment = "langgraph" /\ AdapterNext
  BY <1>3, RunStages, HandlerStages DEF AdapterNext
<1>4. CASE UNCHANGED adapterVars
  BY <1>4, SameHistory DEF adapterVars, CallStages, CallStage, ModelCall, KindOf
<1> QED BY <1>2, <1>3, <1>4

\* A token that a step leaves alone still stands for what it did.
LEMMA TokenKept ==
  ASSUME Grows, deployment' = deployment, NEW r \in Runs, TokenStands(r), tokens'[r] = tokens[r],
         When(r, "end")' = When(r, "end"),
         \A c : Lost(c) => Lost(c)',
         \A w \in Runs : \A c : Holding(w, c) \/ When(w, "end") # {} =>
           (Holding(w, c) \/ When(w, "end") # {})'
  PROVE  TokenStands(r)'
<1>1. \A q : ModelCall(q)' = ModelCall(q) BY DEF ModelCall, KindOf
<1> SUFFICES ASSUME tokens[r].set
             PROVE  TokenStands(r)'
  BY DEF TokenStands
<1>0. PICK c : c = tokens[r].ctx OBVIOUS
<1>2. PICK j \in Began(r) :
        /\ handled[j].ctx = c
        /\ tokens[r].old => Lost(c) \/ \E w \in Runs \ {r} : UnderWay(w, c, j)
  BY <1>0 DEF TokenStands
<1>3. j \in Began(r)' /\ j \in DOMAIN handled /\ handled'[j].ctx = c BY <1>2 DEF Grows, Began
<1>4. ASSUME NEW w \in Runs, UnderWay(w, c, j)
      PROVE  UnderWay(w, c, j)'
  <2>1. (Holding(w, c) \/ When(w, "end") # {})' BY <1>4 DEF UnderWay
  <2>2. \A m \in When(w, "end")' : j < m BY <1>3, <1>4 DEF Grows, UnderWay
  <2>3. \E i \in Began(w)' : i < j /\ handled'[i].ctx = c BY <1>4 DEF Grows, Began, UnderWay
  <2> QED BY <1>1, <1>4, <2>1, <2>2, <2>3 DEF UnderWay
<1>5. tokens'[r].old => Lost(c)' \/ \E w \in Runs \ {r} : UnderWay(w, c, j)'
  BY <1>2, <1>4
<1>6. ModelCall(r) /\ When(r, "end") = {} /\ tokens'[r].ctx = c BY <1>0 DEF TokenStands
<1> QED BY <1>1, <1>3, <1>5, <1>6 DEF TokenStands

\* A step that begins and ends no model call of LangGraph.
Apart ==
  /\ flag' = flag
  /\ \A q \in Runs : tokens[q].set \/ tokens'[q].set => tokens'[q] = tokens[q]
  /\ \A q \in Runs : ModelCall(q) => When(q, "end")' = When(q, "end")

LEMMA FlagApart ==
  ASSUME Grows, deployment' = deployment, FlagStands, Apart
  PROVE  FlagStands'
<1>1. \A q : ModelCall(q)' = ModelCall(q) BY DEF ModelCall, KindOf
<1>2. ASSUME NEW c, Lost(c)
      PROVE  Lost(c)'
  <2>1. PICK q \in Runs : LostAt(q, c) BY <1>2 DEF Lost
  <2>2. When(q, "end")' = When(q, "end") BY <2>1 DEF LostAt, Apart
  <2>3. LostAt(q, c)' BY <2>1, <2>2, LostStays
  <2> QED BY <2>3 DEF Lost
<1>3. ASSUME NEW w \in Runs, NEW c, Holding(w, c) \/ When(w, "end") # {}
      PROVE  (Holding(w, c) \/ When(w, "end") # {})'
  BY <1>3 DEF Grows, Apart, Holding
<1>4. ASSUME NEW q \in Runs
      PROVE  TokenStands(q)'
  <2>1. CASE ~tokens'[q].set BY <2>1 DEF TokenStands
  <2>2. CASE tokens'[q].set
    <3>1. tokens'[q] = tokens[q] BY <2>2 DEF Apart
    <3>2. TokenStands(q) BY DEF FlagStands
    <3>3. When(q, "end")' = When(q, "end") BY <2>2, <3>1, <3>2 DEF TokenStands, Apart
    <3> QED BY <1>2, <1>3, <3>1, <3>2, <3>3, TokenKept
  <2> QED BY <2>1, <2>2
<1>5. ASSUME NEW c \in Everywhere, flag'[c]
      PROVE  Lost(c)' \/ \E r \in Runs : Holding(r, c)'
  BY <1>2, <1>5 DEF FlagStands, Apart, Holding
<1>6. deployment # "langgraph" => \A q \in Runs : ~tokens'[q].set
  BY DEF FlagStands, Apart
<1> QED BY <1>4, <1>5, <1>6 DEF FlagStands, Apart

\* Steps of the runs are apart, and those of the other deployments.
LEMMA ApartSteps ==
  ASSUME AdapterTypeInv, FlagStands, NEW r \in Runs,
         \/ RunStep(r)
         \/ CrewStart(r) \/ CrewEnd(r) \/ CrewFeedback(r) \/ LitePre(r) \/ LiteEnd(r)
  PROVE  deployment # "langgraph" \/ Apart
<1>1. SUFFICES ASSUME deployment = "langgraph"
               PROVE  Apart
  OBVIOUS
<1>2. RunStep(r) BY <1>1 DEF CrewStart, CrewEnd, CrewFeedback, LitePre, LiteEnd
<1>3. flag' = flag /\ tokens' = tokens
  BY <1>2 DEF RunStep, Begin, Retry, Finish, CallInside, CallDirect, TracedEnter, TracedExit
<1>4. ASSUME NEW q \in Runs, ModelCall(q)
      PROVE  When(q, "end")' = When(q, "end")
  <2>0. handled \in Seq(Happening) /\ Home(r) \in Everywhere BY RunFacts DEF AdapterTypeInv
  <2>1. CASE handled' = handled BY <2>1, SameHistory
  <2>2. ASSUME NEW w \in {"start", "failed", "call", "suppressed"}, Log(r, w, Home(r))
        PROVE  When(q, "end")' = When(q, "end")
    <3>1. Logged(r, w, Home(r)) BY <2>0, <2>2, LogFacts
    <3> QED BY <3>1 DEF Logged
  <2>3. CASE TracedExit(r)
    <3>1. Log(r, "end", Home(r)) /\ q # r BY <1>4, <2>3 DEF TracedExit, ModelCall
    <3>2. Logged(r, "end", Home(r)) BY <2>0, <3>1, LogFacts
    <3> QED BY <3>1, <3>2 DEF Logged
  <2> QED BY <1>2, <2>1, <2>2, <2>3 DEF RunStep, Begin, Retry, Finish, CallInside, CallDirect,
                                        TracedEnter, WrappedCall
<1> QED BY <1>3, <1>4 DEF Apart

\* on_chat_model_start: what it finds in the flag, it keeps in its token.
LEMMA FlagStart ==
  ASSUME AdapterTypeInv, CallStages, FlagStands, Grows, NEW r \in Runs,
         NEW c \in Everywhere, LangGraphStart(r, c)
  PROVE  FlagStands'
<1>0. /\ handled \in Seq(Happening) /\ flag \in [Everywhere -> BOOLEAN]
      /\ tokens \in [Runs -> [ctx : Everywhere, old : BOOLEAN, set : BOOLEAN]]
  BY DEF AdapterTypeInv
<1>1. deployment = "langgraph" /\ deployment' = deployment BY DEF LangGraphStart, Take
<1>2. \A q : ModelCall(q)' = ModelCall(q) BY <1>1 DEF ModelCall, KindOf
<1>3. PICK w \in {"start", "failed"} : Logged(r, w, c)
  <2>1. Log(r, "start", c) \/ Log(r, "failed", c) BY DEF LangGraphStart, StartSpan
  <2> QED BY <1>0, <2>1, LogFacts
<1>4. \A q : When(q, "end")' = When(q, "end") BY <1>3 DEF Logged
<1>5. CASE ~ModelCall(r)
  <2>1. Apart BY <1>4, <1>5 DEF Apart, LangGraphStart, ModelCall
  <2> QED BY <1>1, <2>1, FlagApart
<1>6. CASE ModelCall(r)
  <2>1. When(r, "end") = {} /\ ~tokens[r].set BY <1>6, StartFinds
  <2>2. /\ flag' = [flag EXCEPT ![c] = TRUE]
        /\ tokens' = [tokens EXCEPT ![r] = [ctx |-> c, old |-> flag[c], set |-> TRUE]]
    BY <1>6 DEF LangGraphStart, ModelCall
  <2>3. ASSUME NEW d, Lost(d)
        PROVE  Lost(d)'
    <3>1. PICK q \in Runs : LostAt(q, d) BY <2>3 DEF Lost
    <3>2. LostAt(q, d)' BY <1>1, <1>4, <3>1, LostStays
    <3> QED BY <3>2 DEF Lost
  <2>4. ASSUME NEW q \in Runs, NEW d, Holding(q, d)
        PROVE  q # r /\ Holding(q, d)'
    BY <2>1, <2>2, <2>4, <1>0 DEF Holding
  <2>5. ASSUME NEW q \in Runs \ {r}
        PROVE  TokenStands(q)'
    <3>1. TokenStands(q) BY DEF FlagStands
    <3>2. tokens'[q] = tokens[q] BY <1>0, <2>2
    <3>3. \A v \in Runs : \A d : Holding(v, d) \/ When(v, "end") # {} =>
            (Holding(v, d) \/ When(v, "end") # {})'
      BY <1>4, <2>4
    <3> QED BY <1>1, <1>4, <2>3, <3>1, <3>2, <3>3, TokenKept
  <2>6. tokens'[r].ctx = c /\ tokens'[r].old = flag[c] /\ tokens'[r].set BY <1>0, <2>2
  <2>7. TokenStands(r)'
    <3>0. PICK j : j = Len(handled) + 1 OBVIOUS
    <3>1. j \in Began(r)' /\ handled'[j].ctx = c BY <1>3, <3>0 DEF Logged, Began
    <3>2. ASSUME flag[c], ~Lost(c)
          PROVE  \E q \in Runs \ {r} : UnderWay(q, c, j)'
      <4>1. PICK q \in Runs : Holding(q, c) BY <3>2 DEF FlagStands
      <4>2. q # r /\ Holding(q, c)' BY <2>4, <4>1
      <4>3. ModelCall(q) /\ When(q, "end") = {} /\ \E i \in Began(q) : handled[i].ctx = c
        BY <4>1 DEF Holding, FlagStands, TokenStands
      <4>4. \E i \in Began(q)' : i < j /\ handled'[i].ctx = c
        <5>1. PICK i \in Began(q) : handled[i].ctx = c BY <4>3
        <5>2. i \in Began(q)' /\ i \in DOMAIN handled /\ handled'[i] = handled[i] BY DEF Grows, Began
        <5>3. i < j BY <1>3, <3>0, <5>2 DEF Logged
        <5> QED BY <5>1, <5>2, <5>3
      <4>5. UnderWay(q, c, j)' BY <1>2, <1>4, <4>2, <4>3, <4>4 DEF UnderWay
      <4> QED BY <4>2, <4>5
    <3> QED BY <1>2, <1>4, <1>6, <2>1, <2>3, <2>6, <3>1, <3>2 DEF TokenStands
  <2>8. ASSUME NEW d \in Everywhere, flag'[d]
        PROVE  Lost(d)' \/ \E q \in Runs : Holding(q, d)'
    <3>1. CASE d = c
      <4>1. Holding(r, c)' BY <2>6 DEF Holding
      <4> QED BY <3>1, <4>1
    <3>2. CASE d # c
      <4>1. flag[d] BY <1>0, <2>2, <2>8, <3>2
      <4> QED BY <2>3, <2>4, <4>1 DEF FlagStands
    <3> QED BY <3>1, <3>2
  <2> QED BY <1>1, <2>5, <2>7, <2>8 DEF FlagStands
<1> QED BY <1>5, <1>6

\* on_llm_end: the flag goes back to what the token kept, if this is its context.
LEMMA FlagEnd ==
  ASSUME AdapterTypeInv, CallStages, FlagStands, Grows, NEW r \in Runs,
         NEW c \in Everywhere, LangGraphEnd(r, c)
  PROVE  FlagStands'
<1>0. /\ handled \in Seq(Happening) /\ flag \in [Everywhere -> BOOLEAN]
      /\ tokens \in [Runs -> [ctx : Everywhere, old : BOOLEAN, set : BOOLEAN]]
  BY DEF AdapterTypeInv
<1>1. deployment = "langgraph" /\ deployment' = deployment BY DEF LangGraphEnd, Take
<1>2. \A q : ModelCall(q)' = ModelCall(q) BY <1>1 DEF ModelCall, KindOf
<1>3. Logged(r, "end", c)
  <2>1. Log(r, "end", c) BY DEF LangGraphEnd, EndSpan
  <2> QED BY <1>0, <2>1, LogFacts
<1>4. PICK n : n = Len(handled) + 1 OBVIOUS
<1>5. /\ When(r, "end")' = When(r, "end") \cup {n} /\ handled'[n].ctx = c
      /\ \A q : q # r => When(q, "end")' = When(q, "end")
      /\ \A i \in DOMAIN handled : i < n
  BY <1>3, <1>4 DEF Logged
<1>6. /\ tokens' = [tokens EXCEPT ![r] = NoToken] /\ ~tokens'[r].set
      /\ \A q \in Runs \ {r} : tokens'[q] = tokens[q]
  BY <1>0 DEF LangGraphEnd, NoToken
<1>7. CASE ~ModelCall(r)
  <2>1. ~tokens[r].set BY <1>7 DEF FlagStands, TokenStands
  <2>2. flag' = flag BY <2>1 DEF LangGraphEnd
  <2>3. Apart BY <1>5, <1>6, <1>7, <2>1, <2>2 DEF Apart
  <2> QED BY <1>1, <2>3, FlagApart
<1>8. CASE ModelCall(r)
  <2>1. When(r, "end") = {} /\ When(r, "end")' = {n} BY <1>5, <1>8, EndFinds
  <2>2. ASSUME NEW d, Lost(d)
        PROVE  Lost(d)'
    <3>1. PICK q \in Runs : LostAt(q, d) BY <2>2 DEF Lost
    <3>2. LostAt(q, d)' BY <1>1, <1>5, <2>1, <3>1, LostStays
    <3> QED BY <3>2 DEF Lost
  <2>3. ASSUME NEW q \in Runs \ {r}
        PROVE  TokenStands(q)'
    <3>1. TokenStands(q) BY DEF FlagStands
    <3>2. \A v \in Runs : \A d : Holding(v, d) \/ When(v, "end") # {} =>
            (Holding(v, d) \/ When(v, "end") # {})'
      BY <1>5, <1>6, <2>1 DEF Holding
    <3> QED BY <1>1, <1>5, <1>6, <2>2, <3>1, <3>2, TokenKept
  <2>4. TokenStands(r)' BY <1>6 DEF TokenStands
  <2>5. ASSUME NEW q \in Runs \ {r}, NEW d, Holding(q, d)
        PROVE  Holding(q, d)'
    BY <1>6, <2>5 DEF Holding
  <2>6. CASE ~tokens[r].set
    <3>1. flag' = flag BY <2>6 DEF LangGraphEnd
    <3>2. ASSUME NEW d \in Everywhere, flag'[d]
          PROVE  Lost(d)' \/ \E q \in Runs : Holding(q, d)'
      BY <2>2, <2>5, <2>6, <3>1, <3>2 DEF FlagStands, Holding
    <3> QED BY <1>1, <2>3, <2>4, <3>2 DEF FlagStands
  <2>7. CASE tokens[r].set
    <3>1. PICK t \in Everywhere : t = tokens[r].ctx BY <1>0
    <3>2. PICK j \in Began(r) :
            /\ handled[j].ctx = t
            /\ tokens[r].old => Lost(t) \/ \E w \in Runs \ {r} : UnderWay(w, t, j)
      BY <2>7, <3>1 DEF FlagStands, TokenStands
    <3>3. j \in Began(r)' /\ handled'[j].ctx = t /\ j \in DOMAIN handled /\ j < n
      BY <1>5, <3>2 DEF Grows, Began
    <3>4. CASE t # c
      <4>1. flag' = flag BY <3>1, <3>4 DEF LangGraphEnd
      <4>2. Lost(t)'
        <5>1. LostAt(r, t)' BY <1>2, <1>5, <1>8, <2>1, <3>3, <3>4 DEF LostAt
        <5> QED BY <5>1 DEF Lost
      <4>3. ASSUME NEW d \in Everywhere, flag'[d]
            PROVE  Lost(d)' \/ \E q \in Runs : Holding(q, d)'
        BY <2>2, <2>5, <3>1, <4>1, <4>2, <4>3 DEF FlagStands, Holding
      <4> QED BY <1>1, <2>3, <2>4, <4>3 DEF FlagStands
    <3>5. CASE t = c
      <4>1. flag' = [flag EXCEPT ![c] = tokens[r].old] BY <2>7, <3>1, <3>5 DEF LangGraphEnd
      <4>2. ASSUME tokens[r].old
            PROVE  Lost(c)' \/ \E q \in Runs : Holding(q, c)'
        <5>1. CASE Lost(c) BY <2>2, <5>1
        <5>2. ASSUME NEW w \in Runs \ {r}, UnderWay(w, c, j)
              PROVE  Lost(c)' \/ \E q \in Runs : Holding(q, c)'
          <6>1. CASE Holding(w, c) BY <2>5, <6>1
          <6>2. CASE When(w, "end") # {}
            <7>1. PICK i \in Began(w) : i < j /\ handled[i].ctx = c BY <5>2 DEF UnderWay
            <7>2. i \in Began(w)' /\ handled'[i].ctx = c BY <7>1 DEF Grows, Began
            <7>3. PICK l \in When(w, "end") : j < l BY <5>2, <6>2 DEF UnderWay
            <7>4. l \in When(w, "end")' /\ l < n BY <1>5, <7>3 DEF Grows
            <7>5. \A m \in When(w, "end")' : j < m BY <1>5, <5>2 DEF UnderWay
            <7>6. Passed(w, r)' BY <2>1, <3>3, <7>1, <7>2, <7>3, <7>4, <7>5 DEF Passed
            <7>7. ModelCall(w) /\ ModelCall(w)' /\ ModelCall(r)' BY <1>2, <1>8, <5>2 DEF UnderWay
            <7>8. LostAt(w, c)' BY <7>2, <7>6, <7>7 DEF LostAt
            <7> QED BY <7>8 DEF Lost
          <6> QED BY <5>2, <6>1, <6>2 DEF UnderWay
        <5> QED BY <3>2, <3>5, <4>2, <5>1, <5>2
      <4>3. ASSUME NEW d \in Everywhere, flag'[d]
            PROVE  Lost(d)' \/ \E q \in Runs : Holding(q, d)'
        <5>1. CASE d = c
          <6>1. tokens[r].old BY <1>0, <4>1, <4>3, <5>1
          <6> QED BY <4>2, <5>1, <6>1
        <5>2. CASE d # c
          <6>1. flag[d] BY <1>0, <4>1, <4>3, <5>2
          <6>2. ~Holding(r, d) BY <3>1, <3>5, <5>2 DEF Holding
          <6> QED BY <2>2, <2>5, <6>1, <6>2 DEF FlagStands
        <5> QED BY <5>1, <5>2
      <4> QED BY <1>1, <2>3, <2>4, <4>3 DEF FlagStands
    <3> QED BY <3>4, <3>5
  <2> QED BY <2>6, <2>7
<1> QED BY <1>7, <1>8

LEMMA FlagStep ==
  ASSUME AdapterTypeInv, CallStages, FlagStands, [AdapterNext]_adapterVars
  PROVE  FlagStands'
<1>1. Steps /\ deployment' = deployment /\ Grows BY TypeStep, GrowsStep DEF Steps
<1>2. CASE UNCHANGED adapterVars
  <2>1. Apart BY <1>2, SameHistory DEF Apart, adapterVars
  <2> QED BY <1>1, <2>1, FlagApart
<1>3. ASSUME NEW r \in Runs, RunStep(r) \/ Handler(r)
      PROVE  FlagStands'
  <2>1. CASE deployment # "langgraph"
    <3>1. flag' = flag /\ tokens' = tokens
      BY <1>3, <2>1 DEF RunStep, Begin, Retry, Finish, CallInside, CallDirect, TracedEnter, TracedExit,
         Handler, LangGraphStart, LangGraphEnd, CrewStart, CrewEnd, CrewFeedback, LitePre, LiteEnd
    <3> QED BY <1>1, <2>1, <3>1 DEF FlagStands, TokenStands
  <2>2. CASE deployment = "langgraph"
    <3>1. ASSUME NEW c \in {Home(r), Pool}, LangGraphStart(r, c) \/ LangGraphEnd(r, c)
          PROVE  FlagStands'
      <4>1. c \in Everywhere BY RunFacts
      <4> QED BY <1>1, <3>1, <4>1, FlagStart, FlagEnd
    <3>2. ASSUME \/ RunStep(r)
                 \/ CrewStart(r) \/ CrewEnd(r) \/ CrewFeedback(r) \/ LitePre(r) \/ LiteEnd(r)
          PROVE  FlagStands'
      <4>1. Apart BY <2>2, <3>2, ApartSteps
      <4> QED BY <1>1, <4>1, FlagApart
    <3> QED BY <1>3, <3>1, <3>2 DEF Handler
  <2> QED BY <2>1, <2>2
<1> QED BY <1>2, <1>3 DEF AdapterNext

\* A call that is suppressed now is suppressed for a reason.
LEMMA SuppressedNow ==
  ASSUME AdapterTypeInv, FlagStands, Grows, NEW r \in Runs, CallDirect(r),
         flag[Home(r)], Log(r, "suppressed", Home(r)), NEW n, n = Len(handled) + 1
  PROVE  MissedForAReason(n)'
<1>0. handled \in Seq(Happening) /\ Home(r) \in Everywhere BY RunFacts DEF AdapterTypeInv
<1>1. Logged(r, "suppressed", Home(r)) BY <1>0, LogFacts
<1>2. PICK c : c = Home(r) OBVIOUS
<1>3. /\ handled'[n].ctx = c /\ (\A q : When(q, "end")' = When(q, "end"))
      /\ \A i \in DOMAIN handled : i < n
  BY <1>1, <1>2 DEF Logged
<1>4. \A q : ModelCall(q)' = ModelCall(q) BY DEF CallDirect, ModelCall, KindOf
<1>5. ASSUME NEW q \in Runs, ModelCall(q), NEW j \in Began(q), handled[j].ctx = c,
             \/ \A k \in When(q, "end") : handled[k].ctx # c
             \/ \E p \in Runs : ModelCall(p) /\ p # q /\ Passed(q, p)
      PROVE  MissedForAReason(n)'
  <2>1. j \in (Began(q) \cup When(q, "end"))' /\ j < n /\ handled'[j].ctx = handled'[n].ctx
    BY <1>3, <1>5 DEF Grows, Began
  <2>2. CASE \A k \in When(q, "end") : handled[k].ctx # c
    <3>1. \A k \in When(q, "end")' : handled'[k].ctx # handled'[n].ctx BY <1>3, <2>2 DEF Grows
    <3> QED BY <1>4, <1>5, <2>1, <3>1 DEF MissedForAReason
  <2>3. ASSUME NEW p \in Runs, ModelCall(p), p # q, Passed(q, p)
        PROVE  MissedForAReason(n)'
    <3>1. Passed(q, p)' BY <2>3, PassedStays
    <3> QED BY <1>4, <1>5, <2>1, <2>3, <3>1 DEF MissedForAReason
  <2> QED BY <1>5, <2>2, <2>3
<1>6. CASE Lost(c)
  <2>1. PICK q \in Runs : LostAt(q, c) BY <1>6 DEF Lost
  <2> QED BY <1>5, <2>1 DEF LostAt
<1>7. ASSUME NEW q \in Runs, Holding(q, c)
      PROVE  MissedForAReason(n)'
  BY <1>5, <1>7 DEF Holding, FlagStands, TokenStands
<1> QED BY <1>0, <1>2, <1>6, <1>7 DEF FlagStands

LEMMA MissesStep ==
  ASSUME AdapterTypeInv, CallStages, FlagStands, MissesStand, [AdapterNext]_adapterVars
  PROVE  MissesStand'
<1>1. Steps /\ deployment' = deployment /\ Grows BY TypeStep, GrowsStep DEF Steps
<1>2. handled \in Seq(Happening) BY DEF AdapterTypeInv
<1>4. ASSUME NEW i \in DOMAIN handled', handled'[i].what = "suppressed",
             KindOf(handled'[i].run) = "direct"
      PROVE  MissedForAReason(i)'
  <2>1. CASE i \in DOMAIN handled
    <3>1. handled'[i] = handled[i] BY <2>1, <1>1 DEF Grows
    <3>2. KindOf(handled[i].run) = "direct" BY <1>4, <3>1
    <3>3. MissedForAReason(i) BY <1>4, <2>1, <3>1, <3>2 DEF MissesStand
    <3> QED BY <1>1, <2>1, <3>3, MissStays
  <2>2. CASE i \notin DOMAIN handled
    <3>1. PICK q \in Runs, c \in Everywhere, w \in {"start", "end", "failed", "call", "suppressed"} :
            Log(q, w, c)
      BY <1>1, <2>2 DEF Steps
    <3>2. Logged(q, w, c) BY <1>2, <3>1, LogFacts
    <3>3. /\ i = Len(handled) + 1 /\ w = "suppressed" /\ handled'[i].run = q
      BY <1>4, <2>2, <3>2 DEF Logged
    <3>4. KindOf(q) = "direct" BY <1>4, <3>3
    <3>5. AdapterNext BY <3>2, <2>2 DEF adapterVars, Logged
    <3>6. PICK r \in Runs : RunStep(r) \/ Handler(r) BY <3>5 DEF AdapterNext
    <3>7. ASSUME NEW x \in Runs, NEW y \in {"start", "end", "failed", "call"}, NEW d, Log(x, y, d)
          PROVE  FALSE
      <4>1. handled'[Len(handled) + 1].what = y BY <1>2, <3>7 DEF Log
      <4> QED BY <1>4, <3>3, <4>1
    <3>8. Log(r, "suppressed", Home(r)) /\ flag[Home(r)] /\ (CallInside(r) \/ CallDirect(r))
      <4>1. CASE Handler(r)
        BY <3>7, <4>1 DEF Handler, LangGraphStart, LangGraphEnd, CrewStart, CrewEnd, CrewFeedback,
           LitePre, LiteEnd, StartSpan, EndSpan
      <4>2. handled' # handled BY <3>2, <2>2 DEF Logged
      <4>3. CASE RunStep(r)
        BY <3>7, <4>2, <4>3 DEF RunStep, Begin, Retry, Finish, CallInside, CallDirect,
           TracedEnter, TracedExit, WrappedCall
      <4> QED BY <3>6, <4>1, <4>3
    <3>9. r = q
      <4>1. handled'[Len(handled) + 1].run = r BY <1>2, <3>8 DEF Log
      <4> QED BY <3>3, <4>1
    <3>10. CallDirect(r) BY <3>4, <3>8, <3>9 DEF CallInside
    <3> QED BY <1>1, <3>3, <3>8, <3>10, SuppressedNow
  <2> QED BY <2>1, <2>2
<1> QED BY <1>1, <1>4 DEF MissesStand, KindOf

LEMMA SuppressionInit ==
  ASSUME AdapterInit
  PROVE  SuppressionInv
<1>1. AdapterTypeInv BY TypeInit
<1>2. \A q, x : When(q, x) = {} BY DEF When, AdapterInit
<1>3. \A q \in Runs : ~tokens[q].set BY DEF AdapterInit, NoToken
<1>4. CallStages BY <1>2, <1>3 DEF AdapterInit, CallStages, CallStage
<1>5. FlagStands BY <1>3 DEF AdapterInit, FlagStands, TokenStands, Everywhere
<1>6. MissesStand BY DEF AdapterInit, MissesStand
<1> QED BY <1>1, <1>4, <1>5, <1>6 DEF SuppressionInv

\* A run that q passed and q overlap.
LEMMA PassedOverlaps ==
  ASSUME AdapterTypeInv, NEW r, NEW q, q # r, Passed(r, q)
  PROVE  Crossed(r, q)
<1>1. handled \in Seq(Happening) BY DEF AdapterTypeInv
<1>2. \A p, x : When(p, x) \subseteq Nat BY <1>1 DEF When
<1>3. PICK i \in Began(r), j \in Began(q), l \in When(r, "end") :
        /\ i < j /\ j < l
        /\ \A m \in When(r, "end") : m < i \/ j < m
        /\ \A k \in When(q, "end") : j < k => l < k
  BY DEF Passed
<1>4. i \in Nat /\ j \in Nat /\ l \in Nat BY <1>2 DEF Began
<1>5. i < l BY <1>3, <1>4
<1>6. Overlap(r, q) BY <1>3, <1>5 DEF Overlap
<1> QED BY <1>6 DEF Crossed

\* The suppression of model calls: a call of the agent itself is missed only while
\* a model call of the framework is under way in its context, or after one whose
\* end was handled elsewhere or out of step with another.  The flag of a context is
\* set only by a call that has its token yet, or that was lost; a token stands for
\* what it found: nothing, or what was lost before, or a call that was under way.
THEOREM CallsAreMissedForAReason == AdapterSpec => []SuppressedForAReason
<1>1. AdapterInit => SuppressionInv BY SuppressionInit
<1>2. SuppressionInv /\ [AdapterNext]_adapterVars => SuppressionInv'
  <2> SUFFICES ASSUME SuppressionInv, [AdapterNext]_adapterVars
               PROVE  SuppressionInv'
    OBVIOUS
  <2> QED BY TypeStep, StagesStep, FlagStep, MissesStep DEF SuppressionInv
<1>3. SuppressionInv => SuppressedForAReason
  <2> SUFFICES ASSUME SuppressionInv, NEW i \in DOMAIN handled,
                      handled[i].what = "suppressed", KindOf(handled[i].run) = "direct"
               PROVE  \E r \in Runs :
                        /\ KindOf(r) = "llm"
                        /\ \E j \in Began(r) \cup When(r, "end") : j < i /\ handled[j].ctx = handled[i].ctx
                        /\ \/ \A k \in When(r, "end") : k < i => handled[k].ctx # handled[i].ctx
                           \/ \E q \in Runs : KindOf(q) = "llm" /\ q # r /\ Crossed(r, q)
    BY DEF SuppressedForAReason
  <2>1. PICK r \in Runs :
          /\ ModelCall(r)
          /\ \E j \in Began(r) \cup When(r, "end") : j < i /\ handled[j].ctx = handled[i].ctx
          /\ \/ \A k \in When(r, "end") : k < i => handled[k].ctx # handled[i].ctx
             \/ \E q \in Runs : ModelCall(q) /\ q # r /\ Passed(r, q)
    BY DEF SuppressionInv, MissesStand, MissedForAReason
  <2>2. \A q \in Runs : q # r /\ Passed(r, q) => Crossed(r, q)
    BY PassedOverlaps DEF SuppressionInv
  <2> QED BY <2>1, <2>2 DEF ModelCall
<1> QED BY <1>1, <1>2, <1>3, PTL DEF AdapterSpec

-----------------------------------------------------------------------------
(* What is left open                                                         *)

LEMMA FramedStep ==
  ASSUME AdapterTypeInv, FramedAre, [AdapterNext]_adapterVars
  PROVE  FramedAre'
<1>1. Steps /\ deployment' = deployment BY TypeStep DEF Steps
<1>2. handled \in Seq(Happening) BY DEF AdapterTypeInv
<1>3. CASE UNCHANGED adapterVars
  <2>1. \A q, x : When(q, x)' = When(q, x) BY <1>3, SameHistory DEF adapterVars
  <2> QED BY <1>1, <1>3, <2>1 DEF adapterVars, FramedAre, KindOf
<1>4. ASSUME NEW r \in Runs, RunStep(r) \/ Handler(r)
      PROVE  FramedAre'
  <2>1. ASSUME NEW e \in inflight', e \notin inflight
        PROVE  KindOf(e.run) \in FrameworkKinds
    <3>1. CASE Handler(r)
      BY <2>1, <3>1 DEF Handler, LangGraphStart, LangGraphEnd, CrewStart, CrewEnd, CrewFeedback,
         LitePre, LiteEnd, Take
    <3>2. CASE RunStep(r)
      <4>1. "llm" \in FrameworkKinds BY DEF FrameworkKinds, LangGraphType
      <4> QED BY <2>1, <3>2, <4>1 DEF RunStep, Begin, Retry, Finish, CallInside, CallDirect, TracedEnter,
              TracedExit, Event
    <3> QED BY <1>4, <3>1, <3>2
  <2>2. ASSUME NEW q \in Runs, KindOf(q) = "feedback", When(q, "call")' # When(q, "call")
        PROVE  deployment = "crewai"
    <3>1. handled' # handled BY <2>2, SameHistory
    <3>2. PICK p \in Runs, c \in Everywhere, w \in {"start", "end", "failed", "call", "suppressed"} :
            Log(p, w, c)
      BY <1>1, <3>1 DEF Steps
    <3>3. Logged(p, w, c) BY <1>2, <3>2, LogFacts
    <3>4. w = "call" /\ p = q BY <2>2, <3>3 DEF Logged
    <3>5. handled'[Len(handled) + 1] = [run |-> q, what |-> "call", ctx |-> c] BY <3>3, <3>4 DEF Logged
    <3>6. ASSUME NEW x, NEW y, NEW d, Log(x, y, d)
          PROVE  x = q /\ y = "call"
      <4>1. handled'[Len(handled) + 1] = [run |-> x, what |-> y, ctx |-> d] BY <1>2, <3>6 DEF Log
      <4> QED BY <3>5, <4>1
    <3>7. CASE Handler(r)
      BY <3>6, <3>7 DEF Handler, LangGraphStart, LangGraphEnd, CrewStart, CrewEnd, CrewFeedback,
         LitePre, LiteEnd, StartSpan, EndSpan
    <3>8. ~RunStep(r)
      BY <2>2, <3>1, <3>6 DEF RunStep, Begin, Retry, Finish, CallInside, CallDirect, TracedEnter,
         TracedExit, WrappedCall
    <3> QED BY <1>4, <3>7, <3>8
  <2> QED BY <1>1, <2>1, <2>2 DEF FramedAre, KindOf
<1> QED BY <1>3, <1>4 DEF AdapterNext

\* A step that opens nothing that stays open, and ends nothing.
Quiet ==
  /\ open' = open /\ cm' = cm
  /\ \A q \in Runs : When(q, "end")' = When(q, "end")
  /\ \A q \in Runs : KindOf(q) = "traced" /\ phase[q] # "new" => phase'[q] = phase[q]
  /\ \A s \in DOMAIN spans' : s \in DOMAIN spans \/ spans'[s].closed

\* An adapter opens a span.
Started(r) ==
  /\ KindOf(r) \in FrameworkKinds /\ (KindOf(r) = "feedback" => deployment # "crewai")
  /\ \E c \in Everywhere : Logged(r, "start", c)
  /\ open' = [open EXCEPT ![r] = Len(spans) + 1] /\ SpanAdded(r)
  /\ cm' = cm /\ phase' = phase

\* An adapter closes one.
Ended(r) ==
  /\ KindOf(r) \in FrameworkKinds
  /\ \E c \in Everywhere : Logged(r, "end", c)
  /\ open' = [open EXCEPT ![r] = 0]
  /\ \A s \in DOMAIN spans' : s \notin DOMAIN spans \/ s = open[r] => spans'[s].closed
  /\ cm' = cm /\ phase' = phase

\* A block is entered.
Entered(r) ==
  /\ KindOf(r) = "traced" /\ phase[r] = "new" /\ phase' = [phase EXCEPT ![r] = "running"]
  /\ \E c \in Everywhere : Logged(r, "start", c)
  /\ SpanAdded(r) /\ cm'.span = Len(spans) + 1 /\ open' = open

\* A block is left.
Exited(r) ==
  /\ KindOf(r) = "traced" /\ phase[r] = "running" /\ phase' = [phase EXCEPT ![r] = "over"]
  /\ \E c \in Everywhere : Logged(r, "end", c)
  /\ DOMAIN spans' = DOMAIN spans
  /\ \A s \in DOMAIN spans : s = cm.span => spans'[s].closed
  /\ cm'.span = cm.span /\ open' = open

\* Every step is one of these.
LEMMA RunClasses ==
  ASSUME AdapterTypeInv, NEW r \in Runs, RunStep(r)
  PROVE  Quiet \/ Entered(r) \/ Exited(r)
<1>0. /\ handled \in Seq(Happening) /\ Home(r) \in Everywhere /\ spans \in Seq(Recorded)
      /\ phase \in [Runs -> {"new", "running", "called", "over"}] /\ cur[Home(r)] \in Nat
  BY RunFacts DEF AdapterTypeInv
<1>1. ASSUME NEW w \in {"failed", "call", "suppressed"}, Log(r, w, Home(r))
      PROVE  \A q : When(q, "end")' = When(q, "end")
  <2>1. Logged(r, w, Home(r)) BY <1>0, <1>1, LogFacts
  <2> QED BY <2>1 DEF Logged
<1>2. ASSUME NEW k \in FrameworkKinds \cup {"direct"}
      PROVE  k # "traced"
  BY DEF FrameworkKinds, LangGraphType, CrewType
<1>3. CASE Begin(r) \/ Retry(r) \/ Finish(r)
  <2>1. /\ open' = open /\ cm' = cm /\ spans' = spans /\ handled' = handled
        /\ \A q \in Runs \ {r} : phase'[q] = phase[q]
    BY <1>0, <1>3 DEF Begin, Retry, Finish
  <2>2. KindOf(r) = "traced" => phase' = phase BY <1>2, <1>3 DEF Begin, Retry, Finish
  <2>3. \A q : When(q, "end")' = When(q, "end") BY <2>1, SameHistory
  <2> QED BY <2>1, <2>2, <2>3 DEF Quiet
<1>4. CASE CallInside(r) \/ CallDirect(r)
  <2>1. WrappedCall(r) /\ open' = open /\ cm' = cm /\ \A q \in Runs \ {r} : phase'[q] = phase[q]
    BY <1>0, <1>4 DEF CallInside, CallDirect
  <2>2. KindOf(r) # "traced" BY <1>4 DEF CallInside, CallDirect
  <2>3. /\ \E w \in {"failed", "call", "suppressed"} : Log(r, w, Home(r))
        /\ spans' = spans \/ (SpanAdded(r) /\ spans'[Len(spans) + 1].closed)
    BY <2>1, CallFacts
  <2>4. \A q : When(q, "end")' = When(q, "end") BY <1>1, <2>3
  <2>5. \A s \in DOMAIN spans' : s \in DOMAIN spans \/ spans'[s].closed
    BY <2>3 DEF SpanAdded
  <2> QED BY <2>1, <2>2, <2>4, <2>5 DEF Quiet
<1>5. CASE TracedEnter(r)
  <2>1. /\ KindOf(r) = "traced" /\ phase[r] = "new" /\ phase' = [phase EXCEPT ![r] = "running"]
        /\ open' = open
    BY <1>5 DEF TracedEnter
  <2>2. CASE Log(r, "failed", Home(r)) /\ UNCHANGED <<spans, cm, cur>>
    <3>1. \A q : When(q, "end")' = When(q, "end") BY <1>1, <2>2
    <3>2. \A q \in Runs : phase[q] # "new" => phase'[q] = phase[q] BY <1>0, <2>1
    <3> QED BY <2>1, <2>2, <3>1, <3>2 DEF Quiet
  <2>3. CASE /\ Log(r, "start", Home(r)) /\ spans' = Opened(r, "traced", cur[Home(r)])
             /\ cm' = [span |-> Len(spans) + 1, ctx |-> Home(r), old |-> cur[Home(r)], live |-> TRUE]
    <3>1. Logged(r, "start", Home(r)) BY <1>0, <2>3, LogFacts
    <3>2. "traced" \in SpanTypes BY DEF SpanTypes
    <3>3. /\ Len(spans) \in Nat /\ DOMAIN spans = 1..Len(spans)
          /\ DOMAIN spans' = 1..(Len(spans) + 1) /\ spans'[Len(spans) + 1].run = r
      BY <1>0, <2>3, <3>2, OpenedFacts
    <3>4. cm'.span = Len(spans) + 1 BY <2>3
    <3> QED BY <1>0, <2>1, <3>1, <3>3, <3>4 DEF Entered, SpanAdded
  <2> QED BY <1>5, <2>2, <2>3 DEF TracedEnter
<1>6. CASE TracedExit(r)
  <2>1. /\ KindOf(r) = "traced" /\ phase[r] = "running" /\ phase' = [phase EXCEPT ![r] = "over"]
        /\ Log(r, "end", Home(r)) /\ open' = open
    BY <1>6 DEF TracedExit
  <2>2. Logged(r, "end", Home(r)) BY <1>0, <2>1, LogFacts
  <2>3. cm'.span = cm.span BY <1>6 DEF TracedExit, AdapterTypeInv
  <2>4. DOMAIN spans' = DOMAIN spans /\ \A s \in DOMAIN spans : s = cm.span => spans'[s].closed
    <3>1. CASE cm.span = 0 BY <1>0, <1>6, <3>1 DEF TracedExit
    <3>2. CASE cm.span # 0
      <4>1. spans' = CloseSpan(spans, cm.span) BY <1>6, <3>2 DEF TracedExit
      <4> QED BY <1>0, <4>1, CloseFacts
    <3> QED BY <3>1, <3>2
  <2> QED BY <1>0, <2>1, <2>2, <2>3, <2>4 DEF Exited
<1> QED BY <1>3, <1>4, <1>5, <1>6 DEF RunStep

LEMMA HandlerClasses ==
  ASSUME AdapterTypeInv, FramedAre, NEW r \in Runs, Handler(r)
  PROVE  Quiet \/ Started(r) \/ Ended(r)
<1>0. /\ handled \in Seq(Happening) /\ Home(r) \in Everywhere /\ Pool \in Everywhere
      /\ spans \in Seq(Recorded) /\ open \in [Runs -> Nat] /\ SpanTypeOf(r) \in SpanTypes
      /\ \A c \in Everywhere : ParentSpan(r, c) \in Nat /\ cur[c] \in Nat
  BY RunFacts DEF AdapterTypeInv
<1>1. ASSUME NEW c \in Everywhere, NEW w \in {"failed", "call"}, Log(r, w, c)
      PROVE  \A q : When(q, "end")' = When(q, "end")
  <2>1. Logged(r, w, c) BY <1>0, <1>1, LogFacts
  <2> QED BY <2>1 DEF Logged
<1>2. KindOf(r) \in FrameworkKinds /\ cm' = cm /\ phase' = phase
  BY DEF Handler, LangGraphStart, LangGraphEnd, CrewStart, CrewEnd, CrewFeedback, LitePre, LiteEnd,
     Take, FramedAre
<1>3. ASSUME NEW c \in Everywhere, NEW under \in Nat, StartSpan(r, c, under),
             KindOf(r) = "feedback" => deployment # "crewai"
      PROVE  Quiet \/ Started(r)
  <2>1. CASE Log(r, "failed", c) /\ open' = open /\ spans' = spans
    <3>1. \A q : When(q, "end")' = When(q, "end") BY <1>1, <2>1
    <3> QED BY <1>2, <2>1, <3>1 DEF Quiet
  <2>2. CASE Log(r, "start", c) /\ SpanAdded(r) /\ open' = [open EXCEPT ![r] = Len(spans) + 1]
    <3>1. Logged(r, "start", c) BY <1>0, <2>2, LogFacts
    <3> QED BY <1>2, <1>3, <2>2, <3>1 DEF Started
  <2> QED BY <1>3, <2>1, <2>2, StartFacts
<1>4. ASSUME NEW c \in Everywhere, EndSpan(r, c)
      PROVE  Ended(r)
  <2>1. /\ Log(r, "end", c) /\ open' = [open EXCEPT ![r] = 0] /\ DOMAIN spans' = DOMAIN spans
        /\ open[r] # 0 /\ open[r] \in DOMAIN spans => spans'[open[r]].closed
    BY <1>4, EndFacts
  <2>2. Logged(r, "end", c) BY <1>0, <2>1, LogFacts
  <2>3. 0 \notin DOMAIN spans BY <1>0
  <2>4. \A s \in DOMAIN spans' : s \notin DOMAIN spans \/ s = open[r] => spans'[s].closed
    BY <2>1, <2>3
  <2> QED BY <1>2, <2>1, <2>2, <2>4 DEF Ended
<1>5. ASSUME NEW c \in {Home(r), Pool}, LangGraphStart(r, c) \/ LangGraphEnd(r, c)
      PROVE  Quiet \/ Started(r) \/ Ended(r)
  <2>1. c \in Everywhere /\ ParentSpan(r, c) \in Nat /\ deployment # "crewai"
    BY <1>0, <1>5 DEF LangGraphStart, LangGraphEnd
  <2> QED BY <1>3, <1>4, <1>5, <2>1 DEF LangGraphStart, LangGraphEnd
<1>6. CASE CrewStart(r) \/ CrewEnd(r)
  BY <1>0, <1>3, <1>4, <1>6 DEF CrewStart, CrewEnd
<1>7. CASE CrewFeedback(r)
  <2>1. open' = open BY <1>7 DEF CrewFeedback
  <2>2. CASE Log(r, "failed", Pool) /\ UNCHANGED spans
    <3>1. \A q : When(q, "end")' = When(q, "end") BY <1>0, <1>1, <2>2
    <3> QED BY <1>2, <2>1, <2>2, <3>1 DEF Quiet
  <2>3. CASE /\ Log(r, "call", Pool)
             /\ spans' = CloseSpan(Opened(r, SpanTypeOf(r), ParentSpan(r, Pool)), Len(spans) + 1)
    <3>1. \A q : When(q, "end")' = When(q, "end") BY <1>0, <1>1, <2>3
    <3>2. SpanAdded(r) /\ spans'[Len(spans) + 1].closed BY <1>0, <2>3, OpensAndCloses
    <3>3. \A s \in DOMAIN spans' : s \in DOMAIN spans \/ spans'[s].closed BY <3>2 DEF SpanAdded
    <3> QED BY <1>2, <2>1, <3>1, <3>3 DEF Quiet
  <2> QED BY <1>7, <2>2, <2>3 DEF CrewFeedback
<1>8. CASE LitePre(r)
  <2>1. StartSpan(r, Home(r), cur[Home(r)]) /\ deployment # "crewai" BY <1>8 DEF LitePre
  <2> QED BY <1>0, <1>3, <2>1
<1>9. CASE LiteEnd(r)
  <2>1. CASE EndSpan(r, Pool) BY <1>0, <1>4, <2>1
  <2>2. CASE Log(r, "failed", Pool) /\ UNCHANGED <<open, spans>>
    <3>1. \A q : When(q, "end")' = When(q, "end") BY <1>0, <1>1, <2>2
    <3> QED BY <1>2, <2>2, <3>1 DEF Quiet
  <2>3. CASE /\ open[r] = 0 /\ Log(r, "end", Pool) /\ UNCHANGED open
             /\ spans' = CloseSpan(Opened(r, "model_call", cur[Pool]), Len(spans) + 1)
    <3>1. Logged(r, "end", Pool) BY <1>0, <2>3, LogFacts
    <3>2. "model_call" \in SpanTypes BY DEF SpanTypes
    <3>3. SpanAdded(r) /\ spans'[Len(spans) + 1].closed BY <1>0, <2>3, <3>2, OpensAndCloses
    <3>4. \A s \in DOMAIN spans' : s \notin DOMAIN spans \/ s = open[r] => spans'[s].closed
      BY <2>3, <3>3 DEF SpanAdded
    <3>5. open' = [open EXCEPT ![r] = 0] BY <1>0, <2>3
    <3> QED BY <1>0, <1>2, <3>1, <3>4, <3>5 DEF Ended
  <2> QED BY <1>9, <2>1, <2>2, <2>3 DEF LiteEnd
<1> QED BY <1>5, <1>6, <1>7, <1>8, <1>9 DEF Handler

LEMMA OpenStaysStep ==
  ASSUME AdapterTypeInv, Grows, deployment' = deployment, \A q \in Runs : OpenStands(q), NEW r \in Runs,
         Quiet \/ Started(r) \/ Ended(r) \/ Entered(r) \/ Exited(r)
  PROVE  \A q \in Runs : OpenStands(q)'
<1>0. open \in [Runs -> Nat] BY DEF AdapterTypeInv
<1>1. \A q : KindOf(q)' = KindOf(q) /\ Framed(q)' = Framed(q) BY DEF KindOf, Framed
<1>2. ASSUME NEW q \in Runs, open'[q] = open[q], When(q, "end")' = When(q, "end")
      PROVE  OpenStands(q)'
  BY <1>1, <1>2 DEF OpenStands, Grows
<1>3. CASE Quiet BY <1>2, <1>3 DEF Quiet
<1>4. ASSUME NEW q \in Runs, q # r, ~Quiet
      PROVE  OpenStands(q)'
  <2>1. open'[q] = open[q] BY <1>0, <1>4 DEF Started, Ended, Entered, Exited
  <2>2. When(q, "end")' = When(q, "end") BY <1>4 DEF Started, Ended, Entered, Exited, Logged
  <2> QED BY <1>2, <2>1, <2>2
<1>5. ASSUME Started(r)
      PROVE  OpenStands(r)'
  <2>1. When(r, "start")' = When(r, "start") \cup {Len(handled) + 1} /\ When(r, "end")' = When(r, "end")
        /\ \A k \in When(r, "end") : k < Len(handled) + 1
    BY <1>5 DEF Started, Logged
  <2>2. KindOf(r) = "feedback" \/ Framed(r) BY <1>5 DEF Started, Framed
  <2> QED BY <1>1, <1>5, <2>1, <2>2 DEF OpenStands, Started
<1>6. ASSUME Ended(r)
      PROVE  OpenStands(r)'
  <2>1. open'[r] = 0 BY <1>0, <1>6 DEF Ended
  <2> QED BY <2>1 DEF OpenStands
<1>7. ASSUME Entered(r) \/ Exited(r)
      PROVE  OpenStands(r)'
  <2>1. KindOf(r) = "traced" /\ open' = open BY <1>7 DEF Entered, Exited
  <2>2. ~Framed(r) BY <2>1 DEF Framed, FrameworkKinds, LangGraphType, CrewType
  <2>3. open[r] = 0 BY <2>1, <2>2 DEF OpenStands
  <2> QED BY <2>1, <2>3 DEF OpenStands
<1> QED BY <1>3, <1>4, <1>5, <1>6, <1>7

LEMMA TwiceStays ==
  ASSUME Grows, NEW r, StartedTwice(r)
  PROVE  StartedTwice(r)'
BY DEF StartedTwice, Grows

\* What is shared stays shared, while the object holds the span and the block runs.
LEMMA SharedStays ==
  ASSUME AdapterTypeInv, Grows, deployment' = deployment, NEW p \in Runs, NEW s, Shared(p, s),
         phase'[p] = phase[p] \/ \E k \in When(p, "end")' : \A i \in DOMAIN handled : i < k,
         (cm.span = s /\ phase[p] = "running") =>
           \/ cm'.span = s /\ phase'[p] = "running"
           \/ phase'[p] = "running" /\ \E q \in Runs \ {p} :
                KindOf(q) = "traced" /\ \E i \in When(q, "start")' : \A j \in DOMAIN handled : j < i
  PROVE  Shared(p, s)'
<1>1. \A q : KindOf(q)' = KindOf(q) BY DEF KindOf
<1>2. PICK j \in When(p, "start") :
        \/ cm.span = s /\ phase[p] = "running"
        \/ \E q \in Runs \ {p} :
             /\ KindOf(q) = "traced"
             /\ \E i \in When(q, "start") :
                  j < i /\ (phase[p] = "running" \/ \E k \in When(p, "end") : i < k)
  BY DEF Shared
<1>3. j \in When(p, "start")' /\ j \in DOMAIN handled BY DEF Grows
<1>4. CASE cm.span = s /\ phase[p] = "running"
  <2>1. CASE cm'.span = s /\ phase'[p] = "running" BY <1>3, <2>1 DEF Shared
  <2>2. ASSUME phase'[p] = "running", NEW q \in Runs \ {p}, KindOf(q) = "traced",
               NEW i \in When(q, "start")', \A l \in DOMAIN handled : l < i
        PROVE  Shared(p, s)'
    BY <1>1, <1>3, <2>2 DEF Shared
  <2> QED BY <1>4, <2>1, <2>2
<1>5. ASSUME NEW q \in Runs \ {p}, KindOf(q) = "traced", NEW i \in When(q, "start"), j < i,
             phase[p] = "running" \/ \E k \in When(p, "end") : i < k
      PROVE  Shared(p, s)'
  <2>1. i \in When(q, "start")' /\ i \in DOMAIN handled BY DEF Grows
  <2>2. phase'[p] = "running" \/ \E k \in When(p, "end")' : i < k
    BY <1>5, <2>1 DEF Grows
  <2> QED BY <1>1, <1>3, <1>5, <2>1, <2>2 DEF Shared
<1> QED BY <1>2, <1>4, <1>5

LEMMA OpenSpansStep ==
  ASSUME AdapterTypeInv, Grows, deployment' = deployment, SpansKept, \A q \in Runs : OpenStands(q),
         OpenSpansStand, NEW r \in Runs,
         Quiet \/ Started(r) \/ Ended(r) \/ Entered(r) \/ Exited(r)
  PROVE  OpenSpansStand'
<1>0. /\ open \in [Runs -> Nat] /\ spans \in Seq(Recorded) /\ handled \in Seq(Happening)
      /\ phase \in [Runs -> {"new", "running", "called", "over"}]
      /\ \A i \in DOMAIN spans : spans[i].run \in Runs
  <2>1. /\ open \in [Runs -> Nat] /\ spans \in Seq(Recorded) /\ handled \in Seq(Happening)
        /\ phase \in [Runs -> {"new", "running", "called", "over"}]
    BY DEF AdapterTypeInv
  <2>2. \A i \in DOMAIN spans : spans[i] \in Recorded BY <2>1
  <2> QED BY <2>1, <2>2 DEF Recorded
<1>1. \A q : KindOf(q)' = KindOf(q) /\ Framed(q)' = Framed(q) BY DEF KindOf, Framed
<1>2. ASSUME NEW q, KindOf(q) = "traced"
      PROVE  ~Framed(q) /\ KindOf(q) \notin FrameworkKinds
  BY <1>2 DEF Framed, FrameworkKinds, LangGraphType, CrewType
<1>3. ASSUME NEW s \in DOMAIN spans, ~spans'[s].closed
      PROVE  OpenSpan(spans[s].run, s)'
  <2>0. PICK p \in Runs : p = spans[s].run BY <1>0
  <2>1. spans'[s].run = p /\ OpenSpan(p, s) BY <1>3, <2>0 DEF SpansKept, OpenSpansStand
  <2> SUFFICES OpenSpan(p, s)'
    BY <2>1
  <2>2. CASE KindOf(p) = "feedback" /\ deployment # "crewai"
    BY <1>1, <2>2 DEF OpenSpan
  <2>3. CASE Framed(p) /\ StartedTwice(p)
    BY <1>1, <2>3, TwiceStays DEF OpenSpan
  <2>4. CASE Framed(p) /\ open[p] = s
    <3>1. CASE open'[p] = s BY <1>1, <2>4, <3>1 DEF OpenSpan
    <3>2. CASE open'[p] # s
      <4>1. p = r /\ (Started(r) \/ Ended(r))
        BY <1>0, <2>4, <3>2 DEF Quiet, Started, Ended, Entered, Exited
      <4>2. ~Ended(r) BY <1>3, <2>4, <4>1 DEF Ended, SpansKept
      <4>3. /\ When(r, "start")' = When(r, "start") \cup {Len(handled) + 1}
            /\ When(r, "end")' = When(r, "end")
            /\ When(r, "start") \subseteq 1..Len(handled) /\ When(r, "end") \subseteq 1..Len(handled)
        BY <4>1, <4>2 DEF Started, Logged
      <4>4. PICK i \in When(r, "start") : \A k \in When(r, "end") : k < i
        <5>1. open[r] # 0 /\ OpenStands(r) /\ KindOf(r) # "feedback"
          BY <1>0, <2>4, <4>1 DEF Framed
        <5> QED BY <5>1 DEF OpenStands
      <4>5. StartedTwice(r)'
        <5>1. PICK j : j = Len(handled) + 1 OBVIOUS
        <5>2. i \in When(r, "start")' /\ j \in When(r, "start")' /\ i < j BY <1>0, <4>3, <5>1
        <5>3. \A k \in When(r, "end")' : ~(i < k /\ k < j) BY <1>0, <4>3, <4>4
        <5> QED BY <5>2, <5>3 DEF StartedTwice
      <4> QED BY <1>1, <2>4, <4>1, <4>5 DEF OpenSpan
    <3> QED BY <3>1, <3>2
  <2>5. CASE KindOf(p) = "traced" /\ phase[p] # "new" /\ Shared(p, s)
    <3>1. phase'[p] # "new" /\ (phase'[p] = phase[p] \/ (p = r /\ Exited(r)))
      BY <1>0, <2>5 DEF Quiet, Started, Ended, Entered, Exited
    <3>2. phase'[p] = phase[p] \/ \E k \in When(p, "end")' : \A i \in DOMAIN handled : i < k
      <4>1. ASSUME p = r, Exited(r)
            PROVE  \E k \in When(p, "end")' : \A i \in DOMAIN handled : i < k
        <5>1. /\ When(r, "end")' = When(r, "end") \cup {Len(handled) + 1}
              /\ DOMAIN handled = 1..Len(handled) /\ Len(handled) \in Nat
          BY <4>1 DEF Exited, Logged
        <5> QED BY <4>1, <5>1
      <4> QED BY <3>1, <4>1
    <3>3. ASSUME cm.span = s, phase[p] = "running"
          PROVE  \/ cm'.span = s /\ phase'[p] = "running"
                 \/ phase'[p] = "running" /\ \E q \in Runs \ {p} :
                      KindOf(q) = "traced" /\ \E i \in When(q, "start")' : \A j \in DOMAIN handled : j < i
      <4>1. ~Exited(r) BY <1>3, <3>3 DEF Exited
      <4>2. phase'[p] = "running" BY <3>1, <3>3, <4>1
      <4>3. CASE Entered(r)
        <5>1. r # p /\ KindOf(r) = "traced" BY <3>3, <4>3 DEF Entered
        <5>2. /\ When(r, "start")' = When(r, "start") \cup {Len(handled) + 1}
              /\ DOMAIN handled = 1..Len(handled) /\ Len(handled) \in Nat
          BY <4>3 DEF Entered, Logged
        <5>3. \E i \in When(r, "start")' : \A j \in DOMAIN handled : j < i
          <6>1. PICK n : n = Len(handled) + 1 OBVIOUS
          <6>2. n \in When(r, "start")' /\ \A j \in DOMAIN handled : j < n BY <5>2, <6>1
          <6> QED BY <6>2
        <5> QED BY <4>2, <5>1, <5>3
      <4>4. CASE Quiet \/ Started(r) \/ Ended(r) BY <3>3, <4>2, <4>4 DEF Quiet, Started, Ended
      <4> QED BY <4>1, <4>3, <4>4
    <3>4. Shared(p, s)' BY <2>5, <3>2, <3>3, SharedStays
    <3> QED BY <1>1, <2>5, <3>1, <3>4 DEF OpenSpan
  <2> QED BY <2>1, <2>2, <2>3, <2>4, <2>5 DEF OpenSpan
<1>4. ASSUME NEW s \in DOMAIN spans', s \notin DOMAIN spans, ~spans'[s].closed
      PROVE  OpenSpan(spans[s].run, s)'
  <2>1. Started(r) \/ Entered(r) BY <1>4 DEF Quiet, Ended, Exited
  <2>2. SpanAdded(r) BY <2>1 DEF Started, Entered
  <2>3. s = Len(spans) + 1 /\ spans'[s].run = r BY <1>4, <2>2 DEF SpanAdded
  <2>4. CASE Started(r)
    <3>1. open'[r] = s BY <1>0, <2>3, <2>4 DEF Started
    <3>2. Framed(r) \/ (KindOf(r) = "feedback" /\ deployment # "crewai")
      BY <2>4 DEF Started, Framed
    <3>3. OpenSpan(r, s)' BY <1>1, <3>1, <3>2 DEF OpenSpan
    <3> QED BY <2>3, <3>3
  <2>5. CASE Entered(r)
    <3>1. PICK j : j \in When(r, "start")' BY <2>5 DEF Entered, Logged
    <3>2. phase'[r] = "running" /\ cm'.span = s BY <1>0, <2>3, <2>5 DEF Entered
    <3>3. Shared(r, s)' BY <3>1, <3>2 DEF Shared
    <3>4. OpenSpan(r, s)' BY <1>1, <2>5, <3>2, <3>3 DEF OpenSpan, Entered
    <3> QED BY <2>3, <3>4
  <2> QED BY <2>1, <2>4, <2>5
<1> QED BY <1>3, <1>4 DEF OpenSpansStand

\* What is left open in the end was not told in turn, or shares its object.
LEMMA LeftOpenFollows ==
  ASSUME LeftOpenInv
  PROVE  LeftOpenForAReason
<1>0. /\ spans \in Seq(Recorded) /\ handled \in Seq(Happening)
      /\ \A s \in DOMAIN spans : s # 0 /\ spans[s].run \in Runs
  <2>1. spans \in Seq(Recorded) /\ handled \in Seq(Happening) BY DEF LeftOpenInv, AdapterTypeInv
  <2>2. \A s \in DOMAIN spans : s # 0 /\ spans[s] \in Recorded BY <2>1
  <2> QED BY <2>1, <2>2 DEF Recorded
<1>1. \A q, x : When(q, x) \subseteq Nat BY <1>0 DEF When
<1> SUFFICES ASSUME \A r \in Runs : Done(r)
             PROVE  /\ \A i \in DOMAIN spans : ~spans[i].closed =>
                         ~Alternates(spans[i].run)
                         \/ (KindOf(spans[i].run) = "traced" /\ ~Alone(spans[i].run))
                    /\ \A r \in Runs : open[r] # 0 => ~Alternates(r)
  BY DEF LeftOpenForAReason
<1>2. ASSUME NEW r \in Runs, KindOf(r) = "feedback", deployment # "crewai"
      PROVE  ~Alternates(r)
  BY <1>2 DEF Alternates, LeftOpenInv, FramedAre
<1>3. ASSUME NEW r \in Runs, Framed(r)
      PROVE  KindOf(r) \notin {"direct", "feedback"}
  BY <1>3 DEF Framed, FrameworkKinds, LangGraphType, CrewType
<1>4. ASSUME NEW r \in Runs, open[r] # 0
      PROVE  ~Alternates(r)
  <2>1. OpenStands(r) BY DEF LeftOpenInv
  <2>2. ASSUME Framed(r), NEW i \in When(r, "start"), \A k \in When(r, "end") : k < i
        PROVE  ~Alternates(r)
    <3>1. ~\E k \in When(r, "end") : i < k BY <1>1, <2>2
    <3> QED BY <1>3, <2>2, <3>1 DEF Alternates
  <2> QED BY <1>2, <1>4, <2>1, <2>2 DEF OpenStands
<1>5. ASSUME NEW r \in Runs, Framed(r), StartedTwice(r)
      PROVE  ~Alternates(r)
  BY <1>3, <1>5 DEF Alternates, StartedTwice, InTurn
<1>6. ASSUME NEW r \in Runs, NEW s, KindOf(r) = "traced", Shared(r, s)
      PROVE  ~Alone(r)
  <2>1. phase[r] # "running" BY DEF Done
  <2>2. PICK j \in When(r, "start"), q \in Runs \ {r} :
          /\ KindOf(q) = "traced"
          /\ \E i \in When(q, "start") : j < i /\ \E k \in When(r, "end") : i < k
    BY <1>6, <2>1 DEF Shared
  <2>3. Between(r, q) BY <2>2 DEF Between, Marks
  <2> QED BY <1>6, <2>2, <2>3 DEF Alone
<1>7. ASSUME NEW s \in DOMAIN spans, ~spans[s].closed
      PROVE  ~Alternates(spans[s].run) \/ (KindOf(spans[s].run) = "traced" /\ ~Alone(spans[s].run))
  <2>1. PICK r \in Runs : r = spans[s].run BY <1>0
  <2>2. OpenSpan(r, s) BY <1>7, <2>1 DEF LeftOpenInv, OpenSpansStand
  <2>3. open[r] = s => open[r] # 0 BY <1>0
  <2>4. ~Alternates(r) \/ (KindOf(r) = "traced" /\ ~Alone(r))
    BY <1>2, <1>4, <1>5, <1>6, <2>2, <2>3 DEF OpenSpan
  <2> QED BY <2>1, <2>4
<1> QED BY <1>4, <1>7

\* Nothing is left open for good without a reason: when everything is over, a span
\* that was never closed, or a run that is still in the map of its adapter, belongs to
\* a run whose events came out of turn or never, or to a block that another one
\* shared its object with.  While a span is open it is in the map of its adapter or
\* was pushed out of it by a second start, or it is in the traced object or was
\* pushed out of that by another block.
THEOREM NothingIsLeftOpen == AdapterSpec => []LeftOpenForAReason
<1>1. AdapterInit => LeftOpenInv
  <2> SUFFICES ASSUME AdapterInit
               PROVE  LeftOpenInv
    OBVIOUS
  <2>1. \A q, x : When(q, x) = {} BY DEF When, AdapterInit
  <2>2. FramedAre BY <2>1 DEF FramedAre, AdapterInit
  <2>3. \A q \in Runs : OpenStands(q) BY DEF OpenStands, AdapterInit
  <2>4. OpenSpansStand BY DEF OpenSpansStand, AdapterInit
  <2> QED BY <2>2, <2>3, <2>4, TypeInit DEF LeftOpenInv
<1>2. LeftOpenInv /\ [AdapterNext]_adapterVars => LeftOpenInv'
  <2> SUFFICES ASSUME LeftOpenInv, [AdapterNext]_adapterVars
               PROVE  LeftOpenInv'
    OBVIOUS
  <2> USE DEF LeftOpenInv
  <2>1. AdapterTypeInv' /\ Steps /\ Grows /\ deployment' = deployment /\ SpansKept
    BY TypeStep, GrowsStep DEF Steps
  <2>2. FramedAre' BY FramedStep
  <2>3. CASE UNCHANGED adapterVars
    <3>1. \A q, x : When(q, x)' = When(q, x) BY <2>3, SameHistory DEF adapterVars
    <3>2. (\A q \in Runs : OpenStands(q))'
      BY <2>3, <3>1 DEF adapterVars, OpenStands, KindOf, Framed
    <3>3. OpenSpansStand'
      BY <2>3, <3>1 DEF adapterVars, OpenSpansStand, OpenSpan, KindOf, Framed, StartedTwice, Shared
    <3> QED BY <2>1, <2>2, <3>2, <3>3
  <2>4. ASSUME NEW r \in Runs, RunStep(r) \/ Handler(r)
        PROVE  LeftOpenInv'
    <3>1. Quiet \/ Started(r) \/ Ended(r) \/ Entered(r) \/ Exited(r)
      BY <2>4, RunClasses, HandlerClasses
    <3>2. (\A q \in Runs : OpenStands(q))' BY <2>1, <3>1, OpenStaysStep
    <3>3. OpenSpansStand' BY <2>1, <3>1, OpenSpansStep
    <3> QED BY <2>1, <2>2, <3>2, <3>3
  <2> QED BY <2>3, <2>4 DEF AdapterNext
<1>3. LeftOpenInv => LeftOpenForAReason BY LeftOpenFollows
<1> QED BY <1>1, <1>2, <1>3, PTL DEF AdapterSpec
=============================================================================
