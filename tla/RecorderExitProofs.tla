------------------------- MODULE RecorderExitProofs -------------------------
(***************************************************************************)
(* Theorems about RecorderExit, for every set of spans, tenants and        *)
(* threads, every capacity, and any number of signals and processes.       *)
(***************************************************************************)
EXTENDS RecorderExit, SequenceTheorems, WellFoundedInduction, TLAPS

ExportPCs == {"resolve", "lock", "factory", "dispatch", "put"}
ReplayPCs == {"replay", "feed", "unlink"}
ExitPCs   == {"enter", "check", "snapshot", "close", "drain", "persist", "previous"}

SpoolFile == [id : Nat, spans : SUBSET Spans, torn : BOOLEAN]

FrameSet ==
  [pc : ExportPCs \cup ReplayPCs \cup ExitPCs, span : Spans \cup {NoSpan},
   sig : {"none", "TERM", "INT", "atexit"}, todo : SUBSET Spans,
   rest : SUBSET (Tenants \cup SpoolFile)]

EntrySet == [is : {"unresolved", "none", "pipeline"}, queue : Seq(Spans), closed : BOOLEAN]

TypeInv ==
  /\ up \in BOOLEAN /\ life \in Nat
  /\ stack \in [Threads -> Seq(FrameSet)]
  /\ router \in [Tenants -> EntrySet]
  /\ lock \in Threads \cup {Nobody}
  /\ exitLock \in BOOLEAN /\ done \in BOOLEAN
  /\ spool \in SUBSET SpoolFile
  /\ taken \in SUBSET Spans /\ early \in SUBSET Spans /\ again \in SUBSET Spans
  /\ shipped \in [Spans -> Nat]
  /\ DOMAIN lost = Spans

-----------------------------------------------------------------------------
(* The shape of the stacks: which frames lie on which *)

Exporting(f) ==
  f.pc \in ExportPCs /\ f.span \in Spans /\ f.sig = "none" /\ f.todo = {}

Replaying(f) ==
  /\ f.pc \in ReplayPCs /\ f.span = NoSpan /\ f.sig = "none"
  /\ f.rest \subseteq SpoolFile
  /\ f.pc # "feed" => f.todo = {}
  /\ f.pc # "replay" => /\ f.rest # {}
                        /\ ~Oldest(f.rest).torn
                        /\ f.todo \subseteq Oldest(f.rest).spans

Exiting(f) ==
  /\ f.pc \in ExitPCs /\ f.span = NoSpan /\ f.sig \in {"TERM", "INT", "atexit"}
  /\ f.pc # "persist" => f.todo = {}

\* The export() that a thread runs, or the replay and the export() it calls,
\* at the bottom of the main thread; handlers on top of it, and nothing of
\* another kind on top of a handler.
Shape ==
  /\ ~up => \A th \in Threads : stack[th] = <<>>
  /\ \A th \in Workers :
        Len(stack[th]) <= 1 /\ \A i \in 1..Len(stack[th]) : Exporting(stack[th][i])
  /\ \A i \in 1..Len(stack[Main]) :
        \/ Exiting(stack[Main][i])
        \/ Replaying(stack[Main][i]) /\ i = 1
        \/ Exporting(stack[Main][i]) /\ (i = 1 \/ (i = 2 /\ stack[Main][1].pc = "feed"))
  /\ \A i, j \in 1..Len(stack[Main]) :
        i < j /\ Exiting(stack[Main][i]) => Exiting(stack[Main][j])

\* The files still to be replayed are there, written by an earlier process.
Pending ==
  /\ \A i \in 1..Len(stack[Main]) : stack[Main][i].pc \in ReplayPCs =>
        stack[Main][i].rest \subseteq spool /\ \A f \in stack[Main][i].rest : f.id < life
  /\ \A f \in spool : f.id <= life

\* A factory runs under the lock of the router, for a tenant without an entry;
\* an export that has passed it found an entry, and puts into a pipeline.
Resolved ==
  \A th \in Threads : \A i \in 1..Len(stack[th]) :
    /\ stack[th][i].pc = "factory" =>
          lock = th /\ router[Tenant[stack[th][i].span]].is = "unresolved"
    /\ stack[th][i].pc = "dispatch" => router[Tenant[stack[th][i].span]].is # "unresolved"
    /\ stack[th][i].pc = "put" => router[Tenant[stack[th][i].span]].is = "pipeline"

\* Only a pipeline has a queue.
Routed == \A t \in Tenants : router[t].queue # <<>> => router[t].is = "pipeline"

Sane == TypeInv /\ Shape /\ Pending /\ Resolved /\ Routed

-----------------------------------------------------------------------------
(* What the operations on a stack do, frame by frame *)

Replaced(th, f) ==
  /\ stack' \in [Threads -> Seq(FrameSet)]
  /\ \A u \in Threads \ {th} : stack'[u] = stack[u]
  /\ Len(stack[th]) \in Nat \ {0}
  /\ Len(stack'[th]) = Len(stack[th])
  /\ \A i \in 1..Len(stack[th]) :
        stack'[th][i] = IF i = Len(stack[th]) THEN f ELSE stack[th][i]

Pushed(th, f) ==
  /\ stack' \in [Threads -> Seq(FrameSet)]
  /\ \A u \in Threads \ {th} : stack'[u] = stack[u]
  /\ Len(stack[th]) \in Nat
  /\ Len(stack'[th]) = Len(stack[th]) + 1
  /\ \A i \in 1..Len(stack[th]) : stack'[th][i] = stack[th][i]
  /\ stack'[th][Len(stack[th]) + 1] = f

Popped(th) ==
  /\ stack' \in [Threads -> Seq(FrameSet)]
  /\ \A u \in Threads \ {th} : stack'[u] = stack[u]
  /\ Len(stack[th]) \in Nat \ {0}
  /\ Len(stack'[th]) = Len(stack[th]) - 1
  /\ \A i \in 1..Len(stack'[th]) : stack'[th][i] = stack[th][i]

(* The running frame. *)
LEMMA TopFacts ==
  ASSUME TypeInv, NEW th \in Threads, NEW pc, At(th, pc)
  PROVE  /\ up
         /\ Len(stack[th]) \in Nat \ {0}
         /\ Len(stack[th]) \in 1..Len(stack[th])
         /\ Top(th) = stack[th][Len(stack[th])]
         /\ Top(th) \in FrameSet
         /\ Top(th).pc = pc
BY DEF TypeInv, At, Top, Last

LEMMA FrontFacts ==
  ASSUME NEW S, NEW q \in Seq(S), q # <<>>
  PROVE  /\ Front(q) \in Seq(S)
         /\ Len(q) \in Nat \ {0}
         /\ Len(Front(q)) = Len(q) - 1
         /\ \A i \in 1..(Len(q) - 1) : Front(q)[i] = q[i]
<1>1. Len(q) \in Nat \ {0} /\ \A i \in 1..(Len(q) - 1) : q[i] \in S
  OBVIOUS
<1>2. /\ SubSeq(q, 1, Len(q) - 1) \in Seq(S)
      /\ Len(SubSeq(q, 1, Len(q) - 1)) = IF 1 <= Len(q) - 1 THEN Len(q) - 1 - 1 + 1 ELSE 0
      /\ \A i \in 1..(Len(q) - 1 - 1 + 1) : SubSeq(q, 1, Len(q) - 1)[i] = q[1 + i - 1]
  BY <1>1, SubSeqProperties
<1>3. Len(q) - 1 - 1 + 1 = Len(q) - 1 /\ \A i \in 1..(Len(q) - 1) : 1 + i - 1 = i
  BY <1>1
<1>4. \A n \in Nat \ {0} : (IF 1 <= n - 1 THEN n - 1 - 1 + 1 ELSE 0) = n - 1
  <2> TAKE n \in Nat \ {0}
  <2>1. CASE n = 1
    BY <2>1
  <2>2. CASE n > 1
    BY <2>2
  <2> QED BY <2>1, <2>2
<1>5. \A i \in 1..(Len(q) - 1) : SubSeq(q, 1, Len(q) - 1)[i] = q[i]
  BY <1>2, <1>3
<1> QED BY <1>1, <1>2, <1>4, <1>5 DEF Front

LEMMA BecomesFacts ==
  ASSUME TypeInv, NEW th \in Threads, stack[th] # <<>>, NEW f \in FrameSet, Becomes(th, f)
  PROVE  Replaced(th, f)
<1>1. stack[th] \in Seq(FrameSet) /\ stack' = [stack EXCEPT ![th] = Append(Front(stack[th]), f)]
  BY DEF TypeInv, Becomes
<1>2. /\ Front(stack[th]) \in Seq(FrameSet)
      /\ Len(stack[th]) \in Nat \ {0}
      /\ Len(Front(stack[th])) = Len(stack[th]) - 1
      /\ \A i \in 1..(Len(stack[th]) - 1) : Front(stack[th])[i] = stack[th][i]
  BY <1>1, FrontFacts
<1>3. Append(Front(stack[th]), f) \in Seq(FrameSet)
  BY <1>2
<1>4. stack' \in [Threads -> Seq(FrameSet)] /\ stack'[th] = Append(Front(stack[th]), f)
  BY <1>1, <1>3 DEF TypeInv
<1>5. Len(stack'[th]) = Len(stack[th])
  BY <1>2, <1>4
<1>6. \A i \in 1..Len(stack[th]) :
        stack'[th][i] = IF i = Len(stack[th]) THEN f ELSE stack[th][i]
  BY <1>2, <1>4
<1>7. \A u \in Threads \ {th} : stack'[u] = stack[u]
  BY <1>1 DEF TypeInv
<1> QED BY <1>2, <1>4, <1>5, <1>6, <1>7 DEF Replaced

LEMMA PushFacts ==
  ASSUME TypeInv, NEW th \in Threads, NEW f \in FrameSet,
         stack' = [stack EXCEPT ![th] = Append(@, f)]
  PROVE  Pushed(th, f)
<1>1. stack[th] \in Seq(FrameSet) /\ stack'[th] = Append(stack[th], f)
  BY DEF TypeInv
<1>2. stack' \in [Threads -> Seq(FrameSet)] /\ \A u \in Threads \ {th} : stack'[u] = stack[u]
  BY DEF TypeInv
<1> QED BY <1>1, <1>2 DEF Pushed

LEMMA ReturnFacts ==
  ASSUME TypeInv, NEW th \in Threads, stack[th] # <<>>, Return(th)
  PROVE  Popped(th)
<1>1. stack[th] \in Seq(FrameSet) /\ stack'[th] = Front(stack[th])
  BY DEF TypeInv, Return
<1>2. stack' \in [Threads -> Seq(FrameSet)] /\ \A u \in Threads \ {th} : stack'[u] = stack[u]
  BY <1>1, FrontFacts DEF TypeInv, Return
<1> QED BY <1>1, <1>2, FrontFacts DEF Popped

(* The kind of the running frame, by its pc. *)
LEMMA ExportTop ==
  ASSUME Sane, NEW th \in Threads, NEW pc \in ExportPCs, At(th, pc)
  PROVE  Exporting(Top(th))
<1>1. /\ Len(stack[th]) \in 1..Len(stack[th])
      /\ Top(th) = stack[th][Len(stack[th])]
      /\ Top(th).pc \in ExportPCs
  BY TopFacts DEF Sane
<1> QED BY <1>1 DEF Sane, Shape, Threads, Exiting, Replaying, ExportPCs, ExitPCs, ReplayPCs

LEMMA ExitTop ==
  ASSUME Sane, NEW pc \in ExitPCs, At(Main, pc)
  PROVE  Exiting(Top(Main))
<1>1. /\ Main \in Threads
      /\ Len(stack[Main]) \in 1..Len(stack[Main])
      /\ Top(Main) = stack[Main][Len(stack[Main])]
      /\ Top(Main).pc \in ExitPCs
  BY TopFacts DEF Sane, Threads
<1> QED BY <1>1 DEF Sane, Shape, Exporting, Replaying, ExportPCs, ExitPCs, ReplayPCs

LEMMA ReplayTop ==
  ASSUME Sane, NEW pc \in ReplayPCs, At(Main, pc)
  PROVE  /\ Replaying(Top(Main)) /\ Len(stack[Main]) = 1
         /\ Top(Main) = stack[Main][1]
         /\ Top(Main).rest \subseteq spool /\ \A f \in Top(Main).rest : f.id < life
<1>1. /\ Main \in Threads
      /\ Len(stack[Main]) \in 1..Len(stack[Main])
      /\ Top(Main) = stack[Main][Len(stack[Main])]
      /\ Top(Main).pc \in ReplayPCs
  BY TopFacts DEF Sane, Threads
<1>2. \/ Exiting(Top(Main)) \/ Exporting(Top(Main))
      \/ Replaying(Top(Main)) /\ Len(stack[Main]) = 1
  BY <1>1 DEF Sane, Shape
<1>4. Replaying(Top(Main)) /\ Len(stack[Main]) = 1
  BY <1>1, <1>2 DEF Exporting, Exiting, ExportPCs, ExitPCs, ReplayPCs
<1>3. Top(Main).rest \subseteq spool /\ \A f \in Top(Main).rest : f.id < life
  BY <1>1 DEF Sane, Pending
<1> QED BY <1>1, <1>3, <1>4

(* The shape after a step of the running frame. *)
LEMMA ShapeReplaced ==
  ASSUME Sane, up, up', NEW th \in Threads, NEW f, Replaced(th, f),
         \/ Exporting(Top(th)) /\ Exporting(f)
         \/ th = Main /\ Exiting(Top(th)) /\ Exiting(f)
         \/ th = Main /\ Replaying(Top(th)) /\ Replaying(f)
  PROVE  Shape'
<1> USE ExitAssumption DEF Threads
<1>1. /\ Len(stack[th]) \in Nat \ {0} /\ Len(stack'[th]) = Len(stack[th])
      /\ Len(stack[th]) \in 1..Len(stack[th])
      /\ Top(th) = stack[th][Len(stack[th])]
      /\ \A u \in Threads \ {th} : stack'[u] = stack[u]
      /\ \A i \in 1..Len(stack[th]) :
            stack'[th][i] = IF i = Len(stack[th]) THEN f ELSE stack[th][i]
  BY DEF Replaced, Top, Last
<1>2. /\ \A g : ~(Exporting(g) /\ Exiting(g))
      /\ \A g : ~(Exporting(g) /\ Replaying(g))
      /\ \A g : ~(Exiting(g) /\ Replaying(g))
  BY DEF Exporting, Exiting, Replaying, ExportPCs, ExitPCs, ReplayPCs
<1>3. \A u \in Workers :
        Len(stack'[u]) <= 1 /\ \A i \in 1..Len(stack'[u]) : Exporting(stack'[u][i])
  <2> TAKE u \in Workers
  <2>1. CASE u = th
    BY <1>1, <1>2, <2>1 DEF Sane, Shape
  <2>2. CASE u # th
    BY <1>1, <2>2 DEF Sane, Shape
  <2> QED BY <2>1, <2>2
<1>4. CASE th = Main
  <2>1. \A i \in 1..Len(stack[Main]) :
        \/ Exiting(stack[Main][i])
        \/ Replaying(stack[Main][i]) /\ i = 1
        \/ Exporting(stack[Main][i]) /\ (i = 1 \/ (i = 2 /\ stack[Main][1].pc = "feed"))
    BY DEF Sane, Shape
  <2>2. \A i \in 1..Len(stack'[Main]) :
        /\ Exiting(stack'[Main][i]) <=> Exiting(stack[Main][i])
        /\ Replaying(stack'[Main][i]) <=> Replaying(stack[Main][i])
        /\ Exporting(stack'[Main][i]) <=> Exporting(stack[Main][i])
    BY <1>1, <1>2, <1>4, <2>1
  <2>3. \A i \in 1..Len(stack'[Main]) :
        \/ Exiting(stack'[Main][i])
        \/ Replaying(stack'[Main][i]) /\ i = 1
        \/ Exporting(stack'[Main][i]) /\ (i = 1 \/ (i = 2 /\ stack'[Main][1].pc = "feed"))
    <3> TAKE i \in 1..Len(stack'[Main])
    <3>1. CASE i = 2 /\ Exporting(stack[Main][i])
      <4>1. stack'[Main][1] = stack[Main][1] /\ 1 \in 1..Len(stack[Main])
        BY <1>1, <1>4, <3>1
      <4> QED BY <1>1, <1>2, <1>4, <2>1, <2>2, <3>1, <4>1
    <3>2. CASE ~(i = 2 /\ Exporting(stack[Main][i]))
      BY <1>1, <1>2, <1>4, <2>1, <2>2, <3>2
    <3> QED BY <3>1, <3>2
  <2>4. \A i, j \in 1..Len(stack'[Main]) :
          i < j /\ Exiting(stack'[Main][i]) => Exiting(stack'[Main][j])
    BY <1>1, <1>4, <2>2 DEF Sane, Shape
  <2> QED BY <1>3, <2>3, <2>4 DEF Shape
<1>5. CASE th # Main
  BY <1>1, <1>3, <1>5 DEF Sane, Shape
<1> QED BY <1>4, <1>5

LEMMA ShapePushed ==
  ASSUME Sane, up, up', NEW f, Pushed(Main, f), Exiting(f)
  PROVE  Shape'
<1> USE ExitAssumption DEF Threads
<1>1. /\ Len(stack[Main]) \in Nat /\ Len(stack'[Main]) = Len(stack[Main]) + 1
      /\ \A u \in Workers : stack'[u] = stack[u]
      /\ \A i \in 1..Len(stack[Main]) : stack'[Main][i] = stack[Main][i]
      /\ stack'[Main][Len(stack[Main]) + 1] = f
  BY DEF Pushed
<1>2. \A i \in 1..Len(stack'[Main]) : i \in 1..Len(stack[Main]) \/ i = Len(stack[Main]) + 1
  BY <1>1
<1>3. \A i \in 1..Len(stack'[Main]) :
        \/ Exiting(stack'[Main][i])
        \/ Replaying(stack'[Main][i]) /\ i = 1
        \/ Exporting(stack'[Main][i]) /\ (i = 1 \/ (i = 2 /\ stack'[Main][1].pc = "feed"))
  <2> TAKE i \in 1..Len(stack'[Main])
  <2>1. CASE i \in 1..Len(stack[Main])
    <3>1. stack'[Main][i] = stack[Main][i] /\ stack'[Main][1] = stack[Main][1]
      BY <1>1, <2>1
    <3> QED BY <2>1, <3>1 DEF Sane, Shape
  <2>2. CASE i = Len(stack[Main]) + 1
    BY <1>1, <2>2
  <2> QED BY <1>2, <2>1, <2>2
<1>4. \A i, j \in 1..Len(stack'[Main]) :
        i < j /\ Exiting(stack'[Main][i]) => Exiting(stack'[Main][j])
  BY <1>1, <1>2 DEF Sane, Shape
<1> QED BY <1>1, <1>3, <1>4 DEF Sane, Shape

LEMMA ShapePopped ==
  ASSUME Sane, up, up', NEW th \in Threads, Popped(th)
  PROVE  Shape'
<1> USE ExitAssumption DEF Threads
<1>1. /\ Len(stack[th]) \in Nat \ {0} /\ Len(stack'[th]) = Len(stack[th]) - 1
      /\ \A u \in Threads \ {th} : stack'[u] = stack[u]
      /\ \A i \in 1..Len(stack'[th]) : stack'[th][i] = stack[th][i] /\ i \in 1..Len(stack[th])
  BY DEF Popped
<1>2. \A u \in Workers :
        Len(stack'[u]) <= 1 /\ \A i \in 1..Len(stack'[u]) : Exporting(stack'[u][i])
  <2> TAKE u \in Workers
  <2>1. /\ Len(stack[u]) <= 1 /\ \A i \in 1..Len(stack[u]) : Exporting(stack[u][i])
        /\ u \in Threads
    BY DEF Sane, Shape
  <2>2. CASE u = th
    <3>1. Len(stack'[u]) <= 1
      BY <1>1, <2>1, <2>2
    <3>2. ASSUME NEW i \in 1..Len(stack'[u]) PROVE Exporting(stack'[u][i])
      BY <1>1, <2>1, <2>2, <3>2
    <3> QED BY <3>1, <3>2
  <2>3. CASE u # th
    BY <1>1, <2>1, <2>3
  <2> QED BY <2>2, <2>3
<1>3. CASE th = Main
  <2>1. \A i \in 1..Len(stack'[Main]) :
          stack'[Main][i] = stack[Main][i] /\ i \in 1..Len(stack[Main])
                                           /\ stack'[Main][1] = stack[Main][1]
    BY <1>1, <1>3
  <2>2. \A i \in 1..Len(stack'[Main]) :
        \/ Exiting(stack'[Main][i])
        \/ Replaying(stack'[Main][i]) /\ i = 1
        \/ Exporting(stack'[Main][i]) /\ (i = 1 \/ (i = 2 /\ stack'[Main][1].pc = "feed"))
    BY <2>1 DEF Sane, Shape
  <2>3. \A i, j \in 1..Len(stack'[Main]) :
          i < j /\ Exiting(stack'[Main][i]) => Exiting(stack'[Main][j])
    BY <2>1 DEF Sane, Shape
  <2> QED BY <1>2, <2>2, <2>3 DEF Shape
<1>4. CASE th # Main
  BY <1>1, <1>2, <1>4 DEF Sane, Shape
<1> QED BY <1>3, <1>4

(* What the files to replay look like after a step that adds none.           *)
LEMMA PendingStays ==
  ASSUME Sane, UNCHANGED life, spool \subseteq spool',
         \A f \in spool' \ spool : f.id = life,
         \A i \in 1..Len(stack'[Main]) : stack'[Main][i].pc \in ReplayPCs =>
            \E j \in 1..Len(stack[Main]) :
               stack[Main][j].pc \in ReplayPCs /\ stack'[Main][i].rest \subseteq stack[Main][j].rest
  PROVE  Pending'
<1>1. life \in Nat
  BY DEF Sane, TypeInv
<1>2. \A f \in spool' : f.id <= life'
  BY <1>1 DEF Sane, Pending
<1>3. \A i \in 1..Len(stack'[Main]) : stack'[Main][i].pc \in ReplayPCs =>
        stack'[Main][i].rest \subseteq spool' /\ \A f \in stack'[Main][i].rest : f.id < life'
  BY DEF Sane, Pending
<1> QED BY <1>2, <1>3 DEF Pending

\* What Resolved asks of a frame after the step.
ResolvedNext(th, f) ==
  /\ f.pc = "factory" => lock' = th /\ router'[Tenant[f.span]].is = "unresolved"
  /\ f.pc = "dispatch" => router'[Tenant[f.span]].is # "unresolved"
  /\ f.pc = "put" => router'[Tenant[f.span]].is = "pipeline"

LEMMA ResolvedStays ==
  ASSUME stack' \in [Threads -> Seq(FrameSet)],
         \A th \in Threads : \A i \in 1..Len(stack'[th]) : ResolvedNext(th, stack'[th][i])
  PROVE  Resolved'
BY DEF Resolved, ResolvedNext

-----------------------------------------------------------------------------
(* Where a span is: in a frame, in a queue; and the file that is replayed.   *)

Holds(th, i, s) ==
  i \in 1..Len(stack[th]) /\ (stack[th][i].span = s \/ s \in stack[th][i].todo)

Waits(t, i, s) == i \in 1..Len(router[t].queue) /\ router[t].queue[i] = s

Fed(f) ==
  /\ Len(stack[Main]) > 0 /\ stack[Main][1].pc \in {"feed", "unlink"}
  /\ f = Oldest(stack[Main][1].rest)

SameHeld == \A th \in Threads, i \in Nat, s \in Spans : Holds(th, i, s)' <=> Holds(th, i, s)
SameFed  == \A f \in SpoolFile : Fed(f)' <=> Fed(f)

LEMMA HoldsReplaced ==
  ASSUME NEW th \in Threads, NEW f, Replaced(th, f)
  PROVE  \A u \in Threads, i \in Nat, s \in Spans :
           Holds(u, i, s)' <=> IF u = th /\ i = Len(stack[th]) THEN f.span = s \/ s \in f.todo
                                                                ELSE Holds(u, i, s)
BY DEF Replaced, Holds

LEMMA HoldsPushed ==
  ASSUME NEW th \in Threads, NEW f, Pushed(th, f)
  PROVE  \A u \in Threads, i \in Nat, s \in Spans :
           Holds(u, i, s)' <=> IF u = th /\ i = Len(stack[th]) + 1 THEN f.span = s \/ s \in f.todo
                                                                    ELSE Holds(u, i, s)
<1> TAKE u \in Threads, i \in Nat, s \in Spans
<1>1. CASE u = th /\ i = Len(stack[th]) + 1
  BY <1>1 DEF Pushed, Holds
<1>2. CASE u = th /\ i \in 1..Len(stack[th])
  BY <1>2 DEF Pushed, Holds
<1>3. CASE u = th /\ i # Len(stack[th]) + 1 /\ i \notin 1..Len(stack[th])
  BY <1>3 DEF Pushed, Holds
<1>4. CASE u # th
  BY <1>4 DEF Pushed, Holds
<1> QED BY <1>1, <1>2, <1>3, <1>4

LEMMA HoldsPopped ==
  ASSUME NEW th \in Threads, Popped(th)
  PROVE  \A u \in Threads, i \in Nat, s \in Spans :
           Holds(u, i, s)' <=> Holds(u, i, s) /\ ~(u = th /\ i = Len(stack[th]))
BY DEF Popped, Holds

\* The running frame of a thread goes on, with the spans it had.
GoesOn(th, f) == Replaced(th, f) /\ f.span = Top(th).span /\ f.todo = Top(th).todo

LEMMA HoldsGoesOn ==
  ASSUME NEW th \in Threads, NEW f, GoesOn(th, f)
  PROVE  SameHeld
<1>1. /\ Len(stack[th]) \in Nat \ {0} /\ Len(stack[th]) \in 1..Len(stack[th])
      /\ Top(th) = stack[th][Len(stack[th])]
      /\ Replaced(th, f) /\ f.span = Top(th).span /\ f.todo = Top(th).todo
  BY DEF GoesOn, Replaced, Top, Last
<1>2. \A s \in Spans : Holds(th, Len(stack[th]), s) <=> f.span = s \/ s \in f.todo
  BY <1>1 DEF Holds
<1> QED BY <1>1, <1>2, HoldsReplaced DEF SameHeld

(* Neither the frame that runs nor what becomes of it replays a file.        *)
LEMMA FedReplaced ==
  ASSUME NEW th \in Threads, NEW f, Replaced(th, f),
         Top(th).pc \notin {"feed", "unlink"}, f.pc \notin {"feed", "unlink"}
  PROVE  SameFed
<1>1. /\ Len(stack[th]) \in Nat \ {0}
      /\ Top(th) = stack[th][Len(stack[th])] /\ Main \in Threads
  BY DEF Replaced, Top, Last, Threads
<1>2. CASE th # Main
  BY <1>1, <1>2 DEF SameFed, Fed, Replaced
<1>3. CASE th = Main /\ Len(stack[th]) = 1
  BY <1>1, <1>3 DEF SameFed, Fed, Replaced
<1>4. CASE th = Main /\ Len(stack[th]) # 1
  BY <1>1, <1>4 DEF SameFed, Fed, Replaced
<1> QED BY <1>2, <1>3, <1>4

LEMMA FedPopped ==
  ASSUME NEW th \in Threads, Popped(th), Top(th).pc \notin {"feed", "unlink"}
  PROVE  SameFed
<1>1. /\ Len(stack[th]) \in Nat \ {0}
      /\ Top(th) = stack[th][Len(stack[th])] /\ Main \in Threads
  BY DEF Popped, Top, Last, Threads
<1>2. CASE th # Main
  BY <1>1, <1>2 DEF SameFed, Fed, Popped
<1>3. CASE th = Main /\ Len(stack[th]) = 1
  BY <1>1, <1>3 DEF SameFed, Fed, Popped
<1>4. CASE th = Main /\ Len(stack[th]) # 1
  BY <1>1, <1>4 DEF SameFed, Fed, Popped
<1> QED BY <1>2, <1>3, <1>4

LEMMA FedPushed ==
  ASSUME NEW th \in Threads, NEW f, Pushed(th, f), f.pc \notin {"feed", "unlink"}
  PROVE  SameFed
<1>1. Len(stack[th]) \in Nat /\ Main \in Threads
  BY DEF Pushed, Threads
<1>2. CASE th # Main
  BY <1>1, <1>2 DEF SameFed, Fed, Pushed
<1>3. CASE th = Main /\ Len(stack[th]) = 0
  BY <1>1, <1>3 DEF SameFed, Fed, Pushed
<1>4. CASE th = Main /\ Len(stack[th]) # 0
  BY <1>1, <1>4 DEF SameFed, Fed, Pushed
<1> QED BY <1>2, <1>3, <1>4

-----------------------------------------------------------------------------
(* The steps of an export: each keeps Sane, and what it does to the spans    *)

ExportLeaves == <<up, life, exitLock, done, signals, spool, taken, shipped, early, spoilt, again>>

SameWaits == \A t \in Tenants, i \in Nat, s \in Spans : Waits(t, i, s)' <=> Waits(t, i, s)
Quiet == SameHeld /\ SameFed /\ SameWaits

\* The running frame of th, which held just x, is gone.
Leaves(th, x) ==
  /\ x \in Spans /\ SameFed
  /\ \E n \in Nat \ {0} :
       /\ \A s \in Spans : Holds(th, n, s) <=> s = x
       /\ \A u \in Threads, i \in Nat, s \in Spans :
            Holds(u, i, s)' <=> Holds(u, i, s) /\ ~(u = th /\ i = n)

\* x is now the last in the queue of t, the first of which went if gone is TRUE.
Joins(t, x, gone) ==
  \E n \in Nat \ {0} :
    /\ \A s \in Spans : ~Waits(t, n + (IF gone THEN 1 ELSE 0), s)
    /\ \A u \in Tenants, i \in Nat, s \in Spans :
         Waits(u, i, s)' <=>
           \/ u # t /\ Waits(u, i, s)
           \/ u = t /\ i = n /\ s = x
           \/ u = t /\ i > 0 /\ Waits(t, i + (IF gone THEN 1 ELSE 0), s)

LEMMA ResolvedReplaced ==
  ASSUME NEW th \in Threads, NEW f, Replaced(th, f), ResolvedNext(th, f),
         \A u \in Threads : \A i \in 1..Len(stack[u]) :
            ~(u = th /\ i = Len(stack[th])) => ResolvedNext(u, stack[u][i])
  PROVE  Resolved'
<1>1. stack' \in [Threads -> Seq(FrameSet)]
  BY DEF Replaced
<1>2. \A u \in Threads : \A i \in 1..Len(stack'[u]) : ResolvedNext(u, stack'[u][i])
  <2> TAKE u \in Threads
  <2> TAKE i \in 1..Len(stack'[u])
  <2>1. CASE u = th /\ i = Len(stack[th])
    <3>1. stack'[u][i] = f
      BY <2>1 DEF Replaced
    <3> QED BY <2>1, <3>1
  <2>2. CASE ~(u = th /\ i = Len(stack[th]))
    <3>1. stack'[u][i] = stack[u][i] /\ i \in 1..Len(stack[u])
      BY <2>2 DEF Replaced
    <3> QED BY <2>2, <3>1
  <2> QED BY <2>1, <2>2
<1> QED BY <1>1, <1>2, ResolvedStays

LEMMA ResolvedPopped ==
  ASSUME NEW th \in Threads, Popped(th),
         \A u \in Threads : \A i \in 1..Len(stack[u]) : ResolvedNext(u, stack[u][i])
  PROVE  Resolved'
<1>1. stack' \in [Threads -> Seq(FrameSet)]
  BY DEF Popped
<1>2. \A u \in Threads : \A i \in 1..Len(stack'[u]) :
        stack'[u][i] = stack[u][i] /\ i \in 1..Len(stack[u])
  BY DEF Popped
<1> QED BY <1>1, <1>2, ResolvedStays

LEMMA ExportGoto ==
  ASSUME Sane, NEW th \in Threads, NEW from \in ExportPCs, At(th, from),
         NEW pc \in ExportPCs, Goto(th, pc), UNCHANGED ExportLeaves
  PROVE  /\ SameHeld /\ SameFed /\ Shape' /\ Pending'
         /\ \E f \in FrameSet : Replaced(th, f) /\ f.pc = pc /\ f.span = Top(th).span
         /\ stack' \in [Threads -> Seq(FrameSet)]
<1> DEFINE f == [Top(th) EXCEPT !.pc = pc]
<1>1. /\ up /\ Top(th) \in FrameSet /\ Top(th).pc = from /\ stack[th] # <<>>
      /\ Len(stack[th]) \in 1..Len(stack[th]) /\ Top(th) = stack[th][Len(stack[th])]
  BY TopFacts DEF Sane, At
<1>2. Exporting(Top(th))
  BY ExportTop
<1>3. f \in FrameSet /\ f.span = Top(th).span /\ f.todo = Top(th).todo /\ f.pc = pc
      /\ f.rest = Top(th).rest /\ f.sig = Top(th).sig
  BY <1>1 DEF FrameSet
<1>4. Replaced(th, f)
  BY <1>1, <1>3, BecomesFacts DEF Goto, Sane
<1>5. Exporting(f)
  BY <1>2, <1>3 DEF Exporting
<1>6. Shape'
  BY <1>1, <1>2, <1>4, <1>5, ShapeReplaced DEF ExportLeaves
<1>7. \A i \in 1..Len(stack'[Main]) : stack'[Main][i].pc \in ReplayPCs =>
            \E j \in 1..Len(stack[Main]) :
               stack[Main][j].pc \in ReplayPCs /\ stack'[Main][i].rest \subseteq stack[Main][j].rest
  <2> TAKE i \in 1..Len(stack'[Main])
  <2>0. Main \in Threads /\ f.pc \notin ReplayPCs
    BY <1>3 DEF Threads, ExportPCs, ReplayPCs
  <2>1. i \in 1..Len(stack[Main]) /\ (stack'[Main][i] = stack[Main][i] \/ stack'[Main][i] = f)
    BY <1>4, <2>0 DEF Replaced
  <2> QED BY <2>0, <2>1
<1>8. Pending'
  BY <1>7, PendingStays DEF ExportLeaves
<1>9. SameHeld
  BY <1>3, <1>4, HoldsGoesOn DEF GoesOn
<1>10. SameFed
  BY <1>1, <1>3, <1>4, FedReplaced DEF ExportPCs
<1> QED BY <1>3, <1>4, <1>6, <1>8, <1>9, <1>10 DEF Replaced

LEMMA ExportReturn ==
  ASSUME Sane, NEW th \in Threads, NEW from \in ExportPCs, At(th, from),
         Return(th), UNCHANGED ExportLeaves
  PROVE  Popped(th) /\ Shape' /\ Pending' /\ Leaves(th, Top(th).span)
         /\ stack' \in [Threads -> Seq(FrameSet)]
<1>1. up /\ stack[th] # <<>> /\ Top(th) \in FrameSet /\ Top(th).pc = from /\ Exporting(Top(th))
      /\ Len(stack[th]) \in Nat \ {0} /\ Len(stack[th]) \in 1..Len(stack[th])
      /\ Top(th) = stack[th][Len(stack[th])]
  BY TopFacts, ExportTop DEF Sane, At
<1>2. Popped(th)
  BY <1>1, ReturnFacts DEF Sane
<1>3. Shape'
  BY <1>1, <1>2, ShapePopped DEF ExportLeaves
<1>4. \A i \in 1..Len(stack'[Main]) : stack'[Main][i].pc \in ReplayPCs =>
            \E j \in 1..Len(stack[Main]) :
               stack[Main][j].pc \in ReplayPCs /\ stack'[Main][i].rest \subseteq stack[Main][j].rest
  <2> TAKE i \in 1..Len(stack'[Main])
  <2>1. i \in 1..Len(stack[Main]) /\ stack'[Main][i] = stack[Main][i]
    BY <1>2 DEF Popped, Threads
  <2> QED BY <2>1
<1>5. Pending'
  BY <1>4, PendingStays DEF ExportLeaves
<1>6. SameFed
  BY <1>1, <1>2, FedPopped DEF ExportPCs
<1>7. \A s \in Spans : Holds(th, Len(stack[th]), s) <=> s = Top(th).span
  BY <1>1 DEF Holds, Exporting
<1>8. Leaves(th, Top(th).span)
  BY <1>1, <1>2, <1>6, <1>7, HoldsPopped DEF Leaves, Exporting
<1> QED BY <1>2, <1>3, <1>5, <1>8 DEF Popped

LEMMA ResolvedKept ==
  ASSUME Sane, UNCHANGED lock, \A t \in Tenants : router'[t].is = router[t].is
  PROVE  \A u \in Threads : \A i \in 1..Len(stack[u]) : ResolvedNext(u, stack[u][i])
<1> TAKE u \in Threads
<1> TAKE i \in 1..Len(stack[u])
<1>1. stack[u][i].pc \in {"factory", "dispatch", "put"} => stack[u][i].span \in Spans
  BY DEF Sane, Shape, Threads, Exporting, Exiting, Replaying, ExitPCs, ReplayPCs
<1>2. stack[u][i].span \in Spans => Tenant[stack[u][i].span] \in Tenants
  BY ExitAssumption
<1> QED BY <1>1, <1>2 DEF Sane, Resolved, ResolvedNext

LEMMA TenantFacts ==
  ASSUME Sane, NEW th \in Threads, NEW pc \in ExportPCs, At(th, pc)
  PROVE  Top(th).span \in Spans /\ TenantOf(th) \in Tenants /\ router[TenantOf(th)] \in EntrySet
<1>1. Top(th).span \in Spans
  BY ExportTop DEF Exporting
<1> QED BY <1>1, ExitAssumption DEF TenantOf, Sane, TypeInv

LEMMA ResolveSane ==
  ASSUME Sane, NEW th \in Threads, Resolve(th), UNCHANGED ExportLeaves
  PROVE  Sane' /\ Quiet /\ UNCHANGED lost
<1> DEFINE pc == IF router[TenantOf(th)].is = "unresolved" THEN "lock" ELSE "dispatch"
<1>1. At(th, "resolve") /\ "resolve" \in ExportPCs /\ pc \in ExportPCs /\ Goto(th, pc)
      /\ UNCHANGED <<router, lock, lost>>
  BY DEF Resolve, ExportPCs
<1>2. SameHeld /\ SameFed /\ Shape' /\ Pending' /\ stack' \in [Threads -> Seq(FrameSet)]
      /\ \E f \in FrameSet : Replaced(th, f) /\ f.pc = pc /\ f.span = Top(th).span
  BY <1>1, ExportGoto
<1>3. PICK f \in FrameSet : Replaced(th, f) /\ f.pc = pc /\ f.span = Top(th).span
  BY <1>2
<1>4. TypeInv'
  BY <1>1, <1>2 DEF Sane, TypeInv, ExportLeaves
<1>5. ResolvedNext(th, f)
  BY <1>1, <1>3 DEF ResolvedNext, TenantOf
<1>6. Resolved'
  BY <1>1, <1>3, <1>5, ResolvedKept, ResolvedReplaced
<1>7. Routed' /\ SameWaits
  BY <1>1 DEF Sane, Routed, SameWaits, Waits
<1> QED BY <1>1, <1>2, <1>4, <1>6, <1>7 DEF Sane, Quiet

LEMMA TakeLockSane ==
  ASSUME Sane, NEW th \in Threads, TakeLock(th), UNCHANGED ExportLeaves
  PROVE  Sane' /\ Quiet /\ UNCHANGED lost
<1> DEFINE pc == IF ResolvedMeanwhile(th) THEN "dispatch" ELSE "factory"
<1>1. /\ At(th, "lock") /\ "lock" \in ExportPCs /\ pc \in ExportPCs /\ Goto(th, pc)
      /\ lock = Nobody /\ lock' = (IF ResolvedMeanwhile(th) THEN lock ELSE th)
      /\ UNCHANGED <<router, lost>>
  BY DEF TakeLock, ExportPCs
<1>2. SameHeld /\ SameFed /\ Shape' /\ Pending' /\ stack' \in [Threads -> Seq(FrameSet)]
      /\ \E f \in FrameSet : Replaced(th, f) /\ f.pc = pc /\ f.span = Top(th).span
  BY <1>1, ExportGoto
<1>3. PICK f \in FrameSet : Replaced(th, f) /\ f.pc = pc /\ f.span = Top(th).span
  BY <1>2
<1>4. TypeInv'
  BY <1>1, <1>2 DEF Sane, TypeInv, ExportLeaves
<1>5. ResolvedNext(th, f)
  BY <1>1, <1>3 DEF ResolvedNext, TenantOf, ResolvedMeanwhile
<1>6. \A u \in Threads : \A i \in 1..Len(stack[u]) : ResolvedNext(u, stack[u][i])
  BY <1>1, ExitAssumption DEF Sane, Resolved, ResolvedNext
<1>7. Resolved'
  BY <1>3, <1>5, <1>6, ResolvedReplaced
<1>8. Routed' /\ SameWaits
  BY <1>1 DEF Sane, Routed, SameWaits, Waits
<1> QED BY <1>1, <1>2, <1>4, <1>7, <1>8 DEF Sane, Quiet

(* The entry that a factory writes replaces none that has a queue.           *)
LEMMA FactorySane ==
  ASSUME Sane, NEW th \in Threads, Factory(th), UNCHANGED ExportLeaves
  PROVE  Sane' /\ Quiet /\ UNCHANGED lost
<1> DEFINE t == TenantOf(th)
<1>1. /\ At(th, "factory") /\ "factory" \in ExportPCs /\ "dispatch" \in ExportPCs
      /\ Goto(th, "dispatch") /\ lock' = Nobody /\ UNCHANGED lost
  BY DEF Factory, ExportPCs
<1>2. PICK made \in {"none", "pipeline"} : router' = [router EXCEPT ![t] = Entry(made)]
  BY DEF Factory
<1>3. SameHeld /\ SameFed /\ Shape' /\ Pending' /\ stack' \in [Threads -> Seq(FrameSet)]
      /\ \E f \in FrameSet : Replaced(th, f) /\ f.pc = "dispatch" /\ f.span = Top(th).span
  BY <1>1, ExportGoto
<1>4. PICK f \in FrameSet : Replaced(th, f) /\ f.pc = "dispatch" /\ f.span = Top(th).span
  BY <1>3
<1>5. /\ t \in Tenants /\ router[t] \in EntrySet /\ Top(th).span \in Spans
      /\ up /\ Len(stack[th]) \in 1..Len(stack[th]) /\ Top(th) = stack[th][Len(stack[th])]
      /\ Top(th).pc = "factory" /\ Exporting(Top(th))
  BY <1>1, TenantFacts, TopFacts, ExportTop DEF Sane
<1>6. router[t].is = "unresolved" /\ lock = th
  BY <1>5 DEF Sane, Resolved, TenantOf
<1>7. router[t].queue = <<>>
  BY <1>5, <1>6 DEF Sane, Routed
<1>8. /\ Entry(made) \in EntrySet /\ Entry(made).queue = <<>> /\ Entry(made).is = made
      /\ router' \in [Tenants -> EntrySet] /\ router'[t] = Entry(made)
      /\ \A u \in Tenants \ {t} : router'[u] = router[u]
  BY <1>2, <1>5 DEF Entry, EntrySet, Sane, TypeInv
<1>9. TypeInv'
  BY <1>1, <1>3, <1>8 DEF Sane, TypeInv, ExportLeaves
<1>10. Routed'
  BY <1>8 DEF Sane, Routed
<1>11. SameWaits
  BY <1>7, <1>8 DEF SameWaits, Waits
<1>12. ResolvedNext(th, f)
  BY <1>4, <1>8 DEF ResolvedNext, TenantOf
<1>13. \A u \in Threads : \A i \in 1..Len(stack[u]) :
          ~(u = th /\ i = Len(stack[th])) => ResolvedNext(u, stack[u][i])
  <2> TAKE u \in Threads
  <2> TAKE i \in 1..Len(stack[u])
  <2> HAVE ~(u = th /\ i = Len(stack[th]))
  <2>1. stack[u][i].pc \in {"factory", "dispatch", "put"} => Exporting(stack[u][i])
    BY DEF Sane, Shape, Threads, Exiting, Replaying, ExitPCs, ReplayPCs
  <2>2. stack[u][i].pc # "factory"
    <3>1. SUFFICES ASSUME stack[u][i].pc = "factory" PROVE FALSE
      OBVIOUS
    <3>2. u = th /\ Exporting(stack[u][i]) /\ Exporting(stack[u][Len(stack[u])])
      BY <1>5, <1>6, <2>1, <3>1 DEF Sane, Resolved
    <3>3. i = Len(stack[th])
      BY <1>5, <3>1, <3>2 DEF Sane, Shape, Threads, Exporting, Exiting, Replaying, ExportPCs, ExitPCs, ReplayPCs
    <3> QED BY <3>2, <3>3
  <2>3. stack[u][i].pc = "dispatch" => router'[Tenant[stack[u][i].span]].is # "unresolved"
    BY <1>6, <1>8, <2>1, ExitAssumption DEF Sane, Resolved, Exporting
  <2>4. stack[u][i].pc = "put" => router'[Tenant[stack[u][i].span]].is = "pipeline"
    BY <1>6, <1>8, <2>1, ExitAssumption DEF Sane, Resolved, Exporting
  <2> QED BY <2>2, <2>3, <2>4 DEF ResolvedNext
<1>14. Resolved'
  BY <1>4, <1>12, <1>13, ResolvedReplaced
<1> QED BY <1>1, <1>3, <1>9, <1>10, <1>11, <1>14 DEF Sane, Quiet

LEMMA DispatchSane ==
  ASSUME Sane, NEW th \in Threads, Dispatch(th), UNCHANGED ExportLeaves
  PROVE  /\ Sane' /\ SameWaits
         /\ \/ Quiet /\ UNCHANGED lost
            \/ \E x \in Spans, why \in {"no exporter", "late"} : Leaves(th, x) /\ Lose({x}, why)
<1>1. At(th, "dispatch") /\ "dispatch" \in ExportPCs /\ "put" \in ExportPCs
      /\ UNCHANGED <<router, lock>>
  BY DEF Dispatch, ExportPCs
<1>2. Top(th).span \in Spans
  BY <1>1, TenantFacts
<1>3. Routed' /\ SameWaits
  BY <1>1 DEF Sane, Routed, SameWaits, Waits
<1>4. \A u \in Threads : \A i \in 1..Len(stack[u]) : ResolvedNext(u, stack[u][i])
  BY <1>1, ResolvedKept
<1>5. \/ Return(th) /\ \E why \in {"no exporter", "late"} : Lose({Top(th).span}, why)
      \/ /\ router[TenantOf(th)].is # "none" /\ Goto(th, "put") /\ UNCHANGED lost
  BY DEF Dispatch
<1>6. CASE Return(th) /\ \E why \in {"no exporter", "late"} : Lose({Top(th).span}, why)
  <2>1. Popped(th) /\ Shape' /\ Pending' /\ Leaves(th, Top(th).span)
        /\ stack' \in [Threads -> Seq(FrameSet)]
    BY <1>1, <1>6, ExportReturn
  <2>2. DOMAIN lost' = Spans
    BY <1>6 DEF Lose
  <2>3. TypeInv'
    BY <1>1, <2>1, <2>2 DEF Sane, TypeInv, ExportLeaves
  <2>4. Resolved'
    BY <1>4, <2>1, ResolvedPopped
  <2> QED BY <1>2, <1>3, <1>6, <2>1, <2>3, <2>4 DEF Sane
<1>7. CASE router[TenantOf(th)].is # "none" /\ Goto(th, "put") /\ UNCHANGED lost
  <2>1. SameHeld /\ SameFed /\ Shape' /\ Pending' /\ stack' \in [Threads -> Seq(FrameSet)]
        /\ \E f \in FrameSet : Replaced(th, f) /\ f.pc = "put" /\ f.span = Top(th).span
    BY <1>1, <1>7, ExportGoto
  <2>2. PICK f \in FrameSet : Replaced(th, f) /\ f.pc = "put" /\ f.span = Top(th).span
    BY <2>1
  <2>3. TypeInv'
    BY <1>1, <1>7, <2>1 DEF Sane, TypeInv, ExportLeaves
  <2>4. /\ Len(stack[th]) \in 1..Len(stack[th]) /\ Top(th) = stack[th][Len(stack[th])]
        /\ Top(th).pc = "dispatch" /\ router[TenantOf(th)] \in EntrySet
    BY <1>1, TopFacts, TenantFacts DEF Sane
  <2>5. router[TenantOf(th)].is = "pipeline"
    BY <1>7, <2>4 DEF Sane, Resolved, TenantOf, EntrySet
  <2>6. ResolvedNext(th, f)
    BY <1>1, <2>2, <2>5 DEF ResolvedNext, TenantOf
  <2>7. Resolved'
    BY <1>4, <2>2, <2>6, ResolvedReplaced
  <2> QED BY <1>3, <1>7, <2>1, <2>3, <2>7 DEF Sane, Quiet
<1> QED BY <1>5, <1>6, <1>7

(* The queue of one tenant changes.                                          *)
LEMMA QueueFacts ==
  ASSUME Sane, NEW t \in Tenants, NEW q \in Seq(Spans),
         router' = [router EXCEPT ![t].queue = q]
  PROVE  /\ router' \in [Tenants -> EntrySet]
         /\ router'[t].queue = q
         /\ \A u \in Tenants : router'[u].is = router[u].is /\ router'[u].closed = router[u].closed
         /\ \A u \in Tenants \ {t} : router'[u] = router[u]
<1>1. router \in [Tenants -> EntrySet]
  BY DEF Sane, TypeInv
<1>2. [router[t] EXCEPT !.queue = q] \in EntrySet /\ router'[t] = [router[t] EXCEPT !.queue = q]
  BY <1>1 DEF EntrySet
<1>3. router'[t].queue = q /\ router'[t].is = router[t].is /\ router'[t].closed = router[t].closed
  BY <1>1, <1>2 DEF EntrySet
<1> QED BY <1>1, <1>2, <1>3

LEMMA TailFacts ==
  ASSUME NEW S, NEW q \in Seq(S), q # <<>>
  PROVE  /\ Tail(q) \in Seq(S) /\ Head(q) = q[1] /\ Head(q) \in S
         /\ Len(q) \in Nat \ {0}
         /\ Len(Tail(q)) = Len(q) - 1
         /\ \A i \in 1..(Len(q) - 1) : Tail(q)[i] = q[i + 1]
OBVIOUS

LEMMA AppendJoins ==
  ASSUME Sane, NEW t \in Tenants, NEW x \in Spans,
         router' = [router EXCEPT ![t].queue = Append(router[t].queue, x)]
  PROVE  Joins(t, x, FALSE)
<1> DEFINE q == router[t].queue
<1>1. q \in Seq(Spans)
  BY DEF Sane, TypeInv, EntrySet
<1>2. Append(q, x) \in Seq(Spans) /\ Len(Append(q, x)) = Len(q) + 1 /\ Len(q) \in Nat
      /\ Append(q, x)[Len(q) + 1] = x /\ \A i \in 1..Len(q) : Append(q, x)[i] = q[i]
  BY <1>1
<1>3. router'[t].queue = Append(q, x) /\ \A u \in Tenants \ {t} : router'[u] = router[u]
  BY <1>2, QueueFacts
<1> HIDE DEF q
<1>4. \A u \in Tenants, i \in Nat, s \in Spans :
        Waits(u, i, s)' <=> \/ u # t /\ Waits(u, i, s)
                            \/ u = t /\ i = Len(q) + 1 /\ s = x
                            \/ u = t /\ i > 0 /\ Waits(t, i + 0, s)
  <2> TAKE u \in Tenants, i \in Nat, s \in Spans
  <2>1. CASE u # t
    BY <1>3, <2>1 DEF Waits
  <2>2. CASE u = t /\ i = Len(q) + 1
    <3>1. ~Waits(t, i, s)
      BY <1>2, <2>2 DEF Waits, q
    <3> QED BY <1>2, <1>3, <2>2, <3>1 DEF Waits
  <2>3. CASE u = t /\ i # Len(q) + 1
    BY <1>2, <1>3, <2>3 DEF Waits, q
  <2> QED BY <2>1, <2>2, <2>3
<1>5. \A s \in Spans : ~Waits(t, Len(q) + 1 + 0, s)
  BY <1>2 DEF Waits, q
<1>6. Len(q) + 1 \in Nat \ {0}
  BY <1>2
<1> QED BY <1>4, <1>5, <1>6 DEF Joins

LEMMA ShiftJoins ==
  ASSUME Sane, NEW t \in Tenants, NEW x \in Spans, router[t].queue # <<>>,
         router' = [router EXCEPT ![t].queue = Append(Tail(router[t].queue), x)]
  PROVE  Joins(t, x, TRUE)
<1> DEFINE q == router[t].queue
<1>1. q \in Seq(Spans) /\ q # <<>>
  BY DEF Sane, TypeInv, EntrySet
<1>2. /\ Tail(q) \in Seq(Spans) /\ Len(q) \in Nat \ {0} /\ Len(Tail(q)) = Len(q) - 1
      /\ \A i \in 1..(Len(q) - 1) : Tail(q)[i] = q[i + 1]
  BY <1>1, TailFacts
<1>3. Append(Tail(q), x) \in Seq(Spans) /\ Len(Append(Tail(q), x)) = Len(q)
      /\ Append(Tail(q), x)[Len(q)] = x
      /\ \A i \in 1..(Len(q) - 1) : Append(Tail(q), x)[i] = q[i + 1]
  BY <1>2
<1>4. router'[t].queue = Append(Tail(q), x) /\ \A u \in Tenants \ {t} : router'[u] = router[u]
  BY <1>3, QueueFacts
<1> HIDE DEF q
<1>5. \A u \in Tenants, i \in Nat, s \in Spans :
        Waits(u, i, s)' <=> \/ u # t /\ Waits(u, i, s)
                            \/ u = t /\ i = Len(q) /\ s = x
                            \/ u = t /\ i > 0 /\ Waits(t, i + 1, s)
  <2> TAKE u \in Tenants, i \in Nat, s \in Spans
  <2>1. CASE u # t
    BY <1>4, <2>1 DEF Waits
  <2>2. CASE u = t /\ i = Len(q)
    <3>1. ~Waits(t, i + 1, s)
      BY <1>2, <2>2 DEF Waits, q
    <3> QED BY <1>2, <1>3, <1>4, <2>2, <3>1 DEF Waits
  <2>3. CASE u = t /\ i # Len(q)
    BY <1>2, <1>3, <1>4, <2>3 DEF Waits, q
  <2> QED BY <2>1, <2>2, <2>3
<1>6. \A s \in Spans : ~Waits(t, Len(q) + 1, s)
  BY <1>2 DEF Waits, q
<1>7. Len(q) \in Nat \ {0}
  BY <1>2
<1> QED BY <1>5, <1>6, <1>7 DEF Joins

LEMMA PutSane ==
  ASSUME Sane, NEW th \in Threads, Put(th), UNCHANGED ExportLeaves
  PROVE  /\ Sane'
         /\ \E t \in Tenants, x \in Spans :
              /\ Leaves(th, x)
              /\ \/ Joins(t, x, FALSE) /\ UNCHANGED lost
                 \/ \E y \in Spans : Waits(t, 1, y) /\ Joins(t, x, TRUE) /\ Lose({y}, "overflow")
                 \/ SameWaits /\ Lose({x}, "overflow")
<1> DEFINE t == TenantOf(th)
           q == router[t].queue
           x == Top(th).span
<1>1. At(th, "put") /\ "put" \in ExportPCs /\ Return(th) /\ UNCHANGED lock
  BY DEF Put, ExportPCs
<1>2. /\ x \in Spans /\ t \in Tenants /\ router[t] \in EntrySet
      /\ Len(stack[th]) \in 1..Len(stack[th]) /\ Top(th) = stack[th][Len(stack[th])]
      /\ Top(th).pc = "put"
  BY <1>1, TenantFacts, TopFacts DEF Sane
<1>3. router[t].is = "pipeline"
  BY <1>2 DEF Sane, Resolved, TenantOf
<1>4. Popped(th) /\ Shape' /\ Pending' /\ Leaves(th, x) /\ stack' \in [Threads -> Seq(FrameSet)]
  BY <1>1, ExportReturn
<1>5. \/ router' = [router EXCEPT ![t].queue = Append(q, x)] /\ UNCHANGED lost
      \/ /\ Len(q) >= Capacity /\ router' = [router EXCEPT ![t].queue = Append(Tail(q), x)]
         /\ Lose({Head(q)}, "overflow")
      \/ UNCHANGED router /\ Lose({x}, "overflow")
  BY <1>2, ExitAssumption DEF Put, EntrySet
<1>6. q \in Seq(Spans)
  BY <1>2 DEF EntrySet
<1> SUFFICES /\ router' \in [Tenants -> EntrySet] /\ DOMAIN lost' = Spans
             /\ \A u \in Tenants : router'[u].is = router[u].is
             /\ \A u \in Tenants \ {t} : router'[u] = router[u]
             /\ \/ Joins(t, x, FALSE) /\ UNCHANGED lost
                \/ \E y \in Spans : Waits(t, 1, y) /\ Joins(t, x, TRUE) /\ Lose({y}, "overflow")
                \/ SameWaits /\ Lose({x}, "overflow")
  <2>1. TypeInv'
    BY <1>1, <1>4 DEF Sane, TypeInv, ExportLeaves
  <2>2. Routed'
    BY <1>2, <1>3 DEF Sane, Routed
  <2>3. Resolved'
    BY <1>1, <1>4, ResolvedKept, ResolvedPopped
  <2> QED BY <1>2, <1>4, <2>1, <2>2, <2>3 DEF Sane
<1>7. CASE router' = [router EXCEPT ![t].queue = Append(q, x)] /\ UNCHANGED lost
  <2>1. Append(q, x) \in Seq(Spans)
    BY <1>2, <1>6
  <2>2. Joins(t, x, FALSE)
    BY <1>2, <1>7, AppendJoins
  <2>3. DOMAIN lost' = Spans
    BY <1>7 DEF Sane, TypeInv
  <2> HIDE DEF t, q, x
  <2> QED BY <1>2, <1>7, <2>1, <2>2, <2>3, QueueFacts
<1>8. CASE /\ Len(q) >= Capacity /\ router' = [router EXCEPT ![t].queue = Append(Tail(q), x)]
           /\ Lose({Head(q)}, "overflow")
  <2>1. q # <<>>
    BY <1>8, <1>6, ExitAssumption
  <2>2. Tail(q) \in Seq(Spans) /\ Head(q) = q[1] /\ Head(q) \in Spans /\ Len(q) \in Nat \ {0}
    BY <1>6, <2>1, TailFacts
  <2>3. Append(Tail(q), x) \in Seq(Spans)
    BY <1>2, <2>2
  <2>4. Joins(t, x, TRUE)
    BY <1>2, <1>8, <2>1, ShiftJoins
  <2>5. Waits(t, 1, Head(q))
    BY <2>2 DEF Waits
  <2>6. DOMAIN lost' = Spans
    BY <1>8 DEF Lose
  <2>7. \E y \in Spans : Waits(t, 1, y) /\ Joins(t, x, TRUE) /\ Lose({y}, "overflow")
    BY <1>8, <2>2, <2>4, <2>5
  <2> HIDE DEF t, q, x
  <2>8. router' = [router EXCEPT ![t].queue = Append(Tail(q), x)]
    BY <1>8
  <2> QED BY <1>2, <2>3, <2>6, <2>7, <2>8, QueueFacts
<1>9. CASE UNCHANGED router /\ Lose({x}, "overflow")
  BY <1>9 DEF Sane, TypeInv, Lose, SameWaits, Waits
<1> QED BY <1>5, <1>7, <1>8, <1>9

LEMMA ShipSane ==
  ASSUME Sane, NEW t \in Tenants, Ship(t)
  PROVE  /\ Sane' /\ SameHeld /\ SameFed
         /\ \E y \in Spans :
              /\ Waits(t, 1, y) /\ shipped' = [shipped EXCEPT ![y] = @ + 1]
              /\ \A u \in Tenants, i \in Nat, s \in Spans :
                   Waits(u, i, s)' <=> IF u = t THEN i > 0 /\ Waits(t, i + 1, s) ELSE Waits(u, i, s)
<1> DEFINE q == router[t].queue
<1>1. q \in Seq(Spans) /\ q # <<>> /\ router[t].is = "pipeline"
  BY DEF Ship, Live, Sane, TypeInv, EntrySet
<1>2. /\ Tail(q) \in Seq(Spans) /\ Len(q) \in Nat \ {0} /\ Len(Tail(q)) = Len(q) - 1
      /\ Head(q) = q[1] /\ Head(q) \in Spans
      /\ \A i \in 1..(Len(q) - 1) : Tail(q)[i] = q[i + 1]
  BY <1>1, TailFacts
<1>3. router' = [router EXCEPT ![t].queue = Tail(q)]
  BY DEF Ship
<1>4. /\ router' \in [Tenants -> EntrySet] /\ router'[t].queue = Tail(q)
      /\ \A u \in Tenants : router'[u].is = router[u].is
      /\ \A u \in Tenants \ {t} : router'[u] = router[u]
  BY <1>2, <1>3, QueueFacts
<1>5. shipped' = [shipped EXCEPT ![Head(q)] = @ + 1] /\ shipped' \in [Spans -> Nat]
  BY <1>2 DEF Ship, Sane, TypeInv
<1>6. UNCHANGED <<up, life, stack, lock, exitLock, done, signals,
                 spool, taken, lost, early, spoilt, again>>
  BY DEF Ship
<1>7. TypeInv'
  BY <1>4, <1>5, <1>6 DEF Sane, TypeInv
<1>8. Shape' /\ Pending'
  BY <1>6 DEF Sane, Shape, Pending
<1>9. Routed'
  BY <1>1, <1>4 DEF Sane, Routed
<1>10. Resolved'
  BY <1>4, <1>6, ResolvedKept, ResolvedStays DEF Sane, TypeInv
<1>11. SameHeld /\ SameFed
  BY <1>6 DEF SameHeld, SameFed, Holds, Fed
<1>12. Waits(t, 1, Head(q))
  BY <1>2 DEF Waits
<1>13. \A u \in Tenants, i \in Nat, s \in Spans :
         Waits(u, i, s)' <=> IF u = t THEN i > 0 /\ Waits(t, i + 1, s) ELSE Waits(u, i, s)
  <2> TAKE u \in Tenants, i \in Nat, s \in Spans
  <2>1. CASE u # t
    BY <1>4, <2>1 DEF Waits
  <2>2. CASE u = t
    <3>1. Waits(u, i, s)' <=> i \in 1..(Len(q) - 1) /\ q[i + 1] = s
      BY <1>2, <1>4, <2>2 DEF Waits
    <3>2. Waits(t, i + 1, s) <=> i + 1 \in 1..Len(q) /\ q[i + 1] = s
      BY DEF Waits
    <3> QED BY <1>2, <2>2, <3>1, <3>2
  <2> QED BY <2>1, <2>2
<1> QED BY <1>2, <1>5, <1>7, <1>8, <1>9, <1>10, <1>11, <1>12, <1>13 DEF Sane

-----------------------------------------------------------------------------
(* A span is handed over; a handler starts; the steps of the handlers        *)

LEMMA HandOverSane ==
  ASSUME Sane, NEW th \in Threads, NEW s \in Spans, HandOver(th, s)
  PROVE  /\ Sane' /\ SameFed /\ SameWaits
         /\ \A x \in Spans : ~Holds(th, 1, x)
         /\ \A u \in Threads, i \in Nat, x \in Spans :
              Holds(u, i, x)' <=> Holds(u, i, x) \/ (u = th /\ i = 1 /\ x = s)
<1> DEFINE f == ExportFrame(s)
<1>1. /\ up /\ stack[th] = <<>> /\ taken' = taken \cup {s}
      /\ stack' = [stack EXCEPT ![th] = <<f>>]
      /\ UNCHANGED <<up, life, router, lock, exitLock, done, signals,
                     spool, shipped, lost, early, spoilt, again>>
  BY DEF HandOver
<1>2. f \in FrameSet /\ Exporting(f) /\ f.pc = "resolve" /\ f.span = s /\ f.todo = {}
  BY DEF ExportFrame, Frame, FrameSet, Exporting, ExportPCs
<1> HIDE DEF f
<1>0. /\ stack' \in [Threads -> Seq(FrameSet)] /\ stack'[th] = <<f>>
      /\ \A u \in Threads \ {th} : stack'[u] = stack[u]
  BY <1>1, <1>2 DEF Sane, TypeInv
<1>3. /\ stack' \in [Threads -> Seq(FrameSet)] /\ Len(stack'[th]) = 1
      /\ stack'[th][1] = f /\ Len(stack[th]) = 0
      /\ \A u \in Threads \ {th} : stack'[u] = stack[u]
      /\ \A i \in 1..Len(stack'[th]) : i = 1 /\ stack'[th][i] = f
      /\ \A i \in Nat : i \in 1..Len(stack'[th]) <=> i = 1
      /\ \A i \in Nat : i \notin 1..Len(stack[th])
  BY <1>0, <1>1
<1>4. TypeInv'
  BY <1>1, <1>3 DEF Sane, TypeInv
<1>5. Shape'
  <2>1. \A u \in Workers :
          Len(stack'[u]) <= 1 /\ \A i \in 1..Len(stack'[u]) : Exporting(stack'[u][i])
    <3> TAKE u \in Workers
    <3>1. CASE u = th
      <4>1. Len(stack'[u]) = 1
        BY <1>3, <3>1
      <4>2. ASSUME NEW i \in 1..Len(stack'[u]) PROVE stack'[u][i] = f
        BY <1>3, <3>1
      <4> QED BY <1>2, <4>1, <4>2
    <3>2. CASE u # th
      BY <1>3, <3>2 DEF Sane, Shape, Threads
    <3> QED BY <3>1, <3>2
  <2>2. CASE th = Main
    <3>1. \A i \in 1..Len(stack'[Main]) : i = 1 /\ Exporting(stack'[Main][i])
      BY <1>2, <1>3, <2>2
    <3>2. \A i, j \in 1..Len(stack'[Main]) : ~(i < j)
      BY <3>1
    <3> QED BY <1>1, <2>1, <3>1, <3>2 DEF Shape
  <2>3. CASE th # Main
    BY <1>1, <1>3, <2>1, <2>3 DEF Sane, Shape, Threads
  <2> QED BY <2>2, <2>3
<1>6. Pending'
  <2>1. CASE th = Main
    BY <1>1, <1>2, <1>3, <2>1 DEF Sane, Pending, ReplayPCs
  <2>2. CASE th # Main
    BY <1>1, <1>3, <2>2 DEF Sane, Pending, Threads
  <2> QED BY <2>1, <2>2
<1>7. Resolved'
  BY <1>1, <1>2, <1>3 DEF Sane, Resolved
<1>8. Routed' /\ SameWaits
  BY <1>1 DEF Sane, Routed, SameWaits, Waits
<1>9. SameFed
  BY <1>2, <1>3 DEF SameFed, Fed, Threads
<1>10. \A x \in Spans : ~Holds(th, 1, x)
  BY <1>3 DEF Holds
<1>11. \A u \in Threads, i \in Nat, x \in Spans :
         Holds(u, i, x)' <=> Holds(u, i, x) \/ (u = th /\ i = 1 /\ x = s)
  <2> TAKE u \in Threads, i \in Nat, x \in Spans
  <2>1. CASE u = th
    BY <1>2, <1>3, <2>1 DEF Holds
  <2>2. CASE u # th
    BY <1>3, <2>2 DEF Holds
  <2> QED BY <2>1, <2>2
<1> QED BY <1>4, <1>5, <1>6, <1>7, <1>8, <1>9, <1>10, <1>11 DEF Sane

LEMMA HandlerStarts ==
  ASSUME Sane, up, NEW sig \in {"TERM", "INT", "atexit"},
         stack' = [stack EXCEPT ![Main] = Append(@, ExitFrame(sig))],
         UNCHANGED <<up, life, router, lock, exitLock, done,
                     spool, taken, shipped, lost, early, spoilt, again>>
  PROVE  Sane' /\ Quiet /\ Pushed(Main, ExitFrame(sig))
<1> DEFINE f == ExitFrame(sig)
<1>1. f \in FrameSet /\ Exiting(f) /\ f.pc = "enter" /\ f.span = NoSpan /\ f.todo = {} /\ Main \in Threads
  BY DEF ExitFrame, Frame, FrameSet, Exiting, ExitPCs, Threads
<1> HIDE DEF f
<1>2. Pushed(Main, f)
  BY <1>1, PushFacts DEF Sane, f
<1>3. Shape'
  BY <1>1, <1>2, ShapePushed
<1>4. \A i \in 1..Len(stack'[Main]) :
        stack'[Main][i] = f \/ (i \in 1..Len(stack[Main]) /\ stack'[Main][i] = stack[Main][i])
  BY <1>2 DEF Pushed
<1>5. Pending'
  BY <1>1, <1>4, PendingStays DEF ReplayPCs
<1>6. TypeInv'
  BY <1>2 DEF Sane, TypeInv, Pushed
<1>7. \A u \in Threads : \A i \in 1..Len(stack[u]) : ResolvedNext(u, stack[u][i])
  BY ResolvedKept
<1>8. \A u \in Threads : \A i \in 1..Len(stack'[u]) : ResolvedNext(u, stack'[u][i])
  BY <1>1, <1>2, <1>4, <1>7 DEF ResolvedNext, Pushed
<1>9. Resolved'
  BY <1>2, <1>8, ResolvedStays DEF Pushed
<1>10. Routed' /\ SameWaits
  BY DEF Sane, Routed, SameWaits, Waits
<1>11. SameFed
  BY <1>1, <1>2, FedPushed
<1>12. SameHeld
  <2>1. \A i \in Nat, s \in Spans : i = Len(stack[Main]) + 1 => ~Holds(Main, i, s)
    BY <1>2 DEF Holds, Pushed
  <2>2. f.span \notin Spans /\ f.todo = {}
    BY <1>1, ExitAssumption
  <2>3. \A u \in Threads, i \in Nat, s \in Spans : Holds(u, i, s)' <=> Holds(u, i, s)
    <3>1. Main \in Threads
      BY ExitAssumption DEF Threads
    <3> QED BY <1>2, <2>1, <2>2, <3>1, HoldsPushed
  <2> QED BY <2>3 DEF SameHeld
<1> QED BY <1>2, <1>3, <1>5, <1>6, <1>9, <1>10, <1>11, <1>12 DEF Sane, Quiet, f

LEMMA SignalSane ==
  ASSUME Sane, NEW sig \in {"TERM", "INT"}, Signal(sig)
  PROVE  Sane' /\ Quiet /\ Pushed(Main, ExitFrame(sig))
BY HandlerStarts DEF Signal

LEMMA AtExitSane ==
  ASSUME Sane, AtExit
  PROVE  Sane' /\ Quiet /\ Pushed(Main, ExitFrame("atexit"))
<1>1. stack' = [stack EXCEPT ![Main] = Append(@, ExitFrame("atexit"))]
  BY DEF AtExit
<1> QED BY <1>1, HandlerStarts DEF AtExit

ExitLeaves == <<up, life, lock, signals, taken, shipped, again>>

LEMMA ExitBecomes ==
  ASSUME Sane, NEW from \in ExitPCs, At(Main, from), NEW f \in FrameSet, Exiting(f),
         Becomes(Main, f), UNCHANGED ExitLeaves, spool \subseteq spool',
         \A g \in spool' \ spool : g.id = life,
         \A t \in Tenants : router'[t].is = router[t].is
  PROVE  /\ Replaced(Main, f) /\ Shape' /\ Pending' /\ Resolved' /\ SameFed
         /\ stack' \in [Threads -> Seq(FrameSet)]
         /\ Exiting(Top(Main)) /\ Top(Main) \in FrameSet /\ Top(Main).pc = from
         /\ \A s \in Spans : Holds(Main, Len(stack[Main]), s) <=> s \in Top(Main).todo
         /\ f.todo = Top(Main).todo => SameHeld
<1>1. /\ up /\ Top(Main) \in FrameSet /\ Top(Main).pc = from /\ stack[Main] # <<>>
      /\ Len(stack[Main]) \in 1..Len(stack[Main]) /\ Top(Main) = stack[Main][Len(stack[Main])]
      /\ Main \in Threads
  BY TopFacts DEF Sane, At, Threads
<1>2. Exiting(Top(Main))
  BY ExitTop
<1>3. Replaced(Main, f)
  BY <1>1, BecomesFacts DEF Sane
<1>4. Shape'
  BY <1>1, <1>2, <1>3, ShapeReplaced DEF ExitLeaves
<1>5. \A i \in 1..Len(stack'[Main]) :
         i \in 1..Len(stack[Main]) /\ (stack'[Main][i] = stack[Main][i] \/ stack'[Main][i] = f)
  BY <1>3 DEF Replaced
<1>6. f.pc \notin ReplayPCs /\ f.pc \notin {"factory", "dispatch", "put"}
      /\ Top(Main).pc \notin ReplayPCs
  BY <1>2 DEF Exiting, ExitPCs, ReplayPCs
<1>7. Pending'
  BY <1>5, <1>6, PendingStays DEF ExitLeaves
<1>8. \A u \in Threads : \A i \in 1..Len(stack[u]) : ResolvedNext(u, stack[u][i])
  BY ResolvedKept DEF ExitLeaves
<1>9. Resolved'
  BY <1>1, <1>3, <1>6, <1>8, ResolvedReplaced DEF ResolvedNext
<1>10. SameFed
  BY <1>1, <1>3, <1>6, FedReplaced DEF ReplayPCs
<1>11. \A s \in Spans : Holds(Main, Len(stack[Main]), s) <=> s \in Top(Main).todo
  BY <1>1, <1>2, ExitAssumption DEF Holds, Exiting
<1>12. f.todo = Top(Main).todo => SameHeld
  BY <1>1, <1>2, <1>3, HoldsGoesOn DEF GoesOn, Exiting
<1> QED BY <1>1, <1>2, <1>3, <1>4, <1>7, <1>9, <1>10, <1>11, <1>12 DEF Replaced

(* The steps of run_shutdown that move no span.                              *)
LEMMA ExitMoves ==
  ASSUME Sane, NEW from \in ExitPCs \ {"persist"}, At(Main, from),
         NEW pc \in ExitPCs \ {"persist"}, NEW rest \in SUBSET (Tenants \cup SpoolFile),
         Becomes(Main, [Top(Main) EXCEPT !.pc = pc, !.rest = rest]),
         UNCHANGED <<ExitLeaves, spool, lost>>,
         router' \in [Tenants -> EntrySet],
         \A t \in Tenants : router'[t].is = router[t].is /\ router'[t].queue = router[t].queue,
         exitLock' \in BOOLEAN, done' \in BOOLEAN, early' \in SUBSET Spans
  PROVE  /\ Sane' /\ Quiet
         /\ \E f \in FrameSet : Replaced(Main, f) /\ f.pc = pc /\ f.todo = {} /\ f.sig = Top(Main).sig
<1> DEFINE f == [Top(Main) EXCEPT !.pc = pc, !.rest = rest]
<1>1. Top(Main) \in FrameSet /\ Top(Main).pc = from /\ Exiting(Top(Main))
  BY TopFacts, ExitTop DEF Sane, Threads
<1>2. /\ f \in FrameSet /\ f.pc = pc /\ f.span = Top(Main).span /\ f.todo = Top(Main).todo
      /\ f.sig = Top(Main).sig /\ f.todo = {} /\ Exiting(f)
  BY <1>1 DEF FrameSet, Exiting
<1> HIDE DEF f
<1>3. Becomes(Main, f)
  BY DEF f
<1>4. Replaced(Main, f) /\ Shape' /\ Pending' /\ Resolved' /\ SameFed /\ SameHeld
      /\ stack' \in [Threads -> Seq(FrameSet)]
  BY <1>2, <1>3, ExitBecomes DEF ExitLeaves
<1>5. TypeInv'
  BY <1>4 DEF Sane, TypeInv, ExitLeaves
<1>6. Routed' /\ SameWaits
  BY DEF Sane, Routed, SameWaits, Waits
<1> QED BY <1>2, <1>4, <1>5, <1>6 DEF Sane, Quiet

\* The running frame of the main thread is now at pc, and holds no span.
MainMoves(pc) ==
  \E f \in FrameSet : Replaced(Main, f) /\ f.pc = pc /\ f.todo = {} /\ f.sig = Top(Main).sig

LEMMA GotoBecomes ==
  ASSUME Sane, NEW from, At(Main, from), NEW pc, Goto(Main, pc)
  PROVE  /\ Top(Main).rest \in SUBSET (Tenants \cup SpoolFile)
         /\ Becomes(Main, [Top(Main) EXCEPT !.pc = pc, !.rest = Top(Main).rest])
<1>1. Top(Main) \in FrameSet
  BY TopFacts DEF Sane, Threads
<1>2. [Top(Main) EXCEPT !.pc = pc, !.rest = Top(Main).rest] = [Top(Main) EXCEPT !.pc = pc]
  BY <1>1 DEF FrameSet
<1> QED BY <1>1, <1>2 DEF Goto, FrameSet

LEMMA EnterShutdownSane ==
  ASSUME Sane, EnterShutdown, UNCHANGED ExitLeaves
  PROVE  Sane' /\ Quiet /\ UNCHANGED <<spool, lost>> /\ MainMoves("check")
<1>1. At(Main, "enter") /\ Goto(Main, "check") /\ exitLock' = TRUE
      /\ UNCHANGED <<router, done, spool, lost, early, spoilt>>
  BY DEF EnterShutdown
<1>2. "enter" \in ExitPCs \ {"persist"} /\ "check" \in ExitPCs \ {"persist"}
  BY DEF ExitPCs
<1>3. /\ Top(Main).rest \in SUBSET (Tenants \cup SpoolFile)
      /\ Becomes(Main, [Top(Main) EXCEPT !.pc = "check", !.rest = Top(Main).rest])
  BY <1>1, GotoBecomes
<1> QED BY <1>1, <1>2, <1>3, ExitMoves DEF MainMoves, Sane, TypeInv

LEMMA QueuedFacts ==
  ASSUME Sane
  PROVE  /\ Queued(router) \in SUBSET Spans
         /\ \A s \in Spans : s \in Queued(router) <=> \E t \in Tenants, i \in Nat : Waits(t, i, s)
<1>1. \A t \in Tenants : router[t].queue \in Seq(Spans)
  BY DEF Sane, TypeInv, EntrySet
<1>2. \A t \in Tenants : ToSet(router[t].queue) =
        {router[t].queue[i] : i \in 1..Len(router[t].queue)}
  BY <1>1 DEF ToSet
<1>3. \A t \in Tenants, i \in Nat, s \in Spans : Waits(t, i, s) => t \in Live(router)
  BY DEF Sane, Routed, Live, Waits, TypeInv, EntrySet
<1>4. Queued(router) \in SUBSET Spans
  <2>1. ASSUME NEW t \in Live(router) PROVE ToSet(router[t].queue) \subseteq Spans
    <3>1. t \in Tenants
      BY DEF Live
    <3>2. \A i \in 1..Len(router[t].queue) : router[t].queue[i] \in Spans
      BY <1>1, <3>1
    <3> QED BY <1>2, <3>1, <3>2
  <2> QED BY <2>1 DEF Queued
<1>5. ASSUME NEW s \in Spans PROVE s \in Queued(router) <=> \E t \in Tenants, i \in Nat : Waits(t, i, s)
  <2>1. ASSUME s \in Queued(router) PROVE \E t \in Tenants, i \in Nat : Waits(t, i, s)
    <3>1. PICK t \in Live(router) : s \in ToSet(router[t].queue)
      BY <2>1 DEF Queued
    <3>2. t \in Tenants
      BY DEF Live
    <3>3. PICK i \in 1..Len(router[t].queue) : router[t].queue[i] = s
      BY <1>2, <3>1, <3>2
    <3> QED BY <1>1, <3>2, <3>3 DEF Waits
  <2>2. ASSUME NEW t \in Tenants, NEW i \in Nat, Waits(t, i, s) PROVE s \in Queued(router)
    BY <1>2, <1>3, <2>2 DEF Queued, Waits
  <2> QED BY <2>1, <2>2
<1> QED BY <1>4, <1>5

LEMMA CheckDoneSane ==
  ASSUME Sane, CheckDone, UNCHANGED ExitLeaves
  PROVE  /\ Sane' /\ Quiet /\ UNCHANGED <<spool, lost>>
         /\ MainMoves(IF done THEN "previous" ELSE "snapshot")
<1> DEFINE pc == IF done THEN "previous" ELSE "snapshot"
<1>1. /\ At(Main, "check") /\ Goto(Main, pc) /\ exitLock' = FALSE /\ done' = TRUE
      /\ early' = (IF done THEN early ELSE Queued(router))
      /\ UNCHANGED <<router, spool, lost, spoilt>>
  BY DEF CheckDone
<1>2. "check" \in ExitPCs \ {"persist"} /\ pc \in ExitPCs \ {"persist"}
  BY DEF ExitPCs
<1> HIDE DEF pc
<1>3. /\ Top(Main).rest \in SUBSET (Tenants \cup SpoolFile)
      /\ Becomes(Main, [Top(Main) EXCEPT !.pc = pc, !.rest = Top(Main).rest])
  BY <1>1, GotoBecomes
<1>4. early' \in SUBSET Spans /\ exitLock' \in BOOLEAN /\ done' \in BOOLEAN
      /\ router' \in [Tenants -> EntrySet]
  BY <1>1, QueuedFacts DEF Sane, TypeInv
<1> QED BY <1>1, <1>2, <1>3, <1>4, ExitMoves DEF MainMoves, pc

LEMMA SnapshotSane ==
  ASSUME Sane, Snapshot, UNCHANGED ExitLeaves
  PROVE  Sane' /\ Quiet /\ UNCHANGED <<spool, lost>> /\ MainMoves("close")
<1>1. /\ At(Main, "snapshot")
      /\ Becomes(Main, [Top(Main) EXCEPT !.pc = "close", !.rest = Live(router)])
      /\ UNCHANGED <<router, exitLock, done, spool, lost, early, spoilt>>
  BY DEF Snapshot
<1>2. "snapshot" \in ExitPCs \ {"persist"} /\ "close" \in ExitPCs \ {"persist"}
      /\ Live(router) \in SUBSET (Tenants \cup SpoolFile)
  BY DEF ExitPCs, Live
<1> QED BY <1>1, <1>2, ExitMoves DEF MainMoves, Sane, TypeInv

LEMMA ClosePipelineSane ==
  ASSUME Sane, ClosePipeline, UNCHANGED ExitLeaves
  PROVE  /\ Sane' /\ Quiet /\ UNCHANGED <<spool, lost>>
         /\ MainMoves("close") \/ MainMoves("drain")
<1>1. At(Main, "close") /\ UNCHANGED <<exitLock, done, spool, lost, early, spoilt>>
  BY DEF ClosePipeline
<1>2. "close" \in ExitPCs \ {"persist"} /\ "drain" \in ExitPCs \ {"persist"}
  BY DEF ExitPCs
<1>3. CASE Top(Main).rest = {}
  <2>1. Goto(Main, "drain") /\ UNCHANGED router
    BY <1>3 DEF ClosePipeline
  <2>2. /\ Top(Main).rest \in SUBSET (Tenants \cup SpoolFile)
        /\ Becomes(Main, [Top(Main) EXCEPT !.pc = "drain", !.rest = Top(Main).rest])
    BY <1>1, <2>1, GotoBecomes
  <2> QED BY <1>1, <1>2, <2>1, <2>2, ExitMoves DEF MainMoves, Sane, TypeInv
<1>4. CASE Top(Main).rest # {}
  <2>1. PICK t \in Top(Main).rest : /\ router' = [router EXCEPT ![t].closed = TRUE]
                                    /\ Becomes(Main, [Top(Main) EXCEPT !.rest = @ \ {t}])
    BY <1>4 DEF ClosePipeline
  <2>2. Top(Main) \in FrameSet /\ Top(Main).pc = "close"
    BY <1>1, TopFacts DEF Sane, Threads
  <2>3. /\ [Top(Main) EXCEPT !.rest = @ \ {t}]
             = [Top(Main) EXCEPT !.pc = "close", !.rest = Top(Main).rest \ {t}]
        /\ Top(Main).rest \ {t} \in SUBSET (Tenants \cup SpoolFile)
    BY <2>2 DEF FrameSet
  <2>4. /\ router' \in [Tenants -> EntrySet]
        /\ \A u \in Tenants : router'[u].is = router[u].is /\ router'[u].queue = router[u].queue
    <3>1. router \in [Tenants -> EntrySet]
      BY DEF Sane, TypeInv
    <3>2. \A u \in Tenants : router'[u] = IF u = t THEN [router[u] EXCEPT !.closed = TRUE] ELSE router[u]
      BY <2>1, <3>1
    <3>3. \A e \in EntrySet : /\ [e EXCEPT !.closed = TRUE] \in EntrySet
                              /\ [e EXCEPT !.closed = TRUE].is = e.is
                              /\ [e EXCEPT !.closed = TRUE].queue = e.queue
      BY DEF EntrySet
    <3>4. \A u \in Tenants : router[u] \in EntrySet
      BY <3>1
    <3>5. \A u \in Tenants : /\ router'[u] \in EntrySet
                             /\ router'[u].is = router[u].is /\ router'[u].queue = router[u].queue
      BY <3>2, <3>3, <3>4
    <3>6. DOMAIN router' = Tenants /\ router' = [u \in DOMAIN router' |-> router'[u]]
      BY <2>1, <3>1
    <3> QED BY <3>5, <3>6
  <2> QED BY <1>1, <1>2, <2>1, <2>3, <2>4, ExitMoves DEF MainMoves, Sane, TypeInv
<1> QED BY <1>3, <1>4

(* What is drained leaves every queue for the frame of the handler.          *)
LEMMA DrainUnshippedSane ==
  ASSUME Sane, DrainUnshipped, UNCHANGED ExitLeaves
  PROVE  /\ Sane' /\ UNCHANGED <<spool, lost>> /\ SameFed
         /\ \/ /\ \A t \in Tenants, i \in Nat, s \in Spans : ~Waits(t, i, s)'
               /\ \E f \in FrameSet :
                    /\ Replaced(Main, f) /\ f.pc = "persist" /\ f.span = NoSpan
                    /\ f.sig = Top(Main).sig
                    /\ f.todo = Queued(router)
               /\ UNCHANGED spoilt
               /\ \A s \in Spans : ~Holds(Main, Len(stack[Main]), s)
            \/ /\ Quiet /\ MainMoves("previous")
               /\ spoilt \subseteq spoilt'
               /\ Queued(router) # {} => spoilt' # {}
<1>1. At(Main, "drain") /\ UNCHANGED <<exitLock, done, spool, lost, early>>
  BY DEF DrainUnshipped
<1>2. "drain" \in ExitPCs \ {"persist"} /\ "previous" \in ExitPCs \ {"persist"}
      /\ "persist" \in ExitPCs
  BY DEF ExitPCs
<1>3. /\ Top(Main) \in FrameSet /\ Top(Main).pc = "drain" /\ Exiting(Top(Main))
  BY <1>1, <1>2, TopFacts, ExitTop DEF Sane, Threads
<1>4. \/ /\ router' = [t \in Tenants |-> IF t \in Live(router)
                                          THEN [router[t] EXCEPT !.queue = <<>>] ELSE router[t]]
         /\ Becomes(Main, [Top(Main) EXCEPT !.pc = "persist", !.todo = Queued(router)])
         /\ UNCHANGED spoilt
      \/ /\ UNCHANGED router
         /\ Goto(Main, "previous")
         /\ spoilt' = IF Queued(router) = {} THEN spoilt
                      ELSE spoilt \cup {IF Drains THEN "drain raised" ELSE "no drain"}
  BY DEF DrainUnshipped
<1>5. CASE /\ router' = [t \in Tenants |-> IF t \in Live(router)
                                          THEN [router[t] EXCEPT !.queue = <<>>] ELSE router[t]]
           /\ Becomes(Main, [Top(Main) EXCEPT !.pc = "persist", !.todo = Queued(router)])
           /\ UNCHANGED spoilt
  <2> DEFINE f == [Top(Main) EXCEPT !.pc = "persist", !.todo = Queued(router)]
  <2>1. /\ f \in FrameSet /\ Exiting(f) /\ f.pc = "persist" /\ f.span = NoSpan
        /\ f.todo = Queued(router) /\ f.sig = Top(Main).sig
    BY <1>2, <1>3, QueuedFacts DEF FrameSet, Exiting
  <2>2. \A e \in EntrySet : /\ [e EXCEPT !.queue = <<>>] \in EntrySet
                            /\ [e EXCEPT !.queue = <<>>].is = e.is
                            /\ [e EXCEPT !.queue = <<>>].queue = <<>>
    <3>1. <<>> \in Seq(Spans)
      OBVIOUS
    <3>2. \A e \in EntrySet, q \in Seq(Spans) :
            /\ [e EXCEPT !.queue = q] \in EntrySet
            /\ [e EXCEPT !.queue = q].is = e.is /\ [e EXCEPT !.queue = q].queue = q
      BY DEF EntrySet
    <3> QED BY <3>1, <3>2
  <2>3. \A t \in Tenants : /\ router[t] \in EntrySet
                           /\ router[t].queue # <<>> => t \in Live(router)
    BY DEF Sane, TypeInv, Routed, Live
  <2>4. \A t \in Tenants : /\ router'[t] \in EntrySet /\ router'[t].queue = <<>>
                           /\ router'[t].is = router[t].is
    BY <1>5, <2>2, <2>3
  <2>5. router' \in [Tenants -> EntrySet]
    BY <1>5, <2>4
  <2> HIDE DEF f
  <2>6. Becomes(Main, f)
    BY <1>5 DEF f
  <2>7. /\ Replaced(Main, f) /\ Shape' /\ Pending' /\ Resolved' /\ SameFed
        /\ stack' \in [Threads -> Seq(FrameSet)]
        /\ \A s \in Spans : Holds(Main, Len(stack[Main]), s) <=> s \in Top(Main).todo
    BY <1>1, <1>2, <2>1, <2>4, <2>6, ExitBecomes DEF ExitLeaves
  <2>8. TypeInv'
    BY <1>1, <2>5, <2>7 DEF Sane, TypeInv, ExitLeaves
  <2>9. Routed'
    BY <2>4 DEF Routed
  <2>10. \A t \in Tenants, i \in Nat, s \in Spans : ~Waits(t, i, s)'
    BY <2>4 DEF Waits
  <2>11. \A s \in Spans : ~Holds(Main, Len(stack[Main]), s)
    BY <1>3, <2>7 DEF Exiting
  <2> QED BY <1>1, <1>5, <2>1, <2>7, <2>8, <2>9, <2>10, <2>11 DEF Sane
<1>6. CASE /\ UNCHANGED router
           /\ Goto(Main, "previous")
           /\ spoilt' = IF Queued(router) = {} THEN spoilt
                        ELSE spoilt \cup {IF Drains THEN "drain raised" ELSE "no drain"}
  <2>1. /\ Top(Main).rest \in SUBSET (Tenants \cup SpoolFile)
        /\ Becomes(Main, [Top(Main) EXCEPT !.pc = "previous", !.rest = Top(Main).rest])
    BY <1>1, <1>6, GotoBecomes
  <2>2. Sane' /\ Quiet /\ MainMoves("previous")
    BY <1>1, <1>2, <1>6, <2>1, ExitMoves DEF MainMoves, Sane, TypeInv
  <2> QED BY <1>1, <1>6, <2>2 DEF Quiet
<1> QED BY <1>4, <1>5, <1>6

LEMMA PersistToSpoolSane ==
  ASSUME Sane, PersistToSpool, UNCHANGED ExitLeaves
  PROVE  /\ Sane' /\ SameFed /\ SameWaits /\ MainMoves("previous")
         /\ \A s \in Spans : Holds(Main, Len(stack[Main]), s) <=> s \in Top(Main).todo
         /\ \E written \in SUBSET Top(Main).todo, torn \in BOOLEAN :
              /\ spool' = spool \cup {[id |-> life, spans |-> written, torn |-> torn]}
              /\ [id |-> life, spans |-> written, torn |-> torn] \in SpoolFile
              /\ Lose(IF torn THEN Top(Main).todo ELSE Top(Main).todo \ written, "write error")
<1> DEFINE f == [Top(Main) EXCEPT !.pc = "previous", !.todo = {}]
<1>1. At(Main, "persist") /\ Becomes(Main, f)
      /\ UNCHANGED <<router, exitLock, done, early, spoilt>>
  BY DEF PersistToSpool
<1>2. "persist" \in ExitPCs /\ "previous" \in ExitPCs
  BY DEF ExitPCs
<1>3. /\ Top(Main) \in FrameSet /\ Top(Main).pc = "persist" /\ Exiting(Top(Main))
  BY <1>1, <1>2, TopFacts, ExitTop DEF Sane, Threads
<1>4. PICK written \in SUBSET Top(Main).todo, torn \in BOOLEAN :
         /\ spool' = spool \cup {[id |-> life, spans |-> written, torn |-> torn]}
         /\ Lose(IF torn THEN Top(Main).todo ELSE Top(Main).todo \ written, "write error")
  BY DEF PersistToSpool
<1> DEFINE g == [id |-> life, spans |-> written, torn |-> torn]
<1>5. g \in SpoolFile /\ g.id = life
  BY <1>3 DEF SpoolFile, FrameSet, Sane, TypeInv
<1>6. /\ f \in FrameSet /\ Exiting(f) /\ f.pc = "previous" /\ f.todo = {} /\ f.sig = Top(Main).sig
  BY <1>2, <1>3 DEF FrameSet, Exiting
<1> HIDE DEF f
<1>7. spool \subseteq spool' /\ \A h \in spool' \ spool : h.id = life
  BY <1>4, <1>5
<1>8. \A t \in Tenants : router'[t].is = router[t].is
  BY <1>1
<1>9. /\ Replaced(Main, f) /\ Shape' /\ Pending' /\ Resolved' /\ SameFed
      /\ stack' \in [Threads -> Seq(FrameSet)]
      /\ \A s \in Spans : Holds(Main, Len(stack[Main]), s) <=> s \in Top(Main).todo
  BY <1>1, <1>2, <1>6, <1>7, <1>8, ExitBecomes
<1>10. spool' \in SUBSET SpoolFile /\ DOMAIN lost' = Spans
  BY <1>4, <1>5 DEF Sane, TypeInv, Lose
<1>11. TypeInv'
  BY <1>1, <1>9, <1>10 DEF Sane, TypeInv, ExitLeaves
<1>12. Routed' /\ SameWaits
  BY <1>1 DEF Sane, Routed, SameWaits, Waits
<1>13. MainMoves("previous")
  BY <1>6, <1>9 DEF MainMoves
<1> QED BY <1>4, <1>5, <1>9, <1>11, <1>12, <1>13 DEF Sane

-----------------------------------------------------------------------------
(* The oldest file, and what the model's sets of spans are in terms of places *)

Less == {p \in Nat \X Nat : p[1] < p[2]}

(* A set of natural numbers that is not empty has a least element.           *)
LEMMA LeastId ==
  ASSUME NEW T \in SUBSET Nat, T # {}
  PROVE  \E m \in T : \A n \in T : m <= n
<1>1. Less = OpToRel(<, Nat)
  BY DEF Less, OpToRel
<1>2. IsWellFoundedOn(Less, Nat)
  BY <1>1, NatLessThanWellFounded
<1>3. PICK m \in T : \A n \in T : <<n, m>> \notin Less
  BY <1>2, WFMin
<1>4. ASSUME NEW n \in T PROVE m <= n
  <2>1. <<n, m>> \notin Less /\ n \in Nat /\ m \in Nat
    BY <1>3
  <2>2. ~(n < m)
    BY <2>1 DEF Less
  <2> QED BY <2>1, <2>2
<1> QED BY <1>4

LEMMA OldestFacts ==
  ASSUME NEW F \in SUBSET SpoolFile, F # {}
  PROVE  Oldest(F) \in F
<1> DEFINE T == {f.id : f \in F}
<1>1. T \in SUBSET Nat /\ T # {}
  BY DEF SpoolFile
<1>2. PICK m \in T : \A n \in T : m <= n
  BY <1>1, LeastId
<1>3. \E f \in F : \A g \in F : f.id <= g.id
  BY <1>2
<1> QED BY <1>3 DEF Oldest

LEMMA FedFacts ==
  ASSUME Sane, NEW f, Fed(f)
  PROVE  f \in spool /\ f \in SpoolFile /\ f.id < life /\ ~f.torn /\ f.spans \subseteq BeingFed
<1>1. 1 \in 1..Len(stack[Main]) /\ stack[Main][1].pc \in {"feed", "unlink"}
      /\ f = Oldest(stack[Main][1].rest)
  BY DEF Fed, Sane, TypeInv, Threads
<1>2. Replaying(stack[Main][1])
  BY <1>1 DEF Sane, Shape, Exiting, Exporting, ExitPCs, ExportPCs
<1>3. stack[Main][1].rest \subseteq SpoolFile /\ stack[Main][1].rest # {} /\ ~f.torn
  BY <1>1, <1>2 DEF Replaying
<1>4. f \in stack[Main][1].rest
  BY <1>1, <1>3, OldestFacts
<1>5. f \in spool /\ f.id < life
  BY <1>1, <1>4 DEF Sane, Pending, ReplayPCs
<1>6. f.spans \subseteq BeingFed
  <2>1. 1 \in {j \in DOMAIN stack[Main] : stack[Main][j].pc \in {"feed", "unlink"}}
    BY <1>1 DEF Sane, TypeInv, Threads
  <2> QED BY <1>1, <2>1 DEF BeingFed
<1> QED BY <1>3, <1>4, <1>5, <1>6

LEMMA BeingFedFacts ==
  ASSUME Sane
  PROVE  BeingFed \subseteq Spans
<1>1. ASSUME NEW j \in DOMAIN stack[Main], stack[Main][j].pc \in {"feed", "unlink"}
      PROVE  Oldest(stack[Main][j].rest).spans \subseteq Spans
  <2>1. j \in 1..Len(stack[Main])
    BY DEF Sane, TypeInv, Threads
  <2>2. Replaying(stack[Main][j])
    BY <1>1, <2>1 DEF Sane, Shape, Exiting, Exporting, ExitPCs, ExportPCs
  <2>3. Oldest(stack[Main][j].rest) \in SpoolFile
    BY <1>1, <2>2, OldestFacts DEF Replaying
  <2> QED BY <2>3 DEF SpoolFile
<1> QED BY <1>1 DEF BeingFed

LEMMA HeldByFacts ==
  ASSUME Sane, NEW th \in Threads
  PROVE  \A s \in Spans : s \in HeldBy(th) <=> \E i \in Nat : Holds(th, i, s)
<1>1. DOMAIN stack[th] = 1..Len(stack[th]) /\ Len(stack[th]) \in Nat
  BY DEF Sane, TypeInv
<1> TAKE s \in Spans
<1>2. s \in HeldBy(th) <=> \E i \in DOMAIN stack[th] : s \in {stack[th][i].span} \cup stack[th][i].todo
  <2> DEFINE of(i) == {stack[th][i].span} \cup stack[th][i].todo
             all == {of(i) : i \in DOMAIN stack[th]}
  <2>1. HeldBy(th) = (UNION all) \cap Spans
    BY DEF HeldBy
  <2> HIDE DEF of
  <2>2. s \in HeldBy(th) <=> \E i \in DOMAIN stack[th] : s \in of(i)
    BY <2>1
  <2> QED BY <2>2 DEF of
<1>3. \A i \in 1..Len(stack[th]) : i \in Nat
  BY <1>1
<1> QED BY <1>1, <1>2, <1>3 DEF Holds

LEMMA InMemoryFacts ==
  ASSUME Sane
  PROVE  \A s \in Spans :
           s \in InMemory <=> \/ \E t \in Tenants, i \in Nat : Waits(t, i, s)
                              \/ \E th \in Threads, i \in Nat : Holds(th, i, s)
<1> TAKE s \in Spans
<1>1. s \in InMemory <=> s \in Queued(router) \/ \E th \in Threads : s \in HeldBy(th)
  BY DEF InMemory
<1> QED BY <1>1, QueuedFacts, HeldByFacts

-----------------------------------------------------------------------------
(* The frames of the main thread, or all of them, go                         *)

LEMMA OneFrame ==
  ASSUME Sane, NEW g \in FrameSet, stack' = [stack EXCEPT ![Main] = <<g>>]
  PROVE  /\ stack' \in [Threads -> Seq(FrameSet)]
         /\ \A u \in Threads \ {Main} : stack'[u] = stack[u]
         /\ Len(stack'[Main]) = 1 /\ stack'[Main][1] = g
         /\ \A i \in 1..Len(stack'[Main]) : i = 1
<1>1. <<g>> \in Seq(FrameSet) /\ Len(<<g>>) = 1 /\ <<g>>[1] = g /\ \A i \in 1..Len(<<g>>) : i = 1
  OBVIOUS
<1>2. Main \in Threads /\ stack \in [Threads -> Seq(FrameSet)]
  BY DEF Threads, Sane, TypeInv
<1> DEFINE st == <<g>>
<1> HIDE DEF st
<1>3. stack' = [stack EXCEPT ![Main] = st] /\ st \in Seq(FrameSet) /\ Len(st) = 1
      /\ st[1] = g /\ \A i \in 1..Len(st) : i = 1
  BY <1>1 DEF st
<1> QED BY <1>2, <1>3

LEMMA NoFrame ==
  ASSUME Sane, stack' = [stack EXCEPT ![Main] = <<>>]
  PROVE  /\ stack' \in [Threads -> Seq(FrameSet)]
         /\ \A u \in Threads \ {Main} : stack'[u] = stack[u]
         /\ Len(stack'[Main]) = 0
         /\ \A i \in 1..Len(stack'[Main]) : FALSE
<1>1. <<>> \in Seq(FrameSet) /\ Len(<<>>) = 0 /\ \A i \in 1..0 : FALSE
  OBVIOUS
<1>2. Main \in Threads /\ stack \in [Threads -> Seq(FrameSet)]
  BY DEF Threads, Sane, TypeInv
<1>3. stack' \in [Threads -> Seq(FrameSet)] /\ stack'[Main] = <<>>
      /\ \A u \in Threads \ {Main} : stack'[u] = stack[u]
  BY <1>1, <1>2
<1> QED BY <1>1, <1>3

\* Nothing of the main thread is left but a frame that holds no span.
Cut ==
  /\ stack' \in [Threads -> Seq(FrameSet)]
  /\ \A u \in Threads \ {Main} : stack'[u] = stack[u]
  /\ \A i \in 1..Len(stack'[Main]) :
       /\ i = 1 /\ (Exiting(stack'[Main][i]) \/ Replaying(stack'[Main][i]))
       /\ stack'[Main][i].todo = {} /\ stack'[Main][i].span = NoSpan
       /\ stack'[Main][i].pc \in {"previous", "replay"}

LEMMA MainCut ==
  ASSUME Sane, up, up', Cut, UNCHANGED router, \A u \in Workers : lock = u => lock' = u
  PROVE  /\ Shape' /\ Resolved' /\ SameWaits /\ Routed'
         /\ \A f \in SpoolFile : ~Fed(f)'
         /\ \A u \in Threads, i \in Nat, s \in Spans : Holds(u, i, s)' <=> u # Main /\ Holds(u, i, s)
<1>1. Main \in Threads /\ Workers \subseteq Threads /\ Main \notin Workers
      /\ Len(stack'[Main]) \in Nat
  BY ExitAssumption DEF Threads, Cut
<1>2. Shape'
  <2>1. \A u \in Workers :
          Len(stack'[u]) <= 1 /\ \A i \in 1..Len(stack'[u]) : Exporting(stack'[u][i])
    BY <1>1 DEF Sane, Shape, Cut
  <2>2. \A i \in 1..Len(stack'[Main]) :
          i = 1 /\ (Exiting(stack'[Main][i]) \/ Replaying(stack'[Main][i]))
    BY DEF Cut
  <2>3. \A i, j \in 1..Len(stack'[Main]) : ~(i < j)
    BY <2>2
  <2> QED BY <2>1, <2>2, <2>3 DEF Shape
<1>3. \A u \in Threads : \A i \in 1..Len(stack'[u]) : ResolvedNext(u, stack'[u][i])
  <2> TAKE u \in Threads
  <2> TAKE i \in 1..Len(stack'[u])
  <2>1. CASE u = Main
    BY <2>1 DEF ResolvedNext, Cut
  <2>2. CASE u # Main
    BY <2>2 DEF ResolvedNext, Sane, Resolved, Threads, Cut
  <2> QED BY <2>1, <2>2
<1>4. Resolved'
  BY <1>3, ResolvedStays DEF Cut
<1>5. SameWaits /\ Routed'
  BY DEF Sane, Routed, SameWaits, Waits
<1>6. \A f \in SpoolFile : ~Fed(f)'
  <2>1. Len(stack'[Main]) > 0 => 1 \in 1..Len(stack'[Main])
    BY <1>1
  <2> QED BY <2>1 DEF Fed, Cut
<1>7. \A u \in Threads, i \in Nat, s \in Spans : Holds(u, i, s)' <=> u # Main /\ Holds(u, i, s)
  BY <1>1, ExitAssumption DEF Holds, Cut
<1> QED BY <1>2, <1>4, <1>5, <1>6, <1>7

LEMMA SpoolDirFailsSane ==
  ASSUME Sane, SpoolDirFails
  PROVE  /\ Sane' /\ SameWaits
         /\ \A f \in SpoolFile : ~Fed(f)'
         /\ \A u \in Threads, i \in Nat, s \in Spans : Holds(u, i, s)' <=> u # Main /\ Holds(u, i, s)
         /\ \A i \in 1..Len(stack'[Main]) :
              stack'[Main][i].pc \notin {"snapshot", "close", "drain", "persist"}
<1> DEFINE bottom == Head(stack[Main])
           first == stack[Main][1]
<1>1. /\ At(Main, "persist") /\ Lose(HeldBy(Main), "write error")
      /\ again' = again \cup BeingFed
      /\ UNCHANGED <<up, life, router, lock, exitLock, done, signals, spool, taken, shipped, early, spoilt>>
  BY DEF SpoolDirFails
<1>2. /\ up /\ stack[Main] \in Seq(FrameSet) /\ 1 \in 1..Len(stack[Main])
      /\ bottom = first /\ first \in FrameSet
  <2>1. up /\ stack[Main] \in Seq(FrameSet) /\ stack[Main] # <<>>
    BY <1>1 DEF At, Sane, TypeInv, Threads
  <2> QED BY <2>1, TailFacts
<1>3. Exiting(first) \/ Replaying(first) \/ Exporting(first)
  BY <1>2 DEF Sane, Shape
<1>4. /\ Cut
      /\ \A i \in 1..Len(stack'[Main]) : stack'[Main][i].pc \in ReplayPCs =>
            first.pc \in ReplayPCs /\ stack'[Main][i].rest \subseteq first.rest
  <2>0. "previous" \in ExitPCs /\ "replay" \in ReplayPCs /\ "previous" \notin ReplayPCs
        /\ ExitPCs \cap ReplayPCs = {}
    BY DEF ExitPCs, ReplayPCs
  <2>1. ASSUME NEW g \in FrameSet, stack' = [stack EXCEPT ![Main] = <<g>>],
               Exiting(g) \/ Replaying(g), g.todo = {}, g.span = NoSpan,
               g.pc \in {"previous", "replay"},
               g.pc \in ReplayPCs => first.pc \in ReplayPCs /\ g.rest \subseteq first.rest
        PROVE  /\ Cut
               /\ \A i \in 1..Len(stack'[Main]) : stack'[Main][i].pc \in ReplayPCs =>
                    first.pc \in ReplayPCs /\ stack'[Main][i].rest \subseteq first.rest
    <3>1. /\ stack' \in [Threads -> Seq(FrameSet)]
          /\ \A u \in Threads \ {Main} : stack'[u] = stack[u]
          /\ stack'[Main][1] = g
          /\ \A i \in 1..Len(stack'[Main]) : i = 1
      BY <2>1, OneFrame
    <3> HIDE DEF first
    <3> QED BY <2>1, <3>1 DEF Cut
  <2>2. CASE first.sig = "atexit"
    <3> DEFINE g == [first EXCEPT !.pc = "previous", !.todo = {}]
    <3>2. Exiting(first) /\ first.pc \notin {"feed", "unlink", "replay"}
      BY <1>3, <2>2 DEF Replaying, Exporting, Exiting, ExitPCs
    <3>1. stack' = [stack EXCEPT ![Main] = <<g>>]
      BY <1>2, <2>2, <3>2 DEF SpoolDirFails
    <3>3. /\ g \in FrameSet /\ Exiting(g) /\ g.todo = {} /\ g.span = NoSpan /\ g.pc = "previous"
      BY <1>2, <3>2 DEF FrameSet, Exiting, ExitPCs
    <3> QED BY <2>0, <2>1, <3>1, <3>3
  <2>3. CASE first.sig # "atexit" /\ first.pc \in ReplayPCs
    <3>1. Replaying(first)
      BY <1>3, <2>3 DEF Exiting, Exporting, ExitPCs, ReplayPCs, ExportPCs
    <3>2. PICK rest \in SUBSET first.rest :
             stack' = [stack EXCEPT ![Main] = <<[first EXCEPT !.pc = "replay", !.todo = {}, !.rest = rest]>>]
      <4>1. CASE first.pc = "replay"
        <5>1. \A rest : [first EXCEPT !.rest = rest]
                          = [first EXCEPT !.pc = "replay", !.todo = {}, !.rest = rest]
          BY <1>2, <3>1, <4>1 DEF FrameSet, Replaying
        <5>2. stack' = [stack EXCEPT ![Main] =
                 <<[first EXCEPT !.rest = first.rest \ {f \in first.rest : f = Oldest(first.rest)}]>>]
          BY <1>2, <2>3, <4>1 DEF SpoolDirFails, FrameSet
        <5> QED BY <5>1, <5>2
      <4>2. CASE first.pc # "replay"
        <5>1. first.pc \in {"feed", "unlink"}
          BY <2>3, <4>2 DEF ReplayPCs
        <5>2. stack' = [stack EXCEPT ![Main] =
                 <<[first EXCEPT !.pc = "replay", !.todo = {}, !.rest = first.rest \ {Oldest(first.rest)}]>>]
          BY <1>2, <2>3, <5>1 DEF SpoolDirFails, FrameSet
        <5> QED BY <5>2
      <4> QED BY <4>1, <4>2
    <3> DEFINE g == [first EXCEPT !.pc = "replay", !.todo = {}, !.rest = rest]
    <3>3. g \in FrameSet /\ g.todo = {} /\ g.span = NoSpan /\ g.pc = "replay" /\ g.sig = "none"
          /\ g.rest = rest /\ first.rest \subseteq SpoolFile
      BY <1>2, <3>1 DEF FrameSet, Replaying, ReplayPCs
    <3>4. Replaying(g)
      BY <3>3 DEF Replaying, ReplayPCs
    <3> HIDE DEF first
    <3> QED BY <2>1, <2>3, <3>2, <3>3, <3>4
  <2>4. CASE first.sig # "atexit" /\ first.pc \notin ReplayPCs
    <3>1. stack' = [stack EXCEPT ![Main] = <<>>]
      BY <1>2, <2>4 DEF SpoolDirFails, ReplayPCs
    <3> QED BY <3>1, NoFrame DEF Cut
  <2> QED BY <2>2, <2>3, <2>4
<1>5. /\ Shape' /\ Resolved' /\ SameWaits /\ Routed'
      /\ \A f \in SpoolFile : ~Fed(f)'
      /\ \A u \in Threads, i \in Nat, s \in Spans : Holds(u, i, s)' <=> u # Main /\ Holds(u, i, s)
  BY <1>1, <1>2, <1>4, MainCut
<1>7. Pending'
  <2>1. \A i \in 1..Len(stack'[Main]) : stack'[Main][i].pc \in ReplayPCs =>
            \E j \in 1..Len(stack[Main]) :
               stack[Main][j].pc \in ReplayPCs /\ stack'[Main][i].rest \subseteq stack[Main][j].rest
    BY <1>2, <1>4
  <2> QED BY <1>1, <2>1, PendingStays
<1>8. TypeInv'
  BY <1>1, <1>4, BeingFedFacts DEF Sane, TypeInv, Lose, Cut
<1>9. \A i \in 1..Len(stack'[Main]) :
              stack'[Main][i].pc \notin {"snapshot", "close", "drain", "persist"}
  BY <1>4 DEF Cut
<1> QED BY <1>5, <1>7, <1>8, <1>9 DEF Sane

LEMMA GoneSane ==
  ASSUME Sane, NEW why, Gone(why)
  PROVE  /\ Sane' /\ ~up'
         /\ \A f \in SpoolFile : ~Fed(f)'
         /\ \A u \in Threads, i \in Nat, s \in Spans : ~Holds(u, i, s)'
<1>1. /\ up' = FALSE /\ Lose(InMemory, "memory") /\ again' = again \cup BeingFed
      /\ stack' = [th \in Threads |-> <<>>]
      /\ UNCHANGED <<life, router, lock, exitLock, done, signals, spool, taken, shipped, early>>
  BY DEF Gone
<1>2. <<>> \in Seq(FrameSet) /\ Len(<<>>) = 0 /\ \A i \in 1..0 : FALSE
  OBVIOUS
<1>3. stack' \in [Threads -> Seq(FrameSet)] /\ \A u \in Threads : stack'[u] = <<>>
  BY <1>1, <1>2
<1>10. Main \in Threads
  BY DEF Threads
<1>11. \A u \in Threads : Len(stack'[u]) = 0
  BY <1>2, <1>3
<1>4. TypeInv'
  BY <1>1, <1>3, BeingFedFacts DEF Sane, TypeInv, Lose
<1>5. \A u \in Threads : \A i \in 1..Len(stack'[u]) : FALSE
  BY <1>11
<1>6. Shape' /\ Resolved'
  BY <1>1, <1>3, <1>5, <1>11 DEF Shape, Resolved, Threads
<1>7. Pending' /\ Routed'
  <2>1. \A i \in 1..Len(stack'[Main]) : FALSE
    BY <1>5, <1>10
  <2> QED BY <1>1, <2>1 DEF Sane, Pending, Routed
<1>8. \A f \in SpoolFile : ~Fed(f)'
  <2>1. Len(stack'[Main]) = 0
    BY <1>10, <1>11
  <2> QED BY <2>1 DEF Fed
<1>9. \A u \in Threads, i \in Nat, s \in Spans : ~Holds(u, i, s)'
  BY <1>5 DEF Holds
<1> QED BY <1>1, <1>4, <1>6, <1>7, <1>8, <1>9 DEF Sane

\* The main thread is rid of its frames, and the process goes on.
Unwinds ==
  /\ Lose(HeldBy(Main), "memory")
  /\ spoilt' = spoilt \cup Unfinished
  /\ stack' = [stack EXCEPT ![Main] = <<>>]
  /\ lock' = IF lock = Main THEN Nobody ELSE lock
  /\ again' = again \cup BeingFed
  /\ UNCHANGED <<up, life, router, exitLock, done, signals, spool, taken, shipped, early>>

LEMMA UnwindsSane ==
  ASSUME Sane, up, Unwinds
  PROVE  /\ Sane' /\ SameWaits
         /\ \A f \in SpoolFile : ~Fed(f)'
         /\ \A u \in Threads, i \in Nat, s \in Spans : Holds(u, i, s)' <=> u # Main /\ Holds(u, i, s)
         /\ \A i \in 1..Len(stack'[Main]) : FALSE
<1>1. /\ Lose(HeldBy(Main), "memory") /\ again' = again \cup BeingFed
      /\ stack' = [stack EXCEPT ![Main] = <<>>]
      /\ lock' = IF lock = Main THEN Nobody ELSE lock
      /\ UNCHANGED <<up, life, router, exitLock, done, signals, spool, taken, shipped, early>>
  BY DEF Unwinds
<1>2. Cut /\ \A i \in 1..Len(stack'[Main]) : FALSE
  BY <1>1, NoFrame DEF Cut
<1>3. \A u \in Workers : lock = u => lock' = u
  BY <1>1, ExitAssumption
<1>4. /\ Shape' /\ Resolved' /\ SameWaits /\ Routed'
      /\ \A f \in SpoolFile : ~Fed(f)'
      /\ \A u \in Threads, i \in Nat, s \in Spans : Holds(u, i, s)' <=> u # Main /\ Holds(u, i, s)
  BY <1>1, <1>2, <1>3, MainCut
<1>6. Pending'
  BY <1>1, <1>2 DEF Sane, Pending
<1>7. TypeInv'
  BY <1>1, <1>2, BeingFedFacts DEF Sane, TypeInv, Lose, Cut, Threads
<1> QED BY <1>2, <1>4, <1>6, <1>7 DEF Sane

-----------------------------------------------------------------------------
(* The next process: it starts, and replays the spool                        *)

LEMMA StartSane ==
  ASSUME Sane, Start
  PROVE  /\ Sane'
         /\ \A f \in SpoolFile : ~Fed(f)'
         /\ \A u \in Threads, i \in Nat, s \in Spans : ~Holds(u, i, s)'
         /\ \A t \in Tenants, i \in Nat, s \in Spans : ~Waits(t, i, s)'
         /\ \A i \in 1..Len(stack'[Main]) : stack'[Main][i].pc = "replay"
<1> DEFINE g == ReplayFrame(spool)
<1>1. /\ up' = TRUE /\ life' = life + 1
      /\ stack' = [th \in Threads |-> IF th = Main THEN <<g>> ELSE <<>>]
      /\ router' = [t \in Tenants |-> Entry("unresolved")]
      /\ lock' = Nobody /\ exitLock' = FALSE /\ done' = FALSE
      /\ early' = {} /\ spoilt' = {}
      /\ UNCHANGED <<signals, spool, taken, shipped, lost, again>>
  BY DEF Start
<1>2. /\ g \in FrameSet /\ Replaying(g) /\ g.pc = "replay" /\ g.rest = spool /\ g.span = NoSpan
      /\ g.todo = {}
  BY DEF ReplayFrame, Frame, FrameSet, Replaying, ReplayPCs, Sane, TypeInv
<1> HIDE DEF g
<1>3. /\ <<g>> \in Seq(FrameSet) /\ <<>> \in Seq(FrameSet)
      /\ Len(<<>>) = 0 /\ Len(<<g>>) = 1 /\ <<g>>[1] = g /\ \A i \in 1..Len(<<g>>) : i = 1
  BY <1>2
<1>4. stack' \in [Threads -> Seq(FrameSet)] /\ Main \in Threads
  BY <1>1, <1>3 DEF Threads
<1>5. \A u \in Threads : u # Main => Len(stack'[u]) = 0
  BY <1>1, <1>3
<1>6. Len(stack'[Main]) = 1 /\ stack'[Main][1] = g /\ \A i \in 1..Len(stack'[Main]) : i = 1
  BY <1>1, <1>3, <1>4
<1>7. \A u \in Threads : \A i \in 1..Len(stack'[u]) : u = Main /\ i = 1 /\ stack'[u][i] = g
  <2> TAKE u \in Threads
  <2>1. CASE u = Main
    BY <1>6, <2>1
  <2>2. CASE u # Main
    BY <1>5, <2>2
  <2> QED BY <2>1, <2>2
<1>8. /\ Entry("unresolved") \in EntrySet /\ Entry("unresolved").queue = <<>>
      /\ Entry("unresolved").is = "unresolved"
  BY DEF Entry, EntrySet
<1>9. /\ router' \in [Tenants -> EntrySet]
      /\ \A t \in Tenants : router'[t].queue = <<>> /\ router'[t].is = "unresolved"
  BY <1>1, <1>8
<1>10. TypeInv'
  <2>1. life' \in Nat /\ up' \in BOOLEAN /\ lock' = Nobody /\ exitLock' \in BOOLEAN
        /\ done' \in BOOLEAN /\ early' = {}
        /\ UNCHANGED <<signals, spool, taken, shipped, lost, again>>
    <3>1. /\ life' = life + 1 /\ up' = TRUE /\ lock' = Nobody /\ exitLock' = FALSE
          /\ done' = FALSE /\ early' = {}
          /\ UNCHANGED <<signals, spool, taken, shipped, lost, again>>
      BY <1>1
    <3>2. up' \in BOOLEAN /\ exitLock' \in BOOLEAN /\ done' \in BOOLEAN
      BY <3>1
    <3>3. life' \in Nat
      BY <3>1 DEF Sane, TypeInv
    <3> QED BY <3>1, <3>2, <3>3
  <2> QED BY <1>4, <1>9, <2>1 DEF Sane, TypeInv
<1>11. Shape'
  <2>1. \A u \in Workers :
          Len(stack'[u]) <= 1 /\ \A i \in 1..Len(stack'[u]) : Exporting(stack'[u][i])
    BY <1>5, ExitAssumption DEF Threads
  <2>2. \A i \in 1..Len(stack'[Main]) : i = 1 /\ Replaying(stack'[Main][i])
    BY <1>2, <1>4, <1>7
  <2>3. \A i, j \in 1..Len(stack'[Main]) : ~(i < j)
    BY <2>2
  <2> QED BY <1>1, <2>1, <2>2, <2>3 DEF Shape
<1>12. Pending'
  <2>1. \A f \in spool : f.id \in Nat /\ f.id <= life /\ life \in Nat
    BY DEF Sane, TypeInv, Pending, SpoolFile
  <2>2. \A f \in spool' : f.id <= life' /\ f.id < life'
    BY <1>1, <2>1
  <2>3. \A i \in 1..Len(stack'[Main]) : stack'[Main][i].rest = spool'
    BY <1>1, <1>2, <1>4, <1>7
  <2> QED BY <2>2, <2>3 DEF Pending
<1>13. Resolved'
  BY <1>2, <1>7 DEF Resolved
<1>14. Routed'
  BY <1>9 DEF Routed
<1>15. \A f \in SpoolFile : ~Fed(f)'
  BY <1>2, <1>6 DEF Fed
<1>16. \A u \in Threads, i \in Nat, s \in Spans : ~Holds(u, i, s)'
  BY <1>2, <1>7, ExitAssumption DEF Holds
<1>17. \A t \in Tenants, i \in Nat, s \in Spans : ~Waits(t, i, s)'
  BY <1>9 DEF Waits
<1>18. \A i \in 1..Len(stack'[Main]) : stack'[Main][i].pc = "replay"
  BY <1>2, <1>4, <1>7
<1> QED BY <1>10, <1>11, <1>12, <1>13, <1>14, <1>15, <1>16, <1>17, <1>18 DEF Sane

ReplayLeaves == <<up, life, router, lock, exitLock, done, signals,
                  taken, shipped, lost, early, spoilt>>

(* The running frame replays a file, and goes on with it or with the rest.    *)
LEMMA ReplayBecomes ==
  ASSUME Sane, NEW from \in ReplayPCs, At(Main, from), NEW f \in FrameSet, Replaying(f),
         Becomes(Main, f), UNCHANGED ReplayLeaves, spool' \subseteq spool, again' \subseteq Spans,
         f.rest \subseteq Top(Main).rest, f.rest \subseteq spool'
  PROVE  /\ Sane' /\ SameWaits /\ Replaced(Main, f) /\ Len(stack[Main]) = 1
         /\ \A u \in Threads, i \in Nat, s \in Spans :
              Holds(u, i, s)' <=> IF u = Main /\ i = 1 THEN s \in f.todo ELSE Holds(u, i, s)
         /\ \A s \in Spans : Holds(Main, 1, s) <=> s \in Top(Main).todo
         /\ \A g \in SpoolFile : Fed(g) <=> from \in {"feed", "unlink"} /\ g = Oldest(Top(Main).rest)
         /\ \A g \in SpoolFile : Fed(g)' <=> f.pc \in {"feed", "unlink"} /\ g = Oldest(f.rest)
<1>1. /\ up /\ Top(Main) \in FrameSet /\ Top(Main).pc = from /\ stack[Main] # <<>>
      /\ Main \in Threads
  BY TopFacts DEF Sane, At, Threads
<1>2. /\ Replaying(Top(Main)) /\ Len(stack[Main]) = 1 /\ Top(Main) = stack[Main][1]
      /\ Top(Main).rest \subseteq spool /\ \A g \in Top(Main).rest : g.id < life
  BY ReplayTop
<1>3. Replaced(Main, f)
  BY <1>1, BecomesFacts DEF Sane
<1>4. Shape'
  BY <1>1, <1>2, <1>3, ShapeReplaced DEF ReplayLeaves
<1>5. Len(stack'[Main]) = 1 /\ stack'[Main][1] = f /\ \A i \in 1..Len(stack'[Main]) : i = 1
  BY <1>2, <1>3 DEF Replaced
<1>6. Pending'
  BY <1>2, <1>5 DEF Sane, Pending, ReplayLeaves
<1>7. f.pc \notin {"factory", "dispatch", "put"}
  BY DEF Replaying, ReplayPCs
<1>8. \A u \in Threads : \A i \in 1..Len(stack[u]) : ResolvedNext(u, stack[u][i])
  BY ResolvedKept DEF ReplayLeaves
<1>9. Resolved'
  BY <1>1, <1>3, <1>7, <1>8, ResolvedReplaced DEF ResolvedNext
<1>10. TypeInv'
  BY <1>3 DEF Sane, TypeInv, ReplayLeaves, Replaced
<1>11. Routed' /\ SameWaits
  BY DEF Sane, Routed, SameWaits, Waits, ReplayLeaves
<1>12. \A u \in Threads, i \in Nat, s \in Spans :
         Holds(u, i, s)' <=> IF u = Main /\ i = 1 THEN s \in f.todo ELSE Holds(u, i, s)
  <2>1. \A s \in Spans : f.span # s
    BY ExitAssumption DEF Replaying
  <2> QED BY <1>1, <1>2, <1>3, <2>1, HoldsReplaced
<1>13. \A s \in Spans : Holds(Main, 1, s) <=> s \in Top(Main).todo
  BY <1>2, ExitAssumption DEF Holds, Replaying
<1>14. \A g \in SpoolFile : Fed(g) <=> from \in {"feed", "unlink"} /\ g = Oldest(Top(Main).rest)
  BY <1>1, <1>2 DEF Fed
<1>15. \A g \in SpoolFile : Fed(g)' <=> f.pc \in {"feed", "unlink"} /\ g = Oldest(f.rest)
  BY <1>5 DEF Fed
<1> QED BY <1>2, <1>3, <1>4, <1>6, <1>9, <1>10, <1>11, <1>12, <1>13, <1>14, <1>15 DEF Sane

LEMMA ReadFileSane ==
  ASSUME Sane, ReadFile, UNCHANGED ReplayLeaves
  PROVE  /\ Sane' /\ SameWaits /\ UNCHANGED <<spool, again>>
         /\ \A g \in SpoolFile : ~Fed(g)
         /\ \/ Quiet
            \/ \E f \in spool :
                 /\ ~f.torn /\ \A g \in SpoolFile : Fed(g)' <=> g = f
                 /\ \A s \in Spans : ~Holds(Main, 1, s)
                 /\ \A u \in Threads, i \in Nat, s \in Spans :
                      Holds(u, i, s)' <=> Holds(u, i, s) \/ (u = Main /\ i = 1 /\ s \in f.spans)
<1>1. At(Main, "replay") /\ UNCHANGED <<spool, again>> /\ "replay" \in ReplayPCs
  BY DEF ReadFile, ReplayPCs
<1>2. /\ up /\ Top(Main) \in FrameSet /\ Top(Main).pc = "replay" /\ stack[Main] # <<>>
      /\ Main \in Threads
  BY <1>1, TopFacts DEF Sane, At, Threads
<1>3. /\ Replaying(Top(Main)) /\ Len(stack[Main]) = 1 /\ Top(Main) = stack[Main][1]
      /\ Top(Main).rest \subseteq spool /\ \A g \in Top(Main).rest : g.id < life
      /\ Top(Main).todo = {}
  BY <1>1, <1>2, ReplayTop DEF Replaying
<1>4. \A g \in SpoolFile : ~Fed(g)
  BY <1>2, <1>3 DEF Fed
<1>5. CASE Top(Main).rest = {}
  <2>1. Return(Main)
    BY <1>5 DEF ReadFile
  <2>2. Popped(Main)
    BY <1>2, <2>1, ReturnFacts DEF Sane
  <2>3. \A i \in 1..Len(stack'[Main]) : FALSE
    BY <1>3, <2>2 DEF Popped
  <2>4. Shape'
    BY <1>2, <2>2, ShapePopped DEF ReplayLeaves
  <2>5. Pending'
    BY <1>1, <2>3 DEF Sane, Pending, ReplayLeaves
  <2>6. TypeInv'
    BY <1>1, <2>2 DEF Sane, TypeInv, ReplayLeaves, Popped
  <2>7. Resolved'
    BY <1>2, <2>2, ResolvedKept, ResolvedPopped DEF ReplayLeaves
  <2>8. Routed' /\ SameWaits
    BY DEF Sane, Routed, SameWaits, Waits, ReplayLeaves
  <2>9. SameFed
    BY <1>2, <2>2, FedPopped
  <2>10. \A s \in Spans : ~Holds(Main, 1, s)
    BY <1>3, ExitAssumption DEF Holds, Replaying
  <2>11. SameHeld
    BY <1>2, <1>3, <2>2, <2>10, HoldsPopped DEF SameHeld
  <2> QED BY <1>1, <1>4, <2>4, <2>5, <2>6, <2>7, <2>8, <2>9, <2>11 DEF Sane, Quiet
<1>6. CASE Top(Main).rest # {}
  <2> DEFINE h == Oldest(Top(Main).rest)
  <2>1. h \in Top(Main).rest /\ h \in spool /\ h \in SpoolFile
    BY <1>3, <1>6, OldestFacts DEF Replaying
  <2>2. CASE h.torn
    <3> DEFINE f == [Top(Main) EXCEPT !.rest = Top(Main).rest \ {h}]
    <3>1. Becomes(Main, f)
      BY <1>6, <2>2 DEF ReadFile
    <3>2. /\ f \in FrameSet /\ Replaying(f) /\ f.rest \subseteq Top(Main).rest /\ f.todo = {}
          /\ f.pc = "replay"
      BY <1>2, <1>3 DEF FrameSet, Replaying, ReplayPCs
    <3> HIDE DEF f
    <3>3. f.rest \subseteq spool' /\ spool' \subseteq spool /\ again' \subseteq Spans
      BY <1>1, <1>3, <3>2 DEF Sane, TypeInv
    <3>4. /\ Sane' /\ SameWaits
          /\ \A u \in Threads, i \in Nat, s \in Spans :
               Holds(u, i, s)' <=> IF u = Main /\ i = 1 THEN s \in f.todo ELSE Holds(u, i, s)
          /\ \A s \in Spans : Holds(Main, 1, s) <=> s \in Top(Main).todo
          /\ \A g \in SpoolFile : Fed(g)' <=> f.pc \in {"feed", "unlink"} /\ g = Oldest(f.rest)
      BY <1>1, <3>1, <3>2, <3>3, ReplayBecomes
    <3>5. SameHeld
      BY <1>3, <3>2, <3>4 DEF SameHeld
    <3>6. SameFed
      BY <1>4, <3>2, <3>4 DEF SameFed
    <3> QED BY <1>1, <1>4, <3>4, <3>5, <3>6 DEF Quiet
  <2>3. CASE ~h.torn
    <3> DEFINE f == [Top(Main) EXCEPT !.pc = "feed", !.todo = h.spans]
    <3>1. Becomes(Main, f)
      BY <1>6, <2>3 DEF ReadFile
    <3>2. /\ f \in FrameSet /\ f.rest = Top(Main).rest /\ f.todo = h.spans
          /\ f.pc = "feed" /\ f.span = NoSpan /\ f.sig = "none"
      BY <1>2, <1>3, <2>1 DEF FrameSet, Replaying, ReplayPCs, SpoolFile
    <3>3. Replaying(f)
      BY <1>3, <1>6, <2>3, <3>2 DEF Replaying, ReplayPCs
    <3> HIDE DEF f
    <3>4. f.rest \subseteq spool' /\ spool' \subseteq spool /\ again' \subseteq Spans
          /\ f.rest \subseteq Top(Main).rest
      BY <1>1, <1>3, <3>2 DEF Sane, TypeInv
    <3>5. /\ Sane' /\ SameWaits
          /\ \A u \in Threads, i \in Nat, s \in Spans :
               Holds(u, i, s)' <=> IF u = Main /\ i = 1 THEN s \in f.todo ELSE Holds(u, i, s)
          /\ \A s \in Spans : Holds(Main, 1, s) <=> s \in Top(Main).todo
          /\ \A g \in SpoolFile : Fed(g)' <=> f.pc \in {"feed", "unlink"} /\ g = Oldest(f.rest)
      BY <1>1, <3>1, <3>2, <3>3, <3>4, ReplayBecomes
    <3>6. \A g \in SpoolFile : Fed(g)' <=> g = h
      BY <3>2, <3>5
    <3>7. \A s \in Spans : ~Holds(Main, 1, s)
      BY <1>3, <3>5
    <3>8. \A u \in Threads, i \in Nat, s \in Spans :
            Holds(u, i, s)' <=> Holds(u, i, s) \/ (u = Main /\ i = 1 /\ s \in h.spans)
      BY <3>2, <3>5, <3>7
    <3> HIDE DEF h
    <3> QED BY <1>1, <1>4, <2>1, <2>3, <3>5, <3>6, <3>7, <3>8
  <2> QED BY <2>2, <2>3
<1> QED BY <1>5, <1>6

LEMMA FeedSpanSane ==
  ASSUME Sane, FeedSpan, UNCHANGED ReplayLeaves
  PROVE  /\ Sane' /\ SameWaits /\ SameFed /\ UNCHANGED <<spool, again>>
         /\ \/ Quiet
            \/ \E x \in Spans :
                 /\ Holds(Main, 1, x) /\ \A s \in Spans : ~Holds(Main, 2, s)
                 /\ \A u \in Threads, i \in Nat, s \in Spans :
                      Holds(u, i, s)' <=> \/ Holds(u, i, s) /\ ~(u = Main /\ i = 1 /\ s = x)
                                          \/ u = Main /\ i = 2 /\ s = x
<1>1. At(Main, "feed") /\ UNCHANGED <<spool, again>> /\ "feed" \in ReplayPCs
  BY DEF FeedSpan, ReplayPCs
<1>2. /\ up /\ Top(Main) \in FrameSet /\ Top(Main).pc = "feed" /\ stack[Main] # <<>>
      /\ Main \in Threads /\ stack[Main] \in Seq(FrameSet)
  BY <1>1, TopFacts DEF Sane, At, Threads, TypeInv
<1>3. /\ Replaying(Top(Main)) /\ Len(stack[Main]) = 1 /\ Top(Main) = stack[Main][1]
      /\ Top(Main).rest \subseteq spool /\ \A g \in Top(Main).rest : g.id < life
  BY <1>1, ReplayTop
<1>4. \/ Top(Main).todo = {} /\ Goto(Main, "unlink")
      \/ \E x \in Top(Main).todo :
          stack' = [stack EXCEPT ![Main] =
                      Append(Front(@), [Top(Main) EXCEPT !.todo = Top(Main).todo \ {x}])
                        \o <<ExportFrame(x)>>]
  BY DEF FeedSpan
<1>5. CASE Top(Main).todo = {} /\ Goto(Main, "unlink")
  <2> DEFINE f == [Top(Main) EXCEPT !.pc = "unlink"]
  <2>1. Becomes(Main, f)
    BY <1>5 DEF Goto
  <2>2. /\ f \in FrameSet /\ f.rest = Top(Main).rest /\ f.todo = {} /\ f.pc = "unlink"
        /\ f.span = NoSpan /\ f.sig = "none"
    BY <1>2, <1>3, <1>5 DEF FrameSet, Replaying, ReplayPCs
  <2>3. Replaying(f)
    BY <1>2, <1>3, <2>2 DEF Replaying, ReplayPCs
  <2> HIDE DEF f
  <2>4. f.rest \subseteq spool' /\ spool' \subseteq spool /\ again' \subseteq Spans
        /\ f.rest \subseteq Top(Main).rest
    BY <1>1, <1>3, <2>2 DEF Sane, TypeInv
  <2>5. /\ Sane' /\ SameWaits
        /\ \A u \in Threads, i \in Nat, s \in Spans :
             Holds(u, i, s)' <=> IF u = Main /\ i = 1 THEN s \in f.todo ELSE Holds(u, i, s)
        /\ \A s \in Spans : Holds(Main, 1, s) <=> s \in Top(Main).todo
        /\ \A g \in SpoolFile : Fed(g) <=> "feed" \in {"feed", "unlink"} /\ g = Oldest(Top(Main).rest)
        /\ \A g \in SpoolFile : Fed(g)' <=> f.pc \in {"feed", "unlink"} /\ g = Oldest(f.rest)
    BY <1>1, <2>1, <2>2, <2>3, <2>4, ReplayBecomes
  <2>6. SameFed
    BY <2>2, <2>5 DEF SameFed
  <2>7. SameHeld
    BY <1>5, <2>2, <2>5 DEF SameHeld
  <2> QED BY <1>1, <2>5, <2>6, <2>7 DEF Quiet
<1>6. ASSUME NEW x \in Top(Main).todo,
          stack' = [stack EXCEPT ![Main] =
                      Append(Front(@), [Top(Main) EXCEPT !.todo = Top(Main).todo \ {x}])
                        \o <<ExportFrame(x)>>]
      PROVE  /\ Sane' /\ SameFed
             /\ Holds(Main, 1, x) /\ \A s \in Spans : ~Holds(Main, 2, s)
             /\ \A u \in Threads, i \in Nat, s \in Spans :
                  Holds(u, i, s)' <=> \/ Holds(u, i, s) /\ ~(u = Main /\ i = 1 /\ s = x)
                                      \/ u = Main /\ i = 2 /\ s = x
  <2> DEFINE f == [Top(Main) EXCEPT !.todo = Top(Main).todo \ {x}]
             e == ExportFrame(x)
  <2>1. /\ x \in Spans /\ f \in FrameSet /\ f.rest = Top(Main).rest /\ f.todo = Top(Main).todo \ {x}
        /\ f.pc = "feed" /\ f.span = NoSpan /\ f.sig = "none"
    BY <1>2, <1>3, <1>6 DEF FrameSet, Replaying
  <2>2. Replaying(f)
    BY <1>2, <1>3, <2>1 DEF Replaying, ReplayPCs
  <2>3. e \in FrameSet /\ Exporting(e) /\ e.pc = "resolve" /\ e.span = x /\ e.todo = {}
    BY <2>1 DEF ExportFrame, Frame, FrameSet, Exporting, ExportPCs
  <2>4. stack' = [stack EXCEPT ![Main] = Append(Front(stack[Main]), f) \o <<e>>]
    BY <1>6
  <2> HIDE DEF f, e
  <2>5. /\ Front(stack[Main]) \in Seq(FrameSet) /\ Len(Front(stack[Main])) = 0
    BY <1>2, <1>3, FrontFacts
  <2>6. /\ Append(Front(stack[Main]), f) \in Seq(FrameSet)
        /\ Len(Append(Front(stack[Main]), f)) = 1 /\ Append(Front(stack[Main]), f)[1] = f
    BY <2>1, <2>5
  <2> DEFINE st == Append(Front(stack[Main]), f) \o <<e>>
  <2>7. st \in Seq(FrameSet) /\ Len(st) = 2 /\ st[1] = f /\ st[2] = e
    BY <2>3, <2>6
  <2> HIDE DEF st
  <2>8. stack' = [stack EXCEPT ![Main] = st]
    BY <2>4 DEF st
  <2>9. /\ stack' \in [Threads -> Seq(FrameSet)]
        /\ \A u \in Threads \ {Main} : stack'[u] = stack[u]
        /\ Len(stack'[Main]) = 2 /\ stack'[Main][1] = f /\ stack'[Main][2] = e
    BY <1>2, <2>7, <2>8 DEF Sane, TypeInv
  <2>10. \A i \in 1..Len(stack'[Main]) : i = 1 \/ i = 2
    BY <2>9
  <2>11. TypeInv'
    BY <1>1, <2>9 DEF Sane, TypeInv, ReplayLeaves
  <2>12. Shape'
    <3>1. \A u \in Workers :
            Len(stack'[u]) <= 1 /\ \A i \in 1..Len(stack'[u]) : Exporting(stack'[u][i])
      BY <2>9, ExitAssumption DEF Sane, Shape, Threads
    <3>2. ~Exiting(f) /\ ~Exiting(e)
      BY <2>2, <2>3 DEF Exiting, Replaying, Exporting
    <3>3. \A i \in 1..Len(stack'[Main]) : ~Exiting(stack'[Main][i])
      BY <2>9, <2>10, <3>2
    <3>4. \A i \in 1..Len(stack'[Main]) :
          \/ Exiting(stack'[Main][i])
          \/ Replaying(stack'[Main][i]) /\ i = 1
          \/ Exporting(stack'[Main][i]) /\ (i = 1 \/ (i = 2 /\ stack'[Main][1].pc = "feed"))
      BY <2>1, <2>2, <2>3, <2>9, <2>10
    <3>5. up'
      BY <1>2 DEF ReplayLeaves
    <3> QED BY <3>1, <3>3, <3>4, <3>5 DEF Shape
  <2>13. Pending'
    <3>1. e.pc \notin ReplayPCs
      BY <2>3 DEF ReplayPCs
    <3> QED BY <1>1, <1>3, <2>1, <2>9, <2>10, <3>1 DEF Sane, Pending, ReplayLeaves
  <2>14. Resolved'
    <3>1. \A u \in Threads : \A i \in 1..Len(stack[u]) : ResolvedNext(u, stack[u][i])
      BY ResolvedKept DEF ReplayLeaves
    <3>2. ASSUME NEW u \in Threads, NEW i \in 1..Len(stack'[u]) PROVE ResolvedNext(u, stack'[u][i])
      <4>1. CASE u = Main
        BY <2>1, <2>3, <2>9, <2>10, <4>1 DEF ResolvedNext
      <4>2. CASE u # Main
        BY <2>9, <3>1, <4>2
      <4> QED BY <4>1, <4>2
    <3> QED BY <2>9, <3>2, ResolvedStays
  <2>15. Routed'
    BY DEF Sane, Routed, ReplayLeaves
  <2>16. SameFed
    BY <1>2, <1>3, <2>1, <2>9 DEF SameFed, Fed
  <2>17. /\ \A s \in Spans : Holds(Main, 1, s) <=> s \in Top(Main).todo
         /\ \A i \in Nat, s \in Spans : i # 1 => ~Holds(Main, i, s)
    BY <1>3, ExitAssumption DEF Holds, Replaying
  <2>18. \A u \in Threads, i \in Nat, s \in Spans :
           u = Main => (Holds(u, i, s)' <=> (i = 1 /\ s \in f.todo) \/ (i = 2 /\ s = x))
    <3> SUFFICES ASSUME NEW i \in Nat, NEW s \in Spans
                 PROVE  Holds(Main, i, s)' <=> (i = 1 /\ s \in f.todo) \/ (i = 2 /\ s = x)
      BY DEF Holds
    <3>0. NoSpan # s /\ {1, 2} \subseteq 1..Len(stack'[Main])
      BY <2>9, ExitAssumption
    <3>1. CASE i = 1
      <4>1. Holds(Main, i, s)' <=> f.span = s \/ s \in f.todo
        BY <2>9, <3>0, <3>1 DEF Holds
      <4> QED BY <2>1, <3>0, <3>1, <4>1
    <3>2. CASE i = 2
      BY <2>3, <2>9, <3>0, <3>2 DEF Holds
    <3>3. CASE i # 1 /\ i # 2
      BY <2>10, <3>3 DEF Holds
    <3> QED BY <3>1, <3>2, <3>3
  <2>19. \A u \in Threads \ {Main}, i \in Nat, s \in Spans : Holds(u, i, s)' <=> Holds(u, i, s)
    BY <2>9 DEF Holds
  <2>20. \A u \in Threads, i \in Nat, s \in Spans :
                  Holds(u, i, s)' <=> \/ Holds(u, i, s) /\ ~(u = Main /\ i = 1 /\ s = x)
                                      \/ u = Main /\ i = 2 /\ s = x
    <3> TAKE u \in Threads, i \in Nat, s \in Spans
    <3>1. CASE u # Main
      BY <2>19, <3>1
    <3>2. CASE u = Main
      <4>1. Holds(u, i, s)' <=> (i = 1 /\ s \in Top(Main).todo /\ s # x) \/ (i = 2 /\ s = x)
        <5>1. Holds(u, i, s)' <=> (i = 1 /\ s \in f.todo) \/ (i = 2 /\ s = x)
          BY <2>18, <3>2
        <5>2. s \in f.todo <=> s \in Top(Main).todo /\ s # x
          BY <2>1
        <5> QED BY <5>1, <5>2
      <4>2. Holds(u, i, s) <=> i = 1 /\ s \in Top(Main).todo
        BY <2>17, <3>2
      <4> QED BY <3>2, <4>1, <4>2
    <3> QED BY <3>1, <3>2
  <2> QED BY <1>6, <2>1, <2>11, <2>12, <2>13, <2>14, <2>15, <2>16, <2>17, <2>20 DEF Sane
<1>7. SameWaits
  BY DEF SameWaits, Waits, ReplayLeaves
<1>8. Top(Main).todo \subseteq Spans
  BY <1>2 DEF FrameSet
<1>9. CASE \E x \in Top(Main).todo :
          stack' = [stack EXCEPT ![Main] =
                      Append(Front(@), [Top(Main) EXCEPT !.todo = Top(Main).todo \ {x}])
                        \o <<ExportFrame(x)>>]
  <2>1. PICK x \in Top(Main).todo :
          stack' = [stack EXCEPT ![Main] =
                      Append(Front(@), [Top(Main) EXCEPT !.todo = Top(Main).todo \ {x}])
                        \o <<ExportFrame(x)>>]
    BY <1>9
  <2>2. /\ Sane' /\ SameFed
        /\ Holds(Main, 1, x) /\ \A s \in Spans : ~Holds(Main, 2, s)
        /\ \A u \in Threads, i \in Nat, s \in Spans :
             Holds(u, i, s)' <=> \/ Holds(u, i, s) /\ ~(u = Main /\ i = 1 /\ s = x)
                                 \/ u = Main /\ i = 2 /\ s = x
    BY <1>6, <2>1
  <2> QED BY <1>1, <1>7, <1>8, <2>2
<1> QED BY <1>1, <1>4, <1>5, <1>7, <1>9 DEF Quiet

LEMMA UnlinkSane ==
  ASSUME Sane, Unlink, UNCHANGED ReplayLeaves
  PROVE  /\ Sane' /\ SameWaits /\ SameHeld
         /\ \A g \in SpoolFile : ~Fed(g)'
         /\ \E f \in spool :
              /\ Fed(f) /\ f \in SpoolFile /\ \A s \in Spans : ~Holds(Main, 1, s)
              /\ \/ spool' = spool \ {f} /\ UNCHANGED again
                 \/ again' = again \cup f.spans /\ UNCHANGED spool
<1> DEFINE h == Oldest(Top(Main).rest)
           f == [Top(Main) EXCEPT !.pc = "replay", !.rest = Top(Main).rest \ {h}]
<1>1. /\ At(Main, "unlink") /\ "unlink" \in ReplayPCs /\ Becomes(Main, f)
      /\ \/ spool' = spool \ {h} /\ UNCHANGED again
         \/ again' = again \cup h.spans /\ UNCHANGED spool
  BY DEF Unlink, ReplayPCs
<1>2. /\ up /\ Top(Main) \in FrameSet /\ Top(Main).pc = "unlink" /\ Main \in Threads
  BY <1>1, TopFacts DEF Sane, Threads
<1>3. /\ Replaying(Top(Main)) /\ Len(stack[Main]) = 1 /\ Top(Main) = stack[Main][1]
      /\ Top(Main).rest \subseteq spool /\ \A g \in Top(Main).rest : g.id < life
  BY <1>1, ReplayTop
<1>4. Top(Main).rest # {} /\ Top(Main).rest \subseteq SpoolFile /\ Top(Main).todo = {}
  BY <1>2, <1>3 DEF Replaying
<1>5. h \in Top(Main).rest /\ h \in SpoolFile /\ h \in spool
  BY <1>3, <1>4, OldestFacts
<1> HIDE DEF h
<1>6. /\ f \in FrameSet /\ f.rest = Top(Main).rest \ {h} /\ f.todo = {} /\ f.pc = "replay"
      /\ f.span = NoSpan /\ f.sig = "none"
  <2>1. /\ Top(Main).rest \in SUBSET (Tenants \cup SpoolFile) /\ Top(Main).todo = {}
        /\ Top(Main).span = NoSpan /\ Top(Main).sig = "none"
    BY <1>2, <1>3, <1>4 DEF FrameSet, Replaying
  <2>2. /\ f.rest = Top(Main).rest \ {h} /\ f.todo = Top(Main).todo /\ f.pc = "replay"
        /\ f.span = Top(Main).span /\ f.sig = Top(Main).sig
    BY <1>2 DEF FrameSet
  <2>3. Top(Main).rest \ {h} \in SUBSET (Tenants \cup SpoolFile) /\ "replay" \in ReplayPCs
    BY <2>1 DEF ReplayPCs
  <2>4. f \in FrameSet
    BY <1>2, <2>3 DEF FrameSet
  <2> QED BY <2>1, <2>2, <2>4
<1>7. Replaying(f)
  BY <1>4, <1>6 DEF Replaying, ReplayPCs
<1>8. /\ f.rest \subseteq spool' /\ spool' \subseteq spool /\ again' \subseteq Spans
      /\ f.rest \subseteq Top(Main).rest
  BY <1>1, <1>3, <1>5, <1>6 DEF Sane, TypeInv, SpoolFile
<1> HIDE DEF f
<1>9. /\ Sane' /\ SameWaits
      /\ \A u \in Threads, i \in Nat, s \in Spans :
           Holds(u, i, s)' <=> IF u = Main /\ i = 1 THEN s \in f.todo ELSE Holds(u, i, s)
      /\ \A s \in Spans : Holds(Main, 1, s) <=> s \in Top(Main).todo
      /\ \A g \in SpoolFile : Fed(g) <=> "unlink" \in {"feed", "unlink"} /\ g = Oldest(Top(Main).rest)
      /\ \A g \in SpoolFile : Fed(g)' <=> f.pc \in {"feed", "unlink"} /\ g = Oldest(f.rest)
  BY <1>1, <1>6, <1>7, <1>8, ReplayBecomes
<1>10. SameHeld /\ \A s \in Spans : ~Holds(Main, 1, s)
  BY <1>4, <1>6, <1>9 DEF SameHeld
<1>11. \A g \in SpoolFile : ~Fed(g)'
  BY <1>6, <1>9
<1>12. Fed(h)
  BY <1>5, <1>9 DEF h
<1> QED BY <1>1, <1>5, <1>9, <1>10, <1>11, <1>12

-----------------------------------------------------------------------------
(* Sane is an invariant                                                      *)

LEMMA InitSane == Init => Sane
<1> SUFFICES ASSUME Init PROVE Sane
  OBVIOUS
<1>1. <<>> \in Seq(FrameSet) /\ <<>> \in Seq(Spans) /\ Len(<<>>) = 0
  OBVIOUS
<1>2. stack \in [Threads -> Seq(FrameSet)] /\ \A u \in Threads : Len(stack[u]) = 0
  BY <1>1 DEF Init
<1>9. Main \in Threads /\ Workers \subseteq Threads
  BY DEF Threads
<1>3. Entry("unresolved") \in EntrySet /\ Entry("unresolved").queue = <<>>
  BY <1>1 DEF Entry, EntrySet
<1>4. router \in [Tenants -> EntrySet] /\ \A t \in Tenants : router[t].queue = <<>>
  BY <1>3 DEF Init
<1>5. TypeInv
  <2>1. up \in BOOLEAN /\ exitLock \in BOOLEAN /\ done \in BOOLEAN
    BY DEF Init
  <2>2. life \in Nat /\ lock \in Threads \cup {Nobody} /\ spool \in SUBSET SpoolFile
        /\ taken \in SUBSET Spans /\ early \in SUBSET Spans /\ again \in SUBSET Spans
    BY DEF Init
  <2>3. shipped \in [Spans -> Nat] /\ DOMAIN lost = Spans
    BY DEF Init
  <2> QED BY <1>2, <1>4, <2>1, <2>2, <2>3 DEF TypeInv
<1>6. \A u \in Threads : \A i \in 1..Len(stack[u]) : FALSE
  BY <1>2
<1>10. \A u \in Threads : Len(stack[u]) <= 1
  BY <1>2
<1>7. Shape
  <2>1. \A i \in 1..Len(stack[Main]) : FALSE
    BY <1>6, <1>9
  <2>2. \A u \in Workers : Len(stack[u]) <= 1 /\ \A i \in 1..Len(stack[u]) : FALSE
    BY <1>6, <1>9, <1>10
  <2>3. up
    BY DEF Init
  <2> QED BY <2>1, <2>2, <2>3 DEF Shape
<1>8. Pending /\ Resolved /\ Routed
  <2>1. \A i \in 1..Len(stack[Main]) : FALSE
    BY <1>6, <1>9
  <2>2. spool = {}
    BY DEF Init
  <2> QED BY <1>4, <1>6, <2>1, <2>2 DEF Pending, Resolved, Routed
<1> QED BY <1>5, <1>7, <1>8 DEF Sane

(* A step is one of these.                                                   *)
ExportMove(th) == (Resolve(th) \/ TakeLock(th) \/ Factory(th)) /\ UNCHANGED ExportLeaves
ExitMove == (EnterShutdown \/ CheckDone \/ Snapshot \/ ClosePipeline) /\ UNCHANGED ExitLeaves
HandlerMove == AtExit \/ \E sig \in {"TERM", "INT"} : Signal(sig)

LEMMA StepCases ==
  ASSUME Next
  PROVE  \/ \E th \in Threads, s \in Spans : HandOver(th, s)
         \/ \E th \in Threads : ExportMove(th)
         \/ \E th \in Threads : Dispatch(th) /\ UNCHANGED ExportLeaves
         \/ \E th \in Threads : Put(th) /\ UNCHANGED ExportLeaves
         \/ \E t \in Tenants : Ship(t)
         \/ HandlerMove
         \/ ExitMove
         \/ DrainUnshipped /\ UNCHANGED ExitLeaves
         \/ PersistToSpool /\ UNCHANGED ExitLeaves
         \/ SpoolDirFails
         \/ up /\ Gone(Unfinished) /\ At(Main, "previous")
         \/ Kill
         \/ up /\ Unwinds /\ At(Main, "previous")
         \/ Start
         \/ ReadFile /\ UNCHANGED ReplayLeaves
         \/ FeedSpan /\ UNCHANGED ReplayLeaves
         \/ Unlink /\ UNCHANGED ReplayLeaves
<1>1. ASSUME NEW th \in Threads, ExportStep(th)
      PROVE  \/ ExportMove(th)
             \/ Dispatch(th) /\ UNCHANGED ExportLeaves
             \/ Put(th) /\ UNCHANGED ExportLeaves
  BY <1>1 DEF ExportStep, ExportMove, ExportLeaves
<1>2. ASSUME ExitStep
      PROVE  \/ ExitMove
             \/ DrainUnshipped /\ UNCHANGED ExitLeaves
             \/ PersistToSpool /\ UNCHANGED ExitLeaves
  BY <1>2 DEF ExitStep, ExitMove, ExitLeaves
<1>3. ASSUME ReplayStep
      PROVE  \/ ReadFile /\ UNCHANGED ReplayLeaves
             \/ FeedSpan /\ UNCHANGED ReplayLeaves
             \/ Unlink /\ UNCHANGED ReplayLeaves
  BY <1>3 DEF ReplayStep, ReplayLeaves
<1>4. ASSUME Die PROVE up /\ Gone(Unfinished) /\ At(Main, "previous")
  BY <1>4 DEF Die, At
<1>5. ASSUME KeyboardInterrupt
      PROVE  up /\ (Gone(Unfinished) \/ Unwinds) /\ At(Main, "previous")
  BY <1>5 DEF KeyboardInterrupt, At, Unwinds
<1> QED BY <1>1, <1>2, <1>3, <1>4, <1>5 DEF Next, ThreadStep, HandlerMove

LEMMA ExportMoveSane ==
  ASSUME Sane, NEW th \in Threads, ExportMove(th)
  PROVE  Sane' /\ Quiet /\ UNCHANGED lost /\ UNCHANGED ExportLeaves
BY ResolveSane, TakeLockSane, FactorySane DEF ExportMove

LEMMA ExitMoveSane ==
  ASSUME Sane, ExitMove
  PROVE  Sane' /\ Quiet /\ UNCHANGED <<spool, lost>> /\ UNCHANGED ExitLeaves
BY EnterShutdownSane, CheckDoneSane, SnapshotSane, ClosePipelineSane DEF ExitMove

LEMMA HandlerMoveSane ==
  ASSUME Sane, HandlerMove
  PROVE  /\ Sane' /\ Quiet
         /\ UNCHANGED <<up, life, router, lock, exitLock, done,
                        spool, taken, shipped, lost, early, spoilt, again>>
BY SignalSane, AtExitSane DEF HandlerMove, Signal, AtExit

LEMMA SaneUnchanged ==
  ASSUME Sane, UNCHANGED vars
  PROVE  Sane'
BY DEF Sane, TypeInv, Shape, Pending, Resolved, Routed, vars, processVars

LEMMA SaneStep ==
  ASSUME Sane, [Next]_vars
  PROVE  Sane'
<1>1. CASE Next
  BY <1>1, StepCases, HandOverSane, ExportMoveSane, DispatchSane, PutSane, ShipSane,
     HandlerMoveSane, ExitMoveSane, DrainUnshippedSane, PersistToSpoolSane,
     SpoolDirFailsSane, GoneSane, UnwindsSane, StartSane, ReadFileSane, FeedSpanSane,
     UnlinkSane DEF Kill
<1>2. CASE UNCHANGED vars
  BY <1>2, SaneUnchanged
<1> QED BY <1>1, <1>2

(* The state is well typed, the stacks of the threads have the shape of the  *)
(* calls that the code nests, the files a replay has before it are there,    *)
(* and an export that has passed the factory found an entry in the router.   *)
THEOREM SaneInvariant == Spec => []Sane
<1>1. Init => Sane
  BY InitSane
<1>2. Sane /\ [Next]_vars => Sane'
  BY SaneStep
<1> QED BY <1>1, <1>2, PTL DEF Spec

-----------------------------------------------------------------------------
(* SpansKept: no span is forgotten                                           *)

Here(s) ==
  up /\ \/ \E t \in Tenants, i \in Nat : Waits(t, i, s)
        \/ \E th \in Threads, i \in Nat : Holds(th, i, s)

OnDisk(s, X) == \E f \in spool \ X : ~f.torn /\ s \in f.spans
Safe(s, X)   == Here(s) \/ OnDisk(s, X) \/ shipped[s] > 0 \/ lost[s] # {}

\* The file that is replayed is about to be deleted: its spans do not need it.
Kept ==
  /\ \A s \in taken : Safe(s, {})
  /\ \A f \in SpoolFile : Fed(f) => \A s \in f.spans : Safe(s, {f})

LEMMA LoseFacts ==
  ASSUME NEW S, NEW why, Lose(S, why)
  PROVE  \A s \in Spans : /\ lost[s] \subseteq lost'[s]
                          /\ s \in S => why \in lost'[s]
                          /\ s \notin S => lost'[s] = lost[s]
BY DEF Lose

LEMMA LoseGrows ==
  ASSUME NEW S, NEW why, Lose(S, why)
  PROVE  \A s \in Spans : /\ lost[s] # {} => lost'[s] # {}
                          /\ s \in S => lost'[s] # {}
<1> TAKE s \in Spans
<1>1. lost[s] \subseteq lost'[s] /\ (s \in S => why \in lost'[s])
  BY LoseFacts
<1> QED BY <1>1

LEMMA KeptBy ==
  ASSUME Sane, Kept, Sane', spool \subseteq spool',
         \A f \in SpoolFile : Fed(f)' => Fed(f),
         \A s \in Spans : shipped[s] > 0 => shipped'[s] > 0,
         \A s \in Spans : lost[s] # {} => lost'[s] # {},
         \A s \in Spans : Here(s) => \/ Here(s)'
                                     \/ \E g \in spool' : g.id = life /\ ~g.torn /\ s \in g.spans
                                     \/ shipped'[s] > 0 \/ lost'[s] # {},
         \A s \in taken' \ taken : Here(s)'
  PROVE  Kept'
<1>1. ASSUME NEW s \in Spans, NEW X, Safe(s, X), \A f \in X : f.id # life
      PROVE  Safe(s, X)'
  BY <1>1 DEF Safe, OnDisk
<1>2. ASSUME NEW s \in taken' PROVE Safe(s, {})'
  <2>1. s \in Spans
    BY DEF Sane, TypeInv
  <2>2. CASE s \in taken
    BY <1>1, <2>1, <2>2 DEF Kept
  <2>3. CASE s \notin taken
    BY <2>3 DEF Safe
  <2> QED BY <2>2, <2>3
<1>3. ASSUME NEW f \in SpoolFile, Fed(f)', NEW s \in f.spans
      PROVE  Safe(s, {f})'
  <2>1. Fed(f) /\ s \in Spans /\ f.id # life
    BY <1>3, FedFacts DEF SpoolFile, Sane, TypeInv
  <2>2. Safe(s, {f})
    BY <2>1 DEF Kept
  <2> QED BY <1>1, <2>1, <2>2
<1> QED BY <1>2, <1>3 DEF Kept

LEMMA HereQuiet ==
  ASSUME Quiet, UNCHANGED up
  PROVE  \A s \in Spans : Here(s)' <=> Here(s)
BY DEF Quiet, SameHeld, SameWaits, Here

(* The frame of x is gone, the queues are as before.                         *)
LEMMA HereLeaves ==
  ASSUME UNCHANGED up, NEW th \in Threads, NEW x \in Spans, Leaves(th, x),
         NEW s \in Spans, Here(s)
  PROVE  \/ s = x \/ \E t \in Tenants, i \in Nat : Waits(t, i, s)
         \/ Here(s)'
BY DEF Leaves, Here

LEMMA HereWaits ==
  ASSUME UNCHANGED up, up, SameWaits, NEW s \in Spans, NEW t \in Tenants, NEW i \in Nat, Waits(t, i, s)
  PROVE  Here(s)'
BY DEF SameWaits, Here

LEMMA WaitsFacts ==
  ASSUME NEW t, NEW i \in Nat, NEW s, Waits(t, i, s)
  PROVE  /\ i > 0
         /\ \A x : Waits(t, i, x) => x = s
BY DEF Waits

LEMMA HereJoins ==
  ASSUME UNCHANGED up, up, NEW t \in Tenants, NEW x \in Spans, NEW gone \in BOOLEAN, Joins(t, x, gone)
  PROVE  /\ Here(x)'
         /\ \A s \in Spans, u \in Tenants, i \in Nat :
              Waits(u, i, s) => Here(s)' \/ (gone /\ u = t /\ i = 1)
<1>1. PICK n \in Nat \ {0} :
         \A u \in Tenants, i \in Nat, s \in Spans :
         Waits(u, i, s)' <=>
           \/ u # t /\ Waits(u, i, s)
           \/ u = t /\ i = n /\ s = x
           \/ u = t /\ i > 0 /\ Waits(t, i + (IF gone THEN 1 ELSE 0), s)
  BY DEF Joins
<1>2. Here(x)'
  BY <1>1 DEF Here
<1>3. ASSUME NEW s \in Spans, NEW u \in Tenants, NEW i \in Nat, Waits(u, i, s),
             ~(gone /\ u = t /\ i = 1)
      PROVE  Here(s)'
  <2>1. i > 0
    BY <1>3, WaitsFacts
  <2>2. CASE u # t
    BY <1>1, <1>3, <2>2 DEF Here
  <2>3. CASE u = t /\ ~gone
    <3>1. i + (IF gone THEN 1 ELSE 0) = i
      BY <2>3
    <3>2. Waits(u, i, s)'
      BY <1>1, <1>3, <2>1, <2>3, <3>1
    <3> QED BY <3>2 DEF Here
  <2>4. CASE u = t /\ gone
    <3>1. i - 1 \in Nat /\ i - 1 > 0 /\ i - 1 + (IF gone THEN 1 ELSE 0) = i
      BY <1>3, <2>1, <2>4
    <3>2. Waits(u, i - 1, s)'
      BY <1>1, <1>3, <2>4, <3>1
    <3> QED BY <3>1, <3>2 DEF Here
  <2> QED BY <2>2, <2>3, <2>4
<1> QED BY <1>2, <1>3

LEMMA KeptStep ==
  ASSUME Sane, Kept, Next
  PROVE  Kept'
<1>0. Sane'
  BY SaneStep
<1>1. ASSUME NEW th \in Threads, NEW s \in Spans, HandOver(th, s) PROVE Kept'
  <2>1. /\ SameFed /\ SameWaits
        /\ \A u \in Threads, i \in Nat, x \in Spans :
             Holds(u, i, x)' <=> Holds(u, i, x) \/ (u = th /\ i = 1 /\ x = s)
    BY <1>1, HandOverSane
  <2>2. up /\ up' /\ taken' = taken \cup {s} /\ UNCHANGED <<spool, shipped, lost>>
    BY <1>1 DEF HandOver
  <2>3. Here(s)' /\ \A x \in Spans : Here(x) => Here(x)'
    BY <2>1, <2>2 DEF Here, SameWaits
  <2> QED BY <1>0, <2>1, <2>2, <2>3, KeptBy DEF SameFed
<1>2. ASSUME NEW th \in Threads, ExportMove(th) PROVE Kept'
  <2>1. Quiet /\ UNCHANGED <<up, lost, spool, taken, shipped>>
    BY <1>2, ExportMoveSane DEF ExportLeaves
  <2> QED BY <1>0, <2>1, HereQuiet, KeptBy DEF Quiet, SameFed
<1>3. ASSUME NEW th \in Threads, Dispatch(th), UNCHANGED ExportLeaves PROVE Kept'
  <2>1. /\ SameWaits
        /\ \/ Quiet /\ UNCHANGED lost
           \/ \E x \in Spans, why \in {"no exporter", "late"} : Leaves(th, x) /\ Lose({x}, why)
    BY <1>3, DispatchSane
  <2>2. UNCHANGED <<up, spool, taken, shipped>> /\ up
    BY <1>3 DEF ExportLeaves, Dispatch, At
  <2>3. CASE Quiet /\ UNCHANGED lost
    BY <1>0, <2>2, <2>3, HereQuiet, KeptBy DEF Quiet, SameFed
  <2>4. ASSUME NEW x \in Spans, NEW why, Leaves(th, x), Lose({x}, why) PROVE Kept'
    <3>1. \A s \in Spans : Here(s) => Here(s)' \/ lost'[s] # {}
      <4>1. lost'[x] # {}
        BY <2>4, LoseGrows
      <4>2. ASSUME NEW s \in Spans, Here(s) PROVE Here(s)' \/ lost'[s] # {}
        <5>1. s = x \/ (\E t \in Tenants, i \in Nat : Waits(t, i, s)) \/ Here(s)'
          BY <2>2, <2>4, <4>2, HereLeaves
        <5> QED BY <2>1, <2>2, <4>1, <5>1, HereWaits
      <4> QED BY <4>2
    <3>2. \A s \in Spans : lost[s] # {} => lost'[s] # {}
      BY <2>4, LoseGrows
    <3> QED BY <1>0, <2>2, <2>4, <3>1, <3>2, KeptBy DEF Leaves, SameFed
  <2> QED BY <2>1, <2>3, <2>4
<1>4. ASSUME NEW th \in Threads, Put(th), UNCHANGED ExportLeaves PROVE Kept'
  <2>1. PICK t \in Tenants, x \in Spans :
              /\ Leaves(th, x)
              /\ \/ Joins(t, x, FALSE) /\ UNCHANGED lost
                 \/ \E y \in Spans : Waits(t, 1, y) /\ Joins(t, x, TRUE) /\ Lose({y}, "overflow")
                 \/ SameWaits /\ Lose({x}, "overflow")
    BY <1>4, PutSane
  <2>2. UNCHANGED <<up, spool, taken, shipped>> /\ up
    BY <1>4 DEF ExportLeaves, Put, At
  <2>3. SameFed
    BY <2>1 DEF Leaves
  <2>4. /\ \A s \in Spans : lost[s] # {} => lost'[s] # {}
        /\ \A s \in Spans : Here(s) => Here(s)' \/ lost'[s] # {}
    <3>1. CASE Joins(t, x, FALSE) /\ UNCHANGED lost
      <4>1. Here(x)' /\ \A s \in Spans, u \in Tenants, i \in Nat : Waits(u, i, s) => Here(s)'
        <5> DEFINE gone == FALSE
        <5>1. gone \in BOOLEAN /\ ~gone /\ Joins(t, x, gone) /\ UNCHANGED up /\ up
          BY <2>2, <3>1
        <5> HIDE DEF gone
        <5> QED BY <5>1, HereJoins
      <4>2. ASSUME NEW s \in Spans, Here(s) PROVE Here(s)'
        <5>1. s = x \/ (\E u \in Tenants, i \in Nat : Waits(u, i, s)) \/ Here(s)'
          BY <2>1, <2>2, <4>2, HereLeaves
        <5> QED BY <4>1, <5>1
      <4> QED BY <3>1, <4>2
    <3>2. CASE \E y \in Spans : Waits(t, 1, y) /\ Joins(t, x, TRUE) /\ Lose({y}, "overflow")
      <4>1. PICK y \in Spans : Waits(t, 1, y) /\ Joins(t, x, TRUE) /\ Lose({y}, "overflow")
        BY <3>2
      <4>2. Here(x)' /\ \A s \in Spans, u \in Tenants, i \in Nat :
                          Waits(u, i, s) => Here(s)' \/ (u = t /\ i = 1)
        BY <2>2, <4>1, HereJoins
      <4>3. \A s \in Spans : Waits(t, 1, s) => s = y
        BY <4>1, WaitsFacts
      <4>4. \A s \in Spans : (lost[s] # {} => lost'[s] # {}) /\ lost'[y] # {}
        BY <4>1, LoseGrows
      <4> QED BY <2>1, <2>2, <4>2, <4>3, <4>4, HereLeaves
    <3>3. CASE SameWaits /\ Lose({x}, "overflow")
      BY <2>1, <2>2, <3>3, HereLeaves, HereWaits, LoseGrows
    <3> QED BY <2>1, <3>1, <3>2, <3>3
  <2> QED BY <1>0, <2>2, <2>3, <2>4, KeptBy DEF SameFed
<1>5. ASSUME NEW t \in Tenants, Ship(t) PROVE Kept'
  <2>1. /\ SameHeld /\ SameFed
        /\ \E y \in Spans :
              /\ Waits(t, 1, y) /\ shipped' = [shipped EXCEPT ![y] = @ + 1]
              /\ \A u \in Tenants, i \in Nat, s \in Spans :
                   Waits(u, i, s)' <=> IF u = t THEN i > 0 /\ Waits(t, i + 1, s) ELSE Waits(u, i, s)
    BY <1>5, ShipSane
  <2>2. PICK y \in Spans :
              /\ Waits(t, 1, y) /\ shipped' = [shipped EXCEPT ![y] = @ + 1]
              /\ \A u \in Tenants, i \in Nat, s \in Spans :
                   Waits(u, i, s)' <=> IF u = t THEN i > 0 /\ Waits(t, i + 1, s) ELSE Waits(u, i, s)
    BY <2>1
  <2>3. up /\ up' /\ UNCHANGED <<spool, taken, lost>>
    BY <1>5 DEF Ship
  <2>4. shipped'[y] > 0 /\ \A s \in Spans : shipped[s] > 0 => shipped'[s] > 0
    BY <2>2 DEF Sane, TypeInv
  <2>5. ASSUME NEW s \in Spans, Here(s) PROVE Here(s)' \/ shipped'[s] > 0
    <3>1. CASE \E th \in Threads, i \in Nat : Holds(th, i, s)
      BY <2>1, <2>3, <3>1 DEF SameHeld, Here
    <3>2. ASSUME NEW u \in Tenants, NEW i \in Nat, Waits(u, i, s) PROVE Here(s)' \/ s = y
      <4>1. CASE u # t
        BY <2>2, <2>3, <3>2, <4>1 DEF Here
      <4>2. CASE u = t /\ i = 1
        BY <2>2, <3>2, <4>2, WaitsFacts
      <4>3. CASE u = t /\ i # 1
        <5>1. i - 1 \in Nat /\ i - 1 > 0 /\ i - 1 + 1 = i
          BY <3>2, <4>3, WaitsFacts
        <5>2. Waits(u, i - 1, s)'
          BY <2>2, <3>2, <4>3, <5>1
        <5> QED BY <2>3, <5>1, <5>2 DEF Here
      <4> QED BY <4>1, <4>2, <4>3
    <3> QED BY <2>4, <2>5, <3>1, <3>2 DEF Here
  <2> QED BY <1>0, <2>1, <2>3, <2>4, <2>5, KeptBy DEF SameFed
<1>6. ASSUME HandlerMove PROVE Kept'
  <2>1. Quiet /\ UNCHANGED <<up, lost, spool, taken, shipped>>
    BY <1>6, HandlerMoveSane
  <2> QED BY <1>0, <2>1, HereQuiet, KeptBy DEF Quiet, SameFed
<1>7. ASSUME ExitMove PROVE Kept'
  <2>1. Quiet /\ UNCHANGED <<up, lost, spool, taken, shipped>>
    BY <1>7, ExitMoveSane DEF ExitLeaves
  <2> QED BY <1>0, <2>1, HereQuiet, KeptBy DEF Quiet, SameFed
<1>8. ASSUME DrainUnshipped, UNCHANGED ExitLeaves PROVE Kept'
  <2>1. /\ UNCHANGED <<spool, lost, up, taken, shipped>> /\ SameFed /\ up
    BY <1>8, DrainUnshippedSane DEF ExitLeaves, DrainUnshipped, At
  <2>2. CASE Quiet
    BY <1>0, <2>1, <2>2, HereQuiet, KeptBy DEF SameFed
  <2>3. ASSUME NEW f \in FrameSet, Replaced(Main, f), f.todo = Queued(router),
               \A s \in Spans : ~Holds(Main, Len(stack[Main]), s)
        PROVE  Kept'
    <3>1. Main \in Threads /\ Len(stack[Main]) \in Nat
      BY <2>3 DEF Replaced, Threads
    <3>2. \A u \in Threads, i \in Nat, s \in Spans : Holds(u, i, s) => Holds(u, i, s)'
      BY <2>3, <3>1, HoldsReplaced
    <3>3. \A s \in Spans : s \in Queued(router) => Here(s)'
      BY <2>1, <2>3, <3>1, HoldsReplaced DEF Here
    <3>4. \A s \in Spans : Here(s) => Here(s)'
      BY <2>1, <3>2, <3>3, QueuedFacts DEF Here
    <3> QED BY <1>0, <2>1, <3>4, KeptBy DEF SameFed
  <2> QED BY <1>8, <2>2, <2>3, DrainUnshippedSane
<1>9. ASSUME PersistToSpool, UNCHANGED ExitLeaves PROVE Kept'
  <2>1. /\ SameFed /\ SameWaits /\ MainMoves("previous")
        /\ \A s \in Spans : Holds(Main, Len(stack[Main]), s) <=> s \in Top(Main).todo
        /\ \E written \in SUBSET Top(Main).todo, torn \in BOOLEAN :
              /\ spool' = spool \cup {[id |-> life, spans |-> written, torn |-> torn]}
              /\ [id |-> life, spans |-> written, torn |-> torn] \in SpoolFile
              /\ Lose(IF torn THEN Top(Main).todo ELSE Top(Main).todo \ written, "write error")
    BY <1>9, PersistToSpoolSane
  <2>2. up /\ UNCHANGED <<up, taken, shipped>>
    BY <1>9 DEF ExitLeaves, PersistToSpool, At
  <2>3. PICK written \in SUBSET Top(Main).todo, torn \in BOOLEAN :
              /\ spool' = spool \cup {[id |-> life, spans |-> written, torn |-> torn]}
              /\ Lose(IF torn THEN Top(Main).todo ELSE Top(Main).todo \ written, "write error")
    BY <2>1
  <2>4. PICK f \in FrameSet : Replaced(Main, f)
    BY <2>1 DEF MainMoves
  <2> DEFINE g == [id |-> life, spans |-> written, torn |-> torn]
  <2>5. \A s \in Spans : /\ lost[s] # {} => lost'[s] # {}
                         /\ s \in Top(Main).todo => (g \in spool' /\ ~g.torn /\ s \in g.spans) \/ lost'[s] # {}
    <3> DEFINE S == IF torn THEN Top(Main).todo ELSE Top(Main).todo \ written
    <3>1. \A s \in Spans : (lost[s] # {} => lost'[s] # {}) /\ (s \in S => lost'[s] # {})
      <4>1. Lose(S, "write error")
        BY <2>3
      <4> HIDE DEF S
      <4> QED BY <4>1, LoseGrows
    <3>2. g \in spool' /\ g.torn = torn /\ g.spans = written
      BY <2>3
    <3>3. \A s \in Top(Main).todo : s \in S \/ (~torn /\ s \in written)
      OBVIOUS
    <3> HIDE DEF S, g
    <3> QED BY <3>1, <3>2, <3>3
  <2>6. \A u \in Threads, i \in Nat, s \in Spans : Holds(u, i, s) => Holds(u, i, s)' \/ s \in Top(Main).todo
    BY <2>1, <2>4, HoldsReplaced DEF Threads
  <2>7. \A s \in Spans : Here(s) => Here(s)' \/ s \in Top(Main).todo
    BY <2>1, <2>2, <2>6 DEF Here, SameWaits
  <2>8. g.id = life /\ spool \subseteq spool'
    BY <2>3
  <2>9. \A s \in Spans : Here(s) => \/ Here(s)' \/ lost'[s] # {}
                                    \/ \E h \in spool' : h.id = life /\ ~h.torn /\ s \in h.spans
    BY <2>5, <2>7, <2>8
  <2> QED BY <1>0, <2>1, <2>2, <2>5, <2>8, <2>9, KeptBy DEF SameFed
<1>10. ASSUME SpoolDirFails PROVE Kept'
  <2>1. /\ SameWaits /\ \A f \in SpoolFile : ~Fed(f)'
        /\ \A u \in Threads, i \in Nat, s \in Spans : Holds(u, i, s)' <=> u # Main /\ Holds(u, i, s)
    BY <1>10, SpoolDirFailsSane
  <2>2. up /\ UNCHANGED <<up, spool, taken, shipped>> /\ Lose(HeldBy(Main), "write error")
    BY <1>10 DEF SpoolDirFails, At
  <2>3. \A i \in Nat, s \in Spans : Holds(Main, i, s) => lost'[s] # {}
    BY <2>2, HeldByFacts, LoseGrows DEF Threads
  <2>4. \A s \in Spans : Here(s) => Here(s)' \/ lost'[s] # {}
    BY <2>1, <2>2, <2>3 DEF Here, SameWaits
  <2>5. \A s \in Spans : lost[s] # {} => lost'[s] # {}
    BY <2>2, LoseGrows
  <2> QED BY <1>0, <2>1, <2>2, <2>4, <2>5, KeptBy
<1>11. ASSUME NEW why, up, Gone(why) PROVE Kept'
  <2>1. /\ UNCHANGED <<spool, taken, shipped>> /\ Lose(InMemory, "memory")
    BY <1>11 DEF Gone
  <2>2. \A s \in Spans : Here(s) => lost'[s] # {}
    BY <2>1, InMemoryFacts, LoseGrows DEF Here
  <2>3. \A s \in Spans : lost[s] # {} => lost'[s] # {}
    BY <2>1, LoseGrows
  <2>4. \A f \in SpoolFile : ~Fed(f)'
    BY <1>11, GoneSane
  <2> QED BY <1>0, <2>1, <2>2, <2>3, <2>4, KeptBy
<1>12. ASSUME up, Unwinds PROVE Kept'
  <2>1. /\ SameWaits /\ \A f \in SpoolFile : ~Fed(f)'
        /\ \A u \in Threads, i \in Nat, s \in Spans : Holds(u, i, s)' <=> u # Main /\ Holds(u, i, s)
    BY <1>12, UnwindsSane
  <2>2. up /\ UNCHANGED <<up, spool, taken, shipped>> /\ Lose(HeldBy(Main), "memory")
    BY <1>12 DEF Unwinds
  <2>3. \A i \in Nat, s \in Spans : Holds(Main, i, s) => lost'[s] # {}
    BY <2>2, HeldByFacts, LoseGrows DEF Threads
  <2>4. \A s \in Spans : Here(s) => Here(s)' \/ lost'[s] # {}
    BY <2>1, <2>2, <2>3 DEF Here, SameWaits
  <2>5. \A s \in Spans : lost[s] # {} => lost'[s] # {}
    BY <2>2, LoseGrows
  <2> QED BY <1>0, <2>1, <2>2, <2>4, <2>5, KeptBy
<1>13. ASSUME Start PROVE Kept'
  <2>1. ~up /\ UNCHANGED <<spool, taken, shipped, lost>>
    BY <1>13 DEF Start
  <2>2. \A s \in Spans : ~Here(s)
    BY <2>1 DEF Here
  <2>3. \A f \in SpoolFile : ~Fed(f)'
    BY <1>13, StartSane
  <2> QED BY <1>0, <2>1, <2>2, <2>3, KeptBy
<1>14. ASSUME ReadFile, UNCHANGED ReplayLeaves PROVE Kept'
  <2>1. /\ SameWaits /\ UNCHANGED <<spool, up, taken, shipped, lost>> /\ up
        /\ \A g \in SpoolFile : ~Fed(g)
    BY <1>14, ReadFileSane DEF ReplayLeaves, ReadFile, At
  <2>2. CASE Quiet
    BY <1>0, <2>1, <2>2, HereQuiet, KeptBy DEF Quiet, SameFed
  <2>3. ASSUME NEW f \in spool, \A g \in SpoolFile : Fed(g)' <=> g = f,
               \A u \in Threads, i \in Nat, s \in Spans :
                 Holds(u, i, s)' <=> Holds(u, i, s) \/ (u = Main /\ i = 1 /\ s \in f.spans)
        PROVE  Kept'
    <3>1. f.spans \subseteq Spans /\ Main \in Threads
      BY DEF Sane, TypeInv, SpoolFile, Threads
    <3>2. \A s \in Spans : Here(s) \/ s \in f.spans => Here(s)'
      BY <2>1, <2>3, <3>1 DEF Here, SameWaits
    <3>3. \A s \in taken' : Safe(s, {})'
      BY <2>1, <3>2 DEF Kept, Safe, OnDisk, Sane, TypeInv
    <3>4. \A g \in SpoolFile : Fed(g)' => \A s \in g.spans : Safe(s, {g})'
      BY <2>3, <3>1, <3>2 DEF Safe
    <3> QED BY <3>3, <3>4 DEF Kept
  <2> QED BY <1>14, <2>2, <2>3, ReadFileSane
<1>15. ASSUME FeedSpan, UNCHANGED ReplayLeaves PROVE Kept'
  <2>1. /\ SameWaits /\ SameFed /\ UNCHANGED <<spool, up, taken, shipped, lost>> /\ up
    BY <1>15, FeedSpanSane DEF ReplayLeaves, FeedSpan, At
  <2>2. CASE Quiet
    BY <1>0, <2>1, <2>2, HereQuiet, KeptBy DEF Quiet, SameFed
  <2>3. ASSUME NEW x \in Spans,
               \A u \in Threads, i \in Nat, s \in Spans :
                      Holds(u, i, s)' <=> \/ Holds(u, i, s) /\ ~(u = Main /\ i = 1 /\ s = x)
                                          \/ u = Main /\ i = 2 /\ s = x
        PROVE  Kept'
    <3>1. \A s \in Spans : Here(s) => Here(s)'
      BY <2>1, <2>3 DEF Here, SameWaits, Threads
    <3> QED BY <1>0, <2>1, <3>1, KeptBy DEF SameFed
  <2> QED BY <1>15, <2>2, <2>3, FeedSpanSane
<1>16. ASSUME Unlink, UNCHANGED ReplayLeaves PROVE Kept'
  <2>1. /\ SameWaits /\ SameHeld /\ \A g \in SpoolFile : ~Fed(g)'
        /\ UNCHANGED <<up, taken, shipped, lost>>
    BY <1>16, UnlinkSane DEF ReplayLeaves
  <2>2. PICK f \in spool : Fed(f) /\ f \in SpoolFile /\ (spool' = spool \ {f} \/ UNCHANGED spool)
    BY <1>16, UnlinkSane
  <2>3. \A s \in Spans : Here(s) => Here(s)'
    BY <2>1 DEF Here, SameHeld, SameWaits
  <2>4. ASSUME NEW s \in taken' PROVE Safe(s, {})'
    <3>1. s \in Spans /\ s \in taken
      BY <2>1 DEF Sane, TypeInv
    <3>2. Safe(s, {f})
      BY <2>2, <3>1 DEF Kept, Safe, OnDisk
    <3> QED BY <2>1, <2>2, <2>3, <3>1, <3>2 DEF Safe, OnDisk
  <2> QED BY <2>1, <2>4 DEF Kept
<1> QED BY StepCases, <1>1, <1>2, <1>3, <1>4, <1>5, <1>6, <1>7, <1>8, <1>9, <1>10, <1>11,
           <1>12, <1>13, <1>14, <1>15, <1>16 DEF Kill

LEMMA KeptKeeps ==
  ASSUME Sane, Kept
  PROVE  SpansKept
<1> SUFFICES ASSUME NEW s \in taken
             PROVE  \/ up /\ s \in InMemory
                    \/ s \in Replayable
                    \/ shipped[s] > 0 \/ lost[s] # {}
  BY DEF SpansKept
<1>1. s \in Spans /\ Safe(s, {})
  BY DEF Kept, Sane, TypeInv
<1>2. Here(s) => up /\ s \in InMemory
  BY <1>1, InMemoryFacts DEF Here
<1>3. OnDisk(s, {}) => s \in Replayable
  BY DEF OnDisk, Replayable
<1> QED BY <1>1, <1>2, <1>3 DEF Safe

(* Every span handed over is in memory, or in a spool file that can be       *)
(* replayed, or shipped, or lost for a cause the code accepts, whatever the  *)
(* threads, the signals and the crashes.                                     *)
THEOREM KeepsSpans == Spec => []SpansKept
<1>1. Init => Kept
  <2> SUFFICES ASSUME Init PROVE Kept
    OBVIOUS
  <2>1. \A f \in SpoolFile : ~Fed(f)
    <3>1. ~(Len(stack[Main]) > 0)
      BY DEF Init, Threads
    <3> QED BY <3>1 DEF Fed
  <2>2. taken = {}
    BY DEF Init
  <2> QED BY <2>1, <2>2 DEF Kept
<1>2. Sane /\ Kept /\ [Next]_vars => Kept'
  <2>1. ASSUME Kept, UNCHANGED vars PROVE Kept'
    BY <2>1 DEF Kept, Safe, Here, OnDisk, Waits, Holds, Fed, vars, processVars
  <2> QED BY <2>1, KeptStep
<1>3. Sane /\ Kept => SpansKept
  BY KeptKeeps
<1> QED BY <1>1, <1>2, <1>3, SaneInvariant, PTL DEF Spec

-----------------------------------------------------------------------------
(* ShipsOnce: a span is in one place                                         *)

Unqueued(s)  == up => \A t \in Tenants, i \in Nat : ~Waits(t, i, s)
Unheld(s)    == \A th \in Threads, i \in Nat : ~Holds(th, i, s)
Unspooled(s) == \A f \in spool : f.torn \/ s \notin f.spans \/ Fed(f)

QueuedOnce(s) ==
  up => \A t, u \in Tenants, i, j \in Nat : Waits(t, i, s) /\ Waits(u, j, s) => t = u /\ i = j
HeldOnce(s) ==
  \A th, u \in Threads, i, j \in Nat : Holds(th, i, s) /\ Holds(u, j, s) => th = u /\ i = j
SpooledOnce(s) ==
  \A f, g \in spool :
    ~f.torn /\ s \in f.spans /\ ~Fed(f) /\ ~g.torn /\ s \in g.spans /\ ~Fed(g) => f = g

\* At most one copy: in a queue, in a frame, in a file, or shipped.
OneCopy(s) ==
  /\ QueuedOnce(s) /\ HeldOnce(s) /\ SpooledOnce(s) /\ shipped[s] <= 1
  /\ Unqueued(s) \/ (Unheld(s) /\ Unspooled(s) /\ shipped[s] = 0)
  /\ Unheld(s) \/ (Unspooled(s) /\ shipped[s] = 0)
  /\ Unspooled(s) \/ shipped[s] = 0

Fresh(s) ==
  Unqueued(s) /\ Unheld(s) /\ shipped[s] = 0 /\ \A f \in spool : s \notin f.spans

Once ==
  /\ \A s \in Spans \ again : OneCopy(s)
  /\ \A s \in Spans \ taken : Fresh(s)

(* What a step does to the queues.                                           *)
QueuesKeep(s) == (Unqueued(s) => Unqueued(s)') /\ (QueuedOnce(s) => QueuedOnce(s)')

LEMMA QueuesSame ==
  ASSUME SameWaits, up' => up
  PROVE  \A s \in Spans : QueuesKeep(s)
BY DEF SameWaits, QueuesKeep, Unqueued, QueuedOnce

LEMMA QueuesJoin ==
  ASSUME up, UNCHANGED up, NEW t \in Tenants, NEW x \in Spans, NEW gone \in BOOLEAN, Joins(t, x, gone)
  PROVE  /\ \A s \in Spans \ {x} : QueuesKeep(s)
         /\ Unqueued(x) => QueuedOnce(x)'
<1> DEFINE k == IF gone THEN 1 ELSE 0
<1>1. PICK n \in Nat \ {0} :
         \A u \in Tenants, i \in Nat, s \in Spans :
         Waits(u, i, s)' <=>
           \/ u # t /\ Waits(u, i, s)
           \/ u = t /\ i = n /\ s = x
           \/ u = t /\ i > 0 /\ Waits(t, i + k, s)
  BY DEF Joins
<1>2. k \in Nat /\ \A i \in Nat : i + k \in Nat
  OBVIOUS
<1> HIDE DEF k
<1>3. ASSUME NEW s \in Spans \ {x}, Unqueued(s) PROVE Unqueued(s)'
  BY <1>1, <1>2, <1>3 DEF Unqueued
<1>4. ASSUME NEW s \in Spans \ {x}, QueuedOnce(s) PROVE QueuedOnce(s)'
  <2>1. SUFFICES ASSUME NEW u \in Tenants, NEW v \in Tenants, NEW i \in Nat, NEW j \in Nat,
                        Waits(u, i, s)', Waits(v, j, s)'
                 PROVE  u = v /\ i = j
    BY DEF QueuedOnce
  <2>2. (u # t /\ Waits(u, i, s)) \/ (u = t /\ Waits(t, i + k, s))
    BY <1>1, <2>1
  <2>3. (v # t /\ Waits(v, j, s)) \/ (v = t /\ Waits(t, j + k, s))
    BY <1>1, <2>1
  <2>4. \A w, z \in Tenants, a, b \in Nat : Waits(w, a, s) /\ Waits(z, b, s) => w = z /\ a = b
    BY <1>4 DEF QueuedOnce
  <2>5. i + k \in Nat /\ j + k \in Nat /\ (i + k = j + k => i = j)
    BY <1>2
  <2> QED BY <2>2, <2>3, <2>4, <2>5
<1>5. ASSUME Unqueued(x) PROVE QueuedOnce(x)'
  BY <1>1, <1>2, <1>5 DEF QueuedOnce, Unqueued
<1> QED BY <1>3, <1>4, <1>5 DEF QueuesKeep

LEMMA QueuesShip ==
  ASSUME up, UNCHANGED up, NEW t \in Tenants, NEW y \in Spans, Waits(t, 1, y),
         \A u \in Tenants, i \in Nat, s \in Spans :
           Waits(u, i, s)' <=> IF u = t THEN i > 0 /\ Waits(t, i + 1, s) ELSE Waits(u, i, s)
  PROVE  /\ \A s \in Spans : QueuesKeep(s)
         /\ QueuedOnce(y) => Unqueued(y)'
<1>1. ASSUME NEW s \in Spans, Unqueued(s) PROVE Unqueued(s)'
  BY <1>1 DEF Unqueued
<1>2. ASSUME NEW s \in Spans, QueuedOnce(s) PROVE QueuedOnce(s)'
  <2>1. SUFFICES ASSUME NEW u \in Tenants, NEW v \in Tenants, NEW i \in Nat, NEW j \in Nat,
                        Waits(u, i, s)', Waits(v, j, s)'
                 PROVE  u = v /\ i = j
    BY DEF QueuedOnce
  <2>2. (u # t /\ Waits(u, i, s)) \/ (u = t /\ Waits(t, i + 1, s))
    BY <2>1
  <2>3. (v # t /\ Waits(v, j, s)) \/ (v = t /\ Waits(t, j + 1, s))
    BY <2>1
  <2>4. \A w, z \in Tenants, a, b \in Nat : Waits(w, a, s) /\ Waits(z, b, s) => w = z /\ a = b
    BY <1>2 DEF QueuedOnce
  <2>5. i + 1 \in Nat /\ j + 1 \in Nat /\ (i + 1 = j + 1 => i = j)
    OBVIOUS
  <2> QED BY <2>2, <2>3, <2>4, <2>5
<1>3. ASSUME QueuedOnce(y), NEW u \in Tenants, NEW i \in Nat, Waits(u, i, y)' PROVE FALSE
  <2>1. \A w, z \in Tenants, a, b \in Nat : Waits(w, a, y) /\ Waits(z, b, y) => w = z /\ a = b
    BY <1>3 DEF QueuedOnce
  <2>2. i + 1 \in Nat
    OBVIOUS
  <2> QED BY <1>3, <2>1, <2>2
<1> QED BY <1>1, <1>2, <1>3 DEF QueuesKeep, Unqueued

(* What a step does to the frames.                                           *)
FramesKeep(s) == (Unheld(s) => Unheld(s)') /\ (HeldOnce(s) => HeldOnce(s)')

LEMMA FramesLess ==
  ASSUME \A u \in Threads, i \in Nat, s \in Spans : Holds(u, i, s)' => Holds(u, i, s)
  PROVE  \A s \in Spans : FramesKeep(s)
BY DEF FramesKeep, Unheld, HeldOnce

LEMMA FrameGone ==
  ASSUME NEW th \in Threads, NEW n \in Nat, NEW S \in SUBSET Spans,
         \A s \in Spans : Holds(th, n, s) <=> s \in S,
         \A u \in Threads, i \in Nat, s \in Spans :
           Holds(u, i, s)' <=> Holds(u, i, s) /\ ~(u = th /\ i = n)
  PROVE  /\ \A s \in Spans : FramesKeep(s)
         /\ \A s \in S : HeldOnce(s) => Unheld(s)'
<1>1. \A s \in Spans : FramesKeep(s)
  BY FramesLess
<1> QED BY <1>1 DEF Unheld, HeldOnce

LEMMA FrameNew ==
  ASSUME NEW th \in Threads, NEW n \in Nat, NEW S \in SUBSET Spans,
         \A u \in Threads, i \in Nat, s \in Spans :
           Holds(u, i, s)' <=> Holds(u, i, s) \/ (u = th /\ i = n /\ s \in S)
  PROVE  /\ \A s \in Spans \ S : FramesKeep(s)
         /\ \A s \in S : Unheld(s) => HeldOnce(s)'
BY DEF FramesKeep, Unheld, HeldOnce

LEMMA FrameMoves ==
  ASSUME NEW x \in Spans, Holds(Main, 1, x), \A s \in Spans : ~Holds(Main, 2, s),
         \A u \in Threads, i \in Nat, s \in Spans :
           Holds(u, i, s)' <=> \/ Holds(u, i, s) /\ ~(u = Main /\ i = 1 /\ s = x)
                               \/ u = Main /\ i = 2 /\ s = x
  PROVE  \A s \in Spans : FramesKeep(s)
<1>0. Main \in Threads
  BY DEF Threads
<1>1. ASSUME NEW s \in Spans, s # x PROVE FramesKeep(s)
  BY <1>1 DEF FramesKeep, Unheld, HeldOnce
<1>2. FramesKeep(x)
  <2>1. ~Unheld(x)
    BY <1>0 DEF Unheld
  <2>2. ASSUME HeldOnce(x) PROVE HeldOnce(x)'
    <3>1. \A u \in Threads, i \in Nat : Holds(u, i, x) => u = Main /\ i = 1
      BY <1>0, <2>2 DEF HeldOnce
    <3>2. \A u \in Threads, i \in Nat : Holds(u, i, x)' => u = Main /\ i = 2
      BY <3>1
    <3> QED BY <3>2 DEF HeldOnce
  <2> QED BY <2>1, <2>2 DEF FramesKeep
<1> QED BY <1>1, <1>2

(* What a step does to the spool.                                            *)
SpoolKeeps(s) == (Unspooled(s) => Unspooled(s)') /\ (SpooledOnce(s) => SpooledOnce(s)')

LEMMA SpoolLess ==
  ASSUME spool' \subseteq spool, NEW s \in Spans,
         \A f \in spool' : Fed(f) => Fed(f)' \/ s \notin f.spans
  PROVE  SpoolKeeps(s)
BY DEF SpoolKeeps, Unspooled, SpooledOnce

LEMMA SpoolSame ==
  ASSUME Sane, UNCHANGED spool, SameFed
  PROVE  \A s \in Spans : SpoolKeeps(s)
BY SpoolLess DEF SameFed, Sane, TypeInv

LEMMA SpoolMore ==
  ASSUME Sane, SameFed, NEW g \in SpoolFile, spool' = spool \cup {g}, NEW s \in Spans
  PROVE  /\ g.torn \/ s \notin g.spans => SpoolKeeps(s)
         /\ Unspooled(s) => SpooledOnce(s)'
<1>1. \A f \in spool : f \in SpoolFile /\ (Fed(f)' <=> Fed(f))
  BY DEF SameFed, Sane, TypeInv
<1> QED BY <1>1 DEF SpoolKeeps, Unspooled, SpooledOnce

(* From the parts to Once.                                                   *)
LEMMA FreshFacts ==
  ASSUME NEW s \in Spans, Fresh(s)
  PROVE  OneCopy(s)
BY DEF Fresh, OneCopy, Unqueued, Unheld, Unspooled, QueuedOnce, HeldOnce, SpooledOnce

LEMMA OneCopyStays ==
  ASSUME NEW s \in Spans, OneCopy(s), QueuesKeep(s), FramesKeep(s), SpoolKeeps(s),
         shipped'[s] = shipped[s]
  PROVE  OneCopy(s)'
BY DEF OneCopy, QueuesKeep, FramesKeep, SpoolKeeps

\* A span that has been handed over, or else it is nowhere.
LEMMA OnceTaken ==
  ASSUME Once, NEW s \in Spans,
         ~Unqueued(s) \/ ~Unheld(s) \/ \E f \in spool : s \in f.spans
  PROVE  s \in taken
BY DEF Once, Fresh

LEMMA OnceBut ==
  ASSUME Once, taken \subseteq taken', again \subseteq again', NEW X \in SUBSET Spans,
         \A s \in Spans \ X : QueuesKeep(s) /\ FramesKeep(s) /\ shipped'[s] = shipped[s],
         \A s \in Spans \ X : s \notin again' => SpoolKeeps(s),
         \A f \in spool' : f \in spool \/ f.spans \subseteq X,
         X \subseteq taken', \A s \in X : s \notin again' => OneCopy(s)'
  PROVE  Once'
<1>1. ASSUME NEW s \in Spans \ again' PROVE OneCopy(s)'
  <2>1. CASE s \in X
    BY <2>1
  <2>2. CASE s \notin X
    BY <2>2, OneCopyStays DEF Once
  <2> QED BY <2>1, <2>2
<1>2. ASSUME NEW s \in Spans \ taken' PROVE Fresh(s)'
  <2>1. s \notin X /\ Fresh(s)
    BY DEF Once
  <2>2. Unqueued(s)' /\ Unheld(s)' /\ shipped'[s] = 0
    BY <2>1 DEF Fresh, QueuesKeep, FramesKeep
  <2>3. \A f \in spool' : s \notin f.spans
    BY <2>1 DEF Fresh
  <2> QED BY <2>2, <2>3 DEF Fresh
<1> QED BY <1>1, <1>2 DEF Once

LEMMA OnceLess ==
  ASSUME Sane, Once, UNCHANGED <<taken, shipped>>, again \subseteq again', spool' \subseteq spool,
         \A s \in Spans : QueuesKeep(s) /\ FramesKeep(s),
         \A s \in Spans : s \notin again' => SpoolKeeps(s)
  PROVE  Once'
<1>1. taken \subseteq taken' /\ {} \in SUBSET Spans /\ {} \subseteq taken'
  BY DEF Sane, TypeInv
<1> QED BY <1>1, OnceBut

LEMMA OnceQuiet ==
  ASSUME Sane, Once, Quiet, UNCHANGED <<up, taken, shipped, again, spool>>
  PROVE  Once'
<1>1. \A s \in Spans : QueuesKeep(s)
  BY QueuesSame DEF Quiet
<1>2. \A s \in Spans : FramesKeep(s)
  BY FramesLess DEF Quiet, SameHeld
<1>3. \A s \in Spans : SpoolKeeps(s)
  BY SpoolSame DEF Quiet
<1> QED BY <1>1, <1>2, <1>3, OnceLess

\* The main thread drops its frames: what it was feeding may be fed again.
LEMMA OnceDrop ==
  ASSUME Sane, Once, SameWaits, UNCHANGED <<up, taken, shipped, spool>>,
         again' = again \cup BeingFed,
         \A u \in Threads, i \in Nat, s \in Spans : Holds(u, i, s)' <=> u # Main /\ Holds(u, i, s)
  PROVE  Once'
<1>1. \A s \in Spans : QueuesKeep(s)
  BY QueuesSame
<1>2. \A s \in Spans : FramesKeep(s)
  BY FramesLess
<1>3. \A s \in Spans : s \notin again' => SpoolKeeps(s)
  <2>1. ASSUME NEW s \in Spans, s \notin again', NEW f \in spool', Fed(f) PROVE s \notin f.spans
    BY <2>1, FedFacts
  <2> QED BY <2>1, SpoolLess
<1> QED BY <1>1, <1>2, <1>3, OnceLess

LEMMA OncePut ==
  ASSUME Sane, Once, NEW th \in Threads, Put(th), UNCHANGED ExportLeaves
  PROVE  Once'
<1>1. PICK t \in Tenants, x \in Spans :
        /\ Leaves(th, x)
        /\ \/ Joins(t, x, FALSE) \/ SameWaits
           \/ \E y \in Spans : Waits(t, 1, y) /\ Joins(t, x, TRUE)
  BY PutSane
<1>2. up /\ UNCHANGED <<up, spool, taken, shipped, again>> /\ SameFed
  BY <1>1 DEF Put, At, ExportLeaves, Leaves
<1>3. /\ ~Unheld(x) /\ \A s \in Spans : FramesKeep(s)
      /\ HeldOnce(x) => Unheld(x)'
  <2>1. PICK n \in Nat \ {0} :
          /\ \A s \in Spans : Holds(th, n, s) <=> s = x
          /\ \A u \in Threads, i \in Nat, s \in Spans :
               Holds(u, i, s)' <=> Holds(u, i, s) /\ ~(u = th /\ i = n)
    BY <1>1 DEF Leaves
  <2>2. \A s \in Spans : Holds(th, n, s) <=> s \in {x}
    BY <2>1
  <2>3. {x} \in SUBSET Spans /\ x \in {x}
    OBVIOUS
  <2>4. ~Unheld(x)
    BY <2>1 DEF Unheld
  <2> QED BY <2>1, <2>2, <2>3, <2>4, FrameGone
<1>4. \A s \in Spans : SpoolKeeps(s)
  BY <1>2, SpoolSame
<1>5. CASE SameWaits
  <2>1. \A s \in Spans : QueuesKeep(s)
    BY <1>2, <1>5, QueuesSame
  <2> QED BY <1>2, <1>3, <1>4, <2>1, OnceLess
<1>6. ASSUME NEW gone \in BOOLEAN, Joins(t, x, gone) PROVE Once'
  <2>1. /\ \A s \in Spans \ {x} : QueuesKeep(s)
        /\ Unqueued(x) => QueuedOnce(x)'
    BY <1>2, <1>6, QueuesJoin
  <2>2. ASSUME x \notin again' PROVE OneCopy(x)'
    <3>1. OneCopy(x) /\ Unqueued(x) /\ Unspooled(x) /\ shipped[x] = 0
      BY <1>2, <1>3, <2>2 DEF Once, OneCopy
    <3>2. QueuedOnce(x)' /\ HeldOnce(x)' /\ Unheld(x)'
      BY <1>3, <2>1, <3>1 DEF OneCopy, FramesKeep
    <3>3. Unspooled(x)' /\ SpooledOnce(x)' /\ shipped'[x] = 0
      BY <1>2, <1>4, <3>1 DEF OneCopy, SpoolKeeps
    <3> QED BY <3>2, <3>3 DEF OneCopy
  <2>3. {x} \in SUBSET Spans /\ {x} \subseteq taken'
    BY <1>2, <1>3, OnceTaken
  <2>4. \A s \in Spans \ {x} : QueuesKeep(s) /\ FramesKeep(s) /\ shipped'[s] = shipped[s]
    BY <1>2, <1>3, <2>1
  <2>5. taken \subseteq taken' /\ again \subseteq again' /\ spool' = spool
    BY <1>2
  <2> QED BY <1>4, <2>2, <2>3, <2>4, <2>5, OnceBut
<1> QED BY <1>1, <1>5, <1>6

LEMMA OnceShip ==
  ASSUME Sane, Once, NEW t \in Tenants, Ship(t)
  PROVE  Once'
<1>1. SameHeld /\ SameFed
  BY ShipSane
<1>2. PICK y \in Spans :
        /\ Waits(t, 1, y) /\ shipped' = [shipped EXCEPT ![y] = @ + 1]
        /\ \A u \in Tenants, i \in Nat, s \in Spans :
             Waits(u, i, s)' <=> IF u = t THEN i > 0 /\ Waits(t, i + 1, s) ELSE Waits(u, i, s)
  BY ShipSane
<1>3. up /\ UNCHANGED <<up, spool, taken, again>>
  BY DEF Ship
<1>4. ~Unqueued(y) /\ \A s \in Spans : QueuesKeep(s) /\ (QueuedOnce(y) => Unqueued(y)')
  BY <1>2, <1>3, QueuesShip DEF Unqueued
<1>5. \A s \in Spans : FramesKeep(s)
  BY <1>1, FramesLess DEF SameHeld
<1>6. \A s \in Spans : SpoolKeeps(s)
  BY <1>1, <1>3, SpoolSame
<1>7. ASSUME y \notin again' PROVE OneCopy(y)'
  <2>1. OneCopy(y) /\ Unheld(y) /\ Unspooled(y) /\ shipped[y] = 0
    BY <1>3, <1>4, <1>7 DEF Once, OneCopy
  <2>2. shipped'[y] = 1
    BY <1>2, <2>1 DEF Sane, TypeInv
  <2>3. QueuedOnce(y)' /\ Unqueued(y)' /\ HeldOnce(y)' /\ Unheld(y)' /\ SpooledOnce(y)' /\ Unspooled(y)'
    BY <1>4, <1>5, <1>6, <2>1 DEF OneCopy, QueuesKeep, FramesKeep, SpoolKeeps
  <2> QED BY <2>2, <2>3 DEF OneCopy
<1>8. {y} \in SUBSET Spans /\ {y} \subseteq taken'
  BY <1>3, <1>4, OnceTaken
<1>9. \A s \in Spans \ {y} : QueuesKeep(s) /\ FramesKeep(s) /\ shipped'[s] = shipped[s]
  BY <1>2, <1>4, <1>5 DEF Sane, TypeInv
<1>10. taken \subseteq taken' /\ again \subseteq again' /\ spool' = spool
  BY <1>3
<1> QED BY <1>6, <1>7, <1>8, <1>9, <1>10, OnceBut

LEMMA OnceDrain ==
  ASSUME Sane, Once, DrainUnshipped, UNCHANGED ExitLeaves
  PROVE  Once'
<1>1. UNCHANGED <<spool, up, taken, shipped, again>> /\ SameFed
  BY DrainUnshippedSane DEF ExitLeaves
<1>2. CASE Quiet
  BY <1>1, <1>2, OnceQuiet
<1>3. ASSUME \A t \in Tenants, i \in Nat, s \in Spans : ~Waits(t, i, s)',
             NEW f \in FrameSet, Replaced(Main, f), f.span = NoSpan, f.todo = Queued(router),
             \A s \in Spans : ~Holds(Main, Len(stack[Main]), s)
      PROVE  Once'
  <2> DEFINE X == Queued(router)
  <2>1. X \in SUBSET Spans /\ \A s \in X : up => ~Unqueued(s)
    BY QueuedFacts DEF Unqueued
  <2>2. up
    BY DEF DrainUnshipped, At
  <2>3. Main \in Threads /\ Len(stack[Main]) \in Nat /\ NoSpan \notin Spans
    BY <1>3, ExitAssumption DEF Threads, Replaced
  <2>4. \A u \in Threads, i \in Nat, s \in Spans :
          Holds(u, i, s)' <=> Holds(u, i, s) \/ (u = Main /\ i = Len(stack[Main]) /\ s \in X)
    BY <1>3, <2>3, HoldsReplaced
  <2> HIDE DEF X
  <2>5. /\ \A s \in Spans \ X : FramesKeep(s)
        /\ \A s \in X : Unheld(s) => HeldOnce(s)'
    BY <2>1, <2>3, <2>4, FrameNew
  <2>6. \A s \in Spans : Unqueued(s)' /\ QueuedOnce(s)'
    BY <1>3 DEF Unqueued, QueuedOnce
  <2>7. \A s \in Spans : SpoolKeeps(s)
    BY <1>1, SpoolSame
  <2>8. ASSUME NEW s \in X, s \notin again' PROVE OneCopy(s)'
    <3>1. s \in Spans /\ OneCopy(s) /\ Unheld(s) /\ Unspooled(s) /\ shipped[s] = 0
      BY <1>1, <2>1, <2>2, <2>8 DEF Once, OneCopy
    <3>2. QueuedOnce(s)' /\ Unqueued(s)' /\ HeldOnce(s)'
      BY <2>5, <2>6, <3>1
    <3>3. SpooledOnce(s)' /\ Unspooled(s)' /\ shipped'[s] = 0
      BY <1>1, <2>7, <3>1 DEF OneCopy, SpoolKeeps
    <3> QED BY <3>2, <3>3 DEF OneCopy
  <2>9. X \subseteq taken'
    BY <1>1, <2>1, <2>2, OnceTaken
  <2>10. \A s \in Spans \ X : QueuesKeep(s) /\ FramesKeep(s) /\ shipped'[s] = shipped[s]
    BY <1>1, <2>5, <2>6 DEF QueuesKeep
  <2>11. taken \subseteq taken' /\ again \subseteq again' /\ spool' = spool
    BY <1>1
  <2> QED BY <2>1, <2>7, <2>8, <2>9, <2>10, <2>11, OnceBut
<1> QED BY <1>2, <1>3, DrainUnshippedSane

LEMMA OncePersist ==
  ASSUME Sane, Once, PersistToSpool, UNCHANGED ExitLeaves
  PROVE  Once'
<1> DEFINE X == Top(Main).todo
<1>1. /\ SameFed /\ SameWaits /\ MainMoves("previous") /\ Sane'
      /\ \A s \in Spans : Holds(Main, Len(stack[Main]), s) <=> s \in X
  BY PersistToSpoolSane
<1>2. PICK written \in SUBSET X, torn \in BOOLEAN :
        /\ spool' = spool \cup {[id |-> life, spans |-> written, torn |-> torn]}
        /\ [id |-> life, spans |-> written, torn |-> torn] \in SpoolFile
  BY PersistToSpoolSane
<1>3. up /\ UNCHANGED <<up, taken, shipped, again>>
  BY DEF ExitLeaves, PersistToSpool, At
<1>4. PICK f \in FrameSet : Replaced(Main, f) /\ f.pc = "previous" /\ f.todo = {}
  BY <1>1 DEF MainMoves
<1>5. /\ Main \in Threads /\ Len(stack[Main]) \in Nat
      /\ Len(stack[Main]) \in 1..Len(stack'[Main]) /\ stack'[Main][Len(stack[Main])] = f
  BY <1>4 DEF Replaced, Threads
<1>6. f.span \notin Spans
  BY <1>1, <1>4, <1>5, ExitAssumption
     DEF Sane, Shape, Exiting, Replaying, Exporting, ExportPCs, ReplayPCs
<1>7. X \in SUBSET Spans
  <2>1. Top(Main) \in FrameSet
    BY <1>5, TopFacts DEF PersistToSpool, Sane
  <2> QED BY <2>1 DEF FrameSet
<1> DEFINE g == [id |-> life, spans |-> written, torn |-> torn]
<1>8. spool' = spool \cup {g} /\ g \in SpoolFile /\ g.spans \subseteq X
  BY <1>2
<1> HIDE DEF X, g
<1>9. \A u \in Threads, i \in Nat, s \in Spans :
        Holds(u, i, s)' <=> Holds(u, i, s) /\ ~(u = Main /\ i = Len(stack[Main]))
  BY <1>4, <1>5, <1>6, HoldsReplaced
<1>10. /\ \A s \in Spans : FramesKeep(s)
       /\ \A s \in X : HeldOnce(s) => Unheld(s)'
  BY <1>1, <1>5, <1>7, <1>9, FrameGone
<1>11. \A s \in Spans : QueuesKeep(s)
  BY <1>1, <1>3, QueuesSame
<1>12. \A s \in Spans : (s \notin X => SpoolKeeps(s)) /\ (Unspooled(s) => SpooledOnce(s)')
  BY <1>1, <1>8, SpoolMore
<1>13. \A s \in X : s \in Spans /\ ~Unheld(s)
  BY <1>1, <1>5, <1>7 DEF Unheld
<1>14. ASSUME NEW s \in X, s \notin again' PROVE OneCopy(s)'
  <2>1. OneCopy(s) /\ Unqueued(s) /\ Unspooled(s) /\ shipped[s] = 0
    BY <1>3, <1>13, <1>14 DEF Once, OneCopy
  <2>2. QueuedOnce(s)' /\ Unqueued(s)' /\ HeldOnce(s)' /\ Unheld(s)'
    BY <1>10, <1>11, <1>13, <2>1 DEF OneCopy, QueuesKeep, FramesKeep
  <2>3. SpooledOnce(s)' /\ shipped'[s] = 0
    BY <1>3, <1>12, <1>13, <2>1
  <2> QED BY <2>2, <2>3 DEF OneCopy
<1>15. X \subseteq taken'
  BY <1>3, <1>13, OnceTaken
<1>16. \A s \in Spans \ X : QueuesKeep(s) /\ FramesKeep(s) /\ shipped'[s] = shipped[s]
  BY <1>3, <1>10, <1>11
<1>17. taken \subseteq taken' /\ again \subseteq again'
  BY <1>3
<1> QED BY <1>7, <1>8, <1>12, <1>14, <1>15, <1>16, <1>17, OnceBut

LEMMA OnceRead ==
  ASSUME Sane, Once, ReadFile, UNCHANGED ReplayLeaves
  PROVE  Once'
<1>1. /\ SameWaits /\ UNCHANGED <<spool, again, up, taken, shipped>>
      /\ \A g \in SpoolFile : ~Fed(g)
  BY ReadFileSane DEF ReplayLeaves
<1>2. CASE Quiet
  BY <1>1, <1>2, OnceQuiet
<1>3. ASSUME NEW f \in spool, ~f.torn, \A g \in SpoolFile : Fed(g)' <=> g = f,
             \A u \in Threads, i \in Nat, s \in Spans :
               Holds(u, i, s)' <=> Holds(u, i, s) \/ (u = Main /\ i = 1 /\ s \in f.spans)
      PROVE  Once'
  <2>1. /\ f \in SpoolFile /\ f.spans \in SUBSET Spans /\ Main \in Threads /\ 1 \in Nat
        /\ \A g \in spool : g \in SpoolFile /\ ~Fed(g) /\ (Fed(g)' <=> g = f)
    BY <1>1, <1>3 DEF Sane, TypeInv, SpoolFile, Threads
  <2>2. /\ \A s \in Spans \ f.spans : FramesKeep(s)
        /\ \A s \in f.spans : Unheld(s) => HeldOnce(s)'
    BY <1>3, <2>1, FrameNew
  <2>3. \A s \in Spans : QueuesKeep(s)
    BY <1>1, QueuesSame
  <2>4. \A s \in Spans : SpoolKeeps(s)
    BY <1>1, <2>1, SpoolLess
  <2>5. ASSUME NEW s \in f.spans, s \notin again' PROVE OneCopy(s)'
    <3>1. s \in Spans /\ OneCopy(s) /\ ~Unspooled(s)
      BY <1>1, <1>3, <2>1, <2>5 DEF Once, Unspooled
    <3>2. Unqueued(s) /\ Unheld(s) /\ shipped[s] = 0
      BY <3>1 DEF OneCopy
    <3>3. QueuedOnce(s)' /\ Unqueued(s)' /\ HeldOnce(s)' /\ SpooledOnce(s)' /\ shipped'[s] = 0
      BY <1>1, <2>2, <2>3, <2>4, <3>1, <3>2 DEF OneCopy, QueuesKeep, SpoolKeeps
    <3>4. Unspooled(s)'
      <4>1. ASSUME NEW g \in spool, ~g.torn, s \in g.spans PROVE g = f
        BY <1>3, <2>1, <2>5, <3>1, <4>1 DEF OneCopy, SpooledOnce
      <4> QED BY <1>1, <2>1, <4>1 DEF Unspooled
    <3> QED BY <3>3, <3>4 DEF OneCopy
  <2>6. f.spans \subseteq taken'
    BY <1>1, <1>3, <2>1, OnceTaken
  <2>7. \A s \in Spans \ f.spans : QueuesKeep(s) /\ FramesKeep(s) /\ shipped'[s] = shipped[s]
    BY <1>1, <2>2, <2>3
  <2>8. taken \subseteq taken' /\ again \subseteq again' /\ spool' = spool
    BY <1>1
  <2> QED BY <2>1, <2>4, <2>5, <2>6, <2>7, <2>8, OnceBut
<1> QED BY <1>2, <1>3, ReadFileSane

LEMMA OnceFeed ==
  ASSUME Sane, Once, FeedSpan, UNCHANGED ReplayLeaves
  PROVE  Once'
<1>1. SameWaits /\ SameFed /\ UNCHANGED <<spool, again, up, taken, shipped>>
  BY FeedSpanSane DEF ReplayLeaves
<1>2. \A s \in Spans : QueuesKeep(s)
  BY <1>1, QueuesSame
<1>3. \A s \in Spans : SpoolKeeps(s)
  BY <1>1, SpoolSame
<1>4. \A s \in Spans : FramesKeep(s)
  <2>1. CASE Quiet
    BY <2>1, FramesLess DEF Quiet, SameHeld
  <2>2. ASSUME NEW x \in Spans, Holds(Main, 1, x), \A s \in Spans : ~Holds(Main, 2, s),
               \A u \in Threads, i \in Nat, s \in Spans :
                 Holds(u, i, s)' <=> \/ Holds(u, i, s) /\ ~(u = Main /\ i = 1 /\ s = x)
                                     \/ u = Main /\ i = 2 /\ s = x
        PROVE  \A s \in Spans : FramesKeep(s)
    BY <2>2, FrameMoves
  <2> QED BY <2>1, <2>2, FeedSpanSane
<1> QED BY <1>1, <1>2, <1>3, <1>4, OnceLess

LEMMA OnceUnlink ==
  ASSUME Sane, Once, Unlink, UNCHANGED ReplayLeaves
  PROVE  Once'
<1>1. SameWaits /\ SameHeld /\ UNCHANGED <<up, taken, shipped>>
  BY UnlinkSane DEF ReplayLeaves
<1>2. PICK f \in spool : /\ Fed(f)
                         /\ \/ spool' = spool \ {f} /\ UNCHANGED again
                            \/ again' = again \cup f.spans /\ UNCHANGED spool
  BY UnlinkSane
<1>3. \A s \in Spans : QueuesKeep(s)
  BY <1>1, QueuesSame
<1>4. \A s \in Spans : FramesKeep(s)
  BY <1>1, FramesLess DEF SameHeld
<1>5. again \subseteq again' /\ spool' \subseteq spool
  BY <1>2
<1>6. \A g \in spool : Fed(g) => g = f
  BY <1>2 DEF Fed
<1>7. ASSUME NEW s \in Spans, s \notin again' PROVE SpoolKeeps(s)
  <2>1. \A g \in spool' : Fed(g) => s \notin g.spans
    BY <1>2, <1>6, <1>7
  <2> QED BY <1>5, <2>1, SpoolLess
<1> QED BY <1>1, <1>3, <1>4, <1>5, <1>7, OnceLess

LEMMA OnceStep ==
  ASSUME Sane, Once, Next
  PROVE  Once'
<1>1. ASSUME NEW th \in Threads, NEW s \in Spans, HandOver(th, s) PROVE Once'
  <2>1. /\ SameFed /\ SameWaits
        /\ \A u \in Threads, i \in Nat, x \in Spans :
             Holds(u, i, x)' <=> Holds(u, i, x) \/ (u = th /\ i = 1 /\ x \in {s})
    BY <1>1, HandOverSane
  <2>2. s \notin taken /\ taken' = taken \cup {s} /\ UNCHANGED <<up, spool, shipped, again>>
    BY <1>1 DEF HandOver
  <2>3. {s} \in SUBSET Spans /\ 1 \in Nat
    OBVIOUS
  <2>4. \A x \in Spans : QueuesKeep(x)
    BY <2>1, <2>2, QueuesSame
  <2>5. /\ \A x \in Spans \ {s} : FramesKeep(x)
        /\ \A x \in {s} : Unheld(x) => HeldOnce(x)'
    BY <2>1, <2>3, FrameNew
  <2>6. \A x \in Spans : SpoolKeeps(x)
    BY <2>1, <2>2, SpoolSame
  <2>7. OneCopy(s)'
    <3>1. Unqueued(s) /\ Unheld(s) /\ shipped[s] = 0 /\ OneCopy(s)
      BY <2>2, FreshFacts DEF Once, Fresh
    <3>2. Unspooled(s)
      BY <2>2 DEF Once, Fresh, Unspooled
    <3>3. QueuedOnce(s)' /\ Unqueued(s)' /\ HeldOnce(s)' /\ SpooledOnce(s)' /\ Unspooled(s)'
          /\ shipped'[s] = 0
      BY <2>2, <2>4, <2>5, <2>6, <3>1, <3>2 DEF OneCopy, QueuesKeep, SpoolKeeps
    <3> QED BY <3>3 DEF OneCopy
  <2>8. \A x \in Spans \ {s} : QueuesKeep(x) /\ FramesKeep(x) /\ shipped'[x] = shipped[x]
    BY <2>2, <2>4, <2>5
  <2>9. taken \subseteq taken' /\ again \subseteq again' /\ spool' = spool /\ {s} \subseteq taken'
    BY <2>2
  <2> QED BY <2>3, <2>6, <2>7, <2>8, <2>9, OnceBut
<1>2. ASSUME NEW th \in Threads, ExportMove(th) PROVE Once'
  <2>1. Quiet /\ UNCHANGED <<up, taken, shipped, again, spool>>
    BY <1>2, ExportMoveSane DEF ExportLeaves
  <2> QED BY <2>1, OnceQuiet
<1>3. ASSUME NEW th \in Threads, Dispatch(th), UNCHANGED ExportLeaves PROVE Once'
  <2>1. UNCHANGED <<up, taken, shipped, again, spool>>
    BY <1>3 DEF ExportLeaves
  <2>2. SameWaits /\ (Quiet \/ \E x \in Spans : Leaves(th, x))
    BY <1>3, DispatchSane
  <2>3. ASSUME NEW x \in Spans, Leaves(th, x) PROVE Once'
    <3>1. \A s \in Spans : FramesKeep(s)
      BY <2>3, FramesLess DEF Leaves
    <3>2. \A s \in Spans : QueuesKeep(s)
      BY <2>1, <2>2, QueuesSame
    <3>3. \A s \in Spans : SpoolKeeps(s)
      BY <2>1, <2>3, SpoolSame DEF Leaves
    <3> QED BY <2>1, <3>1, <3>2, <3>3, OnceLess
  <2> QED BY <2>1, <2>2, <2>3, OnceQuiet
<1>4. ASSUME HandlerMove PROVE Once'
  <2>1. Quiet /\ UNCHANGED <<up, taken, shipped, again, spool>>
    BY <1>4, HandlerMoveSane
  <2> QED BY <2>1, OnceQuiet
<1>5. ASSUME ExitMove PROVE Once'
  <2>1. Quiet /\ UNCHANGED <<up, taken, shipped, again, spool>>
    BY <1>5, ExitMoveSane DEF ExitLeaves
  <2> QED BY <2>1, OnceQuiet
<1>6. ASSUME SpoolDirFails PROVE Once'
  <2>1. again' = again \cup BeingFed /\ UNCHANGED <<up, taken, shipped, spool>>
    BY <1>6 DEF SpoolDirFails
  <2> QED BY <1>6, <2>1, SpoolDirFailsSane, OnceDrop
<1>7. ASSUME up, Unwinds PROVE Once'
  <2>1. again' = again \cup BeingFed /\ UNCHANGED <<up, taken, shipped, spool>>
    BY <1>7 DEF Unwinds
  <2> QED BY <1>7, <2>1, UnwindsSane, OnceDrop
<1>8. ASSUME NEW why, up, Gone(why) PROVE Once'
  <2>1. ~up' /\ again' = again \cup BeingFed /\ UNCHANGED <<taken, shipped, spool>>
    BY <1>8 DEF Gone
  <2>2. \A s \in Spans : QueuesKeep(s)
    BY <2>1 DEF QueuesKeep, Unqueued, QueuedOnce
  <2>3. \A s \in Spans : FramesKeep(s)
    BY <1>8, GoneSane, FramesLess
  <2>4. \A s \in Spans : s \notin again' => SpoolKeeps(s)
    <3>1. ASSUME NEW s \in Spans, s \notin again', NEW f \in spool', Fed(f) PROVE s \notin f.spans
      BY <2>1, <3>1, FedFacts
    <3> QED BY <2>1, <3>1, SpoolLess
  <2> QED BY <2>1, <2>2, <2>3, <2>4, OnceLess
<1>9. ASSUME Start PROVE Once'
  <2>1. ~up /\ UNCHANGED <<spool, taken, shipped, again>>
    BY <1>9 DEF Start
  <2>2. \A s \in Spans : QueuesKeep(s)
    BY <1>9, StartSane DEF QueuesKeep, Unqueued, QueuedOnce
  <2>3. \A s \in Spans : FramesKeep(s)
    BY <1>9, StartSane, FramesLess
  <2>4. \A f \in spool : ~Fed(f)
    <3>1. ~(Len(stack[Main]) > 0)
      BY <2>1 DEF Sane, Shape, Threads
    <3> QED BY <3>1 DEF Fed
  <2>5. \A s \in Spans : SpoolKeeps(s)
    BY <2>1, <2>4, SpoolLess
  <2> QED BY <2>1, <2>2, <2>3, <2>5, OnceLess
<1> QED BY StepCases, <1>1, <1>2, <1>3, <1>4, <1>5, <1>6, <1>7, <1>8, <1>9, OncePut, OnceShip,
           OnceDrain, OncePersist, OnceRead, OnceFeed, OnceUnlink DEF Kill

(* A span is shipped a second time only after a replay that did not delete   *)
(* its file, whatever the threads, the signals and the crashes.              *)
THEOREM OnlyReplaysRepeat == Spec => []ShipsOnce
<1>1. Init => Once
  <2> SUFFICES ASSUME Init PROVE Once
    OBVIOUS
  <2>1. ASSUME NEW s \in Spans PROVE Fresh(s)
    <3>1. Unqueued(s)
      BY DEF Init, Unqueued, Waits, Entry
    <3>2. Unheld(s)
      BY DEF Init, Unheld, Holds, Threads
    <3> QED BY <3>1, <3>2 DEF Init, Fresh
  <2> QED BY <2>1, FreshFacts DEF Once
<1>2. Sane /\ Once /\ [Next]_vars => Once'
  <2>1. ASSUME Once, UNCHANGED vars PROVE Once'
    BY <2>1 DEF Once, OneCopy, Fresh, Unqueued, Unheld, Unspooled, QueuedOnce, HeldOnce, SpooledOnce,
                Waits, Holds, Fed, vars, processVars
  <2> QED BY <2>1, OnceStep
<1>3. Sane /\ Once => ShipsOnce
  <2> SUFFICES ASSUME Sane, Once, NEW s \in Spans, s \notin again PROVE ~(shipped[s] > 1)
    BY DEF ShipsOnce
  <2>1. shipped[s] <= 1 /\ shipped[s] \in Nat
    BY DEF Once, OneCopy, Sane, TypeInv
  <2> QED BY <2>1
<1> QED BY <1>1, <1>2, <1>3, SaneInvariant, PTL DEF Spec

-----------------------------------------------------------------------------
(* CleanExitKeeps: what the one shutdown that does the work has to see to    *)

Collects(i) ==
  i \in 1..Len(stack[Main]) /\ stack[Main][i].pc \in {"snapshot", "close", "drain"}
Writes(i) == i \in 1..Len(stack[Main]) /\ stack[Main][i].pc = "persist"
Persists(i, s) == Writes(i) /\ s \in stack[Main][i].todo

Settled(s) ==
  \/ shipped[s] > 0
  \/ lost[s] \cap {"overflow", "write error"} # {}
  \/ \E f \in spool : f.id = life /\ ~f.torn /\ s \in f.spans

Due(s) ==
  \/ Settled(s)
  \/ \E i \in Nat : Persists(i, s)
  \/ (\E i \in Nat : Collects(i)) /\ \E t \in Tenants, i \in Nat : Waits(t, i, s)

Clean ==
  /\ ~done => early = {} /\ \A i \in Nat : ~Collects(i) /\ ~Writes(i)
  /\ \A i, j \in Nat : (Collects(i) \/ Writes(i)) /\ (Collects(j) \/ Writes(j)) => i = j
  /\ spoilt = {} => \A s \in early : Due(s)

SameWork ==
  \A i \in Nat : /\ Collects(i)' <=> Collects(i)
                 /\ Writes(i)' <=> Writes(i)
                 /\ \A s \in Spans : Persists(i, s)' <=> Persists(i, s)

\* The pcs of a handler that is at work, and has spans to see to.
WorkPCs == {"snapshot", "close", "drain", "persist"}

LEMMA WorkReplaced ==
  ASSUME NEW f, Replaced(Main, f), NEW n, n = Len(stack[Main])
  PROVE  /\ n \in Nat
         /\ \A i \in Nat \ {n} : /\ Collects(i)' <=> Collects(i)
                                 /\ Writes(i)' <=> Writes(i)
                                 /\ \A s \in Spans : Persists(i, s)' <=> Persists(i, s)
         /\ Collects(n)' <=> f.pc \in {"snapshot", "close", "drain"}
         /\ Writes(n)' <=> f.pc = "persist"
         /\ \A s \in Spans : Persists(n, s)' <=> f.pc = "persist" /\ s \in f.todo
         /\ Collects(n) <=> Top(Main).pc \in {"snapshot", "close", "drain"}
         /\ Writes(n) <=> Top(Main).pc = "persist"
         /\ \A s \in Spans : Persists(n, s) <=> Top(Main).pc = "persist" /\ s \in Top(Main).todo
<1>1. /\ n \in Nat \ {0} /\ n \in 1..Len(stack[Main]) /\ Top(Main) = stack[Main][n]
      /\ Len(stack'[Main]) = n /\ stack'[Main][n] = f
      /\ \A i \in 1..Len(stack[Main]) : i # n => stack'[Main][i] = stack[Main][i]
  BY DEF Replaced, Top, Last
<1>2. ASSUME NEW i \in Nat \ {n}
      PROVE  /\ Collects(i)' <=> Collects(i)
             /\ Writes(i)' <=> Writes(i)
             /\ \A s \in Spans : Persists(i, s)' <=> Persists(i, s)
  BY <1>1, <1>2 DEF Collects, Writes, Persists
<1>3. /\ Collects(n)' <=> f.pc \in {"snapshot", "close", "drain"}
      /\ Writes(n)' <=> f.pc = "persist"
      /\ \A s \in Spans : Persists(n, s)' <=> f.pc = "persist" /\ s \in f.todo
  BY <1>1 DEF Collects, Writes, Persists
<1>4. /\ Collects(n) <=> Top(Main).pc \in {"snapshot", "close", "drain"}
      /\ Writes(n) <=> Top(Main).pc = "persist"
      /\ \A s \in Spans : Persists(n, s) <=> Top(Main).pc = "persist" /\ s \in Top(Main).todo
  BY <1>1 DEF Collects, Writes, Persists
<1> QED BY <1>1, <1>2, <1>3, <1>4

LEMMA WorkGoesOn ==
  ASSUME NEW th \in Threads, NEW f, Replaced(th, f),
         \/ Top(th).pc \notin WorkPCs /\ f.pc \notin WorkPCs
         \/ Top(th).pc \in WorkPCs \ {"persist"} /\ f.pc \in WorkPCs \ {"persist"}
  PROVE  SameWork
<1>1. CASE th = Main
  <2>1. PICK n : n = Len(stack[Main])
    OBVIOUS
  <2>2. \A i \in Nat \ {n} : /\ Collects(i)' <=> Collects(i)
                             /\ Writes(i)' <=> Writes(i)
                             /\ \A s \in Spans : Persists(i, s)' <=> Persists(i, s)
    BY <1>1, <2>1, WorkReplaced
  <2>3. /\ Collects(n)' <=> Collects(n)
        /\ Writes(n)' <=> Writes(n)
        /\ \A s \in Spans : Persists(n, s)' <=> Persists(n, s)
    BY <1>1, <2>1, WorkReplaced DEF WorkPCs
  <2> QED BY <2>2, <2>3 DEF SameWork
<1>2. CASE th # Main
  BY <1>2 DEF SameWork, Collects, Writes, Persists, Replaced, Threads
<1> QED BY <1>1, <1>2

LEMMA WorkPopped ==
  ASSUME NEW th \in Threads, Popped(th), Top(th).pc \notin WorkPCs
  PROVE  SameWork
<1>1. CASE th = Main
  <2>1. /\ Len(stack[Main]) \in Nat \ {0} /\ Top(Main) = stack[Main][Len(stack[Main])]
        /\ Len(stack'[Main]) = Len(stack[Main]) - 1
        /\ \A i \in 1..Len(stack'[Main]) : stack'[Main][i] = stack[Main][i]
    BY <1>1 DEF Popped, Top, Last
  <2>2. \A i \in Nat : i \in 1..Len(stack'[Main]) <=> i \in 1..Len(stack[Main]) /\ i # Len(stack[Main])
    BY <2>1
  <2> QED BY <1>1, <2>1, <2>2 DEF SameWork, Collects, Writes, Persists, WorkPCs
<1>2. CASE th # Main
  BY <1>2 DEF SameWork, Collects, Writes, Persists, Popped, Threads
<1> QED BY <1>1, <1>2

LEMMA WorkPushed ==
  ASSUME NEW f, Pushed(Main, f), f.pc \notin WorkPCs
  PROVE  SameWork
<1>1. /\ Len(stack[Main]) \in Nat /\ Len(stack'[Main]) = Len(stack[Main]) + 1
      /\ \A i \in 1..Len(stack[Main]) : stack'[Main][i] = stack[Main][i]
      /\ stack'[Main][Len(stack[Main]) + 1] = f
  BY DEF Pushed
<1>2. \A i \in Nat : i \in 1..Len(stack'[Main]) <=> i \in 1..Len(stack[Main]) \/ i = Len(stack[Main]) + 1
  BY <1>1
<1> QED BY <1>1, <1>2 DEF SameWork, Collects, Writes, Persists, WorkPCs

\* No handler is at work, before the step and after it.
LEMMA WorkIdle ==
  ASSUME \A i \in 1..Len(stack[Main]) : stack[Main][i].pc \notin WorkPCs,
         \A i \in 1..Len(stack'[Main]) : stack'[Main][i].pc \notin WorkPCs
  PROVE  SameWork
BY DEF SameWork, Collects, Writes, Persists, WorkPCs

LEMMA ReplayWork ==
  ASSUME Sane, ReadFile \/ FeedSpan \/ Unlink
  PROVE  SameWork
<1>1. PICK pc \in ReplayPCs : At(Main, pc)
  BY DEF ReadFile, FeedSpan, Unlink, ReplayPCs
<1>2. /\ Len(stack[Main]) = 1 /\ Top(Main) = stack[Main][1] /\ stack[Main] # <<>>
      /\ Top(Main) \in FrameSet /\ Top(Main).pc \in ReplayPCs /\ Main \in Threads
      /\ stack[Main] \in Seq(FrameSet)
  BY <1>1, ReplayTop, TopFacts DEF At, Sane, TypeInv, Threads
<1>3. \A i \in 1..Len(stack[Main]) : stack[Main][i].pc \notin WorkPCs
  BY <1>2 DEF ReplayPCs, WorkPCs
<1>4. ASSUME NEW f, Becomes(Main, f), f.pc \in ReplayPCs PROVE SameWork
  <2>1. Front(stack[Main]) \in Seq(FrameSet) /\ Len(Front(stack[Main])) = 0
    BY <1>2, FrontFacts
  <2>2. Front(stack[Main]) = <<>>
    BY <2>1
  <2>3. Append(<<>>, f) = <<f>> /\ Len(<<f>>) = 1 /\ <<f>>[1] = f
    OBVIOUS
  <2>4. stack'[Main] = <<f>>
    BY <1>2, <1>4, <2>2, <2>3 DEF Becomes, Sane, TypeInv
  <2>5. \A i \in 1..Len(stack'[Main]) : stack'[Main][i] = f
    BY <2>3, <2>4
  <2> QED BY <1>3, <1>4, <2>5, WorkIdle DEF ReplayPCs, WorkPCs
<1>5. CASE ReadFile
  <2>1. CASE Return(Main)
    <3>1. Popped(Main)
      BY <1>2, <2>1, ReturnFacts DEF Sane
    <3> QED BY <1>2, <3>1, WorkPopped DEF ReplayPCs, WorkPCs
  <2>2. ASSUME NEW g, Becomes(Main, [Top(Main) EXCEPT !.rest = @ \ {g}]) PROVE SameWork
    <3>1. [Top(Main) EXCEPT !.rest = @ \ {g}].pc \in ReplayPCs
      BY <1>2 DEF FrameSet
    <3> QED BY <1>4, <2>2, <3>1
  <2>3. ASSUME NEW g, Becomes(Main, [Top(Main) EXCEPT !.pc = "feed", !.todo = g]) PROVE SameWork
    <3>1. [Top(Main) EXCEPT !.pc = "feed", !.todo = g].pc \in ReplayPCs
      BY <1>2 DEF FrameSet, ReplayPCs
    <3> QED BY <1>4, <2>3, <3>1
  <2> QED BY <1>5, <2>1, <2>2, <2>3 DEF ReadFile
<1>6. CASE FeedSpan
  <2>1. CASE Goto(Main, "unlink")
    <3>1. [Top(Main) EXCEPT !.pc = "unlink"].pc \in ReplayPCs
      BY <1>2 DEF FrameSet, ReplayPCs
    <3> QED BY <1>4, <2>1, <3>1 DEF Goto
  <2>2. ASSUME NEW x \in Top(Main).todo,
          stack' = [stack EXCEPT ![Main] =
                      Append(Front(@), [Top(Main) EXCEPT !.todo = Top(Main).todo \ {x}])
                        \o <<ExportFrame(x)>>]
        PROVE SameWork
    <3> DEFINE f == [Top(Main) EXCEPT !.todo = Top(Main).todo \ {x}]
               e == ExportFrame(x)
    <3>1. f \in FrameSet /\ f.pc \in ReplayPCs /\ x \in Spans
      BY <1>2 DEF FrameSet
    <3>2. e \in FrameSet /\ e.pc = "resolve"
      BY <3>1 DEF ExportFrame, Frame, FrameSet, ExportPCs
    <3> DEFINE st == Append(Front(stack[Main]), f) \o <<e>>
    <3>3. stack' = [stack EXCEPT ![Main] = st]
      BY <2>2
    <3> HIDE DEF f, e
    <3>4. /\ Front(stack[Main]) \in Seq(FrameSet) /\ Len(Front(stack[Main])) = 0
      BY <1>2, FrontFacts
    <3>5. /\ Append(Front(stack[Main]), f) \in Seq(FrameSet)
          /\ Len(Append(Front(stack[Main]), f)) = 1 /\ Append(Front(stack[Main]), f)[1] = f
      BY <3>1, <3>4
    <3>6. st \in Seq(FrameSet) /\ Len(st) = 2 /\ st[1] = f /\ st[2] = e
      BY <3>2, <3>5
    <3> HIDE DEF st
    <3>7. stack'[Main] = st
      BY <1>2, <3>3 DEF Sane, TypeInv
    <3>8. \A i \in 1..Len(stack'[Main]) : stack'[Main][i] = f \/ stack'[Main][i] = e
      <4>1. \A i \in 1..2 : i = 1 \/ i = 2
        OBVIOUS
      <4> QED BY <3>6, <3>7, <4>1
    <3> QED BY <1>3, <3>1, <3>2, <3>8, WorkIdle DEF ReplayPCs, WorkPCs
  <2> QED BY <1>6, <2>1, <2>2 DEF FeedSpan
<1>7. CASE Unlink
  <2>1. PICK g : Becomes(Main, [Top(Main) EXCEPT !.pc = "replay", !.rest = @ \ {g}])
    BY <1>7 DEF Unlink
  <2>2. [Top(Main) EXCEPT !.pc = "replay", !.rest = @ \ {g}].pc \in ReplayPCs
    BY <1>2 DEF FrameSet, ReplayPCs
  <2> QED BY <1>4, <2>1, <2>2
<1> QED BY <1>5, <1>6, <1>7

LEMMA SettledStays ==
  ASSUME UNCHANGED life, \A s \in Spans : shipped[s] > 0 => shipped'[s] > 0,
         \A s \in Spans : lost[s] \subseteq lost'[s],
         \A f \in spool : f.id = life => f \in spool'
  PROVE  \A s \in Spans : Settled(s) => Settled(s)'
<1> SUFFICES ASSUME NEW s \in Spans, Settled(s) PROVE Settled(s)'
  OBVIOUS
<1>1. lost[s] \cap {"overflow", "write error"} # {} => lost'[s] \cap {"overflow", "write error"} # {}
  OBVIOUS
<1> QED BY <1>1 DEF Settled

LEMMA LostSettles ==
  ASSUME NEW s \in Spans, NEW why \in {"overflow", "write error"}, why \in lost'[s]
  PROVE  Settled(s)'
BY DEF Settled

LEMMA CleanBy ==
  ASSUME Sane, Clean, SameWork, UNCHANGED <<done, early, spoilt>>,
         \A s \in Spans : Settled(s) => Settled(s)',
         \A s \in Spans, t \in Tenants, i \in Nat :
           Waits(t, i, s) => Settled(s)' \/ \E u \in Tenants, j \in Nat : Waits(u, j, s)'
  PROVE  Clean'
<1>1. ASSUME NEW s \in Spans, Due(s) PROVE Due(s)'
  <2>1. CASE Settled(s)
    BY <2>1 DEF Due
  <2>2. CASE \E i \in Nat : Persists(i, s)
    BY <2>2 DEF Due, SameWork
  <2>3. ASSUME NEW i \in Nat, Collects(i), NEW t \in Tenants, NEW j \in Nat, Waits(t, j, s) PROVE Due(s)'
    BY <2>3 DEF Due, SameWork
  <2> QED BY <1>1, <2>1, <2>2, <2>3 DEF Due
<1>2. \A i \in Nat : /\ Collects(i)' <=> Collects(i)
                     /\ Writes(i)' <=> Writes(i)
  BY DEF SameWork
<1>3. early \subseteq Spans
  BY DEF Sane, TypeInv
<1>4. ~done' => early' = {} /\ \A i \in Nat : ~Collects(i)' /\ ~Writes(i)'
  BY <1>2 DEF Clean
<1>5. \A i, j \in Nat : (Collects(i)' \/ Writes(i)') /\ (Collects(j)' \/ Writes(j)') => i = j
  BY <1>2 DEF Clean
<1>6. spoilt' = {} => \A s \in early' : Due(s)'
  BY <1>1, <1>3 DEF Clean
<1> QED BY <1>4, <1>5, <1>6 DEF Clean

\* A step that leaves the handlers alone.
LEMMA CleanQuiet ==
  ASSUME Sane, Clean, SameWork, SameWaits, UNCHANGED <<done, early, spoilt, life, shipped>>,
         \A s \in Spans : lost[s] \subseteq lost'[s],
         \A f \in spool : f.id = life => f \in spool'
  PROVE  Clean'
<1>1. \A s \in Spans : Settled(s) => Settled(s)'
  BY SettledStays
<1>2. \A s \in Spans, t \in Tenants, i \in Nat :
           Waits(t, i, s) => \E u \in Tenants, j \in Nat : Waits(u, j, s)'
  BY DEF SameWaits
<1> QED BY <1>1, <1>2, CleanBy

\* No handler is at work any more, and all is settled.
LEMMA CleanEnds ==
  ASSUME Sane, Clean, UNCHANGED <<done, early>>,
         \A i \in 1..Len(stack'[Main]) : stack'[Main][i].pc \notin WorkPCs,
         spoilt' = {} => \A s \in early : Settled(s)'
  PROVE  Clean'
<1>1. \A i \in Nat : ~Collects(i)' /\ ~Writes(i)'
  BY DEF Collects, Writes, WorkPCs
<1> QED BY <1>1 DEF Clean, Due

\* Of what is due, while the frame on top collects, or persists.
LEMMA DueWhile ==
  ASSUME Sane, Clean, NEW s \in Spans, Due(s), NEW n \in Nat
  PROVE  /\ Collects(n) => Settled(s) \/ \E t \in Tenants, i \in Nat : Waits(t, i, s)
         /\ Writes(n) => Settled(s) \/ Persists(n, s)
<1>1. ~(Collects(n) /\ Writes(n))
  BY DEF Collects, Writes
<1>2. \A i \in Nat : Persists(i, s) => Writes(i)
  BY DEF Persists
<1>3. \A i, j \in Nat : (Collects(i) \/ Writes(i)) /\ (Collects(j) \/ Writes(j)) => i = j
  BY DEF Clean
<1> QED BY <1>1, <1>2, <1>3 DEF Due

LEMMA ExportGoesOn ==
  ASSUME Sane, NEW th \in Threads, NEW from \in ExportPCs, At(th, from),
         \/ Return(th)
         \/ \E pc \in ExportPCs : Goto(th, pc)
  PROVE  SameWork
<1>1. /\ Top(th) \in FrameSet /\ Top(th).pc = from /\ stack[th] # <<>>
  BY TopFacts DEF Sane, At
<1>2. Top(th).pc \notin WorkPCs /\ \A pc \in ExportPCs : pc \notin WorkPCs
  BY <1>1 DEF ExportPCs, WorkPCs
<1>3. CASE Return(th)
  <2>1. Popped(th)
    BY <1>1, <1>3, ReturnFacts DEF Sane
  <2> QED BY <1>2, <2>1, WorkPopped
<1>4. ASSUME NEW pc \in ExportPCs, Goto(th, pc) PROVE SameWork
  <2> DEFINE f == [Top(th) EXCEPT !.pc = pc]
  <2>1. f \in FrameSet /\ f.pc = pc
    BY <1>1 DEF FrameSet
  <2>2. Replaced(th, f)
    BY <1>1, <1>4, <2>1, BecomesFacts DEF Goto, Sane
  <2> QED BY <1>2, <2>1, <2>2, WorkGoesOn
<1> QED BY <1>3, <1>4

LEMMA CleanCheck ==
  ASSUME Sane, Clean, CheckDone, UNCHANGED ExitLeaves
  PROVE  Clean'
<1>1. /\ Quiet /\ UNCHANGED <<spool, lost>>
      /\ MainMoves(IF done THEN "previous" ELSE "snapshot")
  BY CheckDoneSane
<1>2. /\ At(Main, "check") /\ done' = TRUE /\ early' = (IF done THEN early ELSE Queued(router))
      /\ UNCHANGED <<spoilt, life, shipped>>
  BY DEF CheckDone, ExitLeaves
<1>3. Top(Main).pc = "check" /\ Main \in Threads
  BY <1>2, TopFacts DEF Sane, Threads
<1>4. PICK f \in FrameSet : Replaced(Main, f) /\ f.pc = (IF done THEN "previous" ELSE "snapshot")
  BY <1>1 DEF MainMoves
<1>5. CASE done
  <2>1. f.pc = "previous" /\ UNCHANGED early
    BY <1>2, <1>4, <1>5
  <2>2. SameWork
    BY <1>3, <1>4, <2>1, WorkGoesOn DEF WorkPCs
  <2>3. UNCHANGED done
    BY <1>2, <1>5 DEF Sane, TypeInv
  <2> QED BY <1>1, <1>2, <2>1, <2>2, <2>3, CleanQuiet DEF Quiet
<1>6. CASE ~done
  <2>1. f.pc = "snapshot" /\ early' = Queued(router)
    BY <1>2, <1>4, <1>6
  <2>2. PICK n : n = Len(stack[Main])
    OBVIOUS
  <2>3. /\ n \in Nat /\ Collects(n)'
        /\ \A i \in Nat \ {n} : (Collects(i)' <=> Collects(i)) /\ (Writes(i)' <=> Writes(i))
    BY <1>4, <2>1, <2>2, WorkReplaced
  <2>4. \A i \in Nat : ~Collects(i) /\ ~Writes(i)
    BY <1>6 DEF Clean
  <2>5. \A i, j \in Nat : (Collects(i)' \/ Writes(i)') /\ (Collects(j)' \/ Writes(j)') => i = j
    BY <2>3, <2>4
  <2>6. ASSUME NEW s \in early' PROVE Due(s)'
    <3>1. s \in Spans /\ \E t \in Tenants, i \in Nat : Waits(t, i, s)
      BY <2>1, <2>6, QueuedFacts
    <3>2. \E t \in Tenants, i \in Nat : Waits(t, i, s)'
      BY <1>1, <3>1 DEF Quiet, SameWaits
    <3> QED BY <2>3, <3>2 DEF Due
  <2> QED BY <1>2, <2>5, <2>6 DEF Clean
<1> QED BY <1>5, <1>6

LEMMA CleanExitMove ==
  ASSUME Sane, Clean, ExitMove
  PROVE  Clean'
<1>1. CASE CheckDone
  BY <1>1, CleanCheck DEF ExitMove
<1>2. ASSUME NEW from \in {"enter", "snapshot", "close"}, At(Main, from),
             NEW pc \in {"check", "close", "drain"}, MainMoves(pc), from = "enter" <=> pc = "check",
             Quiet, UNCHANGED <<spool, lost, done, early, spoilt>>
      PROVE  Clean'
  <2>1. Top(Main).pc = from /\ Main \in Threads
    BY <1>2, TopFacts DEF Sane, Threads
  <2>2. PICK f \in FrameSet : Replaced(Main, f) /\ f.pc = pc
    BY <1>2 DEF MainMoves
  <2>3. SameWork
    BY <1>2, <2>1, <2>2, WorkGoesOn DEF WorkPCs
  <2>4. UNCHANGED <<life, shipped>>
    BY DEF ExitMove, ExitLeaves
  <2> QED BY <1>2, <2>3, <2>4, CleanQuiet DEF Quiet
<1>3. CASE EnterShutdown
  <2>1. /\ Quiet /\ UNCHANGED <<spool, lost>> /\ MainMoves("check")
    BY <1>3, EnterShutdownSane DEF ExitMove
  <2>2. At(Main, "enter") /\ UNCHANGED <<done, early, spoilt>>
    BY <1>3 DEF EnterShutdown
  <2> QED BY <1>2, <2>1, <2>2
<1>4. CASE Snapshot
  <2>1. /\ Quiet /\ UNCHANGED <<spool, lost>> /\ MainMoves("close")
    BY <1>4, SnapshotSane DEF ExitMove
  <2>2. At(Main, "snapshot") /\ UNCHANGED <<done, early, spoilt>>
    BY <1>4 DEF Snapshot
  <2> QED BY <1>2, <2>1, <2>2
<1>5. CASE ClosePipeline
  <2>1. /\ Quiet /\ UNCHANGED <<spool, lost>> /\ (MainMoves("close") \/ MainMoves("drain"))
    BY <1>5, ClosePipelineSane DEF ExitMove
  <2>2. At(Main, "close") /\ UNCHANGED <<done, early, spoilt>>
    BY <1>5 DEF ClosePipeline
  <2> QED BY <1>2, <2>1, <2>2
<1> QED BY <1>1, <1>3, <1>4, <1>5 DEF ExitMove

LEMMA CleanDrain ==
  ASSUME Sane, Clean, DrainUnshipped, UNCHANGED ExitLeaves
  PROVE  Clean'
<1>1. /\ UNCHANGED <<spool, lost, done, early, life, shipped>> /\ At(Main, "drain")
  BY DEF DrainUnshipped, ExitLeaves
<1>2. Top(Main).pc = "drain" /\ Main \in Threads
  BY <1>1, TopFacts DEF Sane, Threads
<1>3. PICK n : n = Len(stack[Main])
  OBVIOUS
<1>4. \A s \in Spans : Settled(s) => Settled(s)'
  BY <1>1, SettledStays
<1>5. CASE Quiet /\ MainMoves("previous") /\ spoilt \subseteq spoilt' /\ (Queued(router) # {} => spoilt' # {})
  <2>1. PICK f \in FrameSet : Replaced(Main, f) /\ f.pc = "previous"
    BY <1>5 DEF MainMoves
  <2>2. /\ n \in Nat /\ Collects(n) /\ ~Collects(n)' /\ ~Writes(n)'
        /\ \A i \in Nat \ {n} : (Collects(i)' <=> Collects(i)) /\ (Writes(i)' <=> Writes(i))
    BY <1>2, <1>3, <2>1, WorkReplaced
  <2>3. \A i \in Nat : ~Collects(i)' /\ ~Writes(i)'
    BY <2>2 DEF Clean
  <2>4. ASSUME spoilt' = {}, NEW s \in early PROVE Settled(s)'
    <3>1. spoilt = {} /\ Queued(router) = {} /\ s \in Spans
      BY <1>5, <2>4 DEF Sane, TypeInv
    <3>2. ~\E t \in Tenants, i \in Nat : Waits(t, i, s)
      BY <3>1, QueuedFacts
    <3>3. Due(s)
      BY <2>4, <3>1 DEF Clean
    <3> QED BY <1>4, <2>2, <3>1, <3>2, <3>3, DueWhile
  <2> QED BY <1>1, <2>3, <2>4 DEF Clean, Due
<1>6. ASSUME NEW f \in FrameSet, Replaced(Main, f), f.pc = "persist", f.todo = Queued(router),
             UNCHANGED spoilt
      PROVE  Clean'
  <2>1. /\ n \in Nat /\ Collects(n) /\ ~Collects(n)' /\ Writes(n)'
        /\ \A i \in Nat \ {n} : (Collects(i)' <=> Collects(i)) /\ (Writes(i)' <=> Writes(i))
        /\ \A s \in Spans : Persists(n, s)' <=> s \in Queued(router)
    BY <1>2, <1>3, <1>6, WorkReplaced
  <2>2. \A i \in Nat : Collects(i)' \/ Writes(i)' => i = n
    BY <2>1 DEF Clean
  <2>3. done
    BY <2>1 DEF Clean, Sane, TypeInv
  <2>4. ASSUME spoilt' = {}, NEW s \in early PROVE Due(s)'
    <3>1. s \in Spans /\ Due(s)
      BY <1>6, <2>4 DEF Clean, Sane, TypeInv
    <3>2. Settled(s) \/ s \in Queued(router)
      BY <2>1, <3>1, DueWhile, QueuedFacts
    <3> QED BY <1>4, <2>1, <3>1, <3>2 DEF Due
  <2> QED BY <1>1, <2>2, <2>3, <2>4 DEF Clean
<1> QED BY <1>5, <1>6, DrainUnshippedSane

LEMMA CleanPersist ==
  ASSUME Sane, Clean, PersistToSpool, UNCHANGED ExitLeaves
  PROVE  Clean'
<1>1. /\ MainMoves("previous")
      /\ \E written \in SUBSET Top(Main).todo, torn \in BOOLEAN :
              /\ spool' = spool \cup {[id |-> life, spans |-> written, torn |-> torn]}
              /\ Lose(IF torn THEN Top(Main).todo ELSE Top(Main).todo \ written, "write error")
  BY PersistToSpoolSane
<1>2. At(Main, "persist") /\ UNCHANGED <<done, early, spoilt, life, shipped>>
  BY DEF PersistToSpool, ExitLeaves
<1>3. Top(Main).pc = "persist" /\ Main \in Threads
  BY <1>2, TopFacts DEF Sane, Threads
<1>4. PICK f \in FrameSet : Replaced(Main, f) /\ f.pc = "previous"
  BY <1>1 DEF MainMoves
<1>5. PICK n : n = Len(stack[Main])
  OBVIOUS
<1>6. /\ n \in Nat /\ Writes(n) /\ ~Collects(n)' /\ ~Writes(n)'
      /\ \A i \in Nat \ {n} : (Collects(i)' <=> Collects(i)) /\ (Writes(i)' <=> Writes(i))
      /\ \A s \in Spans : Persists(n, s) <=> s \in Top(Main).todo
  BY <1>3, <1>4, <1>5, WorkReplaced
<1>7. \A i \in Nat : ~Collects(i)' /\ ~Writes(i)'
  BY <1>6 DEF Clean
<1>8. PICK written \in SUBSET Top(Main).todo, torn \in BOOLEAN :
              /\ spool' = spool \cup {[id |-> life, spans |-> written, torn |-> torn]}
              /\ Lose(IF torn THEN Top(Main).todo ELSE Top(Main).todo \ written, "write error")
  BY <1>1
<1> DEFINE S == IF torn THEN Top(Main).todo ELSE Top(Main).todo \ written
           g == [id |-> life, spans |-> written, torn |-> torn]
<1>9. \A s \in Spans : lost[s] \subseteq lost'[s] /\ (s \in S => "write error" \in lost'[s])
  BY <1>8, LoseFacts
<1>10. \A s \in Spans : Settled(s) => Settled(s)'
  BY <1>2, <1>8, <1>9, SettledStays
<1>11. ASSUME NEW s \in Spans, s \in Top(Main).todo PROVE Settled(s)'
  <2>1. CASE s \in S
    BY <1>9, <2>1, LostSettles
  <2>2. CASE s \notin S
    <3>1. g \in spool' /\ g.id = life' /\ ~g.torn /\ s \in g.spans
      BY <1>2, <1>8, <1>11, <2>2
    <3> HIDE DEF g
    <3> QED BY <3>1 DEF Settled
  <2> QED BY <2>1, <2>2
<1>12. ASSUME spoilt' = {}, NEW s \in early PROVE Settled(s)'
  <2>1. s \in Spans /\ Due(s)
    BY <1>2, <1>12 DEF Clean, Sane, TypeInv
  <2> QED BY <1>6, <1>10, <1>11, <2>1, DueWhile
<1> QED BY <1>2, <1>7, <1>12 DEF Clean, Due

LEMMA CleanDirFails ==
  ASSUME Sane, Clean, SpoolDirFails
  PROVE  Clean'
<1>1. \A i \in 1..Len(stack'[Main]) : stack'[Main][i].pc \notin WorkPCs
  BY SpoolDirFailsSane DEF WorkPCs
<1>2. /\ At(Main, "persist") /\ Lose(HeldBy(Main), "write error")
      /\ UNCHANGED <<done, early, spoilt, life, shipped, spool>>
  BY DEF SpoolDirFails
<1>3. /\ Len(stack[Main]) \in 1..Len(stack[Main]) /\ Top(Main) = stack[Main][Len(stack[Main])]
      /\ Top(Main).pc = "persist" /\ Len(stack[Main]) \in Nat /\ Main \in Threads
  BY <1>2, TopFacts DEF Sane, Threads
<1>4. PICK n \in Nat : n = Len(stack[Main])
  BY <1>3
<1>5. Writes(n) /\ \A s \in Spans : Persists(n, s) => Holds(Main, n, s)
  BY <1>3, <1>4 DEF Writes, Persists, Holds
<1>6. \A s \in Spans : lost[s] \subseteq lost'[s] /\ (s \in HeldBy(Main) => "write error" \in lost'[s])
  BY <1>2, LoseFacts
<1>7. \A s \in Spans : Settled(s) => Settled(s)'
  BY <1>2, <1>6, SettledStays
<1>8. ASSUME spoilt' = {}, NEW s \in early PROVE Settled(s)'
  <2>1. s \in Spans /\ Due(s)
    BY <1>2, <1>8 DEF Clean, Sane, TypeInv
  <2>2. CASE Persists(n, s)
    <3>1. s \in HeldBy(Main)
      BY <1>3, <1>5, <2>1, <2>2, HeldByFacts
    <3> QED BY <1>6, <2>1, <3>1, LostSettles
  <2> QED BY <1>5, <1>7, <2>1, <2>2, DueWhile
<1> QED BY <1>1, <1>2, <1>8, CleanEnds

\* The handler on top is through, and so is every one below, or one was cut short.
LEMMA FinishedFacts ==
  ASSUME Sane, At(Main, "previous"), Unfinished = {}
  PROVE  \A i \in Nat : ~Collects(i) /\ ~Writes(i)
<1>1. /\ Len(stack[Main]) \in Nat \ {0} /\ Top(Main) = stack[Main][Len(stack[Main])]
      /\ Top(Main).pc = "previous"
  BY TopFacts DEF Sane, Threads
<1>2. SUFFICES ASSUME NEW i \in 1..Len(stack[Main]), stack[Main][i].pc \in WorkPCs PROVE FALSE
  BY DEF Collects, Writes, WorkPCs
<1>3. Exiting(stack[Main][i])
  BY <1>2 DEF Sane, Shape, Replaying, Exporting, ReplayPCs, ExportPCs, WorkPCs
<1>4. i < Len(stack[Main]) /\ stack[Main][i].pc # "previous"
  BY <1>1, <1>2 DEF WorkPCs
<1>5. i \in ExitFrames
  <2>1. i \in DOMAIN stack[Main] /\ stack[Main][i].sig # "none"
    BY <1>2, <1>3 DEF Exiting, Sane, TypeInv, Threads
  <2> QED BY <2>1 DEF ExitFrames
<1> QED BY <1>4, <1>5 DEF Unfinished

LEMMA CleanCut ==
  ASSUME Sane, Clean, UNCHANGED <<done, early, life, shipped, spool>>,
         NEW S, NEW why, Lose(S, why), NEW spoils, spoilt' = spoilt \cup spoils,
         spoils = {} => Unfinished = {} /\ At(Main, "previous"),
         \A i \in 1..Len(stack'[Main]) : FALSE
  PROVE  Clean'
<1>1. \A s \in Spans : lost[s] \subseteq lost'[s]
  BY LoseFacts
<1>2. \A s \in Spans : Settled(s) => Settled(s)'
  BY <1>1, SettledStays
<1>3. ASSUME spoilt' = {}, NEW s \in early PROVE Settled(s)'
  <2>1. spoilt = {} /\ spoils = {} /\ s \in Spans
    BY <1>3 DEF Sane, TypeInv
  <2>2. Due(s)
    BY <1>3, <2>1 DEF Clean
  <2>3. \A i \in Nat : ~Collects(i) /\ ~Writes(i)
    BY <2>1, FinishedFacts
  <2>4. Settled(s)
    BY <2>2, <2>3 DEF Due, Persists
  <2> QED BY <1>2, <2>1, <2>4
<1> QED BY <1>3, CleanEnds

LEMMA CleanGone ==
  ASSUME Sane, Clean, NEW why, Gone(why), why = {} => Unfinished = {} /\ At(Main, "previous")
  PROVE  Clean'
<1>1. /\ UNCHANGED <<done, early, life, shipped, spool>> /\ Lose(InMemory, "memory")
      /\ spoilt' = spoilt \cup why /\ stack' = [th \in Threads |-> <<>>]
  BY DEF Gone
<1>2. stack'[Main] = <<>> /\ Len(<<>>) = 0
  BY <1>1 DEF Threads
<1>3. \A i \in 1..Len(stack'[Main]) : FALSE
  BY <1>2
<1> QED BY <1>1, <1>3, CleanCut

LEMMA CleanExport ==
  ASSUME Sane, Clean, NEW th \in Threads, UNCHANGED ExportLeaves,
         Resolve(th) \/ TakeLock(th) \/ Factory(th) \/ Dispatch(th) \/ Put(th)
  PROVE  Clean'
<1>1. UNCHANGED <<done, early, spoilt, life, shipped, spool>>
  BY DEF ExportLeaves
<1>2. SameWork
  <2>1. CASE Resolve(th)
    <3>1. At(th, "resolve") /\ \E pc \in {"lock", "dispatch"} : Goto(th, pc)
      BY <2>1 DEF Resolve
    <3> QED BY <3>1, ExportGoesOn DEF ExportPCs
  <2>2. CASE TakeLock(th)
    <3>1. At(th, "lock") /\ \E pc \in {"factory", "dispatch"} : Goto(th, pc)
      BY <2>2 DEF TakeLock
    <3> QED BY <3>1, ExportGoesOn DEF ExportPCs
  <2>3. CASE Factory(th)
    <3>1. At(th, "factory") /\ Goto(th, "dispatch")
      BY <2>3 DEF Factory
    <3> QED BY <3>1, ExportGoesOn DEF ExportPCs
  <2>4. CASE Dispatch(th)
    <3>1. At(th, "dispatch") /\ (Return(th) \/ Goto(th, "put"))
      BY <2>4 DEF Dispatch
    <3> QED BY <3>1, ExportGoesOn DEF ExportPCs
  <2>5. CASE Put(th)
    <3>1. At(th, "put") /\ Return(th)
      BY <2>5 DEF Put
    <3> QED BY <3>1, ExportGoesOn DEF ExportPCs
  <2> QED BY <2>1, <2>2, <2>3, <2>4, <2>5
<1>3. CASE Resolve(th) \/ TakeLock(th) \/ Factory(th)
  <2>1. Quiet /\ UNCHANGED lost
    BY <1>3, ExportMoveSane DEF ExportMove
  <2> QED BY <1>1, <1>2, <2>1, CleanQuiet DEF Quiet
<1>4. CASE Dispatch(th)
  <2>1. SameWaits /\ (UNCHANGED lost \/ \E S, why : Lose(S, why))
    BY <1>4, DispatchSane
  <2>2. \A s \in Spans : lost[s] \subseteq lost'[s]
    BY <2>1, LoseFacts
  <2> QED BY <1>1, <1>2, <2>1, <2>2, CleanQuiet
<1>5. CASE Put(th)
  <2>1. PICK t \in Tenants, x \in Spans :
              /\ Leaves(th, x)
              /\ \/ Joins(t, x, FALSE) /\ UNCHANGED lost
                 \/ \E y \in Spans : Waits(t, 1, y) /\ Joins(t, x, TRUE) /\ Lose({y}, "overflow")
                 \/ SameWaits /\ Lose({x}, "overflow")
    BY <1>5, PutSane
  <2>2. up /\ UNCHANGED up
    BY <1>5 DEF ExportLeaves, Put, At
  <2>3. CASE SameWaits /\ Lose({x}, "overflow")
    <3>1. \A s \in Spans : lost[s] \subseteq lost'[s]
      BY <2>3, LoseFacts
    <3> QED BY <1>1, <1>2, <2>3, <3>1, CleanQuiet
  <2>4. ASSUME NEW gone \in BOOLEAN, Joins(t, x, gone), \A s \in Spans : lost[s] \subseteq lost'[s],
               gone => \E y \in Spans : Waits(t, 1, y) /\ "overflow" \in lost'[y]
        PROVE  Clean'
    <3>1. \A s \in Spans : Settled(s) => Settled(s)'
      BY <1>1, <2>4, SettledStays
    <3>2. PICK n \in Nat \ {0} :
             \A u \in Tenants, i \in Nat, s \in Spans :
             Waits(u, i, s)' <=>
               \/ u # t /\ Waits(u, i, s)
               \/ u = t /\ i = n /\ s = x
               \/ u = t /\ i > 0 /\ Waits(t, i + (IF gone THEN 1 ELSE 0), s)
      BY <2>4 DEF Joins
    <3>3. ASSUME NEW s \in Spans, NEW u \in Tenants, NEW i \in Nat, Waits(u, i, s)
          PROVE  Settled(s)' \/ \E v \in Tenants, j \in Nat : Waits(v, j, s)'
      <4>0. i > 0
        BY <3>3, WaitsFacts
      <4>1. CASE u # t
        BY <3>2, <3>3, <4>1
      <4>2. CASE u = t /\ ~gone
        <5>1. i + (IF gone THEN 1 ELSE 0) = i
          BY <4>2
        <5>2. Waits(u, i, s)'
          BY <3>2, <3>3, <4>0, <4>2, <5>1
        <5> QED BY <5>2
      <4>3. CASE u = t /\ gone /\ i # 1
        <5>1. i - 1 \in Nat /\ i - 1 > 0 /\ i - 1 + (IF gone THEN 1 ELSE 0) = i
          BY <4>0, <4>3
        <5>2. Waits(u, i - 1, s)'
          BY <3>2, <3>3, <4>3, <5>1
        <5> QED BY <5>1, <5>2
      <4>4. CASE u = t /\ gone /\ i = 1
        <5>1. PICK y \in Spans : Waits(t, 1, y) /\ "overflow" \in lost'[y]
          BY <2>4, <4>4
        <5>2. y = s
          BY <3>3, <4>4, <5>1, WaitsFacts
        <5> QED BY <5>1, <5>2, LostSettles
      <4> QED BY <4>1, <4>2, <4>3, <4>4
    <3> QED BY <1>1, <1>2, <3>1, <3>3, CleanBy
  <2>5. CASE Joins(t, x, FALSE) /\ UNCHANGED lost
    BY <2>4, <2>5
  <2>6. ASSUME NEW y \in Spans, Waits(t, 1, y), Joins(t, x, TRUE), Lose({y}, "overflow") PROVE Clean'
    <3>1. \A s \in Spans : lost[s] \subseteq lost'[s]
      BY <2>6, LoseFacts
    <3>2. "overflow" \in lost'[y]
      BY <2>6, LoseFacts
    <3> QED BY <2>4, <2>6, <3>1, <3>2
  <2> QED BY <2>1, <2>3, <2>5, <2>6
<1> QED BY <1>3, <1>4, <1>5

LEMMA CleanShip ==
  ASSUME Sane, Clean, NEW t \in Tenants, Ship(t)
  PROVE  Clean'
<1>1. PICK y \in Spans :
        /\ Waits(t, 1, y) /\ shipped' = [shipped EXCEPT ![y] = @ + 1]
        /\ \A u \in Tenants, i \in Nat, s \in Spans :
             Waits(u, i, s)' <=> IF u = t THEN i > 0 /\ Waits(t, i + 1, s) ELSE Waits(u, i, s)
  BY ShipSane
<1>2. UNCHANGED <<stack, done, early, spoilt, life, lost, spool>>
  BY DEF Ship
<1>3. SameWork
  BY <1>2 DEF SameWork, Collects, Writes, Persists
<1>4. shipped'[y] > 0 /\ \A s \in Spans : shipped[s] > 0 => shipped'[s] > 0
  BY <1>1 DEF Sane, TypeInv
<1>5. \A s \in Spans : Settled(s) => Settled(s)'
  BY <1>2, <1>4, SettledStays
<1>6. ASSUME NEW s \in Spans, NEW u \in Tenants, NEW i \in Nat, Waits(u, i, s)
      PROVE  Settled(s)' \/ \E v \in Tenants, j \in Nat : Waits(v, j, s)'
  <2>0. i > 0 /\ \A x : Waits(u, i, x) => x = s
    BY <1>6, WaitsFacts
  <2>1. CASE u # t
    BY <1>1, <1>6, <2>1
  <2>2. CASE u = t /\ i = 1
    <3>1. s = y
      BY <1>1, <2>0, <2>2
    <3> QED BY <1>4, <3>1 DEF Settled
  <2>3. CASE u = t /\ i # 1
    <3>1. i - 1 \in Nat /\ i - 1 > 0 /\ i - 1 + 1 = i
      BY <2>0, <2>3
    <3>2. Waits(u, i - 1, s)'
      BY <1>1, <1>6, <2>3, <3>1
    <3> QED BY <3>1, <3>2
  <2> QED BY <2>1, <2>2, <2>3
<1> QED BY <1>2, <1>3, <1>5, <1>6, CleanBy

LEMMA CleanStart ==
  ASSUME Sane, Clean, Start
  PROVE  Clean'
<1>1. early' = {} /\ done' = FALSE /\ \A i \in 1..Len(stack'[Main]) : stack'[Main][i].pc = "replay"
  BY StartSane DEF Start
<1>2. \A i \in Nat : ~Collects(i)' /\ ~Writes(i)'
  BY <1>1 DEF Collects, Writes
<1> QED BY <1>1, <1>2 DEF Clean

LEMMA CleanReplay ==
  ASSUME Sane, Clean, ReadFile \/ FeedSpan \/ Unlink, UNCHANGED ReplayLeaves
  PROVE  Clean'
<1>1. SameWork
  BY ReplayWork
<1>2. UNCHANGED <<done, early, spoilt, life, shipped, lost>> /\ SameWaits
  BY ReadFileSane, FeedSpanSane, UnlinkSane DEF ReplayLeaves
<1>3. \A f \in spool : f.id = life => f \in spool'
  <2>1. CASE ReadFile \/ FeedSpan
    BY <2>1, ReadFileSane, FeedSpanSane
  <2>2. CASE Unlink
    <3>1. PICK g \in spool : Fed(g) /\ (spool' = spool \ {g} \/ UNCHANGED spool)
      BY <2>2, UnlinkSane
    <3>2. g.id # life
      BY <3>1, FedFacts DEF Sane, TypeInv, SpoolFile
    <3> QED BY <3>1, <3>2
  <2> QED BY <2>1, <2>2
<1> QED BY <1>1, <1>2, <1>3, CleanQuiet

LEMMA CleanStep ==
  ASSUME Sane, Clean, Next
  PROVE  Clean'
<1>1. ASSUME NEW th \in Threads, NEW s \in Spans, HandOver(th, s) PROVE Clean'
  <2>1. SameWaits /\ UNCHANGED <<done, early, spoilt, life, shipped, lost, spool>>
    BY <1>1, HandOverSane DEF HandOver
  <2>2. stack[th] = <<>> /\ stack' = [stack EXCEPT ![th] = <<ExportFrame(s)>>]
    BY <1>1 DEF HandOver
  <2>3. SameWork
    <3>1. CASE th = Main
      <4>1. /\ Len(<<>>) = 0 /\ Len(<<ExportFrame(s)>>) = 1 /\ <<ExportFrame(s)>>[1] = ExportFrame(s)
            /\ \A i \in 1..0 : FALSE
        OBVIOUS
      <4>2. ExportFrame(s).pc = "resolve"
        BY DEF ExportFrame, Frame
      <4>3. stack'[Main] = <<ExportFrame(s)>> /\ stack[Main] = <<>>
        BY <2>2, <3>1 DEF Sane, TypeInv
      <4>4. \A i \in 1..Len(stack'[Main]) : stack'[Main][i] = ExportFrame(s)
        BY <4>1, <4>3
      <4>5. \A i \in 1..Len(stack[Main]) : FALSE
        BY <4>1, <4>3
      <4> QED BY <4>2, <4>4, <4>5, WorkIdle DEF WorkPCs
    <3>2. CASE th # Main
      BY <2>2, <3>2 DEF SameWork, Collects, Writes, Persists, Sane, TypeInv, Threads
    <3> QED BY <3>1, <3>2
  <2> QED BY <2>1, <2>3, CleanQuiet
<1>2. ASSUME HandlerMove PROVE Clean'
  <2>1. Quiet /\ UNCHANGED <<done, early, spoilt, life, shipped, lost, spool>>
    BY <1>2, HandlerMoveSane
  <2>2. \E sig \in {"TERM", "INT", "atexit"} : Pushed(Main, ExitFrame(sig))
    BY <1>2, SignalSane, AtExitSane DEF HandlerMove
  <2>3. \A sig : ExitFrame(sig).pc = "enter"
    BY DEF ExitFrame, Frame
  <2>4. SameWork
    BY <2>2, <2>3, WorkPushed DEF WorkPCs
  <2> QED BY <2>1, <2>4, CleanQuiet DEF Quiet
<1>3. ASSUME Kill PROVE Clean'
  BY <1>3, CleanGone DEF Kill
<1>4. ASSUME Gone(Unfinished), At(Main, "previous") PROVE Clean'
  BY <1>4, CleanGone
<1>5. ASSUME up, Unwinds, At(Main, "previous") PROVE Clean'
  <2>1. /\ UNCHANGED <<done, early, life, shipped, spool>> /\ Lose(HeldBy(Main), "memory")
        /\ spoilt' = spoilt \cup Unfinished
    BY <1>5 DEF Unwinds
  <2>2. \A i \in 1..Len(stack'[Main]) : FALSE
    BY <1>5, UnwindsSane
  <2> QED BY <1>5, <2>1, <2>2, CleanCut
<1> QED BY StepCases, <1>1, <1>2, <1>3, <1>4, <1>5, CleanExport, CleanExitMove, CleanShip, CleanDrain,
           CleanPersist, CleanDirFails, CleanStart, CleanReplay DEF ExportMove

(* A process that ended, and whose shutdown nothing spoilt, has shipped or   *)
(* spooled every span that was in a queue when the shutdown began, or it was *)
(* evicted by a later one, or lost to a write error, whatever the other      *)
(* threads and the signals did meanwhile.                                    *)
THEOREM CleanExitSettles == Spec => []CleanExitKeeps
<1>1. Init => Clean
  <2> SUFFICES ASSUME Init PROVE Clean
    OBVIOUS
  <2>1. stack[Main] = <<>> /\ Len(<<>>) = 0 /\ early = {} /\ done = FALSE
    BY DEF Init, Threads
  <2>2. \A i \in Nat : ~Collects(i) /\ ~Writes(i)
    BY <2>1 DEF Collects, Writes
  <2> QED BY <2>1, <2>2 DEF Clean
<1>2. Sane /\ Clean /\ [Next]_vars => Clean'
  <2>1. ASSUME Clean, UNCHANGED vars PROVE Clean'
    BY <2>1 DEF Clean, Due, Settled, Collects, Writes, Persists, Waits, vars, processVars
  <2> QED BY <2>1, CleanStep
<1>3. Sane /\ Clean => CleanExitKeeps
  <2> SUFFICES ASSUME Sane, Clean, ~up, spoilt = {}, NEW s \in early
               PROVE  \/ s \in Replayable \/ shipped[s] > 0
                      \/ lost[s] \cap {"overflow", "write error"} # {}
    BY DEF CleanExitKeeps
  <2>1. stack[Main] = <<>> /\ Len(<<>>) = 0
    BY DEF Sane, Shape, Threads
  <2>2. \A i \in Nat : ~Collects(i) /\ ~Writes(i)
    BY <2>1 DEF Collects, Writes
  <2>3. Settled(s)
    BY <2>2 DEF Clean, Due, Persists
  <2> QED BY <2>3 DEF Settled, Replayable
<1> QED BY <1>1, <1>2, <1>3, SaneInvariant, PTL DEF Spec
=============================================================================
