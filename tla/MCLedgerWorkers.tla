--------------------------- MODULE MCLedgerWorkers ---------------------------
(* Two trajectories of one customer that close in different windows or the   *)
(* same, one with a child of a longer retention class, in two months.      *)
EXTENDS Anchor

CONSTANTS s1, s2, s3, t1, t2, c1

MCTraj == s1 :> t1 @@ s2 :> t1 @@ s3 :> t2
MCMonth == s1 :> 1 @@ s2 :> 1 @@ s3 :> 2
MCEnd == s1 :> 1 @@ s2 :> 0 @@ s3 :> 2
MCClass == s1 :> "transient" @@ s2 :> "standard" @@ s3 :> "transient"
MCCust == s1 :> c1 @@ s2 :> c1 @@ s3 :> c1
MCParent == s1 :> NoParent @@ s2 :> s1 @@ s3 :> NoParent
MCTTL == "transient" :> 0 @@ "standard" :> 2 @@ "litigation_hold" :> Never
MCClassOrder == <<"transient", "standard">>
MCOrdered == <<s1, s2, s3>>
MCTrajOrder == <<t1, t2>>
==============================================================================
