SPECIFICATION Spec
CONSTANTS
  s1 = s1  s2 = s2  s3 = s3  t1 = t1  t2 = t2  c1 = c1
  Spans = {s1, s2, s3}
  Trajectories = {t1, t2}
  Customers = {c1}
  Months = {1, 2}
  Classes = {"transient", "standard", "litigation_hold"}
  Traj <- MCTraj
  Month <- MCMonth
  End <- MCEnd
  Class <- MCClass
  Cust <- MCCust
  Parent <- MCParent
  TTL <- MCTTL
  ClassOrder <- MCClassOrder
  Ordered <- MCOrdered
  TrajOrder <- MCTrajOrder
  Never = Never
  NoParent = NoParent
  Interval = 2
  MaxTime = 3
  HoldOn = {t1}
  Workers = {w1}
INVARIANTS
    PassThorough
    
    HeldStaysProvable
    ClosedOnceAttested
PROPERTIES
    PurgeLawful
