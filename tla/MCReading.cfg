SPECIFICATION ReadingSpec
CONSTANTS
  a1 = a1
  a2 = a2
  c1 = c1
  d1 = d1
  e1 = e1
  e2 = e2
  n1 = n1
  n2 = n2
  n3 = n3
  n4 = n4
  n5 = n5
  n6 = n6
  n7 = n7
  n8 = n8
  n9 = n9
  n10 = n10
  n11 = n11
  t1 = t1
  t3 = t3
  t4 = t4
  t5 = t5
  t6 = t6
  alice = alice
  bob = bob
  gpt = gpt
  llama = llama
  card1 = card1
  card2 = card2
  None = None
  Spans = {a1, a2, c1, d1, e1, e2, n1, n2, n3, n4, n5, n6, n7, n8, n9, n10, n11}
  Trajectories = {t1, t3, t4, t5, t6}
  Expiring = {a2, e2, n11}
  From = 2
  To = 4
  PageLimit = 2
  Alterable = {n3}
  Traj <- MCTraj
  TrajRank <- MCTrajRank
  SpanId <- MCSpanId
  Start <- MCStart
  Rank <- MCRank
  Parent <- MCParent
  ParentHash <- MCParentHash
  Tenant <- MCTenant
  Body <- MCBody
  Registry <- MCRegistry
  Worlds <- MCWorlds
INVARIANTS
    ListedOnce
    CountedOnce
    StatsAgree
    
    
