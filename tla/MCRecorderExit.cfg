CONSTANTS
  a = a
  b = b
  t1 = t1
  Spans = {a, b}
  Tenants = {t1}
  Tenant <- MCTenant
  Main = main
  Workers = {w}
  Capacity = 1
  Drains = TRUE
  Nobody = nobody
  NoSpan = nospan
  MaxSignals = 1
  MaxLives = 3
SPECIFICATION Spec
INVARIANTS SpansKept  ShipsOnce
 
CHECK_DEADLOCK FALSE
