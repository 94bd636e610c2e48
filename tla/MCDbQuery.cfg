CONSTANTS
  Threads = {t1, t2, t3}
  Conn = {c1, c2}
  NoConn = NoConn
  Max = 2
  MaxStops = 1
  MaxSevers = 1
SPECIFICATION Spec
INVARIANTS
  QueryTypeOK
  RetryBudget
PROPERTIES
  CallsReturn
