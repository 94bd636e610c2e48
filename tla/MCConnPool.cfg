CONSTANTS
  Threads = {t1, t2, t3, t4}
  Conn = {c1, c2, c3}
  NoConn = NoConn
  Max = 2
SPECIFICATION PoolSpec
INVARIANTS
  TypeOK
  SlotsAccounted
  NoLostWakeup
PROPERTIES
  ImplementsLease
  Drains
