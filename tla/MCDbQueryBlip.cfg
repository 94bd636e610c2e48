CONSTANTS
  Threads = {t1, t2}
  Conn = {c1, c2}
  NoConn = NoConn
  Max = 2
  MaxStops = 1
  MaxSevers = 0
SPECIFICATION Safety
INVARIANTS
  BlipHidden
