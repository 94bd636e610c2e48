CONSTANTS
  Workers = {w1, w2, w3}
  Slot = 2
  Handles = {h1}
  NoHandle = NoHandle
  Quit = Quit
  LoopJoins = TRUE
SPECIFICATION Safety
SYMMETRY Symm
INVARIANTS
  TypeOK
  InflightExact
  NoBlindWait
  BuffersOwned
  HandlesAtHome
