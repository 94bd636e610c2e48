CONSTANTS
  Workers = {w1, w2}
  Slot = 2
  Handles = {}
  NoHandle = NoHandle
  Quit = Quit
  LoopJoins = FALSE
SPECIFICATION Spec
INVARIANTS
  NoUseAfterDestroy
PROPERTIES
  Answered
  ShutdownEnds
