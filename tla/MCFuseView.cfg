CONSTANTS
  Threads = {w1, w2}
  Paths = {p1, p2}
  Dir = dir
  Reals = {r1, r2}
  None = none
  Unknown = unknown
  Handles = {h1}
  MaxEdits = 2
SPECIFICATION Spec
SYMMETRY Symmetric
INVARIANTS
  TypeOK
  AnswersWereTrue
  ReadsWereGranted
PROPERTIES
  ImplementsView
