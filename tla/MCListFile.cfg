CONSTANTS
  Letters = {"a", "b"}
  Trees <- MCTrees
  Width = 3
  Capacity = 13
  Rooms <- MCRooms
  Enough = 1000
SPECIFICATION Spec
INVARIANTS
  TypeOK
  GoodEntriesLoaded
  NothingElseLoaded
