CONSTANTS
  i1 = i1
  i2 = i2
  i3 = i3
  a = a
  b = b
  Backends = {"sqlite", "postgres", "redis"}
  Imports = {i1, i2, i3}
  Names = {a, b}
  List <- MCList
  Old = {a}
  Original = original
SPECIFICATION Spec
INVARIANTS
  TypeOK
  
PROPERTIES
  SoloImportReplaces
  BuiltTableMounts
