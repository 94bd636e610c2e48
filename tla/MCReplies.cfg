CONSTANTS
  Users = {mounter, alice, bob}
  Mounter = mounter
  NoId = noid
  MaxSize = 5
  MaxTarget = 4
SPECIFICATION Spec
INVARIANTS
  TypeOK
  InBounds
  LinkFits
  
  OneIdentity
