CONSTANTS
  u1 = u1
  u2 = u2
  u3 = u3
  m1 = m1
  m2 = m2
  p1 = p1
  stA = stA
  stB = stB
  NamePart <- NamePartsRegistry
  UserNames <- UsersHome
  Uuid = {u1, u2, u3}
  NoUuid = NoUuid
  NoTag = NoTag
  TagOf <- TagsRegistry
  SyncPair = {}
  Message = {}
  EvenOf <- NoEven
  MlatAdsb = FALSE
  MaxSyncAc = 15
  MinRx = 4
  GenMod = 16
  MaxConns = 3
  MaxResets = 0
  MaxMsgs = 0
SPECIFICATION Spec
INVARIANT OneSlotPerFeeder
CHECK_DEADLOCK FALSE
