CONSTANTS
  u1 = u1
  u2 = u2
  u3 = u3
  m1 = m1
  m2 = m2
  p1 = p1
  stA = stA
  stB = stB
  NamePart <- NamePartsClock
  UserNames <- UsersClock
  Uuid = {}
  NoUuid = NoUuid
  NoTag = NoTag
  TagOf <- TagsClock
  SyncPair = {p1}
  Message = {m1, m2}
  EvenOf <- EvenFrames
  MlatAdsb = FALSE
  MaxSyncAc = 2
  MinRx = 2
  GenMod = 16
  MaxConns = 3
  MaxResets = 1
  MaxMsgs = 4
SYMMETRY Stations
SPECIFICATION Spec
INVARIANT TypeOK
INVARIANT TimesInCurrentClock
INVARIANT KeptFromHolder
INVARIANT RecipientsHeard
CHECK_DEADLOCK FALSE
