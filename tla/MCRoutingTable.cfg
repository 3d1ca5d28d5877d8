SPECIFICATION Spec
CONSTANTS
  NoPage = NoPage
  NoRoute = NoRoute
  NTablePages = 3
  Slots = 2
  Bits = {1, 2}
  PacketEntries = 2
  OldTables <- Olds
  WantedTables <- Wanteds
  MaxMishaps = 2
INVARIANTS
  CacheCoherent
  StoredWhenClosed
  OkMeansSet
  OneLossSurvived
PROPERTY
  SessionEnds
CHECK_DEADLOCK FALSE
