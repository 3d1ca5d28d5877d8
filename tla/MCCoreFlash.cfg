SPECIFICATION Spec
CONSTANTS
  Width = 18
  SectorPages = 2
  Protected = 2
  RoutingTable = 4
  UserConfig = 6
  App = 8
  FirmwareEnd = 11
  FlashEnd = 16
  Data = {"x"}
  Blank = "blank"
  Torn = "torn"
  InitialFlash <- Flashes
  MaxCalls = 2
  MaxCommands = 1
  MaxResets = 1
INVARIANTS
  RequestUnderLockout
  ServedOnce
PROPERTIES
  ReservedUntouched
  CallReturns
CHECK_DEADLOCK FALSE
