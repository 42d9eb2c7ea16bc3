SPECIFICATION Spec
CONSTANTS
  RANKS = 1
  BANKS = 2
  BanksPerRefresh = 2
  UseRefresh = TRUE
  UseLowPower = TRUE
  DelayedRefreshThreshold = 1
  QueueModel = "PerRank"
  ScheduleScheme = 2
  ClosePage = 0
  StarvationThreshold = 1
  QueueSize = 3
  r1 = r1
  r2 = r2
  r3 = r3
  r4 = r4
  x = x
  y = y
  z = z
  Requests = {r1, r2, r3, r4}
  Rows = {x, y}
  Address <- TwoBanks
  RowNumber <- OwnNumber
  NoRow = NoRow
  NoRequest = NoRequest
INVARIANTS
  TypeOK
  RequestConserved
  ControllerPicture
  CommandsFit
  PowerDownAgrees
PROPERTIES
  RefreshComesFirst
  ServesRowsInOrder
SYMMETRY Alike
