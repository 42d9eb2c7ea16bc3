SPECIFICATION Spec
CONSTANTS
  RANKS = 1
  BANKS = 2
  BanksPerRefresh = 2
  UseRefresh = TRUE
  UseLowPower = TRUE
  DelayedRefreshThreshold = 1
  QueueModel = "PerBank"
  ScheduleScheme = 1
  ClosePage = 1
  StarvationThreshold = 1
  QueueSize = 2
  r1 = r1
  r2 = r2
  r3 = r3
  r4 = r4
  x = x
  y = y
  z = z
  Requests = {r1, r2, r3, r4}
  Rows = {x, y, z}
  Address <- TwoMuxes
  RowNumber <- SharedNumber
  NoRow = NoRow
  NoRequest = NoRequest
INVARIANTS
  CommandsFit
