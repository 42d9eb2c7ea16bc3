SPECIFICATION FairSpec
CONSTANTS
  RANKS = 1
  BANKS = 1
  BanksPerRefresh = 1
  UseRefresh = TRUE
  UseLowPower = TRUE
  DelayedRefreshThreshold = 1
  QueueModel = "PerRank"
  ScheduleScheme = 0
  ClosePage = 0
  StarvationThreshold = 1
  QueueSize = 2
  r1 = r1
  r2 = r2
  r3 = r3
  r4 = r4
  x = x
  y = y
  z = z
  Requests = {r1, r2, r3}
  Rows = {x, y}
  Address <- OneBank
  RowNumber <- OwnNumber
  NoRow = NoRow
  NoRequest = NoRequest
PROPERTIES
  EveryRequestServed
  RefreshHappens
