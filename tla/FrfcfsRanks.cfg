SPECIFICATION Spec
CONSTANTS
  RANKS = 2
  BANKS = 2
  BanksPerRefresh = 1
  UseRefresh = TRUE
  UseLowPower = FALSE
  DelayedRefreshThreshold = 2
  QueueModel = "PerRank"
  ScheduleScheme = 2
  ClosePage = 2
  StarvationThreshold = 1
  QueueSize = 2
  r1 = r1
  r2 = r2
  r3 = r3
  r4 = r4
  x = x
  y = y
  z = z
  Requests = {r1}
  Rows = {x, y}
  Address <- LastBank
  RowNumber <- OwnNumber
  NoRow = NoRow
  NoRequest = NoRequest
INVARIANTS
  ClosePageCloses
  RefreshFlagsAgree
  RefreshVisitsGroups
