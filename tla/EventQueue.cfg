SPECIFICATION FairSpec
CONSTANTS
  cleanup = cleanup
  refresh = refresh
  transaction = transaction
  command = command
  resp1 = resp1
  resp2 = resp2
  reply = reply
  Events = {cleanup, refresh, transaction, command, resp1, resp2, reply}
  Kind <- KindOf
  OffChipLatency = 0
  tREFI = 2
  MaxSteps = 2
  MaxAhead = 2
  MaxCycle = 3
INVARIANTS
  TypeOK
  NextIsFirst
  NoEventLost
  SameCycleOrder
PROPERTIES
  KeepsAgenda
  EventsHappen
CHECK_DEADLOCK FALSE
