\* One topic under each profile, subscribers that come late and leave.
CONSTANTS
  r1 = r1
  r2 = r2
  k1 = k1
  k2 = k2
  NoKey = NoKey
  Readers <- MCReaders
  Keys <- MCKeys
  Scenarios <- MCScenarios
  MaxWrites = 3
SPECIFICATION FairChannelSpec
CHECK_DEADLOCK FALSE
INVARIANTS
  InOrderOnce
  OkIsDelivered
  CurrentKept
  NothingReplayed
  NoLostWakeup
PROPERTIES
  WaitReturns
  LateJoinerCurrent
