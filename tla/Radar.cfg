\* The demo's two processes, started in either order and interrupted at any time.
CONSTANTS
  Views <- MCViews
  MaxTicks = 3
  MaxDepth = 1
  Beams <- MCBeams
  Tracks <- MCTracks
  Components <- MCComponents
  HeartbeatEvery = 2
  AlarmEvery = 1
SPECIFICATION FairRadarSpec
CHECK_DEADLOCK FALSE
INVARIANTS
  AckedOnce
  AuditComplete
  CurrentKnown
  NoOldTracks
PROPERTIES
  AcksArrive
  LateWorkstationInformed
  StopsCleanly
