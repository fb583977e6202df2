\* The first command of a workstation to a sensor that is up.
CONSTANTS
  Views <- MCCommandView
  MaxTicks = 2
  MaxDepth = 1
  Beams <- MCBeams
  Tracks <- MCTracks
  Components <- MCComponents
  HeartbeatEvery = 2
  AlarmEvery = 1
SPECIFICATION FairRadarSpec
CHECK_DEADLOCK FALSE
PROPERTY FirstCommandArrives
