\* One device that comes, changes and goes; the adapter is switched, scans
\* pause, bluetoothd dies, the bus breaks.
CONSTANTS
  d1 = d1
  Device = {d1}
  Faults = {"power", "scan", "bus", "crash", "forget"}
  MaxBackoff = 2
  MaxStreak = 1
  MaxSightings = 3
  MaxQueue = 1
SPECIFICATION Spec
INVARIANTS TypeOK DiscoversIntoStreams DuplicatesWanted NewestIsSent
  FetchedNeverGoesBack BackoffFollowsFailures
PROPERTIES BlindnessEnds SightingsReachTheChannel
CHECK_DEADLOCK FALSE
