\* bluetoothd dies once the discovery has begun and comes back.
CONSTANTS
  d1 = d1
  Device = {}
  Faults = {"crash"}
  MaxBackoff = 2
  MaxStreak = 1
  MaxSightings = 0
  MaxQueue = 1
SPECIFICATION Spec
PROPERTY NotLeftBlind
CHECK_DEADLOCK FALSE
