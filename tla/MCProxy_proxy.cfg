\* The whole proxy with one subscriber that reads and never goes, one device of
\* up to three states, and every restart of bluetoothd and drop of the device.
\* Sending stops at the last sighting and the client closes nothing: no deadlock
\* check.
CONSTANTS
  c1 = c1
  d1 = d1
  Conn = {c1}
  Reader = {c1}
  Capacity = 3
  SockCap = 1
  Requests <- SubRequests
  PeerFaults = {}
  MaxAdverts = 3
  MaxRequests = 1
  Device = {d1}
  Faults = {"crash", "forget"}
  MaxBackoff = 1
  MaxStreak = 0
  MaxSightings = 3
  MaxQueue = 1
SPECIFICATION ProxySpec
INVARIANTS FramesNeverGoBack
PROPERTIES NewsReachSubscribers
CHECK_DEADLOCK FALSE
