\* One connection, every kind of request and of fault.
CONSTANTS
  c1 = c1
  c2 = c2
  Conn = {c1}
  Reader = {}
  Capacity = 2
  SockCap = 1
  Requests <- AllRequests
  PeerFaults = {"closed", "reset", "vanished"}
  MaxAdverts = 3
  MaxRequests = 2
SPECIFICATION SafeSpec
INVARIANTS TypeOK OrderedAdverts GoodbyeIsLast
PROPERTY ImplementsFeed
CHECK_DEADLOCK FALSE
