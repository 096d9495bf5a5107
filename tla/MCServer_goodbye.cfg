\* A client that asks for a disconnect and then keeps its own half open.
CONSTANTS
  c1 = c1
  c2 = c2
  Conn = {c1}
  Reader = {c1}
  Capacity = 1
  SockCap = 1
  Requests <- FewRequests
  PeerFaults = {"closed"}
  MaxAdverts = 1
  MaxRequests = 2
SPECIFICATION LiveSpec
PROPERTIES ClosedAfterDisconnect
CHECK_DEADLOCK FALSE
