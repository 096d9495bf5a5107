\* Two connections that share the channel and the accept loop: c1's client
\* reads on, c2's may stall; either may go away.  Of three adverts one is in c2's
\* socket, one in its write_all, and one more is still to be sent.
CONSTANTS
  c1 = c1
  c2 = c2
  Conn = {c1, c2}
  Reader = {c1}
  Capacity = 1
  SockCap = 1
  Requests <- LiveRequests
  PeerFaults = {"closed"}
  MaxAdverts = 3
  MaxRequests = 1
SPECIFICATION LiveSpec
PROPERTIES ImplementsFeed StalledClientsStallNoOther
CHECK_DEADLOCK FALSE
