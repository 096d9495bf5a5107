\* One connection whose client reads on, pipelines that subscribe, unsubscribe
\* and disconnect, a malformed one too, adverts in between, and a client that may
\* close or reset.
CONSTANTS
  c1 = c1
  c2 = c2
  Conn = {c1}
  Reader = {c1}
  Capacity = 1
  SockCap = 1
  Requests <- CoreRequests
  PeerFaults = {"closed", "reset"}
  MaxAdverts = 2
  MaxRequests = 3
SPECIFICATION LiveSpec
INVARIANTS RepliesInOrder AdvertsExplained
PROPERTIES RequestsServed GoneClientsReaped
CHECK_DEADLOCK FALSE
