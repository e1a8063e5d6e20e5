\* Configured as SSE or falling back to it, then calls by two goroutines.
SPECIFICATION FairSpec
CONSTANTS
  Callers = {c1, c2}
  NoCaller = NoCaller
  Opener = c1
  Forwarders = {c2}
  Transports = {"http", "sse"}
  RawIDs = {9}
  Reuses = FALSE
  ServerIDs = {}
  Notifies = FALSE
  WireCap = 1
  MaxCalls = 4
INVARIANTS TypeOK NeverStuck NoAnswerLost
PROPERTIES CallReturns NothingLeft ImplementsRequestReply
CHECK_DEADLOCK FALSE
