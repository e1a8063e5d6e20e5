\* Forwarded requests and server requests share the id space.
SPECIFICATION FairSpec
CONSTANTS
  Callers = {c1, c2}
  NoCaller = NoCaller
  RawIDs = {1}
  ServerIDs = {1}
  Oversize = FALSE
  PipeCap = 1
  MaxCalls = 2
INVARIANTS PendingWaits DeliveryNeverBlocks
PROPERTIES WrittenCallReturns CloseReleasesCallers CloseEndsProcess
CHECK_DEADLOCK FALSE
