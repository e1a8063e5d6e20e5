\* Callers that use allocated ids only, and a child that makes no requests.
SPECIFICATION Spec
CONSTANTS
  Callers = {c1, c2}
  NoCaller = NoCaller
  RawIDs = {}
  ServerIDs = {}
  Oversize = TRUE
  PipeCap = 1
  MaxCalls = 3
SYMMETRY CallerSymmetry
PROPERTY ImplementsRequestReply
CHECK_DEADLOCK FALSE
