SPECIFICATION FairPoolSpec
CONSTANTS
  Keys = {k1, k2}
  Procs = {p1, p2}
  Users = {u1, u2}
  NoProc = NoProc
  NoKey = NoKey
  MaxProcesses = 1
  IdleTTL = 0
  LongLine = TRUE
INVARIANTS OneServingPerKey ServingBounded
PROPERTIES IdleStopped DeadForgotten
