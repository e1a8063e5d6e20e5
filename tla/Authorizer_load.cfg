SPECIFICATION Spec
CONSTANTS
  t1 = t1
  u1 = u1
  u2 = u2
  delete = delete
  Policies = {p1, p2}
  Rows <- LoadRows
  Subjects <- Role
  Users = {u2}
  Targets = {t1}
  Names = {delete}
  Types = {"tool"}
  AnyTarget = AnyTarget
  NoName = NoName
  NoRow = NoRow
  Gone = Gone
  NoEntry = NoEntry
  Reqs = {r1, r2}
  Changes = 1
  MayCut = TRUE
SYMMETRY Symmetry
INVARIANTS CleanCacheExact DenialsOutranked
