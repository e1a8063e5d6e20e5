SPECIFICATION Spec
CONSTANTS
  t1 = t1
  t2 = t2
  Ids <- PlainIds
  Targets = {t2}
  Clients = {c1, c2}
  Reqs = {r1, r2}
  NoClient = NoClient
  Allowed <- SomeAllowed
  Changes = 1
SYMMETRY Symmetry
INVARIANTS FreshClientsMatch CallsUnderOwnClaims RecycleIffChanged
