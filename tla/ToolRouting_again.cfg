SPECIFICATION Spec
CONSTANTS
  Targets <- TwoTargets
  Offers <- SharedOffers
  Allowed <- NotAtH
  Anywhere <- NoNames
  Lists = {l1, l2}
  Calls = {c1}
  HasFallback = TRUE
  MaxRecycles = 1
SYMMETRY Symmetry
INVARIANTS TypeOK CallReachesListed PrefixedRouted SentIsAllowed
