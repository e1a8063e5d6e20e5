SPECIFICATION FairSpec
CONSTANTS
  Keys <- OneKey
  TargetName <- Target
  MaxName = 3
  Names <- NamesOf
  MaxUid = 2
  Users = {u1}
  MaxInstances = 1
  Versions = {1}
  IdleTTL = 0
  MaxLifetime = 0
PROPERTIES StaleUrlDropped InstanceDecided LifetimeEnds
