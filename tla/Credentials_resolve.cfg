\* A session connects and is recycled while its target's credentials are written.
SPECIFICATION CredentialsSpec
CONSTANTS
  Sessions <- OneSession
  Identities <- Joins
  Configs <- BothKinds
  MaxStored = 2
  MaxChanges = 1
  MaxRecycles = 1
INVARIANTS CredentialsTypeOK NeverPassedOver AsIfAtOnce ProcessOfKey
CHECK_DEADLOCK FALSE
