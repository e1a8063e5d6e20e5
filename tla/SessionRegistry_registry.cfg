SPECIFICATION FairSpec
CONSTANTS
  Sids = {s1}
  Reqs = {r1, r2}
  Objs = {o1, o2, o3}
  NoObj = NoObj
  NoSid = NoSid
  Timeout = 2
  Restarts = 1
INVARIANT RowNeverOutlivesObject
PROPERTIES ActiveUntilRestart AbandonedPurged
