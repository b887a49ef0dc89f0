SPECIFICATION FairSpec
CONSTANTS
  ha = ha
  hb = hb
  ra = ra
  rb = rb
  Posters = {ha, hb}
  Replicas = {ra, rb}
  ThreadTTL = 2
  Pending = Pending
  Polls = 2
  Interval = 2
  LockTTL = 3
  LongestPass = 4
  MaxThreads = 2
  MaxHappenings = 2
INVARIANT KeysInv
INVARIANT OneOpensTheThread
INVARIANT PassesOverlapWhenLong
PROPERTY PendingPasses
PROPERTY PassesKeepPace
