SPECIFICATION FairSpec
CONSTANTS
  v1 = v1
  v2 = v2
  v3 = v3
  ra = ra
  rb = rb
  own = own
  path = path
  Tags = {v1, v2, v3}
  AutoTags = {v3}
  EcrTags = {v2}
  Replicas = {ra, rb}
  FullName = own
  CommitName = path
  FirstTag = v1
  NoTag = NoTag
  MaxMerges = 3
  MaxHappenings = 2
INVARIANT PromptGoesBackOne
INVARIANT OneRowUnlessContested
PROPERTY RollbackStartsFromDeployed
PROPERTY FailureIsTold
CHECK_DEADLOCK FALSE
