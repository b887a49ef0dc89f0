SPECIFICATION FairSpec
CONSTANTS
  d1 = d1
  d2 = d2
  d3 = d3
  app = app
  t1 = t1
  t2 = t2
  t3 = t3
  Apps = {app}
  Tags = {t0, t1}
  InitialTag = t0
  Deploys = {d1}
  AppOf <- OneApp
  Taggings <- OwnTag
  AutoDeploys = {}
  NoDeploy = NoDeploy
  Workers = {w1}
  Janitors = {j1}
  LockExpires = TRUE
  MaxFailures = 1
  MaxCrashes = 1
PROPERTY PendingLeaves
PROPERTY LabelledOrphanIsFound
PROPERTY EveryPRResolves
PROPERTY MergingEndsWhileHealthy
