SPECIFICATION Spec
CONSTANTS
  d1 = d1
  d2 = d2
  d3 = d3
  app = app
  t1 = t1
  t2 = t2
  t3 = t3
  Apps = {app}
  Tags = {t0, t1}
  InitialTag = t0
  Deploys = {d1}
  AppOf <- OneApp
  Taggings <- OwnTag
  AutoDeploys = {}
  NoDeploy = NoDeploy
  Workers = {w1, w2}
  Janitors = {j1}
  LockExpires = TRUE
  MaxFailures = 1
  MaxCrashes = 0
SYMMETRY WorkerSymmetry
INVARIANT ApprovedIsMerged
INVARIANT ApprovalRecordedOnce
INVARIANT AgreesWhileHealthy
