SPECIFICATION Spec
CONSTANTS
  d1 = d1
  d2 = d2
  d3 = d3
  app = app
  t1 = t1
  t2 = t2
  t3 = t3
  Apps = {app}
  Tags = {t0, t1, t2}
  InitialTag = t0
  Deploys = {d1, d2}
  AppOf <- OneApp
  Taggings <- OwnOrSharedTag
  AutoDeploys = {d2}
  NoDeploy = NoDeploy
  Workers = {w1}
  Janitors = {j1}
  LockExpires = TRUE
  MaxFailures = 1
  MaxCrashes = 1
INVARIANT LifecycleInv
INVARIANT ConcurrentDeploysLostALock
PROPERTY ImplementsGate
