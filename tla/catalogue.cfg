SPECIFICATION FairSpec
CONSTANTS
  x = x
  y = y
  z = z
  p = p
  q = q
  any = any
  release = release
  ra = ra
  rb = rb
  Beginnings <- Rivals
  Repos = {ra, rb}
  OnMain = {rb}
  Names = {x, y, z}
  Paths = {p, q}
  Patterns = {any, release}
  Files <- RepoFiles
  OperatorFiles <- OperatorVersions
  Operator = Operator
  NoFile = NoFile
  BadFile = BadFile
  MaxHappenings = 2
INVARIANT DistinctTargets
INVARIANT MissedOnlyWhileReloading
PROPERTY ExcludedIsFlagged
PROPERTY CatalogueConverges
PROPERTY WorkerConverges
PROPERTY ConflictIsReported
