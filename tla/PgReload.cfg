SPECIFICATION Spec
CONSTANTS
  Reloads <- MCReloads
  r1 = r1
  r2 = r2
  MaxCommits = 2
  MaxReloads = 4
INVARIANTS
  IdentitiesOfOneReload
  ScalarsFollowTheStore
PROPERTIES
  ReloadsAreRecent
CHECK_DEADLOCK FALSE
