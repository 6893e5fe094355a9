\* Three roots, one behind a route too large to sweep; routes come and go.
SPECIFICATION Spec
CONSTANTS
  x = x
  y = y
  None = None
  N = 3
  Routes = {x}
  MaxHash = 1
  DsRoots = {1, 3}
  Unswept = {3}
  Shared <- TwoGroups
  Limit = 1
  PreLimit = 1
  Locked = TRUE
INVARIANT TypeOK
PROPERTIES TierIsGated RoutesGetProbed
