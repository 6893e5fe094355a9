\* Sweeps and preflights promote roots between imports.
SPECIFICATION Spec
CONSTANTS
  r1 = r1
  None = None
  Roots = {r1}
  Limit = 2
  MaxHash = 1
  Subdomain = TRUE
  Sweeps = TRUE
  Locked = TRUE
INVARIANTS TypeOK PromotionSticks
