\* The import and the evidence queue under the lock, with subdomains.
SPECIFICATION Spec
CONSTANTS
  r1 = r1
  None = None
  Roots = {r1}
  Limit = 1
  MaxHash = 2
  Subdomain = TRUE
  Sweeps = FALSE
  Locked = TRUE
INVARIANT ChangedResourceIsDue
PROPERTIES NoResurrection QueueDrains
