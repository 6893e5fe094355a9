\* A query of the second lookup of a broad probe is lost.
SPECIFICATION Spec
CONSTANTS
  ca = ca
  own = own
  None = None
  Certs = {ca, own}
  Trusted = {ca}
  Zones <- FewZones
  MaxHops = 3
  MaxAddresses = 2
  MaxMoves = 0
  Lossy = TRUE
INVARIANT OnlineIsValidated
