\* Every candidate in every zone, with lost queries and one change of the zone.
SPECIFICATION Spec
CONSTANTS
  ca = ca
  own = own
  None = None
  Certs = {ca, own}
  Trusted = {ca}
  Zones <- SomeZones
  MaxHops = 3
  MaxAddresses = 2
  MaxMoves = 1
  Lossy = TRUE
INVARIANTS TypeOK QueuedIsValidated HttpsIsAuthenticated AgreesWhenQuiet
PROPERTY ProbeEnds
