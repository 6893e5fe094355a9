\* An export among index updates, rollbacks, jobs and evidence imports.
SPECIFICATION Spec
CONSTANTS
  None = None
  ip = ip
  old = old
  new = new
  N = 3
  Ips = {ip}
  RuleSets = {old, new}
  Resources <- SomeResources
  Starts <- SomeStarts
  Vantages = {"v"}
  MaxTime = 2
  MaxWrites = 2
  PageSize = 2
  NamesLimit = 0
INVARIANTS TypeOK IpIndexInSync LabelsMatch PostingsResolve LookupsMatchRows
PROPERTIES TlsaIsLatest 
