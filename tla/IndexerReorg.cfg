\* Reorganisations and interruptions between any two RPC calls, nightly commands.
SPECIFICATION FairSpec
CONSTANTS
  a = a
  None = None
  Names = {a}
  FinalHeight = 1
  MaxHeight = 4
  MaxBlocks = 3
  KeepBlocks = 1
  MaxCatchUp = 3
  ToHeights = {}
  ScanHeights = {}
  NameFiles = {}
  BootHeights = {1}
  Rebootstrap = FALSE
  ImportedBlocks = 0
  MayHide = FALSE
  Reorgs = TRUE
  QuietChain = FALSE
  Interruptions = TRUE
INVARIANTS TypeOK HistoryIsContiguous ExactUndo
PROPERTIES Converges
