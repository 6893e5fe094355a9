\* A chain that only grows, also while blocks are fetched and names are read; old
\* blocks and all names re-read by hand, repeated bootstraps, imports of old files.
SPECIFICATION Spec
CONSTANTS
  a = a
  None = None
  Names = {a}
  FinalHeight = 1
  MaxHeight = 3
  MaxBlocks = 2
  KeepBlocks = 1
  MaxCatchUp = 2
  ToHeights = {2}
  ScanHeights = {1}
  NameFiles = {{a}}
  BootHeights = {1, 2}
  Rebootstrap = TRUE
  ImportedBlocks = 1
  MayHide = TRUE
  Reorgs = FALSE
  QuietChain = FALSE
  Interruptions = TRUE
INVARIANTS StaleOnlyAhead
PROPERTIES RowsNeverGoBack
