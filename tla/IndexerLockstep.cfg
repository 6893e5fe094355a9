\* The chain stands still during a command and catch-up never spans two blocks.
SPECIFICATION Spec
CONSTANTS
  a = a
  b = b
  None = None
  Names = {a, b}
  FinalHeight = 1
  MaxHeight = 4
  MaxBlocks = 4
  KeepBlocks = 3
  MaxCatchUp = 1
  ToHeights = {}
  ScanHeights = {}
  NameFiles = {}
  BootHeights = {1}
  Rebootstrap = FALSE
  ImportedBlocks = 0
  MayHide = FALSE
  Reorgs = TRUE
  QuietChain = TRUE
  Interruptions = FALSE
SYMMETRY NamesSymmetry
INVARIANTS CaughtUpIsExact SummaryCurrent
PROPERTIES IndexIsReplica
