\* A catch-up over two blocks, then a reorganisation of the second.
SPECIFICATION Spec
CONSTANTS
  a = a
  None = None
  Names = {a}
  FinalHeight = 1
  MaxHeight = 3
  MaxBlocks = 3
  KeepBlocks = 3
  MaxCatchUp = 2
  ToHeights = {}
  ScanHeights = {}
  NameFiles = {}
  BootHeights = {1}
  Rebootstrap = FALSE
  ImportedBlocks = 0
  MayHide = FALSE
  Reorgs = TRUE
  QuietChain = TRUE
  Interruptions = FALSE
PROPERTIES RolledBackToBefore
