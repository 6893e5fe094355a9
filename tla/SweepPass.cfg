\* Roots behind one shared authority, behind two, and alone with theirs on a page;
\* batches killed, dates passing.
SPECIFICATION Spec
CONSTANTS
  A = A
  B = B
  N = 6
  Keys = {A, B}
  KeysOf <- Crossed
  Skipped = {3}
  Limit = 3
  PageSize = 3
  Samples = 1
INVARIANTS TypeOK NothingSkipped SamplesAreLimited
PROPERTIES SweepIsPass SweepCompletes
