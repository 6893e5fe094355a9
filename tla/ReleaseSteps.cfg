\* The pipeline and one generation by hand, two states of the database, one
\* archive kept and room for two more.
SPECIFICATION Spec
CONSTANTS
  pipeline = pipeline
  hand = hand
  None = None
  Procs = {pipeline, hand}
  Pipeline = pipeline
  MaxVersion = 2
  Shown <- Blocks
  MaxArchives = 3
  Keep = 1
INVARIANTS TypeOK SiteNotLost VerifiedIsOneSnapshot ArchiveSurvives PrunedToKeep
PROPERTY ReleaseRecovers
