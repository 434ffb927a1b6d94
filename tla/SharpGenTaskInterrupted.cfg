\* Two workers, started, cancelled, killed and failing without end; the
\* inputs never change.
CONSTANTS
  w1 = w1
  w2 = w2
  NoWorker = NoWorker
  Workers = {w1, w2}
  MaxVersion = 1
  LastVersion <- SameVersions
  HeaderText <- MCHeaderText
  AllowCancel = TRUE
  AllowCrash = TRUE
  AllowErrors = FALSE
  AllowThrow = TRUE
  AllowWriteFailure = TRUE
  AllowDeleteFailure = TRUE
  EditsDuringRun = FALSE
SPECIFICATION FairSpec
INVARIANTS
  OneGenerator
  CleanMeansConsistent
PROPERTY
  EveryBuildEnds
