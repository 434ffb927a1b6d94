\* Two workers that may be killed or fail at any step, never cancelled;
\* the config is edited twice and the native headers once, between builds.
CONSTANTS
  w1 = w1
  w2 = w2
  NoWorker = NoWorker
  Workers = {w1, w2}
  MaxVersion = 3
  LastVersion <- FewerNative
  HeaderText <- MCHeaderText
  AllowCancel = FALSE
  AllowCrash = TRUE
  AllowErrors = TRUE
  AllowThrow = TRUE
  AllowWriteFailure = FALSE
  AllowDeleteFailure = TRUE
  EditsDuringRun = FALSE
SYMMETRY Symmetry
SPECIFICATION Spec
INVARIANTS
  TypeOK
  SuccessMeansUpToDate
  InputsCacheListsLoaded
PROPERTY
  ImplementsIncrementalBuild
