CONSTANTS
  w1 = w1
  w2 = w2
  NoWorker = NoWorker
  Workers = {w1, w2}
  MaxVersion = 2
  LastVersion <- SameVersions
  HeaderText <- MCHeaderText
  AllowCancel = TRUE
  AllowCrash = FALSE
  AllowErrors = FALSE
  AllowThrow = FALSE
  AllowWriteFailure = FALSE
  AllowDeleteFailure = FALSE
  EditsDuringRun = FALSE
SPECIFICATION Spec
INVARIANT
  InputsCacheListsLoaded
