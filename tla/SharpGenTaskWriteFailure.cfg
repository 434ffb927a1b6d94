CONSTANTS
  w1 = w1
  NoWorker = NoWorker
  Workers = {w1}
  MaxVersion = 1
  LastVersion <- SameVersions
  HeaderText <- MCHeaderText
  AllowCancel = FALSE
  AllowCrash = FALSE
  AllowErrors = FALSE
  AllowThrow = FALSE
  AllowWriteFailure = TRUE
  AllowDeleteFailure = FALSE
  EditsDuringRun = FALSE
SPECIFICATION Spec
INVARIANT
  CorruptCacheIsInvalid
