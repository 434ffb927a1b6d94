CONSTANTS
  w1 = w1
  NoWorker = NoWorker
  Workers = {w1}
  MaxVersion = 1
  LastVersion <- SameVersions
  HeaderText <- MCHeaderText
  AllowCancel = FALSE
  AllowCrash = TRUE
  AllowErrors = FALSE
  AllowThrow = FALSE
  AllowWriteFailure = FALSE
  AllowDeleteFailure = FALSE
  EditsDuringRun = FALSE
SPECIFICATION Spec
INVARIANT
  DirtyRegeneratesFully
