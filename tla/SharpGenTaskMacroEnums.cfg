CONSTANTS
  w1 = w1
  NoWorker = NoWorker
  Workers = {w1}
  MaxVersion = 2
  LastVersion <- SameVersions
  HeaderText <- MCHeaderText
  AllowCancel = FALSE
  AllowCrash = FALSE
  AllowErrors = FALSE
  AllowThrow = FALSE
  AllowWriteFailure = FALSE
  AllowDeleteFailure = FALSE
  EditsDuringRun = FALSE
SPECIFICATION Spec
INVARIANT
  MacroEnumsAreParsed
