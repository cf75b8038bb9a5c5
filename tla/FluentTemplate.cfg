CONSTANTS
  Documents <- AllDocuments
  Workspace <- Home
  OutputDir <- Outputs1
  Counting <- Counted
  Indexed <- Parts
  Braced <- Unknown
  Unquotable <- Bracketed
  Escaped <- Unescaped
SPECIFICATION Spec
CHECK_DEADLOCK FALSE
INVARIANTS FailsOnlyOverPlace DrivenInOrder SolvesWhatWasAsked CheckpointsKeepUp NothingOverwritten PicturesShowTheirs
