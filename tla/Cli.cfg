CONSTANTS
  Documents <- Plans
  Handles = {"main", "fluent"}
  Labels = {"one", "two"}
  NoName = "none"
  Cwd <- Home
  Interrupts = TRUE
SPECIFICATION CliSpec
CHECK_DEADLOCK FALSE
INVARIANTS ExitTellsTruth StopsWhereItShould NothingLeftOpen ReferencesHold ChecksAgree PolicyKept
