\* One sentence, one preparation, no turn: the welcome and its failure suffice.
CONSTANTS
  TranscriptLimit = 3
  SourceLimit = 2
  ActionLogLimit = 1
  Segments = 1
  TurnIds <- TwoTurns
  MaxRetries = 1
  Lines = 1
  Words = 1
  HistoryLimit = 1
  MaxCalls = 1
SPECIFICATION PageSpec
INVARIANT
  NotRegated
CHECK_DEADLOCK FALSE
