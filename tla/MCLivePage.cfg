\* An opening of two sentences, two preparations of it, two turns; lists so short
\* that they overflow.  Four caption lines of at most two rows of two words.
CONSTANTS
  TranscriptLimit = 3
  SourceLimit = 2
  ActionLogLimit = 1
  Segments = 2
  TurnIds <- TwoTurns
  MaxRetries = 2
  Lines = 2
  Words = 2
  HistoryLimit = 3
  MaxCalls = 4
SPECIFICATION PageSpec
INVARIANTS
  ProjectionIsTrue
  
  CaptionsFollow
PROPERTIES
  StopFreezesCaption
\* The player need not act again.
CHECK_DEADLOCK FALSE
