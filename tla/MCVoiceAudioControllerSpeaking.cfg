\* A narration of two requests.
CONSTANTS
  MaxTurns = 1
  MaxCalls = 1
  MaxStops = 1
  MaxNarrations = 2
  Capacity = 1
  InvalidTexts = FALSE
  SlowEngine = FALSE
  None = None
SPECIFICATION Spec
INVARIANTS
  SpeakingIsPlaying
\* The player need not act again.
CHECK_DEADLOCK FALSE
