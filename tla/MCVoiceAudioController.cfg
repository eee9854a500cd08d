\* Three turns in a store for two, two playbacks, two stops, texts that are
\* refused.  No symmetry: ProcessingSettles is a liveness property.
CONSTANTS
  MaxTurns = 3
  MaxCalls = 2
  MaxStops = 2
  MaxNarrations = 2
  Capacity = 2
  InvalidTexts = TRUE
  SlowEngine = FALSE
  None = None
SPECIFICATION LiveSpec

  
  
  
  
PROPERTIES
  ProcessingSettles
\* The player need not act again.
CHECK_DEADLOCK FALSE
