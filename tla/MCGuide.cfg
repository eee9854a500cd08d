\* Three turns; facts keep the two oldest sources.
CONSTANTS
  Objects = {"house", "door", "mailbox", "leaflet", "tree"}
  Directions = {"north"}
  SceneSources = 2
  Utterances <- SomeUtterances
  KnowledgeLimit = 32
  MaxTurns = 3
SPECIFICATION Spec
INVARIANTS
  CommandIsAuthorized
  PendingIsCurrent
  MemoryIsTrue
  
\* The player need not speak again.
CHECK_DEADLOCK FALSE
