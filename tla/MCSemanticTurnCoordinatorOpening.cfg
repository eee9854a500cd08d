\* The opening, its retries and the introduction around one turn. No symmetry:
\* OperationSettles is a liveness property.
CONSTANTS
  Interactions = {i1, i2}
  Opening = o
  Introduction = p
  MaxTurns = 1
  MaxRequests = 1
  MaxPreludes = 3
  None = None
SPECIFICATION FairSpec
INVARIANTS
  OutputHasSource
PROPERTIES
  OperationSettles
\* Players need not speak again.
CHECK_DEADLOCK FALSE
