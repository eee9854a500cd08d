\* Three turns in a store for three, with identities to spare.
CONSTANTS
  Interactions = {i1, i2, i3, i4}
  Opening = o
  Introduction = p
  MaxTurns = 3
  MaxRequests = 3
  MaxPreludes = 0
  None = None
SPECIFICATION Spec
SYMMETRY TurnSymmetry
INVARIANTS
  TurnsRecorded
  NoLostTurn
  OutcomeIsTrue
\* Players need not speak again.
CHECK_DEADLOCK FALSE
