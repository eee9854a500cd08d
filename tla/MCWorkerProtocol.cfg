\* One lease, three identities, a journal of two receipts: every capacity and
\* revision limit is reached.  No symmetry: OperationSettles is a liveness property.
CONSTANTS
  RequestIds = {q1, q2, q3}
  Commands = {go, long}
  LongCommands = {long}
  MaxRevision = 2
  MaxReceipts = 2
  MaxJournalBytes = 3
  WorstBytes = 2
  RejectBytes = 1
  MaxMessages = 5
  MaxSaves = 1
SPECIFICATION FairSpec
INVARIANTS
  AppliedOnce
  EveryTurnHasReceipt
  ConfirmedAgreement
  UncertainWithinOneTurn
  ReplyIsTrue
  GenuineResultsAccepted
PROPERTIES
  JournalSpec
  OperationSettles
\* The host need not call again, and a dead lease stays dead.
CHECK_DEADLOCK FALSE
