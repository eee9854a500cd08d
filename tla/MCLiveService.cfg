\* Two calls against a budget of one request; the server restarts once.
SPECIFICATION Spec
CONSTANTS
    Calls = {c1, c2}
    Requests <- SomeRequests
    MaxRequests = 1
    MaxEpoch = 2
INVARIANTS
  BudgetOK
  OutcomeIsTrue
PROPERTIES
  StopReachesProvider
  AnswerReachesPage
\* The pages need not call again.
CHECK_DEADLOCK FALSE
