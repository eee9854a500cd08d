\* No symmetry: DisposeReleasesAll is a liveness property.
CONSTANTS
  Leases = {l1, l2, l3}
  RequestIds = {q1, q2}
  MaxRevision = 2
  None = None
SPECIFICATION FairSpec
INVARIANTS
  FacadeState
  NoOrphanWorker
  UncertaintyAgrees
PROPERTIES
  SwapLosesNothing
  JournalSpec
  DisposeReleasesAll
\* A disposed facade does nothing more.
CHECK_DEADLOCK FALSE
