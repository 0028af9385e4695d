\* Five requests; the second cannot be emitted, the fourth makes the worker
\* panic; every interleaving of the owner's calls and drops with the worker.
SPECIFICATION FairSpec
CONSTANTS
  MaxRequests = 5
  Unemittable = {2}
  Panicking = {4}
INVARIANTS TypeOK NoneLost InOrder RejectedOnlyWhenGone Drained
PROPERTIES ImplementsService DropReturns
CHECK_DEADLOCK FALSE
