\* Three concurrent requests, a handle for each, a pool of two.
CONSTANTS
  Requests = {r1, r2, r3}
  Handles = {h1, h2, h3}
  MaxPooled = 2
  Hooks <- AllHooks
  None = None

SPECIFICATION Spec
SYMMETRY Interchangeable

INVARIANTS
  TypeOK
  AtMostOnce
  NeverLost
  MessagesReachTheirRequest
  PoolClean
  AbortOnlyWhenAsked
  PendingNeverOvercounts

PROPERTY CancelWins

\* A client that was destroyed, its posted handlers run, has nothing to do.
CHECK_DEADLOCK FALSE
