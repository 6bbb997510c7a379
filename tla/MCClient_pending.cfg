\* Is pending_requests() the number of transfers in flight?
CONSTANTS
  Requests = {r1, r2}
  Handles = {h1, h2}
  MaxPooled = 1
  Hooks <- NoSteal
  None = None

SPECIFICATION Spec

INVARIANT PendingIsInFlight

CHECK_DEADLOCK FALSE
