\* Two requests, a pool of one, three instants to live.
CONSTANTS
  Requests = {r1, r2}
  Handles = {h1, h2}
  MaxPooled = 1
  Hooks = {"none"}
  None = None
  Horizon = 3
  MaxFired = 2
  Timeouts = {1, 2}

SPECIFICATION AllSpec

INVARIANTS
  AllTypeOK
  NeverSleepsPast

PROPERTIES
  EveryRequestSettles
  ImplementsAsyncRequest

\* Nothing is left to do once every request is settled and the clock stopped.
CHECK_DEADLOCK FALSE
