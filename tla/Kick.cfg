\* Eight instants, at most two fired waits in the queue; None is a model value.
CONSTANTS
  Horizon = 8
  MaxFired = 2
  None = None

SPECIFICATION Spec

INVARIANTS
  TypeOK
  NoLostWakeup
  KicksDeduplicated

PROPERTIES
  EveryTimeoutIsServed

\* A client that was destroyed has nothing to do once the clock stopped.
CHECK_DEADLOCK FALSE
