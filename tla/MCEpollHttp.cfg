\* Three concurrent requests, two pooled handles and one made later.
CONSTANTS
  h1 = h1
  h2 = h2
  h3 = h3
  Requests = {r1, r2, r3}
  Handles <- Three
  HTTP_POOL <- TwoMade
  None = None

SPECIFICATION Spec

INVARIANTS
  TypeOK
  HandlesInOnePlace
  NoHandleLost

PROPERTY ImplementsAsyncRequest

\* A client that was destroyed has nothing to do.
CHECK_DEADLOCK FALSE
