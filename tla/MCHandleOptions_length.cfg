\* Is the length of a body ever that of an earlier request?
CONSTANTS
  Requests <- SmallRequests
  None = None

SPECIFICATION Spec

INVARIANT LengthIsNotInherited
