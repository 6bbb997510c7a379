\* All small requests, one after the other, on one handle.
CONSTANTS
  Requests <- SmallRequests
  None = None

SPECIFICATION Spec

INVARIANTS
  TypeOK
  SameAsFresh
  NothingDangles
  SendsWhatWasAsked
