\* Two numbers, a state for each and one that is still being let go.
CONSTANTS
  Fds = {fd1, fd2}
  States = {s1, s2, s3}
  Flags = {in, out}
  None = None

SPECIFICATION Spec
SYMMETRY Interchangeable

INVARIANTS
  TypeOK
  PointersDoNotDangle
  EventsAreNotStale
  InterestIsWatched
  OneWaitPerFlag

PROPERTY OthersAreLeftAlone
