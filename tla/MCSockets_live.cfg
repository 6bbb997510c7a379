\* Two numbers, a state for each and one being let go, one wait each:
\* liveness, so no symmetry.
CONSTANTS
  Fds = {fd1, fd2}
  States = {s1, s2, s3}
  Flags = {in}
  None = None

SPECIFICATION Spec

PROPERTY EventsReachCurl
