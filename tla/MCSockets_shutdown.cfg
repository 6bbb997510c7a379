\* Does what curl shuts down in ~Client always fail?
CONSTANTS
  Fds = {fd1, fd2}
  States = {s1, s2, s3}
  Flags = {in, out}
  None = None

SPECIFICATION Spec
SYMMETRY Interchangeable

INVARIANT ShutdownFailsAtOnce
