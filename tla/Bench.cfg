\* Up to three threads, four requests and a window of three.
CONSTANTS
  Threads = {1, 2, 3}
  None = None
  Totals = {0, 1, 3, 4}
  Concurrencies = {1, 2, 3}

SPECIFICATION Spec

INVARIANTS
  TypeOK
  LibraryUp
  ReportAddsUp
  ConcurrencyDivided

PROPERTY BenchmarkEnds

\* The benchmark is over once it has reported, or its busy loops spin.
CHECK_DEADLOCK FALSE
