\* Seven lines: two hops with fields, or one response whose fields repeat.
CONSTANTS
  Spellings <- SmallSpellings
  Folded <- LowerCase
  Values = {"a", "b"}
  MaxLines = 7

SPECIFICATION Spec

INVARIANTS
  TypeOK
  FinalResponseOnly
  LookupsAgree
  RepeatsAreCombined

\* The longest text ends the run.
CHECK_DEADLOCK FALSE
