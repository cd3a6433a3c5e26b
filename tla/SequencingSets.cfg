CONSTANTS
  Proc = {p1, p2, p3, p4}
  Time = {0, 1, 2}
  NULL = NULL
SPECIFICATION MCSpec
INVARIANTS
  SameFirst
  PrioBooksAgree
PROPERTIES
  DllImplementsSeqSet
  PrioImplementsSeqSet
