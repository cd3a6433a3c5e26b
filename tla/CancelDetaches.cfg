CONSTANTS
  Coroutine = {p1, p2, p3, s1}
  Proc = {p1, p2, p3}
  Sqs = {s1}
  Main = Main
  NULL = NULL
  MaxTime = 2
SPECIFICATION Spec
INVARIANTS
  DetachOnlyCurrent
\* A program halted by an assertion or a FATAL message stops.
CHECK_DEADLOCK FALSE
