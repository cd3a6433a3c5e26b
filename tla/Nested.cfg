CONSTANTS
  Coroutine = {p1, p2, p3, s1, s2}
  Proc = {p1, p2, p3}
  Sqs = {s1, s2}
  Main = Main
  NULL = NULL
  MaxTime = 1
SPECIFICATION Spec
INVARIANTS
  LineOfEvents
  SwitchesSucceed
  RunningHasNotice
PROPERTIES
  ActivatedRunsNext
\* A program halted by an assertion or a FATAL message stops.
CHECK_DEADLOCK FALSE
