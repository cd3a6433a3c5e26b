CONSTANTS
  Coroutine = {p1, p2, p3, s1}
  Proc = {p1, p2, p3}
  Sqs = {s1}
  Var = {v1, v2}
  Main = Main
  NULL = NULL
  MaxTime = 0
SPECIFICATION OwnSpec
INVARIANTS
  RunningIsHeld
  DeletedHasNoNotice
  DeletedIsOut
\* A program halted by an assertion or a FATAL message stops.
CHECK_DEADLOCK FALSE
