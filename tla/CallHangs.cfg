CONSTANTS
  Coroutine = {c1, c2, c3}
  Main = Main
  NULL = NULL
SPECIFICATION CoSpec
INVARIANT CallOperatingDiagnosed
\* A program halted by a FATAL message stops.
CHECK_DEADLOCK FALSE
