CONSTANTS
  Obj = {o1, o2, o3}
  Local = {h1, h2}
  NULL = NULL
SPECIFICATION Spec
INVARIANTS
  CountsHandles
  OnlyRingsLeak
\* A program whose behaviour is undefined is not followed.
CHECK_DEADLOCK FALSE
