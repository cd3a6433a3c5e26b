CONSTANTS
  SimLen = 5
  MaxGap = 2
  MaxTime = 7
  Job = {1, 2, 3, 4, 5}
  Srv = Srv
  Snk = Snk
  Src = Src
  SimMain = SimMain
  Level = Level
  Proc = {1, 2, 3, 4, 5, Srv, Snk, Src, SimMain}
  Sqs = {Level}
  Coroutine = {1, 2, 3, 4, 5, Srv, Snk, Src, SimMain, Level}
  Main = Main
  NULL = NULL
SPECIFICATION Mm1Spec
INVARIANTS
  NobodySleepsOnWork
  EveryJobHasAPlace
  FirstComeFirstServed
  RunsWithoutFault
PROPERTIES
  SimulationEnds
  JobsLeave
