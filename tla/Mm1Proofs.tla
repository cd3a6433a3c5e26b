----------------------------- MODULE Mm1Proofs -----------------------------
(***************************************************************************)
(* Proofs about Mm1, the queue of src/test/mm1.cc, for a simulation of any *)
(* length and any times between the events of a station.                   *)
(*                                                                         *)
(* A step of the program is a step of Process, so what ProcessProofs shows *)
(* of the kernel holds here (Mm1ImplementsKernel); since there is one level*)
(* that is all of it (Ground).  Mm1Inv is about the bodies: where each of  *)
(* them stands, and what it has left behind in the queues.                 *)
(***************************************************************************)
EXTENDS Mm1, ProcessProofs, FiniteSetTheorems

\* Where the body of each process may stand
Starting == {"server", "sink", "source", "start source", "start server", "start sink", "hold"}
Ending   == {"stop server", "stop sink", "end simulation", "over"}

BodyTypes ==
  /\ pc = [p \in Proc \cup {Main} |-> pc[p]]
  /\ pc[Main] \in {"begin", "main", "activate", "run", "end", "return"}
  /\ pc[SimMain] \in Starting \cup {"stop source"} \cup Ending
  /\ pc[Src] \in {"hold", "new", "send"}
  /\ pc[Srv] \in {"check", "serve", "release"}
  /\ pc[Snk] \in {"check", "take"}
  /\ \A j \in Job : pc[j] \in {"arrive", "queue", "leave", "deliver", "over"}
  /\ srvQueue \in Seq(Job) /\ snkQueue \in Seq(Job) /\ left \in Seq(Job)
  /\ inHand \in [{Src, Srv} -> Job \cup {NULL}]

\* The main program: before it calls run, and after.
MainInv ==
  /\ pc[Main] # "end" => current = Main
  /\ pc[Main] \in {"begin", "main", "activate"} => queued = {}
  /\ pc[Main] = "run" => queued = {SimMain}
  /\ pc[Main] \in {"begin", "main", "activate", "run"} => pc[SimMain] = "server"
  /\ pc[Main] \in {"main", "activate", "run"} => ~terminated[Level]
  /\ pc[Main] \in {"end", "return"} /\ current = Main => queued = {}

\* Until simulation_main holds it alone has run, and nothing has moved.
StartInv ==
  pc[SimMain] \in Starting =>
    /\ current \in {Main, Level, SimMain}
    /\ current # SimMain => pc[SimMain] = "server" /\ queued \subseteq {SimMain}
    /\ pc[Src] = "hold" /\ pc[Srv] = "check" /\ pc[Snk] = "check"
    /\ \A j \in Job : pc[j] = "arrive" /\ ev[j] = NULL
    /\ Job \cap alive = {}
    /\ srvQueue = <<>> /\ snkQueue = <<>> /\ left = <<>>
    /\ pc[SimMain] \in {"start sink", "hold"} => ev[Srv] # NULL
    /\ pc[SimMain] = "hold" => ev[Snk] # NULL

\* Once it stops the stations, nobody else runs any more.
StopInv ==
  pc[SimMain] \in Ending =>
    IF pc[SimMain] = "over" THEN current \in {Level, Main} /\ queued = {} ELSE current = SimMain

\* Whoever runs has the first notice ...
First(p) == \A q \in queued \ {p} : <<p, q>> \in before

CurrentFirst == current \in Proc /\ pc[SimMain] \notin Starting => First(current)

\* ... and the job that moves is the next.
NextUp(j) == \A q \in queued \ {j, current} : <<j, q>> \in before

Moving == Job \cap queued

\* Between two calls of the source and between the end of a service and the
\* next wake-up no job moves.
Nobody ==
  \/ current = SimMain
  \/ current = Src /\ pc[Src] # "hold"
  \/ current = Srv /\ pc[Srv] = "release"

MovingInv ==
  /\ \A j \in Moving : NextUp(j) /\ (current \in Proc => ev[j] <= ev[current])
  /\ \A i, j \in Moving : i = j
  /\ Nobody => Moving = {}

\* A station that does not sleep has its notice; one that sleeps has nothing
\* to do, and one that was woken has, or will have before it runs.
StationInv ==
  pc[SimMain] = "stop source" =>
    /\ pc[Srv] \in {"check", "release"} => ev[Srv] # NULL
    /\ pc[Srv] = "serve" =>
         IF ev[Srv] = NULL THEN srvQueue = <<>>
         ELSE srvQueue # <<>> \/ \E j \in Job : current = j /\ pc[j] = "queue"
    /\ pc[Snk] = "check" => ev[Snk] # NULL
    /\ pc[Snk] = "take" =>
         IF ev[Snk] = NULL THEN snkQueue = <<>>
         ELSE snkQueue # <<>> \/ \E j \in Job : current = j /\ pc[j] = "deliver"

JobInv ==
  /\ \A j \in Job :
       /\ pc[j] = "queue" => current = j /\ ev[Srv] # NULL
       /\ pc[j] = "deliver" => current = j /\ ev[Snk] # NULL
       /\ ev[j] # NULL => j \in queued
       /\ pc[j] # "arrive" => j \in alive
  /\ \A p \in Proc : terminated[p] <=> p \in Job /\ pc[p] = "over"

SourceInv ==
  /\ pc[Src] = "send" => /\ current = Src
                         /\ inHand[Src] \in Job \cap alive
                         /\ pc[inHand[Src]] = "arrive" /\ ev[inHand[Src]] = NULL
  /\ \A j \in Job \cap alive :
       pc[j] \in {"arrive", "queue"} => j \in queued \/ (pc[Src] = "send" /\ inHand[Src] = j)

InHand(j) == pc[Srv] = "release" /\ inHand[Srv] = j

Ran(q) == {q[i] : i \in DOMAIN q}

\* The lists hold the jobs whose bodies say so.
PlaceInv ==
  /\ \A j \in Job : InHand(j) => pc[j] = "leave" /\ ev[j] = NULL
  /\ pc[Srv] = "release" => inHand[Srv] \in Job
  /\ \A j \in Job : j \in Ran(srvQueue) <=> pc[j] = "leave" /\ ev[j] = NULL /\ ~InHand(j)
  /\ \A j \in Job : j \in Ran(snkQueue) \cup Ran(left) <=> pc[j] = "over"

\* How far a job has come
Stage(j) ==
  CASE j \notin alive -> 0
    [] j \in alive /\ pc[j] \in {"arrive", "queue"} -> 1
    [] j \in alive /\ pc[j] = "leave" /\ ev[j] = NULL /\ ~InHand(j) -> 2
    [] j \in alive /\ InHand(j) -> 3
    [] j \in alive /\ ((pc[j] = "leave" /\ ev[j] # NULL) \/ pc[j] = "deliver") -> 4
    [] OTHER -> 5

Rising(q) == \A i, k \in DOMAIN q : i < k => q[i] < q[k]

\* The jobs come on in the order of their creation.
OrderInv ==
  /\ \A i, k \in Job : i < k => Stage(i) >= Stage(k)
  /\ Rising(srvQueue) /\ Rising(snkQueue) /\ Rising(left)
  /\ \A i \in DOMAIN left, k \in DOMAIN snkQueue : left[i] < snkQueue[k]

QueuedHere == \A p \in queued : sqsOf[p] = Level

Mm1Inv ==
  /\ BodyTypes /\ Running /\ QueuedHere /\ MainInv /\ StartInv /\ StopInv /\ CurrentFirst /\ MovingInv
  /\ StationInv /\ JobInv /\ SourceInv /\ PlaceInv /\ OrderInv

-----------------------------------------------------------------------------
(***************************************************************************)
(* The program on the kernel                                               *)
(***************************************************************************)

\* What the kernel gives a program with one level.
Ground == KernelInv /\ LevelInv /\ FlatInv /\ NobodyNests

\* Nothing has two names.
LEMMA Names ==
  /\ Level \in Sqs /\ Sqs = {Level} /\ Level \notin Proc /\ Level # Main /\ Level # NULL
  /\ Main \notin Proc /\ Main # NULL /\ NULL \notin Proc /\ NULL \notin Time
  /\ Main \in All /\ Level \in All /\ Proc \subseteq All /\ NULL \notin All
  /\ {SimMain, Src, Srv, Snk} \subseteq Proc /\ Job \subseteq Proc
  /\ SimMain \notin Job /\ Src \notin Job /\ Srv \notin Job /\ Snk \notin Job
  /\ SimMain # Src /\ SimMain # Srv /\ SimMain # Snk /\ Src # Srv /\ Srv # Snk /\ Src # Snk
  /\ Job \subseteq Nat /\ Time \subseteq Nat /\ Gap \subseteq Nat \ {0}
BY ProgramAssumption, PartsAssumption, MainAssumption, NullAssumption, NoNoticeAssumption,
   MaxTimeAssumption
   DEF All, Stations, Time, Gap

\* A step of the program is a step of the kernel, with what a body does.
LEMMA Mm1Step ==
  ASSUME Mm1Next
  PROVE  Next \/ UNCHANGED vars
<1> USE Names
<1>1. ASSUME NEW p \in Proc,
             \/ Activate(p) \/ Cancel(p) \/ Passivate(p) \/ EndSimulation(p)
             \/ Return(p) \/ NewProcess(p) \/ EndLevel \/ Run
      PROVE  Next
  BY <1>1 DEF Next
<1>2. ASSUME NEW p \in Proc, NEW dt \in Time, Hold(p, dt) PROVE Next
  BY <1>2 DEF Next
<1>3. ASSUME NEW p, ActivateNear(p, Current, "after") PROVE Next
  BY <1>3 DEF Next, ActivateNear, Calls, Usable, Places
<1>4. SqsStep(Level) \/ BeginLevel(Level) => Next
  BY DEF Next
<1>5. SimLen \in Time /\ Gap \subseteq Time
  BY ProgramAssumption, MaxTimeAssumption DEF Time, Gap
<1>6. CASE MainStep
  BY <1>1, <1>4, <1>6 DEF MainStep
<1>7. CASE SimulationMain
  BY <1>1, <1>2, <1>5, <1>7 DEF SimulationMain
<1>8. CASE Source
  BY <1>1, <1>2, <1>3, <1>5, <1>8 DEF Source, ActivateAfterCurrent
<1>9. CASE \E j \in Job : JobBody(j)
  BY <1>1, <1>3, <1>9 DEF JobBody, ActivateAfterCurrent
<1>10. CASE Server
  BY <1>1, <1>2, <1>3, <1>5, <1>10 DEF Server, ActivateAfterCurrent
<1>11. CASE Sink
  BY <1>1, <1>11 DEF Sink
<1>12. CASE Scheduler \/ Exited
  BY <1>4, <1>12 DEF Scheduler, Exited, mm1Vars
<1> QED BY <1>6, <1>7, <1>8, <1>9, <1>10, <1>11, <1>12 DEF Mm1Next

\* The program uses the kernel as Process lets any program use it.
THEOREM Mm1ImplementsKernel == Mm1Spec => Spec
<1>1. Mm1Init => Init
  BY DEF Mm1Init
<1>2. [Mm1Next]_mm1Vars => [Next]_vars
  BY Mm1Step DEF mm1Vars
<1> QED BY <1>1, <1>2, PTL DEF Mm1Spec, Spec

LEMMA AlwaysGround == Mm1Spec => []Ground
<1>1. Spec => []NobodyNests
  BY Names, OneLevelIsFlat
<1> QED BY <1>1, Mm1ImplementsKernel, KernelInvariant, LevelInvariant, FlatInvariant, PTL DEF Ground

-----------------------------------------------------------------------------
(***************************************************************************)
(* What the calls of the bodies come to                                    *)
(***************************************************************************)

\* The process that runs, and the sequencing set.
LEMMA RunningProcess ==
  ASSUME Ground, QueuedHere, current \in Proc
  PROVE  /\ Current = current /\ current \in queued /\ sqsOf[current] = Level
         /\ ev[current] \in Time /\ ev[current] # NULL
         /\ TimeFault(Level) = "ok" /\ Now(Level) = ev[current] /\ Fault(current) = "ok"
         /\ Queue(Level) = queued /\ queued \subseteq Proc
         /\ \A p \in Proc : sqsOf[p] = Level => ~Dangling(p)
<1> USE DEF Ground, KernelInv, ControlInv
<1>1. /\ current \in queued /\ sqsOf[current] \in Sqs \cap alive /\ ~terminated[sqsOf[current]]
      /\ curProc[sqsOf[current]] = current
  BY DEF ControlIsGiven, HasControl
<1>2. sqsOf[current] = Level /\ Current = current /\ Level \in alive /\ ~terminated[Level]
  BY <1>1, Names DEF Current
<1>3. Queue(Level) = queued /\ queued \subseteq Proc
  BY DEF QueuedHere, Queue, NoticesInv, NoticesTypeOK
<1>4. /\ ev[current] \in Time /\ ev[current] # NULL
      /\ TimeFault(Level) = "ok" /\ Now(Level) = ev[current]
  BY <1>2, RunningTime, Names
<1>5. \A p \in Proc : sqsOf[p] = Level => ~Dangling(p)
  BY <1>2, Names DEF FlatInv, DanglingMeansOver
<1>6. Fault(current) = "ok"
  BY <1>1, <1>2, <1>4, <1>5 DEF Fault
<1> QED BY <1>1, <1>2, <1>3, <1>4, <1>5, <1>6

Quiet == UNCHANGED <<alive, sqsOf, outcome>>

\* activateAfter( current( ) ) of somebody idle
Wakes(p) ==
  /\ Quiet /\ UNCHANGED <<terminated, current>>
  /\ sqsOf[p] = Level /\ p \in alive /\ p \notin queued
  /\ queued' = queued \cup {p} /\ ev' = [ev EXCEPT ![p] = ev[current]]
  /\ \A q, r \in queued : <<q, r>> \in before' <=> <<q, r>> \in before
  /\ \A r \in queued : <<p, r>> \in before' <=> <<current, r>> \in before
  /\ <<current, p>> \in before'

\* hold( dt )
Waits(p, dt) ==
  /\ Quiet /\ UNCHANGED <<terminated, queued>>
  /\ current = p /\ current' = Level /\ p \in queued
  /\ ev' = [ev EXCEPT ![p] = ev[p] + dt] /\ ev[p] + dt \in Time
  /\ \A q, r \in queued \ {p} : <<q, r>> \in before' <=> <<q, r>> \in before
  /\ \A q \in queued \ {p} : <<q, p>> \in before' <=> ev[q] < ev[p] + dt

\* passivate( ) and the end of a body
Quits(p) ==
  /\ Quiet
  /\ current = p /\ current' = Level /\ p \in queued
  /\ queued' = queued \ {p} /\ ev' = [ev EXCEPT ![p] = NULL]
  /\ \A q, r \in queued \ {p} : <<q, r>> \in before' <=> <<q, r>> \in before

LEMMA WakesIdle ==
  ASSUME Ground, QueuedHere, Running, current \in Proc, NEW p \in Proc, ~terminated[p],
         ActivateNear(p, Current, "after")
  PROVE  IF ev[p] = NULL THEN Wakes(p) ELSE UNCHANGED vars
<1> USE DEF Ground, KernelInv
<1>1. CASE ev[p] # NULL
  BY <1>1 DEF ActivateNear, Stay, vars
<1>2. CASE ev[p] = NULL
  <2>1. /\ Current = current /\ current \in queued /\ ev[current] # NULL
        /\ Queue(Level) = queued /\ queued \subseteq Proc
    BY RunningProcess
  <2>2. p \in alive /\ sqsOf[p] = Level /\ p # current /\ p \notin queued
    BY <1>2, <2>1, UsableProc, Names
       DEF ActivateNear, Calls, Usable, NoticesInv, NoticesTypeOK
  <2>3. ScheduleNear(p, current, "after") /\ Stay
    BY <1>2, <2>1, <2>2 DEF ActivateNear, InsertNear
  <2>4. /\ ev' = [ev EXCEPT ![p] = ev[current]] /\ queued' = queued \cup {p}
        /\ before' = PlacedAfter(Without(before, p), queued, p, current)
    BY <2>1, <2>2, <2>3 DEF ScheduleNear
  <2>5. \A e \in before : e[1] # p /\ e[2] # p
    BY <2>2 DEF NoticesInv, NoticesTypeOK
  <2>6. before' = PlacedAfter(before, queued, p, current)
    BY <2>4, <2>5 DEF Without
  <2>7. /\ \A q, r \in queued : <<q, r>> \in before' <=> <<q, r>> \in before
        /\ \A r \in queued : <<p, r>> \in before' <=> <<current, r>> \in before
        /\ <<current, p>> \in before'
    BY <2>1, <2>2, <2>5, <2>6 DEF PlacedAfter
  <2> QED BY <1>2, <2>2, <2>3, <2>4, <2>7 DEF Wakes, Quiet, Stay, coVars, progVars
<1> QED BY <1>1, <1>2

LEMMA WaitsFor ==
  ASSUME Ground, QueuedHere, Running, NEW p \in Proc, NEW dt \in Nat, Hold(p, dt)
  PROVE  Waits(p, dt)
<1> USE DEF Ground, KernelInv
<1>1. current = p
  BY DEF Hold, Self
<1>2. /\ p \in queued /\ sqsOf[p] = Level /\ ev[p] \in Nat
      /\ TimeFault(Level) = "ok" /\ Now(Level) = ev[p] /\ Fault(p) = "ok"
      /\ Queue(Level) = queued /\ queued \subseteq Proc
  BY <1>1, RunningProcess, Names
<1>3. /\ ScheduleAt(p, ev[p] + dt) /\ Detach(p) /\ UNCHANGED <<progVars, simVars>>
      /\ ev[p] + dt \in Time
  BY <1>2 DEF Hold
<1>4. current' = Level /\ UNCHANGED <<alive, outcome, terminated>>
  BY <1>1, <1>2, <1>3, GivenToScheduler DEF Detach
<1>5. /\ ev' = [ev EXCEPT ![p] = ev[p] + dt] /\ queued' = queued
      /\ before' = PlacedAt(Without(before, p), queued \ {p}, ev, p, ev[p] + dt)
  BY <1>2, <1>3 DEF ScheduleAt
<1>6. \A q \in queued : ev[q] \in Nat
  BY Names DEF NoticesInv, NoticesTypeOK
<1>7. /\ \A q, r \in queued \ {p} : <<q, r>> \in before' <=> <<q, r>> \in before
      /\ \A q \in queued \ {p} : <<q, p>> \in before' <=> ev[q] < ev[p] + dt
  BY <1>2, <1>5, <1>6 DEF PlacedAt, Without
<1> QED BY <1>1, <1>2, <1>3, <1>4, <1>5, <1>7 DEF Waits, Quiet, progVars

\* Taking the notice of a process away.
LEMMA TakenAway ==
  ASSUME Ground, NEW p \in Proc, Unschedule(p)
  PROVE  /\ queued' = queued \ {p} /\ ev' = [ev EXCEPT ![p] = NULL]
         /\ \A q, r \in queued \ {p} : <<q, r>> \in before' <=> <<q, r>> \in before
BY DEF Unschedule, Forget

LEMMA LeavesAtCall ==
  ASSUME Ground, QueuedHere, Running, NEW p \in Proc, Passivate(p)
  PROVE  Quits(p) /\ UNCHANGED terminated
<1> USE DEF Ground
<1>1. current = p
  BY DEF Passivate, Self
<1>2. p \in queued /\ sqsOf[p] = Level /\ Fault(p) = "ok"
  BY <1>1, RunningProcess
<1>3. Unschedule(p) /\ Detach(p) /\ UNCHANGED <<progVars, simVars>>
  BY <1>2 DEF Passivate
<1>4. current' = Level /\ UNCHANGED <<alive, outcome, terminated>>
  BY <1>1, <1>2, <1>3, GivenToScheduler DEF Detach
<1> QED BY <1>1, <1>2, <1>3, <1>4, TakenAway DEF Quits, Quiet, progVars

LEMMA LeavesAtEnd ==
  ASSUME Ground, QueuedHere, Running, NEW p \in Proc, Return(p)
  PROVE  Quits(p) /\ terminated' = [terminated EXCEPT ![p] = TRUE]
<1> USE DEF Ground
<1>1. current = p
  BY DEF Return, Self
<1>2. p \in queued /\ sqsOf[p] = Level /\ ~Dangling(p)
  BY <1>1, RunningProcess
<1>3. Unschedule(p) /\ Finish(p) /\ UNCHANGED <<progVars, simVars>>
  BY <1>2 DEF Return
<1>4. current' = Level /\ UNCHANGED <<alive, outcome>>
  BY <1>1, <1>2, <1>3, GivenToScheduler DEF Finish
<1> QED BY <1>1, <1>2, <1>3, <1>4, TakenAway DEF Quits, Quiet, progVars, Finish

\* activate( ), before anything else runs or by simulation_main
Puts(p) ==
  /\ Quiet /\ UNCHANGED <<terminated, current>>
  /\ sqsOf[p] = Level /\ p \in alive
  /\ queued' = queued \cup {p} /\ ev'[p] # NULL
  /\ \A r \in Proc \ {p} : ev'[r] = ev[r]

\* cancel( ) of another process
Cancels(p) ==
  /\ Quiet /\ UNCHANGED <<terminated, current>>
  /\ queued' = queued \ {p} /\ ev' = [ev EXCEPT ![p] = NULL]
  /\ \A q, r \in queued \ {p} : <<q, r>> \in before' <=> <<q, r>> \in before

\* end_simulation( ) of a process
Closes(p) ==
  /\ Quiet /\ UNCHANGED <<terminated, ev>>
  /\ current = p /\ current' = Level /\ queued' = {}

\* The scheduler resumes p, or returns to the program.
Resumes(p) ==
  /\ Quiet /\ UNCHANGED <<terminated, queued, ev, before>>
  /\ current = Level /\ current' = p /\ p \in queued /\ First(p)

Stops ==
  /\ Quiet /\ UNCHANGED <<queued, ev, before>>
  /\ terminated' = [terminated EXCEPT ![Level] = TRUE]
  /\ current = Level /\ current' = Main /\ queued = {}

\* The constructors, run( ) and end_simulation( ) of the level
Creates(c) ==
  /\ UNCHANGED <<outcome, current, queued, ev, before>>
  /\ c \notin alive /\ alive' = alive \cup {c}
  /\ terminated' = [terminated EXCEPT ![c] = FALSE]

Starts ==
  /\ Quiet /\ UNCHANGED <<terminated, queued, ev, before>>
  /\ current = Main /\ current' = Level

Clears ==
  /\ UNCHANGED <<outcome, terminated, current, sqsOf, ev>>
  /\ queued' = {} /\ alive' = alive \ {Level}

LEMMA ActivatePuts ==
  ASSUME Ground, QueuedHere, Running, NEW p \in Proc, ~terminated[p], Activate(p),
         current \in Proc \/ (current = Main /\ queued = {} /\ ~terminated[Level])
  PROVE  Puts(p)
<1> USE DEF Ground, KernelInv
<1>1. p \in alive /\ sqsOf[p] = Level /\ Level \in alive
  BY UsableProc, Names DEF Activate, Calls, Usable
<1>2. TimeFault(Level) = "ok"
  BY RunningProcess, Names DEF TimeFault, Queue
<1>3. ~Dangling(p)
  BY <1>1, RunningProcess, Names DEF FlatInv, DanglingMeansOver
<1>4. Now(Level) \in Time
  BY <1>2, NowIsTime, Names
<1>5. CASE ev[p] # NULL
  <2>1. p \in queued /\ UNCHANGED vars
    BY <1>1, <1>2, <1>3, <1>5 DEF Dangling, Activate, InsertIfIdle, Stay, vars, Abort
  <2> QED BY <1>1, <1>5, <2>1 DEF Puts, Quiet, vars, coVars, evVars, progVars
<1>6. CASE ev[p] = NULL
  <2>1. ScheduleAt(p, Now(Level)) /\ Stay
    BY <1>1, <1>2, <1>6 DEF Activate, InsertIfIdle, Abort
  <2>2. /\ ev'[p] = Now(Level) /\ \A r \in Proc \ {p} : ev'[r] = ev[r]
        /\ queued' = queued \cup {p}
    BY <2>1, OneScheduled
  <2> QED BY <1>1, <1>4, <2>1, <2>2, Names DEF Puts, Quiet, Stay, coVars, progVars
<1> QED BY <1>5, <1>6

LEMMA CancelsOther ==
  ASSUME Ground, QueuedHere, Running, current \in Proc, First(current),
         NEW p \in Proc, p # current, Cancel(p)
  PROVE  Cancels(p)
<1> USE DEF Ground, KernelInv
<1>1. /\ sqsOf[p] = Level /\ curProc[Level] = current /\ current \in queued
      /\ Queue(Level) = queued /\ ~Dangling(p)
  BY RunningProcess, UsableProc, Names DEF Cancel, Calls, Current
<1>2. CASE ev[p] = NULL
  <2>1. UNCHANGED vars /\ p \notin queued /\ ev = [ev EXCEPT ![p] = NULL]
    BY <1>1, <1>2 DEF Cancel, Stay, vars, NoticesInv, NoticesTypeOK, Dangling
  <2> QED BY <2>1 DEF Cancels, Quiet, vars, coVars, evVars, progVars
<1>3. CASE ev[p] # NULL
  <2> DEFINE rest == Firsts(Without(before, p), queued \ {p})
  <2>1. current \in rest
    BY <1>1 DEF Firsts, First, Without
  <2>2. \A q \in rest : q = current
    BY <1>1, <2>1, Names DEF Firsts, Without, NoticesInv, LineOfEvents, IsLine
  <2>3. rest = {current}
    BY <2>1, <2>2
  <2>4. Unschedule(p) /\ UNCHANGED <<progVars, simVars>> /\ UNCHANGED coVars
    BY <1>1, <1>3, <2>3 DEF Cancel
  <2> QED BY <2>4, TakenAway DEF Cancels, Quiet, coVars, progVars
<1> QED BY <1>2, <1>3

LEMMA EndSimulationCloses ==
  ASSUME Ground, QueuedHere, Running, NEW p \in Proc, EndSimulation(p)
  PROVE  Closes(p)
<1> USE DEF Ground
<1>1. current = p
  BY DEF EndSimulation, Self
<1>2. sqsOf[p] = Level /\ Queue(Level) = queued
  BY <1>1, RunningProcess
<1>3. current' = Level /\ UNCHANGED <<alive, outcome, terminated>>
  BY <1>1, <1>2, GivenToScheduler DEF EndSimulation, Detach
<1> QED BY <1>1, <1>2, <1>3 DEF Closes, Quiet, EndSimulation, Forget, progVars

LEMMA SchedulerSteps ==
  ASSUME Ground, QueuedHere, Running, SqsStep(Level)
  PROVE  Stops \/ \E p \in Proc : Resumes(p)
<1> USE DEF Ground
<1>1. Queue(Level) = queued /\ queued \subseteq Proc
  BY DEF QueuedHere, Queue, KernelInv, NoticesInv, NoticesTypeOK
<1>2. outcome' = "ok"
  <2>1. KernelInv'
    BY KernelInvStep, Names DEF Next
  <2>2. outcome' \in KernelOutcomes \cup ProcessOutcomes
    BY <2>1 DEF KernelInv, ControlInv, KernelTypeOK
  <2>3. CASE Finish(Level)
    BY <2>2, <2>3 DEF Finish, Leave, EnterLeaf, Enter, Halt, Running, KernelOutcomes, ProcessOutcomes
  <2>4. CASE \E p : Resume(p)
    BY <2>2, <2>4 DEF Resume, coVars, EnterLeaf, Enter, Halt, Running, KernelOutcomes, ProcessOutcomes
  <2> QED BY <2>3, <2>4 DEF SqsStep
<1>3. CASE Ends(Level)
  <2>1. current' = Main
    BY <1>3, Names, PartsAssumption DEF Ends, NobodyNests, All
  <2> QED BY <1>1, <1>2, <1>3, <2>1 DEF Ends, Stops, Quiet, Running, evVars, progVars
<1>4. ASSUME NEW p \in Proc, Takes(Level, p) PROVE Resumes(p)
  <2>1. p \in queued /\ First(p) /\ current' = p
    BY <1>1, <1>4 DEF Takes, FirstProc, Firsts, First, NobodyNests
  <2> QED BY <1>2, <1>4, <2>1 DEF Takes, Resumes, Quiet, Running, progVars
<1> QED BY <1>3, <1>4, SqsStepKinds, Names

LEMMA BeginLevelCreates ==
  ASSUME BeginLevel(Level)
  PROVE  Creates(Level) /\ UNCHANGED sqsOf
BY DEF BeginLevel, New, Creates, evVars

LEMMA NewProcessCreates ==
  ASSUME Ground, NEW p \in Proc, NewProcess(p)
  PROVE  Creates(p) /\ sqsOf' = [sqsOf EXCEPT ![p] = Level]
<1>1. Head(levels) = Level
  BY Names DEF NewProcess, Ground, KernelInv, ControlInv, KernelTypeOK
<1> QED BY <1>1 DEF NewProcess, New, Creates, evVars

LEMMA RunStarts ==
  ASSUME Ground, Running, current = Main, ~terminated[Level], Run
  PROVE  Starts
<1> USE DEF Ground
<1>1. Head(levels) = Level /\ caller[Level] = NULL /\ callee[Main] = NULL /\ outcome = "ok"
  BY Names, OneScheduler DEF Run, Running, KernelInv, ControlInv, KernelTypeOK, CoInv, CurrentIsLeaf
<1>2. KernelInv'
  BY KernelInvStep DEF Next
<1>3. outcome' \in KernelOutcomes \cup ProcessOutcomes
  BY <1>2 DEF KernelInv, ControlInv, KernelTypeOK
<1>4. /\ callee' = [callee EXCEPT ![Main] = Level] /\ outcome' = "ok"
  BY <1>1, <1>3 DEF Run, Call, Enter, Halt, KernelOutcomes, ProcessOutcomes
<1>5. callee'[Main] # callee[Main]
  BY <1>1, <1>4, Names DEF KernelInv, CoInv, CoTypeOK
<1>6. Runs(Level)
  BY <1>5, RunKinds, Names DEF Idles, links
<1> QED BY <1>1, <1>4, <1>6 DEF Runs, Starts, Quiet, evVars, progVars

LEMMA EndLevelClears ==
  ASSUME Ground, QueuedHere, Running, current = Main, queued = {}, EndLevel
  PROVE  Clears
<1> USE DEF Ground
<1>1. Head(levels) = Level /\ caller[Level] = NULL /\ callee[Level] = NULL
  BY Names, OneScheduler DEF EndLevel, KernelInv, ControlInv, KernelTypeOK, OnlyRunCalls
<1>2. /\ UNCHANGED <<outcome, terminated, current>> /\ alive' = alive \ {Level}
  BY <1>1 DEF EndLevel, Destroy
<1> QED BY <1>2 DEF EndLevel, Forget, Clears, Running

-----------------------------------------------------------------------------
(***************************************************************************)
(* Who runs next                                                           *)
(***************************************************************************)

\* A station or a job runs only between the start of the simulation and the
\* moment at which simulation_main stops it.
LEMMA GoingOn ==
  ASSUME Mm1Inv, current \in Job \cup Stations
  PROVE  pc[Main] = "end" /\ pc[SimMain] = "stop source"
BY Names DEF Mm1Inv, BodyTypes, MainInv, StartInv, StopInv, Stations

LEMMA GoingStays ==
  ASSUME Mm1Inv, current \in Job \cup Stations, current' \in {current, Level},
         outcome' = outcome, pc'[Main] = pc[Main], pc'[SimMain] = pc[SimMain]
  PROVE  Running' /\ MainInv' /\ StartInv' /\ StopInv'
<1>1. /\ pc'[Main] = "end" /\ pc'[SimMain] = "stop source" /\ outcome = "ok"
  BY GoingOn DEF Mm1Inv, Running
<1>2. current' # Main
  BY Names DEF Stations
<1> QED BY <1>1, <1>2 DEF Running, MainInv, StartInv, StopInv, Starting, Ending

\* The times of the notices are numbers, and the line is one.
LEMMA NoticesAreNumbers ==
  ASSUME Ground
  PROVE  /\ \A p \in queued : ev[p] \in Nat /\ p \in Proc
         /\ ev \in [Proc -> Time \cup {NULL}]
BY Names DEF Ground, KernelInv, NoticesInv, NoticesTypeOK

\* Somebody is woken: a job, when none moves, or a station by the job that does.
LEMMA WakesMove ==
  ASSUME Ground, QueuedHere, MovingInv, CurrentFirst, current \in Proc,
         pc[SimMain] \notin Starting, NEW p \in Proc, Wakes(p), ~Nobody',
         IF p \in Job THEN Moving = {} ELSE Moving \subseteq {current}
  PROVE  CurrentFirst' /\ MovingInv'
<1>1. /\ UNCHANGED current /\ current # p /\ current \in queued
      /\ queued' = queued \cup {p} /\ p \notin queued
      /\ ev'[p] = ev[current] /\ ev'[current] = ev[current] /\ ev[current] \in Nat
  BY RunningProcess, NoticesAreNumbers, Names DEF Wakes
<1>2. /\ \A q, r \in queued : <<q, r>> \in before' <=> <<q, r>> \in before
      /\ \A r \in queued : <<p, r>> \in before' <=> <<current, r>> \in before
      /\ <<current, p>> \in before'
  BY DEF Wakes
<1>3. First(current)
  BY DEF CurrentFirst
<1>4. First(current)'
  BY <1>1, <1>2, <1>3 DEF First
<1>5. CASE p \in Job
  <2>1. Moving' = {p}
    BY <1>1, <1>5 DEF Moving
  <2>2. NextUp(p)'
    BY <1>1, <1>2, <1>3 DEF NextUp, First
  <2> QED BY <1>1, <1>4, <2>1, <2>2 DEF MovingInv, CurrentFirst
<1>6. CASE p \notin Job
  <2>1. Moving' = Moving /\ Moving \subseteq {current}
    BY <1>1, <1>6 DEF Moving
  <2>2. NextUp(current)'
    BY <1>1, <1>4 DEF NextUp, First
  <2> QED BY <1>1, <1>4, <2>1, <2>2 DEF MovingInv, CurrentFirst
<1> QED BY <1>5, <1>6

\* Somebody else than a job holds.
LEMMA WaitsMove ==
  ASSUME Ground, QueuedHere, MovingInv, NEW p \in Proc \ Job, NEW dt \in Nat \ {0}, Waits(p, dt)
  PROVE  CurrentFirst' /\ MovingInv'
<1>1. /\ current = p /\ current' = Level /\ queued' = queued /\ Moving' = Moving
      /\ p \notin Moving /\ ev[p] \in Nat /\ Level \notin queued
      /\ \A r \in Proc \ {p} : ev'[r] = ev[r]
  BY NoticesAreNumbers, Names DEF Waits, Moving
<1>2. ASSUME NEW j \in Moving PROVE NextUp(j)'
  <2>1. ev[j] < ev[p] + dt
    BY <1>1, NoticesAreNumbers DEF MovingInv, Moving
  <2>2. <<j, p>> \in before'
    BY <1>1, <2>1 DEF Waits, Moving
  <2>3. \A q \in queued \ {j, p} : <<j, q>> \in before'
    BY <1>1 DEF Waits, Moving, MovingInv, NextUp
  <2> QED BY <1>1, <2>2, <2>3 DEF NextUp
<1>3. ~Nobody' /\ current' \notin Proc
  BY <1>1, Names DEF Nobody
<1> QED BY <1>1, <1>2, <1>3 DEF MovingInv, CurrentFirst

\* Somebody gives its notice up.
LEMMA QuitsMove ==
  ASSUME Ground, MovingInv, NEW p \in Proc, Quits(p)
  PROVE  CurrentFirst' /\ MovingInv'
<1>1. /\ current = p /\ current' = Level /\ queued' = queued \ {p} /\ Moving' = Moving \ {p}
      /\ Level \notin queued
  BY NoticesAreNumbers, Names DEF Quits, Moving
<1>2. ASSUME NEW j \in Moving' PROVE NextUp(j)'
  <2>1. NextUp(j) /\ j \in queued \ {p}
    BY <1>1 DEF MovingInv, Moving
  <2> QED BY <1>1, <2>1 DEF NextUp, Quits
<1>3. ~Nobody' /\ current' \notin Proc
  BY <1>1, Names DEF Nobody
<1> QED BY <1>1, <1>2, <1>3 DEF MovingInv, CurrentFirst

\* Nothing happens to the notices.
LEMMA StandsMove ==
  ASSUME MovingInv, CurrentFirst, UNCHANGED <<current, queued, ev, before>>,
         pc'[SimMain] \in Starting \/ pc[SimMain] \notin Starting,
         Nobody' => Moving = {}
  PROVE  CurrentFirst' /\ MovingInv'
BY DEF MovingInv, CurrentFirst, Moving, NextUp, First

\* The scheduler resumes the job that moves, if there is one.
LEMMA ResumesMove ==
  ASSUME Ground, QueuedHere, MovingInv, NEW p \in Proc, Resumes(p)
  PROVE  CurrentFirst' /\ MovingInv'
<1>1. /\ current = Level /\ current' = p /\ p \in queued /\ First(p)
      /\ UNCHANGED <<queued, ev, before>> /\ ev[p] \in Nat /\ Level \notin queued
  BY NoticesAreNumbers, Names DEF Resumes
<1>2. Moving \subseteq {p}
  <2> SUFFICES ASSUME NEW j \in Moving, j # p PROVE FALSE
    OBVIOUS
  <2>1. NextUp(j) /\ j \in queued
    BY DEF MovingInv, Moving
  <2>2. <<j, p>> \in before /\ <<p, j>> \in before
    BY <1>1, <2>1 DEF NextUp, First
  <2>3. j \in Queue(Level) /\ p \in Queue(Level)
    BY <1>1, <2>1 DEF Queue, QueuedHere
  <2> QED BY <2>2, <2>3, Names DEF Ground, KernelInv, NoticesInv, LineOfEvents, IsLine
<1>3. First(p)' /\ NextUp(p)' /\ Moving' = Moving
  BY <1>1 DEF First, NextUp, Moving
<1>4. Nobody' => Moving = {}
  BY <1>1, <1>2, Names DEF Nobody, Moving
<1> QED BY <1>1, <1>2, <1>3, <1>4 DEF MovingInv, CurrentFirst

-----------------------------------------------------------------------------
(***************************************************************************)
(* What a step leaves alone                                                *)
(***************************************************************************)

\* The places at which the body of p may stand.
PlacesOf(p) ==
  CASE p = Main    -> {"begin", "main", "activate", "run", "end", "return"}
    [] p = SimMain -> Starting \cup {"stop source"} \cup Ending
    [] p = Src     -> {"hold", "new", "send"}
    [] p = Srv     -> {"check", "serve", "release"}
    [] p = Snk     -> {"check", "take"}
    [] OTHER       -> {"arrive", "queue", "leave", "deliver", "over"}

LEMMA GoesTo ==
  ASSUME BodyTypes, NEW p \in Proc \cup {Main}, NEW place \in PlacesOf(p),
         pc' = [pc EXCEPT ![p] = place],
         srvQueue' \in Seq(Job), snkQueue' \in Seq(Job), left' \in Seq(Job),
         inHand' \in [{Src, Srv} -> Job \cup {NULL}]
  PROVE  /\ BodyTypes'
         /\ pc'[p] = place /\ \A q \in (Proc \cup {Main}) \ {p} : pc'[q] = pc[q]
<1>2. pc' = [q \in Proc \cup {Main} |-> pc'[q]]
  BY DEF BodyTypes
<1>3. pc'[p] = place /\ \A q \in (Proc \cup {Main}) \ {p} : pc'[q] = pc[q]
  BY DEF BodyTypes
<1>4. \A q \in Proc \cup {Main} : pc'[q] \in PlacesOf(q)
  <2>1. \A q \in Proc \cup {Main} : pc[q] \in PlacesOf(q)
    BY ProgramAssumption, Names DEF BodyTypes, PlacesOf, Stations
  <2> QED BY <1>3, <2>1
<1>5. BodyTypes'
  BY <1>2, <1>4, Names DEF BodyTypes, PlacesOf
<1> QED BY <1>3, <1>5

LEMMA PlacesStay ==
  ASSUME PlaceInv, UNCHANGED <<srvQueue, snkQueue, left>>,
         \A i \in Job : InHand(i)' <=> InHand(i),
         pc'[Srv] = "release" => inHand'[Srv] \in Job,
         \A i \in Job : /\ pc'[i] = "leave" <=> pc[i] = "leave"
                        /\ pc'[i] = "over" <=> pc[i] = "over"
                        /\ pc[i] = "leave" => (ev'[i] = NULL <=> ev[i] = NULL)
  PROVE  PlaceInv'
<1>1. Ran(srvQueue)' = Ran(srvQueue) /\ Ran(snkQueue)' = Ran(snkQueue) /\ Ran(left)' = Ran(left)
  BY DEF Ran
<1> QED BY <1>1 DEF PlaceInv

LEMMA OrderStays ==
  ASSUME OrderInv, UNCHANGED <<srvQueue, snkQueue, left>>,
         \A i \in Job : Stage(i)' = Stage(i)
  PROVE  OrderInv'
BY DEF OrderInv, Rising

-----------------------------------------------------------------------------
(***************************************************************************)
(* The lists, and how far the jobs have come                               *)
(***************************************************************************)

LEMMA RanOfJobs ==
  ASSUME NEW q \in Seq(Job)
  PROVE  Ran(q) \subseteq Job
BY DEF Ran

LEMMA AppendRises ==
  ASSUME NEW q \in Seq(Job), NEW j \in Job, Rising(q), \A x \in Ran(q) : x < j
  PROVE  Append(q, j) \in Seq(Job) /\ Rising(Append(q, j)) /\ Ran(Append(q, j)) = Ran(q) \cup {j}
<1> DEFINE r == Append(q, j)
<1>1. r \in Seq(Job) /\ DOMAIN r = 1 .. Len(q) + 1 /\ r[Len(q) + 1] = j
      /\ DOMAIN q = 1 .. Len(q) /\ Len(q) \in Nat /\ \A i \in 1 .. Len(q) : r[i] = q[i] /\ q[i] \in Job
  OBVIOUS
<1> HIDE DEF r
<1>2. Rising(r)
  <2> SUFFICES ASSUME NEW i \in DOMAIN r, NEW k \in DOMAIN r, i < k PROVE r[i] < r[k]
    BY DEF Rising
  <2>1. i \in 1 .. Len(q) /\ r[i] = q[i] /\ q[i] \in Ran(q)
    BY <1>1 DEF Ran
  <2>2. CASE k = Len(q) + 1
    BY <1>1, <2>1, <2>2
  <2>3. CASE k # Len(q) + 1
    BY <1>1, <2>1, <2>3 DEF Rising
  <2> QED BY <2>2, <2>3
<1>3. Ran(r) = Ran(q) \cup {j}
  BY <1>1 DEF Ran
<1> QED BY <1>1, <1>2, <1>3 DEF r

LEMMA TailRises ==
  ASSUME NEW q \in Seq(Job), q # <<>>, Rising(q)
  PROVE  /\ Head(q) \in Job /\ Tail(q) \in Seq(Job) /\ Rising(Tail(q))
         /\ Ran(q) = Ran(Tail(q)) \cup {Head(q)}
         /\ \A x \in Ran(Tail(q)) : Head(q) < x
<1> DEFINE r == Tail(q)
<1>1. /\ r \in Seq(Job) /\ Len(q) \in Nat \ {0} /\ DOMAIN q = 1 .. Len(q)
      /\ DOMAIN r = 1 .. Len(q) - 1 /\ Head(q) = q[1] /\ q[1] \in Job
      /\ \A i \in 1 .. Len(q) - 1 : r[i] = q[i + 1]
  OBVIOUS
<1> HIDE DEF r
<1>2. Rising(r)
  <2> SUFFICES ASSUME NEW i \in DOMAIN r, NEW k \in DOMAIN r, i < k PROVE r[i] < r[k]
    BY DEF Rising
  <2>1. i + 1 \in DOMAIN q /\ k + 1 \in DOMAIN q /\ i + 1 < k + 1
    BY <1>1
  <2>2. q[i + 1] < q[k + 1]
    BY <2>1 DEF Rising
  <2> QED BY <1>1, <2>2
<1>3. \A x \in Ran(r) : Head(q) < x
  BY <1>1 DEF Ran, Rising
<1>4. ASSUME NEW x \in Ran(q) PROVE x \in Ran(r) \cup {Head(q)}
  <2>1. PICK i \in DOMAIN q : x = q[i]
    BY DEF Ran
  <2>2. CASE i # 1
    <3>1. i - 1 \in DOMAIN r /\ r[i - 1] = x
      BY <1>1, <2>1, <2>2
    <3> QED BY <3>1 DEF Ran
  <2> QED BY <1>1, <2>1, <2>2
<1>5. Ran(r) \cup {Head(q)} \subseteq Ran(q)
  BY <1>1 DEF Ran
<1> QED BY <1>1, <1>2, <1>3, <1>4, <1>5 DEF r

LEMMA StageIsNumber == \A j \in Job : Stage(j) \in 0 .. 5
BY DEF Stage

\* One job comes a stage on, and no job before it is at the stage it leaves.
LEMMA StageMoves ==
  ASSUME \A i, k \in Job : i < k => Stage(i) >= Stage(k), NEW j \in Job,
         \A i \in Job \ {j} : Stage(i)' = Stage(i), Stage(j)' = Stage(j) + 1,
         \A i \in Job : i < j => Stage(i) # Stage(j)
  PROVE  \A i, k \in Job : i < k => Stage(i)' >= Stage(k)'
<1> DEFINE s == [i \in Job |-> Stage(i)]
           t == [i \in Job |-> Stage(i)']
<1>1. \A i \in Job : s[i] \in Nat /\ Stage(i) = s[i] /\ Stage(i)' = t[i]
  BY StageIsNumber
<1>2. /\ \A i, k \in Job : i < k => s[i] >= s[k]
      /\ \A i \in Job \ {j} : t[i] = s[i]
      /\ t[j] = s[j] + 1
      /\ \A i \in Job : i < j => s[i] # s[j]
  BY <1>1
<1> HIDE DEF s, t
<1>3. \A i, k \in Job : i < k => t[i] >= t[k]
  BY <1>1, <1>2, Names
<1> QED BY <1>1, <1>3

\* Where a job is, by its stage.
LEMMA StageSays ==
  ASSUME BodyTypes, PlaceInv, JobInv, NEW j \in Job
  PROVE  /\ Stage(j) = 0 <=> j \notin alive
         /\ Stage(j) = 1 <=> j \in alive /\ pc[j] \in {"arrive", "queue"}
         /\ Stage(j) = 2 <=> j \in Ran(srvQueue)
         /\ Stage(j) = 3 <=> InHand(j)
         /\ Stage(j) = 4 <=> (pc[j] = "leave" /\ ev[j] # NULL) \/ pc[j] = "deliver"
         /\ Stage(j) = 5 <=> j \in Ran(snkQueue) \cup Ran(left)
<1>1. /\ pc[j] \in {"arrive", "queue", "leave", "deliver", "over"}
      /\ pc[j] # "arrive" => j \in alive
      /\ InHand(j) => pc[j] = "leave" /\ ev[j] = NULL
      /\ j \in Ran(srvQueue) <=> pc[j] = "leave" /\ ev[j] = NULL /\ ~InHand(j)
      /\ j \in Ran(snkQueue) \cup Ran(left) <=> pc[j] = "over"
  BY DEF BodyTypes, PlaceInv, JobInv
<1> QED BY <1>1 DEF Stage

LEMMA StageOfQueued ==
  ASSUME BodyTypes, PlaceInv, JobInv, NEW j \in Ran(srvQueue)
  PROVE  j \in Job /\ Stage(j) = 2 /\ pc[j] = "leave"
<1>1. j \in Job
  BY RanOfJobs DEF BodyTypes
<1>2. pc[j] = "leave"
  BY <1>1 DEF PlaceInv
<1> QED BY <1>1, <1>2, StageSays

LEMMA StageOfDelivered ==
  ASSUME BodyTypes, PlaceInv, JobInv, NEW j \in Ran(snkQueue) \cup Ran(left)
  PROVE  j \in Job /\ Stage(j) = 5 /\ pc[j] = "over"
<1>1. j \in Job
  BY RanOfJobs DEF BodyTypes
<1>2. pc[j] = "over"
  BY <1>1 DEF PlaceInv
<1> QED BY <1>1, <1>2, StageSays

\* A job that neither runs nor has a notice is with a station, or over.
LEMMA StageOfIdle ==
  ASSUME BodyTypes, PlaceInv, JobInv, SourceInv, NEW j \in Job,
         current # j, current # Src, j \notin queued
  PROVE  Stage(j) \notin {1, 4}
<1>1. ~(j \in alive /\ pc[j] \in {"arrive", "queue"})
  BY DEF SourceInv
<1>2. ~((pc[j] = "leave" /\ ev[j] # NULL) \/ pc[j] = "deliver")
  BY DEF JobInv
<1> QED BY <1>1, <1>2, StageSays

-----------------------------------------------------------------------------
(***************************************************************************)
(* The jobs                                                                *)
(***************************************************************************)

\* The job that runs is the only one that moves.
LEMMA JobRuns ==
  ASSUME Ground, Mm1Inv, current \in Job
  PROVE  /\ Moving = {current} /\ current \in Proc /\ current \in alive
         /\ pc[SimMain] = "stop source" /\ pc[SimMain] \notin Starting
         /\ ev[current] # NULL
BY RunningProcess, GoingOn, Names
   DEF Ground, KernelInv, QueuedLive, Mm1Inv, MovingInv, Moving, Starting

LEMMA JobWakesServer ==
  ASSUME Ground, Mm1Inv, NEW j \in Job,
         From(j, "arrive", "queue"), Idle(Srv), ActivateAfterCurrent(Srv)
  PROVE  Mm1Inv'
<1> USE DEF Mm1Inv
<1>1. /\ current = j /\ pc[j] = "arrive" /\ pc' = [pc EXCEPT ![j] = "queue"]
      /\ UNCHANGED <<srvQueue, snkQueue, inHand, left>>
  BY DEF From, At, Goto, bodyVars
<1>2. Wakes(Srv)
  BY <1>1, WakesIdle, Names DEF JobInv, Idle, ActivateAfterCurrent
<1>3. Moving = {j} /\ j \in alive /\ pc[SimMain] = "stop source" /\ pc[SimMain] \notin Starting
      /\ ev[j] # NULL
  BY <1>1, JobRuns
<1>4. /\ UNCHANGED <<alive, terminated, sqsOf, outcome, current>>
      /\ queued' = queued \cup {Srv} /\ ev'[Srv] # NULL
      /\ \A p \in Proc \ {Srv} : ev'[p] = ev[p]
      /\ sqsOf[Srv] = Level
  BY <1>1, <1>2, <1>3, NoticesAreNumbers, RunningProcess, Names DEF Wakes, Quiet
<1>5. BodyTypes' /\ pc'[j] = "queue" /\ \A p \in (Proc \cup {Main}) \ {j} : pc'[p] = pc[p]
  BY <1>1, GoesTo, Names DEF BodyTypes, PlacesOf
<1>6. Running' /\ MainInv' /\ StartInv' /\ StopInv' /\ QueuedHere'
  BY <1>1, <1>4, <1>5, GoingStays, Names DEF QueuedHere
<1>7. CurrentFirst' /\ MovingInv'
  BY <1>1, <1>2, <1>3, <1>4, WakesMove, Names DEF Nobody
<1>8. StationInv'
  BY <1>1, <1>3, <1>4, Names DEF StationInv, BodyTypes
<1>9. JobInv'
  BY <1>1, <1>3, <1>4, Names DEF JobInv, BodyTypes
<1>10. SourceInv'
  BY <1>1, <1>3, <1>4, Names DEF SourceInv, BodyTypes
<1>11. PlaceInv'
  BY <1>1, <1>3, <1>4, <1>5, PlacesStay, Names DEF PlaceInv, InHand
<1>12. OrderInv'
  <2>1. \A i \in Job : Stage(i)' = Stage(i)
    BY <1>1, <1>3, <1>4, Names DEF Stage, BodyTypes, InHand
  <2> QED BY <1>1, <2>1, OrderStays
<1> QED BY <1>5, <1>6, <1>7, <1>8, <1>9, <1>10, <1>11, <1>12

LEMMA JobQueues ==
  ASSUME Ground, Mm1Inv, NEW j \in Job,
         At(j, "queue") \/ (At(j, "arrive") /\ ~Idle(Srv)),
         srvQueue' = Append(srvQueue, j), Passivate(j), Goto(j, "leave"),
         UNCHANGED <<snkQueue, inHand, left>>
  PROVE  Mm1Inv'
<1> USE DEF Mm1Inv
<1>1. /\ current = j /\ pc[j] \in {"arrive", "queue"} /\ pc' = [pc EXCEPT ![j] = "leave"]
      /\ ev[Srv] # NULL
  BY Names DEF At, Goto, Idle, JobInv
<1>2. Quits(j) /\ UNCHANGED terminated
  BY LeavesAtCall, Names
<1>3. /\ Moving = {j} /\ j \in alive /\ ev[j] # NULL
      /\ pc[SimMain] = "stop source" /\ pc[SimMain] \notin Starting
  BY <1>1, JobRuns
<1>4. /\ UNCHANGED <<alive, terminated, sqsOf, outcome>>
      /\ current = j /\ current' = Level /\ queued' = queued \ {j} /\ ev'[j] = NULL
      /\ \A p \in Proc \ {j} : ev'[p] = ev[p]
  BY <1>2, NoticesAreNumbers, Names DEF Quits, Quiet
<1>5. Stage(j) = 1 /\ ~InHand(j) /\ pc[j] # "over"
  <2>1. ~InHand(j)
    BY <1>1 DEF PlaceInv
  <2> QED BY <1>1, <1>3, <2>1 DEF Stage
<1>6. /\ srvQueue' \in Seq(Job) /\ Rising(srvQueue')
      /\ Ran(srvQueue') = Ran(srvQueue) \cup {j} /\ srvQueue' # <<>>
  <2>1. \A x \in Ran(srvQueue) : x < j
    <3> SUFFICES ASSUME NEW x \in Ran(srvQueue) PROVE x < j
      OBVIOUS
    <3>1. x \in Job /\ Stage(x) = 2
      BY StageOfQueued
    <3>2. ~(j < x) /\ x # j
      BY <1>5, <3>1 DEF OrderInv
    <3> QED BY <3>1, <3>2, Names
  <2>2. srvQueue \in Seq(Job) /\ Rising(srvQueue)
    BY DEF BodyTypes, OrderInv
  <2>3. srvQueue' # <<>>
    BY <2>2
  <2> QED BY <2>1, <2>2, <2>3, AppendRises
<1>7. BodyTypes' /\ pc'[j] = "leave" /\ \A p \in (Proc \cup {Main}) \ {j} : pc'[p] = pc[p]
  BY <1>1, <1>6, GoesTo, Names DEF BodyTypes, PlacesOf
<1>8. Running' /\ MainInv' /\ StartInv' /\ StopInv' /\ QueuedHere'
  BY <1>1, <1>4, <1>7, GoingStays, Names DEF QueuedHere
<1>9. CurrentFirst' /\ MovingInv'
  BY <1>2, QuitsMove, Names
<1>10. StationInv'
  BY <1>1, <1>3, <1>4, <1>6, <1>7, Names DEF StationInv
<1>11. JobInv'
  <2>1. ASSUME NEW i \in Job, i # j PROVE pc[i] \notin {"queue", "deliver"}
    BY <1>1, <2>1 DEF JobInv
  <2>2. \A i \in Job : /\ pc'[i] \notin {"queue", "deliver"}
                       /\ ev'[i] # NULL => i \in queued'
                       /\ pc'[i] # "arrive" => i \in alive'
    BY <1>1, <1>3, <1>4, <1>7, <2>1, Names DEF JobInv
  <2>3. \A p \in Proc : terminated'[p] <=> p \in Job /\ pc'[p] = "over"
    BY <1>1, <1>4, <1>7, Names DEF JobInv
  <2> QED BY <2>2, <2>3 DEF JobInv
<1>12. SourceInv'
  BY <1>1, <1>3, <1>4, <1>7, Names DEF SourceInv
<1>13. \A i \in Job : InHand(i)' <=> InHand(i)
  BY <1>7, Names DEF InHand
<1>14. PlaceInv'
  <2>1. Ran(snkQueue)' = Ran(snkQueue) /\ Ran(left)' = Ran(left)
    BY DEF Ran
  <2> QED BY <1>1, <1>4, <1>5, <1>6, <1>7, <1>13, <2>1, Names DEF PlaceInv
<1>15. OrderInv'
  <2>1. Stage(j)' = Stage(j) + 1 /\ \A i \in Job \ {j} : Stage(i)' = Stage(i)
    <3>1. ~InHand(j)'
      BY <1>5, <1>13
    <3>2. Stage(j)' = 2
      BY <1>3, <1>4, <1>7, <3>1 DEF Stage
    <3>3. ASSUME NEW i \in Job \ {j} PROVE Stage(i)' = Stage(i)
      <4>1. pc'[i] = pc[i] /\ ev'[i] = ev[i] /\ InHand(i)' = InHand(i)
        BY <1>4, <1>7, <1>13, Names DEF InHand
      <4> QED BY <1>4, <4>1 DEF Stage
    <3> QED BY <1>5, <3>2, <3>3
  <2>2. ASSUME NEW i \in Job, i < j PROVE Stage(i) # Stage(j)
    <3>1. i # j
      BY <2>2, Names
    <3>2. i \notin queued
      BY <1>3, <3>1 DEF Moving
    <3> QED BY <1>1, <1>5, <3>1, <3>2, StageOfIdle, Names
  <2>3. \A i, k \in Job : i < k => Stage(i)' >= Stage(k)'
    BY <2>1, <2>2, StageMoves DEF OrderInv
  <2> QED BY <1>6, <2>3 DEF OrderInv, Rising
<1> QED BY <1>7, <1>8, <1>9, <1>10, <1>11, <1>12, <1>14, <1>15

LEMMA JobWakesSink ==
  ASSUME Ground, Mm1Inv, NEW j \in Job,
         From(j, "leave", "deliver"), Idle(Snk), ActivateAfterCurrent(Snk)
  PROVE  Mm1Inv'
<1> USE DEF Mm1Inv
<1>1. /\ current = j /\ pc[j] = "leave" /\ pc' = [pc EXCEPT ![j] = "deliver"]
      /\ UNCHANGED <<srvQueue, snkQueue, inHand, left>>
  BY DEF From, At, Goto, bodyVars
<1>2. Wakes(Snk)
  BY <1>1, WakesIdle, Names DEF JobInv, Idle, ActivateAfterCurrent
<1>3. Moving = {j} /\ j \in alive /\ pc[SimMain] = "stop source" /\ pc[SimMain] \notin Starting
      /\ ev[j] # NULL
  BY <1>1, JobRuns
<1>4. /\ UNCHANGED <<alive, terminated, sqsOf, outcome, current>>
      /\ queued' = queued \cup {Snk} /\ ev'[Snk] # NULL
      /\ \A p \in Proc \ {Snk} : ev'[p] = ev[p]
      /\ sqsOf[Snk] = Level
  BY <1>1, <1>2, <1>3, NoticesAreNumbers, RunningProcess, Names DEF Wakes, Quiet
<1>5. BodyTypes' /\ pc'[j] = "deliver" /\ \A p \in (Proc \cup {Main}) \ {j} : pc'[p] = pc[p]
  BY <1>1, GoesTo, Names DEF BodyTypes, PlacesOf
<1>6. Running' /\ MainInv' /\ StartInv' /\ StopInv' /\ QueuedHere'
  BY <1>1, <1>4, <1>5, GoingStays, Names DEF QueuedHere
<1>7. CurrentFirst' /\ MovingInv'
  BY <1>1, <1>2, <1>3, <1>4, WakesMove, Names DEF Nobody
<1>8. StationInv'
  BY <1>1, <1>3, <1>4, <1>5, Names DEF StationInv
<1>9. JobInv'
  <2>1. ASSUME NEW i \in Job, i # j PROVE pc[i] \notin {"queue", "deliver"}
    BY <1>1, <2>1 DEF JobInv
  <2>2. \A i \in Job : /\ pc'[i] = "queue" => current' = i /\ ev'[Srv] # NULL
                       /\ pc'[i] = "deliver" => current' = i /\ ev'[Snk] # NULL
                       /\ ev'[i] # NULL => i \in queued'
                       /\ pc'[i] # "arrive" => i \in alive'
    <3> SUFFICES ASSUME NEW i \in Job
        PROVE  /\ pc'[i] = "queue" => current' = i /\ ev'[Srv] # NULL
               /\ pc'[i] = "deliver" => current' = i /\ ev'[Snk] # NULL
               /\ ev'[i] # NULL => i \in queued'
               /\ pc'[i] # "arrive" => i \in alive'
      OBVIOUS
    <3>1. ev'[i] = ev[i] /\ alive' = alive /\ queued \subseteq queued' /\ current' = j
      BY <1>1, <1>4, Names
    <3>2. CASE i = j
      BY <1>3, <1>4, <1>5, <3>1, <3>2 DEF JobInv
    <3>3. CASE i # j
      BY <1>5, <2>1, <3>1, <3>3, Names DEF JobInv
    <3> QED BY <3>2, <3>3
  <2>3. \A p \in Job : pc'[p] = "over" <=> pc[p] = "over"
    BY <1>1, <1>5, Names
  <2>4. \A p \in Proc : terminated'[p] <=> p \in Job /\ pc'[p] = "over"
    BY <1>4, <2>3 DEF JobInv
  <2> QED BY <2>2, <2>4 DEF JobInv
<1>10. SourceInv'
  BY <1>1, <1>3, <1>4, <1>5, Names DEF SourceInv
<1>11. (\A i \in Job : InHand(i)' <=> InHand(i)) /\ ~InHand(j)
  <2>1. ~InHand(j)
    BY <1>3 DEF PlaceInv
  <2> QED BY <1>1, <1>5, <2>1, Names DEF InHand
<1>12. PlaceInv'
  <2>1. Ran(srvQueue)' = Ran(srvQueue) /\ Ran(snkQueue)' = Ran(snkQueue) /\ Ran(left)' = Ran(left)
    BY <1>1 DEF Ran
  <2> QED BY <1>1, <1>3, <1>4, <1>5, <1>11, <2>1, Names DEF PlaceInv
<1>13. OrderInv'
  <2>1. \A i \in Job : Stage(i)' = Stage(i)
    BY <1>1, <1>3, <1>4, <1>5, <1>11, Names DEF Stage
  <2> QED BY <1>1, <2>1, OrderStays
<1> QED BY <1>5, <1>6, <1>7, <1>8, <1>9, <1>10, <1>12, <1>13

LEMMA JobDelivers ==
  ASSUME Ground, Mm1Inv, NEW j \in Job,
         At(j, "deliver") \/ (At(j, "leave") /\ ~Idle(Snk)),
         snkQueue' = Append(snkQueue, j), Return(j), Goto(j, "over"),
         UNCHANGED <<srvQueue, inHand, left>>
  PROVE  Mm1Inv'
<1> USE DEF Mm1Inv
<1>1. /\ current = j /\ pc[j] \in {"leave", "deliver"} /\ pc' = [pc EXCEPT ![j] = "over"]
      /\ ev[Snk] # NULL
  BY Names DEF At, Goto, Idle, JobInv
<1>2. Quits(j) /\ terminated' = [terminated EXCEPT ![j] = TRUE]
  BY LeavesAtEnd, Names
<1>3. /\ Moving = {j} /\ j \in alive /\ ev[j] # NULL
      /\ pc[SimMain] = "stop source" /\ pc[SimMain] \notin Starting
  BY <1>1, JobRuns
<1>4. /\ UNCHANGED <<alive, sqsOf, outcome>>
      /\ terminated'[j] /\ \A p \in Proc \ {j} : terminated'[p] = terminated[p]
      /\ current = j /\ current' = Level /\ queued' = queued \ {j} /\ ev'[j] = NULL
      /\ \A p \in Proc \ {j} : ev'[p] = ev[p]
  BY <1>2, NoticesAreNumbers, Names DEF Quits, Quiet, Ground, KernelInv, CoInv, CoTypeOK
<1>5. Stage(j) = 4 /\ ~InHand(j)
  <2>1. ~InHand(j)
    BY <1>3 DEF PlaceInv
  <2> QED BY <1>1, <1>3, <2>1 DEF Stage
<1>6. /\ snkQueue' \in Seq(Job) /\ Rising(snkQueue')
      /\ Ran(snkQueue') = Ran(snkQueue) \cup {j} /\ snkQueue' # <<>>
      /\ \A x \in Ran(left) : x \in Job /\ x < j
  <2>1. \A x \in Ran(snkQueue) \cup Ran(left) : x \in Job /\ x < j
    <3> SUFFICES ASSUME NEW x \in Ran(snkQueue) \cup Ran(left) PROVE x \in Job /\ x < j
      OBVIOUS
    <3>1. x \in Job /\ Stage(x) = 5
      BY StageOfDelivered
    <3>2. ~(j < x) /\ x # j
      BY <1>5, <3>1 DEF OrderInv
    <3> QED BY <3>1, <3>2, Names
  <2>2. snkQueue \in Seq(Job) /\ Rising(snkQueue)
    BY DEF BodyTypes, OrderInv
  <2>3. snkQueue' # <<>>
    BY <2>2
  <2> QED BY <2>1, <2>2, <2>3, AppendRises
<1>7. BodyTypes' /\ pc'[j] = "over" /\ \A p \in (Proc \cup {Main}) \ {j} : pc'[p] = pc[p]
  BY <1>1, <1>6, GoesTo, Names DEF BodyTypes, PlacesOf
<1>8. Running' /\ MainInv' /\ StartInv' /\ StopInv' /\ QueuedHere'
  BY <1>1, <1>4, <1>7, GoingStays, Names DEF QueuedHere
<1>9. CurrentFirst' /\ MovingInv'
  BY <1>2, QuitsMove, Names
<1>10. StationInv'
  BY <1>1, <1>3, <1>4, <1>6, <1>7, Names DEF StationInv
<1>11. JobInv'
  <2>1. ASSUME NEW i \in Job, i # j PROVE pc[i] \notin {"queue", "deliver"}
    BY <1>1, <2>1 DEF JobInv
  <2>2. \A i \in Job : /\ pc'[i] \notin {"queue", "deliver"}
                       /\ ev'[i] # NULL => i \in queued'
                       /\ pc'[i] # "arrive" => i \in alive'
    BY <1>1, <1>3, <1>4, <1>7, <2>1, Names DEF JobInv
  <2>3. \A p \in Proc : terminated'[p] <=> p \in Job /\ pc'[p] = "over"
    BY <1>1, <1>4, <1>7, Names DEF JobInv
  <2> QED BY <2>2, <2>3 DEF JobInv
<1>12. SourceInv'
  BY <1>1, <1>3, <1>4, <1>7, Names DEF SourceInv
<1>13. \A i \in Job : InHand(i)' <=> InHand(i)
  BY <1>7, Names DEF InHand
<1>14. PlaceInv'
  <2>1. /\ Ran(srvQueue)' = Ran(srvQueue) /\ Ran(left)' = Ran(left)
        /\ Ran(snkQueue)' = Ran(snkQueue) \cup {j}
    BY <1>6 DEF Ran
  <2>2. \A i \in Job \ {j} : pc'[i] = pc[i] /\ ev'[i] = ev[i] /\ (InHand(i)' <=> InHand(i))
    BY <1>4, <1>7, <1>13, Names
  <2>3. /\ j \notin Ran(srvQueue) /\ ~InHand(j)' /\ pc'[j] = "over"
        /\ pc'[Srv] = pc[Srv] /\ inHand' = inHand
    BY <1>3, <1>5, <1>7, <1>13, Names DEF PlaceInv
  <2>4. \A i \in Job : /\ InHand(i)' => pc'[i] = "leave" /\ ev'[i] = NULL
                       /\ i \in Ran(srvQueue)' <=> pc'[i] = "leave" /\ ev'[i] = NULL /\ ~InHand(i)'
                       /\ i \in Ran(snkQueue)' \cup Ran(left)' <=> pc'[i] = "over"
    BY <2>1, <2>2, <2>3 DEF PlaceInv
  <2> QED BY <2>3, <2>4 DEF PlaceInv
<1>15. OrderInv'
  <2>1. Stage(j)' = Stage(j) + 1 /\ \A i \in Job \ {j} : Stage(i)' = Stage(i)
    <3>1. ~InHand(j)'
      BY <1>5, <1>13
    <3>2. Stage(j)' = 5
      BY <1>3, <1>4, <1>7, <3>1 DEF Stage
    <3>3. ASSUME NEW i \in Job \ {j} PROVE Stage(i)' = Stage(i)
      <4>1. pc'[i] = pc[i] /\ ev'[i] = ev[i] /\ InHand(i)' = InHand(i)
        BY <1>4, <1>7, <1>13, Names DEF InHand
      <4> QED BY <1>4, <4>1 DEF Stage
    <3> QED BY <1>5, <3>2, <3>3
  <2>2. ASSUME NEW i \in Job, i < j PROVE Stage(i) # Stage(j)
    <3>1. i # j
      BY <2>2, Names
    <3>2. i \notin queued
      BY <1>3, <3>1 DEF Moving
    <3> QED BY <1>1, <1>5, <3>1, <3>2, StageOfIdle, Names
  <2>3. \A i, k \in Job : i < k => Stage(i)' >= Stage(k)'
    BY <2>1, <2>2, StageMoves DEF OrderInv
  <2>4. \A i \in DOMAIN left, k \in DOMAIN snkQueue' : left[i] < snkQueue'[k]
    <3> SUFFICES ASSUME NEW i \in DOMAIN left, NEW k \in DOMAIN snkQueue'
        PROVE left[i] < snkQueue'[k]
      OBVIOUS
    <3>1. left[i] \in Ran(left) /\ snkQueue'[k] \in Ran(snkQueue')
      BY DEF Ran
    <3>2. CASE snkQueue'[k] = j
      BY <1>6, <3>1, <3>2
    <3>3. CASE snkQueue'[k] \in Ran(snkQueue)
      <4>1. PICK m \in DOMAIN snkQueue : snkQueue'[k] = snkQueue[m]
        BY <3>3 DEF Ran
      <4> QED BY <4>1 DEF OrderInv
    <3> QED BY <1>6, <3>1, <3>2, <3>3
  <2> QED BY <1>6, <2>3, <2>4 DEF OrderInv, Rising
<1> QED BY <1>7, <1>8, <1>9, <1>10, <1>11, <1>12, <1>14, <1>15

\* A job wakes, queues and goes by the book.
LEMMA JobSteps ==
  ASSUME Ground, Mm1Inv, NEW j \in Job, JobBody(j)
  PROVE  Mm1Inv'
BY JobWakesServer, JobQueues, JobWakesSink, JobDelivers DEF JobBody

-----------------------------------------------------------------------------
(***************************************************************************)
(* The source                                                              *)
(***************************************************************************)

\* Steps of others, that leave the jobs and the lists alone
JobsAlone ==
  /\ current \notin Job /\ UNCHANGED <<srvQueue, snkQueue, inHand, left>>
  /\ pc[Src] # "send" /\ pc'[Src] # "send"
  /\ pc[Srv] # "release" => pc'[Srv] # "release"
  /\ pc[Srv] = "release" => pc'[Srv] = "release"
  /\ \A p \in Proc : terminated'[p] <=> terminated[p]
  /\ \A j \in Job : /\ pc'[j] = pc[j] /\ ev'[j] = ev[j] /\ (j \in alive' <=> j \in alive)
                    /\ j \in queued => j \in queued'

LEMMA JobsStand ==
  ASSUME BodyTypes, JobInv, SourceInv, PlaceInv, OrderInv, JobsAlone
  PROVE  JobInv' /\ SourceInv' /\ PlaceInv' /\ OrderInv'
<1>1. \A j \in Job : InHand(j)' <=> InHand(j)
  BY DEF InHand, JobsAlone
<1>2. JobInv'
  <2>1. \A j \in Job : pc[j] \notin {"queue", "deliver"}
    BY DEF JobInv, JobsAlone
  <2>2. \A p \in Proc : terminated'[p] <=> p \in Job /\ pc'[p] = "over"
    BY DEF JobInv, JobsAlone
  <2> QED BY <2>1, <2>2 DEF JobInv, JobsAlone
<1>3. SourceInv'
  BY DEF SourceInv, JobsAlone
<1>4. PlaceInv'
  <2>1. pc'[Srv] = "release" => inHand'[Srv] \in Job
    BY DEF PlaceInv, JobsAlone
  <2> QED BY <1>1, <2>1, PlacesStay DEF JobsAlone
<1>5. OrderInv'
  <2>1. ASSUME NEW j \in Job PROVE Stage(j)' = Stage(j)
    <3>1. /\ pc'[j] = pc[j] /\ ev'[j] = ev[j] /\ (j \in alive' <=> j \in alive)
          /\ InHand(j)' <=> InHand(j)
      BY <1>1 DEF JobsAlone
    <3> QED BY <3>1 DEF Stage
  <2> QED BY <2>1, OrderStays DEF JobsAlone
<1> QED BY <1>2, <1>3, <1>4, <1>5

LEMMA StationsStand ==
  ASSUME StationInv, current \notin Job, UNCHANGED <<srvQueue, snkQueue>>,
         pc'[SimMain] = "stop source" => pc[SimMain] = "stop source",
         \A p \in {Srv, Snk} : pc'[p] = pc[p] /\ ev'[p] = ev[p]
  PROVE  StationInv'
BY DEF StationInv

LEMMA SourceHolds ==
  ASSUME Ground, Mm1Inv, NEW dt \in Gap, From(Src, "hold", "new"), Hold(Src, dt)
  PROVE  Mm1Inv'
<1> USE DEF Mm1Inv
<1>1. /\ current = Src /\ pc[Src] = "hold" /\ pc' = [pc EXCEPT ![Src] = "new"]
      /\ UNCHANGED <<srvQueue, snkQueue, inHand, left>>
  BY DEF From, At, Goto, bodyVars
<1>2. Waits(Src, dt) /\ dt \in Nat \ {0}
  BY WaitsFor, Names
<1>3. BodyTypes' /\ pc'[Src] = "new" /\ \A p \in (Proc \cup {Main}) \ {Src} : pc'[p] = pc[p]
  BY <1>1, GoesTo, Names DEF BodyTypes, PlacesOf
<1>4. /\ UNCHANGED <<alive, terminated, sqsOf, outcome, queued>> /\ current' = Level
      /\ \A p \in Proc \ {Src} : ev'[p] = ev[p]
  BY <1>2, NoticesAreNumbers, Names DEF Waits, Quiet
<1>5. Running' /\ MainInv' /\ StartInv' /\ StopInv' /\ QueuedHere'
  BY <1>1, <1>3, <1>4, GoingStays, Names DEF QueuedHere, Stations
<1>6. CurrentFirst' /\ MovingInv'
  BY <1>2, WaitsMove, Names
<1>7. StationInv'
  BY <1>1, <1>3, <1>4, StationsStand, Names
<1>8. JobsAlone
  BY <1>1, <1>3, <1>4, Names DEF JobsAlone
<1> QED BY <1>3, <1>5, <1>6, <1>7, <1>8, JobsStand

LEMMA SourceCreates ==
  ASSUME Ground, Mm1Inv, NEW j \in Job \ alive, \A i \in Job \ alive : j <= i,
         At(Src, "new"), Goto(Src, "send"), NewProcess(j),
         inHand' = [inHand EXCEPT ![Src] = j], UNCHANGED <<srvQueue, snkQueue, left>>
  PROVE  Mm1Inv'
<1> USE DEF Mm1Inv
<1>1. current = Src /\ pc[Src] = "new" /\ pc' = [pc EXCEPT ![Src] = "send"]
  BY DEF At, Goto
<1>2. Creates(j) /\ sqsOf' = [sqsOf EXCEPT ![j] = Level]
  BY NewProcessCreates, Names
<1>3. /\ BodyTypes' /\ pc'[Src] = "send" /\ \A p \in (Proc \cup {Main}) \ {Src} : pc'[p] = pc[p]
      /\ inHand'[Src] = j /\ inHand'[Srv] = inHand[Srv]
  BY <1>1, GoesTo, Names DEF BodyTypes, PlacesOf
<1>4. /\ UNCHANGED <<outcome, current, queued, ev, before>> /\ alive' = alive \cup {j}
      /\ ~terminated'[j] /\ \A p \in Proc \ {j} : terminated'[p] = terminated[p]
  BY <1>2, Names DEF Creates, Ground, KernelInv, CoInv, CoTypeOK
<1>5. pc[j] = "arrive" /\ j \notin queued /\ ev[j] = NULL /\ pc[Srv] \in {"check", "serve", "release"}
  BY <1>4 DEF JobInv, Ground, KernelInv, QueuedLive, BodyTypes
<1>6. Running' /\ MainInv' /\ StartInv' /\ StopInv' /\ QueuedHere'
  <2>1. QueuedHere'
    BY <1>2, <1>4 DEF QueuedHere, Ground, KernelInv, ControlInv, KernelTypeOK
  <2> QED BY <1>1, <1>3, <1>4, <2>1, GoingStays, Names DEF Stations
<1>7. CurrentFirst' /\ MovingInv'
  <2>1. Moving = {}
    BY <1>1 DEF MovingInv, Nobody
  <2> QED BY <1>3, <1>4, <2>1, StandsMove, Names
<1>8. StationInv'
  BY <1>1, <1>3, <1>4, StationsStand, Names
<1>9. JobInv'
  <2>1. \A i \in Job : pc'[i] = pc[i] /\ pc[i] \notin {"queue", "deliver"}
    BY <1>1, <1>3, Names DEF JobInv
  <2>2. \A p \in Proc : terminated'[p] <=> p \in Job /\ pc'[p] = "over"
    BY <1>4, <1>5, <2>1 DEF JobInv
  <2> QED BY <1>4, <2>1, <2>2 DEF JobInv
<1>10. SourceInv'
  BY <1>1, <1>3, <1>4, <1>5, Names DEF SourceInv
<1>11. (\A i \in Job : InHand(i)' <=> InHand(i)) /\ ~InHand(j)
  <2>1. ~InHand(j)
    BY <1>5 DEF PlaceInv
  <2> QED BY <1>3, <2>1, Names DEF InHand
<1>12. PlaceInv'
  <2>1. pc'[Srv] = "release" => inHand'[Srv] \in Job
    BY <1>3, Names DEF PlaceInv
  <2> QED BY <1>3, <1>4, <1>11, <2>1, PlacesStay, Names
<1>13. OrderInv'
  <2>1. Stage(j) = 0
    BY DEF Stage
  <2>2. Stage(j)' = Stage(j) + 1
    <3>1. pc'[j] = "arrive" /\ j \in alive' /\ ~InHand(j)'
      BY <1>3, <1>4, <1>5, <1>11, Names
    <3>2. Stage(j)' = 1
      BY <3>1 DEF Stage
    <3> QED BY <2>1, <3>2
  <2>3. ASSUME NEW i \in Job \ {j} PROVE Stage(i)' = Stage(i)
    <3>1. pc'[i] = pc[i] /\ ev'[i] = ev[i] /\ (InHand(i)' <=> InHand(i)) /\ (i \in alive' <=> i \in alive)
      BY <1>3, <1>4, <1>11, Names
    <3> QED BY <3>1 DEF Stage
  <2>4. ASSUME NEW i \in Job, i < j PROVE Stage(i) # Stage(j)
    <3>1. i \in alive
      BY <2>4, Names
    <3> QED BY <2>1, <3>1, StageSays
  <2>5. \A i, k \in Job : i < k => Stage(i)' >= Stage(k)'
    <3>1. \A i, k \in Job : i < k => Stage(i) >= Stage(k)
      BY DEF OrderInv
    <3> QED BY <2>2, <2>3, <2>4, <3>1, StageMoves
  <2> QED BY <2>5 DEF OrderInv, Rising
<1> QED BY <1>3, <1>6, <1>7, <1>8, <1>9, <1>10, <1>12, <1>13

LEMMA SourceSends ==
  ASSUME Ground, Mm1Inv, From(Src, "send", "hold"), ActivateAfterCurrent(inHand[Src])
  PROVE  Mm1Inv'
<1> DEFINE j == inHand[Src]
<1> USE DEF Mm1Inv
<1>1. /\ current = Src /\ pc[Src] = "send" /\ pc' = [pc EXCEPT ![Src] = "hold"]
      /\ UNCHANGED <<srvQueue, snkQueue, inHand, left>>
  BY DEF From, At, Goto, bodyVars
<1>2. j \in Job \cap alive /\ pc[j] = "arrive" /\ ev[j] = NULL
  BY <1>1 DEF SourceInv
<1>3. ActivateNear(j, Current, "after") /\ \A i \in Job : i # j /\ i \in alive /\ pc[i] \in {"arrive", "queue"} => i \in queued
  BY <1>1 DEF ActivateAfterCurrent, SourceInv
<1> HIDE DEF j
<1>4. Wakes(j)
  BY <1>1, <1>2, <1>3, WakesIdle, Names DEF JobInv
<1>5. BodyTypes' /\ pc'[Src] = "hold" /\ \A p \in (Proc \cup {Main}) \ {Src} : pc'[p] = pc[p]
  BY <1>1, GoesTo, Names DEF BodyTypes, PlacesOf
<1>6. /\ UNCHANGED <<alive, terminated, sqsOf, outcome, current>>
      /\ queued' = queued \cup {j} /\ sqsOf[j] = Level
      /\ \A p \in Proc \ {j} : ev'[p] = ev[p]
  BY <1>4, NoticesAreNumbers, Names DEF Wakes, Quiet
<1>7. Running' /\ MainInv' /\ StartInv' /\ StopInv' /\ QueuedHere'
  BY <1>1, <1>5, <1>6, GoingStays, Names DEF QueuedHere, Stations
<1>8. CurrentFirst' /\ MovingInv'
  <2>1. Moving = {}
    BY <1>1 DEF MovingInv, Nobody
  <2>2. ~Nobody'
    BY <1>1, <1>5, <1>6, Names DEF Nobody
  <2>3. pc[SimMain] \notin Starting
    BY <1>1, GoingOn DEF Starting, Stations
  <2> QED BY <1>1, <1>2, <1>4, <2>1, <2>2, <2>3, WakesMove, Names
<1>9. StationInv'
  BY <1>1, <1>2, <1>5, <1>6, StationsStand, Names
<1>10. JobInv'
  <2>1. \A i \in Job : pc'[i] = pc[i] /\ pc[i] \notin {"queue", "deliver"}
    BY <1>1, <1>5, Names DEF JobInv
  <2>2. \A p \in Proc : terminated'[p] <=> p \in Job /\ pc'[p] = "over"
    BY <1>6, <2>1 DEF JobInv
  <2>3. \A i \in Job : ev'[i] # NULL => i \in queued'
    BY <1>6, Names DEF JobInv
  <2> QED BY <1>6, <2>1, <2>2, <2>3 DEF JobInv
<1>11. SourceInv'
  BY <1>1, <1>3, <1>5, <1>6, Names DEF SourceInv
<1>12. (\A i \in Job : InHand(i)' <=> InHand(i)) /\ ~InHand(j)
  <2>1. ~InHand(j)
    BY <1>2 DEF PlaceInv
  <2> QED BY <1>1, <1>5, <2>1, Names DEF InHand
<1>13. PlaceInv'
  <2>1. pc'[Srv] = "release" => inHand'[Srv] \in Job
    BY <1>1, <1>5, Names DEF PlaceInv
  <2> QED BY <1>1, <1>2, <1>5, <1>6, <1>12, <2>1, PlacesStay, Names
<1>14. OrderInv'
  <2>1. ASSUME NEW i \in Job PROVE Stage(i)' = Stage(i)
    <3>1. pc'[i] = pc[i] /\ (i # j => ev'[i] = ev[i]) /\ (InHand(i)' <=> InHand(i))
      BY <1>5, <1>6, <1>12, Names
    <3> QED BY <1>2, <1>6, <3>1 DEF Stage
  <2> QED BY <1>1, <2>1, OrderStays
<1> QED BY <1>5, <1>7, <1>8, <1>9, <1>10, <1>11, <1>13, <1>14

-----------------------------------------------------------------------------
(***************************************************************************)
(* The server and the sink                                                 *)
(***************************************************************************)

LEMMA ServerSleeps ==
  ASSUME Ground, Mm1Inv, From(Srv, "check", "serve"), srvQueue = <<>>, Passivate(Srv)
  PROVE  Mm1Inv'
<1> USE DEF Mm1Inv
<1>1. /\ current = Srv /\ pc[Srv] = "check" /\ pc' = [pc EXCEPT ![Srv] = "serve"]
      /\ UNCHANGED <<srvQueue, snkQueue, inHand, left>>
  BY DEF From, At, Goto, bodyVars
<1>2. Quits(Srv) /\ UNCHANGED terminated
  BY LeavesAtCall, Names
<1>3. BodyTypes' /\ pc'[Srv] = "serve" /\ \A p \in (Proc \cup {Main}) \ {Srv} : pc'[p] = pc[p]
  BY <1>1, GoesTo, Names DEF BodyTypes, PlacesOf
<1>4. /\ UNCHANGED <<alive, terminated, sqsOf, outcome>> /\ current' = Level
      /\ queued' = queued \ {Srv} /\ ev'[Srv] = NULL
      /\ \A p \in Proc \ {Srv} : ev'[p] = ev[p]
  BY <1>2, NoticesAreNumbers, Names DEF Quits, Quiet
<1>5. Running' /\ MainInv' /\ StartInv' /\ StopInv' /\ QueuedHere'
  BY <1>1, <1>3, <1>4, GoingStays, Names DEF QueuedHere, Stations
<1>6. CurrentFirst' /\ MovingInv'
  BY <1>2, QuitsMove, Names
<1>7. StationInv'
  BY <1>1, <1>3, <1>4, Names DEF StationInv
<1>8. JobsAlone
  <2>1. pc[Src] # "send"
    BY <1>1, Names DEF SourceInv
  <2> QED BY <1>1, <1>3, <1>4, <2>1, Names DEF JobsAlone
<1> QED BY <1>3, <1>5, <1>6, <1>7, <1>8, JobsStand

LEMMA SinkSleeps ==
  ASSUME Ground, Mm1Inv, From(Snk, "check", "take"), snkQueue = <<>>, Passivate(Snk)
  PROVE  Mm1Inv'
<1> USE DEF Mm1Inv
<1>1. /\ current = Snk /\ pc[Snk] = "check" /\ pc' = [pc EXCEPT ![Snk] = "take"]
      /\ UNCHANGED <<srvQueue, snkQueue, inHand, left>>
  BY DEF From, At, Goto, bodyVars
<1>2. Quits(Snk) /\ UNCHANGED terminated
  BY LeavesAtCall, Names
<1>3. BodyTypes' /\ pc'[Snk] = "take" /\ \A p \in (Proc \cup {Main}) \ {Snk} : pc'[p] = pc[p]
  BY <1>1, GoesTo, Names DEF BodyTypes, PlacesOf
<1>4. /\ UNCHANGED <<alive, terminated, sqsOf, outcome>> /\ current' = Level
      /\ queued' = queued \ {Snk} /\ ev'[Snk] = NULL
      /\ \A p \in Proc \ {Snk} : ev'[p] = ev[p]
  BY <1>2, NoticesAreNumbers, Names DEF Quits, Quiet
<1>5. Running' /\ MainInv' /\ StartInv' /\ StopInv' /\ QueuedHere'
  BY <1>1, <1>3, <1>4, GoingStays, Names DEF QueuedHere, Stations
<1>6. CurrentFirst' /\ MovingInv'
  BY <1>2, QuitsMove, Names
<1>7. StationInv'
  BY <1>1, <1>3, <1>4, Names DEF StationInv
<1>8. JobsAlone
  <2>1. pc[Src] # "send"
    BY <1>1, Names DEF SourceInv
  <2> QED BY <1>1, <1>3, <1>4, <2>1, Names DEF JobsAlone
<1> QED BY <1>3, <1>5, <1>6, <1>7, <1>8, JobsStand

LEMMA ServerServes ==
  ASSUME Ground, Mm1Inv, NEW dt \in Gap, At(Srv, "serve") \/ At(Srv, "check"),
         srvQueue # <<>>, inHand' = [inHand EXCEPT ![Srv] = Head(srvQueue)],
         srvQueue' = Tail(srvQueue), Hold(Srv, dt), Goto(Srv, "release"),
         UNCHANGED <<snkQueue, left>>
  PROVE  Mm1Inv'
<1> USE DEF Mm1Inv
<1>1. /\ current = Srv /\ pc[Srv] \in {"serve", "check"} /\ pc' = [pc EXCEPT ![Srv] = "release"]
      /\ UNCHANGED <<snkQueue, left>>
  BY DEF At, Goto
<1>2. Waits(Srv, dt) /\ dt \in Nat \ {0}
  BY WaitsFor, Names
<1>3. PICK h : h = Head(srvQueue)
  OBVIOUS
<1>4. srvQueue \in Seq(Job) /\ Rising(srvQueue)
  BY DEF BodyTypes, OrderInv
<1>5. /\ h \in Job /\ srvQueue' \in Seq(Job) /\ Rising(srvQueue')
      /\ Ran(srvQueue) = Ran(srvQueue') \cup {h} /\ h \notin Ran(srvQueue')
      /\ \A x \in Ran(srvQueue') : h < x
  <2>1. /\ h \in Job /\ srvQueue' \in Seq(Job) /\ Rising(srvQueue')
        /\ Ran(srvQueue) = Ran(srvQueue') \cup {h}
        /\ \A x \in Ran(srvQueue') : h < x
    BY <1>3, <1>4, TailRises
  <2>2. ~(h < h)
    BY <2>1, Names
  <2> QED BY <2>1, <2>2
<1>6. /\ BodyTypes' /\ pc'[Srv] = "release" /\ \A p \in (Proc \cup {Main}) \ {Srv} : pc'[p] = pc[p]
      /\ inHand'[Srv] = h /\ inHand'[Src] = inHand[Src]
  BY <1>1, <1>3, <1>5, GoesTo, Names DEF BodyTypes, PlacesOf
<1>7. /\ UNCHANGED <<alive, terminated, sqsOf, outcome, queued>> /\ current' = Level
      /\ ev'[Srv] # NULL /\ \A p \in Proc \ {Srv} : ev'[p] = ev[p]
  BY <1>2, NoticesAreNumbers, Names DEF Waits, Quiet
<1>8. Running' /\ MainInv' /\ StartInv' /\ StopInv' /\ QueuedHere'
  BY <1>1, <1>6, <1>7, GoingStays, Names DEF QueuedHere, Stations
<1>9. CurrentFirst' /\ MovingInv'
  BY <1>2, WaitsMove, Names
<1>10. StationInv'
  BY <1>1, <1>6, <1>7, Names DEF StationInv
<1>11. \A i \in Job : pc'[i] = pc[i] /\ ev'[i] = ev[i] /\ pc[i] \notin {"queue", "deliver"}
  BY <1>1, <1>6, <1>7, Names DEF JobInv
<1>12. JobInv'
  <2>1. \A p \in Proc : terminated'[p] <=> p \in Job /\ pc'[p] = "over"
    BY <1>7, <1>11 DEF JobInv
  <2> QED BY <1>7, <1>11, <2>1 DEF JobInv
<1>13. SourceInv'
  <2>1. pc'[Src] = pc[Src] /\ pc[Src] # "send"
    BY <1>1, <1>6, Names DEF SourceInv
  <2> QED BY <1>7, <1>11, <2>1 DEF SourceInv
<1>14. \A i \in Job : ~InHand(i) /\ (InHand(i)' <=> i = h)
  BY <1>1, <1>6 DEF InHand
<1>15. PlaceInv'
  <2>1. Ran(snkQueue)' = Ran(snkQueue) /\ Ran(left)' = Ran(left) /\ Ran(srvQueue)' = Ran(srvQueue) \ {h}
    BY <1>5 DEF Ran
  <2>2. pc[h] = "leave" /\ ev[h] = NULL
    BY <1>5 DEF PlaceInv
  <2>3. \A i \in Job : InHand(i)' => pc'[i] = "leave" /\ ev'[i] = NULL
    BY <1>11, <1>14, <2>2
  <2>4. \A i \in Job : /\ i \in Ran(srvQueue)' <=> pc'[i] = "leave" /\ ev'[i] = NULL /\ ~InHand(i)'
                       /\ i \in Ran(snkQueue)' \cup Ran(left)' <=> pc'[i] = "over"
    BY <1>11, <1>14, <2>1 DEF PlaceInv
  <2> QED BY <1>5, <1>6, <2>3, <2>4 DEF PlaceInv
<1>16. OrderInv'
  <2>1. Stage(h) = 2 /\ pc[h] = "leave" /\ h \in alive
    BY <1>5, StageOfQueued, StageSays
  <2>2. Stage(h)' = Stage(h) + 1
    <3>1. InHand(h)' /\ pc'[h] = "leave" /\ h \in alive' /\ ev'[h] = NULL
      BY <1>5, <1>7, <1>11, <1>14, <1>15, <2>1 DEF PlaceInv
    <3>2. Stage(h)' = 3
      BY <3>1 DEF Stage
    <3> QED BY <2>1, <3>2
  <2>3. ASSUME NEW i \in Job \ {h} PROVE Stage(i)' = Stage(i)
    <3>1. pc'[i] = pc[i] /\ ev'[i] = ev[i] /\ (InHand(i)' <=> InHand(i))
      BY <1>11, <1>14
    <3> QED BY <1>7, <3>1 DEF Stage
  <2>4. ASSUME NEW i \in Job, i < h PROVE Stage(i) # Stage(h)
    <3>1. i \notin Ran(srvQueue)
      BY <1>5, <2>4, Names
    <3> QED BY <2>1, <3>1, StageSays
  <2>5. \A i, k \in Job : i < k => Stage(i)' >= Stage(k)'
    <3>1. \A i, k \in Job : i < k => Stage(i) >= Stage(k)
      BY DEF OrderInv
    <3> QED BY <1>5, <2>2, <2>3, <2>4, <3>1, StageMoves
  <2> QED BY <1>5, <2>5 DEF OrderInv, Rising
<1> QED BY <1>6, <1>8, <1>9, <1>10, <1>12, <1>13, <1>15, <1>16

LEMMA ServerReleases ==
  ASSUME Ground, Mm1Inv, From(Srv, "release", "check"), ActivateAfterCurrent(inHand[Srv])
  PROVE  Mm1Inv'
<1> USE DEF Mm1Inv
<1>1. /\ current = Srv /\ pc[Srv] = "release" /\ pc' = [pc EXCEPT ![Srv] = "check"]
      /\ UNCHANGED <<srvQueue, snkQueue, inHand, left>>
  BY DEF From, At, Goto, bodyVars
<1>2. PICK h \in Job : h = inHand[Srv] /\ pc[h] = "leave" /\ ev[h] = NULL /\ InHand(h)
  BY <1>1 DEF PlaceInv, InHand
<1>3. ActivateNear(h, Current, "after") /\ \A i \in Job : InHand(i) <=> i = h
  BY <1>1, <1>2 DEF ActivateAfterCurrent, InHand
<1>4. h \in alive /\ ~terminated[h]
  BY <1>2, Names DEF JobInv
<1>5. Wakes(h)
  BY <1>1, <1>2, <1>3, <1>4, WakesIdle, Names
<1>6. BodyTypes' /\ pc'[Srv] = "check" /\ \A p \in (Proc \cup {Main}) \ {Srv} : pc'[p] = pc[p]
  BY <1>1, GoesTo, Names DEF BodyTypes, PlacesOf
<1>7. /\ UNCHANGED <<alive, terminated, sqsOf, outcome, current>>
      /\ queued' = queued \cup {h} /\ sqsOf[h] = Level /\ ev[Srv] # NULL /\ ev'[h] # NULL
      /\ \A p \in Proc \ {h} : ev'[p] = ev[p]
  BY <1>1, <1>2, <1>5, RunningProcess, NoticesAreNumbers, Names DEF Wakes, Quiet
<1>8. Running' /\ MainInv' /\ StartInv' /\ StopInv' /\ QueuedHere'
  BY <1>1, <1>6, <1>7, GoingStays, Names DEF QueuedHere, Stations
<1>9. CurrentFirst' /\ MovingInv'
  <2>1. Moving = {}
    BY <1>1 DEF MovingInv, Nobody
  <2>2. ~Nobody'
    BY <1>1, <1>6, <1>7, Names DEF Nobody
  <2>3. pc[SimMain] \notin Starting
    BY <1>1, GoingOn DEF Starting, Stations
  <2> QED BY <1>1, <1>2, <1>5, <2>1, <2>2, <2>3, WakesMove, Names
<1>10. StationInv'
  BY <1>1, <1>2, <1>6, <1>7, Names DEF StationInv
<1>11. \A i \in Job : pc'[i] = pc[i] /\ pc[i] \notin {"queue", "deliver"}
  BY <1>1, <1>6, Names DEF JobInv
<1>12. JobInv'
  <2>1. \A p \in Proc : terminated'[p] <=> p \in Job /\ pc'[p] = "over"
    BY <1>7, <1>11 DEF JobInv
  <2>2. \A i \in Job : ev'[i] # NULL => i \in queued'
    BY <1>7, Names DEF JobInv
  <2> QED BY <1>7, <1>11, <2>1, <2>2 DEF JobInv
<1>13. SourceInv'
  <2>1. pc'[Src] = pc[Src] /\ pc[Src] # "send"
    BY <1>1, <1>6, Names DEF SourceInv
  <2> QED BY <1>7, <1>11, <2>1 DEF SourceInv
<1>14. \A i \in Job : ~InHand(i)'
  BY <1>6 DEF InHand
<1>15. PlaceInv'
  <2>1. Ran(srvQueue)' = Ran(srvQueue) /\ Ran(snkQueue)' = Ran(snkQueue) /\ Ran(left)' = Ran(left)
    BY <1>1 DEF Ran
  <2>2. ASSUME NEW i \in Job
        PROVE  /\ i \in Ran(srvQueue) <=> pc'[i] = "leave" /\ ev'[i] = NULL
               /\ i \in Ran(snkQueue) \cup Ran(left) <=> pc'[i] = "over"
    <3>1. CASE i = h
      BY <1>2, <1>7, <1>11, <3>1 DEF PlaceInv
    <3>2. CASE i # h
      <4>1. ~InHand(i) /\ ev'[i] = ev[i]
        BY <1>3, <1>7, <3>2, Names
      <4> QED BY <1>11, <4>1 DEF PlaceInv
    <3> QED BY <3>1, <3>2
  <2> QED BY <1>6, <1>14, <2>1, <2>2 DEF PlaceInv
<1>16. OrderInv'
  <2>1. Stage(h) = 3
    BY <1>2, StageSays
  <2>2. Stage(h)' = Stage(h) + 1
    <3>1. ~InHand(h)' /\ pc'[h] = "leave" /\ h \in alive' /\ ev'[h] # NULL
      BY <1>2, <1>4, <1>7, <1>11, <1>14
    <3>2. Stage(h)' = 4
      BY <3>1 DEF Stage
    <3> QED BY <2>1, <3>2
  <2>3. ASSUME NEW i \in Job \ {h} PROVE Stage(i)' = Stage(i)
    <3>1. pc'[i] = pc[i] /\ ev'[i] = ev[i] /\ (InHand(i)' <=> InHand(i))
      BY <1>3, <1>7, <1>11, <1>14, Names
    <3> QED BY <1>7, <3>1 DEF Stage
  <2>4. ASSUME NEW i \in Job, i < h PROVE Stage(i) # Stage(h)
    <3>1. ~InHand(i)
      BY <1>2, <1>3, <2>4, Names
    <3> QED BY <2>1, <3>1, StageSays
  <2>5. \A i, k \in Job : i < k => Stage(i)' >= Stage(k)'
    <3>1. \A i, k \in Job : i < k => Stage(i) >= Stage(k)
      BY DEF OrderInv
    <3> QED BY <1>2, <2>2, <2>3, <2>4, <3>1, StageMoves
  <2> QED BY <1>1, <2>5 DEF OrderInv, Rising
<1> QED BY <1>6, <1>8, <1>9, <1>10, <1>12, <1>13, <1>15, <1>16

LEMMA SinkTakes ==
  ASSUME Ground, Mm1Inv, At(Snk, "take") \/ At(Snk, "check"), snkQueue # <<>>,
         left' = Append(left, Head(snkQueue)), snkQueue' = Tail(snkQueue),
         Goto(Snk, "check"), UNCHANGED <<vars, srvQueue, inHand>>
  PROVE  Mm1Inv'
<1> USE DEF Mm1Inv
<1>1. /\ current = Snk /\ pc' = [pc EXCEPT ![Snk] = "check"] /\ UNCHANGED <<srvQueue, inHand>>
      /\ UNCHANGED <<alive, terminated, sqsOf, outcome, current, queued, ev, before>>
  BY DEF At, Goto, vars, coVars, evVars, progVars
<1>2. PICK h : h = Head(snkQueue)
  OBVIOUS
<1>3. snkQueue \in Seq(Job) /\ Rising(snkQueue) /\ left \in Seq(Job) /\ Rising(left)
  BY DEF BodyTypes, OrderInv
<1>4. /\ h \in Job /\ snkQueue' \in Seq(Job) /\ Rising(snkQueue')
      /\ Ran(snkQueue) = Ran(snkQueue') \cup {h} /\ \A x \in Ran(snkQueue') : h < x
  BY <1>2, <1>3, TailRises
<1>5. \A x \in Ran(left), y \in Ran(snkQueue) : x < y
  BY DEF OrderInv, Ran
<1>6. /\ left' \in Seq(Job) /\ Rising(left') /\ Ran(left') = Ran(left) \cup {h}
  BY <1>2, <1>3, <1>4, <1>5, AppendRises
<1>7. BodyTypes' /\ pc'[Snk] = "check" /\ \A p \in (Proc \cup {Main}) \ {Snk} : pc'[p] = pc[p]
  BY <1>1, <1>4, <1>6, GoesTo, Names DEF BodyTypes, PlacesOf
<1>8. Running' /\ MainInv' /\ StartInv' /\ StopInv' /\ QueuedHere'
  BY <1>1, <1>7, GoingStays, Names DEF QueuedHere, Stations
<1>9. CurrentFirst' /\ MovingInv'
  <2>1. ~Nobody'
    BY <1>1, Names DEF Nobody
  <2> QED BY <1>1, <1>7, <2>1, StandsMove, Names
<1>10. StationInv'
  <2>1. ev[Snk] # NULL
    BY <1>1, RunningProcess, Names
  <2> QED BY <1>1, <1>7, <2>1, Names DEF StationInv
<1>11. \A i \in Job : pc'[i] = pc[i] /\ pc[i] \notin {"queue", "deliver"}
  BY <1>1, <1>7, Names DEF JobInv
<1>12. JobInv'
  <2>1. \A p \in Proc : terminated'[p] <=> p \in Job /\ pc'[p] = "over"
    BY <1>1, <1>11 DEF JobInv
  <2> QED BY <1>1, <1>11, <2>1 DEF JobInv
<1>13. SourceInv'
  <2>1. pc'[Src] = pc[Src] /\ pc[Src] # "send"
    BY <1>1, <1>7, Names DEF SourceInv
  <2> QED BY <1>1, <1>11, <2>1 DEF SourceInv
<1>14. \A i \in Job : InHand(i)' <=> InHand(i)
  BY <1>1, <1>7, Names DEF InHand
<1>15. PlaceInv'
  <2>1. Ran(srvQueue)' = Ran(srvQueue)
    BY <1>1 DEF Ran
  <2>2. Ran(snkQueue)' \cup Ran(left)' = Ran(snkQueue) \cup Ran(left)
    <3>1. Ran(snkQueue)' = Ran(snkQueue') /\ Ran(left)' = Ran(left')
      BY DEF Ran
    <3> QED BY <1>4, <1>6, <3>1
  <2>3. pc'[Srv] = "release" => inHand'[Srv] \in Job
    BY <1>1, <1>7, Names DEF PlaceInv
  <2> QED BY <1>1, <1>11, <1>14, <2>1, <2>2, <2>3 DEF PlaceInv
<1>16. OrderInv'
  <2>1. ASSUME NEW i \in Job PROVE Stage(i)' = Stage(i)
    BY <1>1, <1>11, <1>14 DEF Stage
  <2>2. ASSUME NEW i \in DOMAIN left', NEW k \in DOMAIN snkQueue' PROVE left'[i] < snkQueue'[k]
    <3>1. left'[i] \in Ran(left) \cup {h} /\ snkQueue'[k] \in Ran(snkQueue')
      BY <1>6 DEF Ran
    <3> QED BY <1>4, <1>5, <3>1
  <2> QED BY <1>1, <1>4, <1>6, <2>1, <2>2 DEF OrderInv, Rising
<1> QED BY <1>7, <1>8, <1>9, <1>10, <1>12, <1>13, <1>15, <1>16

-----------------------------------------------------------------------------
(***************************************************************************)
(* The scheduler and the main program                                      *)
(***************************************************************************)

LEMMA SchedulerKeeps ==
  ASSUME Ground, Mm1Inv, Scheduler
  PROVE  Mm1Inv'
<1> USE DEF Mm1Inv
<1>1. UNCHANGED <<pc, srvQueue, snkQueue, inHand, left>> /\ SqsStep(Level)
  BY DEF Scheduler, bodyVars
<1>2. Stops \/ \E p \in Proc : Resumes(p)
  BY <1>1, SchedulerSteps
<1>3. /\ UNCHANGED <<alive, sqsOf, outcome, queued, ev, before>> /\ current = Level
      /\ \A p \in Proc : terminated'[p] = terminated[p]
  BY <1>2, Names DEF Stops, Resumes, Quiet, Ground, KernelInv, CoInv, CoTypeOK
<1>4. BodyTypes' /\ QueuedHere' /\ Running'
  BY <1>1, <1>3 DEF BodyTypes, QueuedHere, Running
<1>5. pc[Main] = "end" /\ (pc[SimMain] \in Starting => pc[SimMain] = "server")
      /\ (pc[SimMain] \in Ending => pc[SimMain] = "over" /\ queued = {})
  BY <1>3, Names DEF MainInv, StartInv, StopInv
<1>6. StationInv'
  BY <1>1, <1>3, StationsStand, Names
<1>7. JobsAlone
  <2>1. pc[Src] # "send"
    BY <1>3, Names DEF SourceInv
  <2> QED BY <1>1, <1>3, <2>1, Names DEF JobsAlone
<1>8. JobInv' /\ SourceInv' /\ PlaceInv' /\ OrderInv'
  BY <1>7, JobsStand
<1>9. CASE Stops
  <2>1. current' = Main /\ queued = {}
    BY <1>9 DEF Stops
  <2>2. MainInv' /\ StopInv'
    BY <1>1, <1>3, <1>5, <2>1 DEF MainInv, StopInv
  <2>3. StartInv'
    BY <1>1, <1>3, <1>5, <2>1, Names DEF StartInv
  <2>4. CurrentFirst' /\ MovingInv'
    BY <1>3, <2>1, Names DEF CurrentFirst, MovingInv, Moving
  <2> QED BY <1>4, <1>6, <1>8, <2>2, <2>3, <2>4
<1>10. ASSUME NEW p \in Proc, Resumes(p) PROVE Mm1Inv'
  <2>1. current' = p /\ p \in queued
    BY <1>10 DEF Resumes
  <2>2. MainInv' /\ StopInv'
    BY <1>1, <1>3, <1>5, <2>1, Names DEF MainInv, StopInv
  <2>3. StartInv'
    BY <1>1, <1>3, <1>5, <2>1, Names DEF StartInv
  <2>4. CurrentFirst' /\ MovingInv'
    BY <1>10, ResumesMove
  <2> QED BY <1>4, <1>6, <1>8, <2>2, <2>3, <2>4
<1> QED BY <1>2, <1>9, <1>10

\* A step of the main program leaves the bodies of the others where they are.
MainStands ==
  /\ current = Main /\ current' \in {Main, Level}
  /\ \A p \in Proc : pc'[p] = pc[p] /\ (terminated'[p] <=> terminated[p])
  /\ \A p \in Proc \ {SimMain} : ev'[p] = ev[p] /\ (p \in alive' <=> p \in alive)
  /\ UNCHANGED <<srvQueue, snkQueue, inHand, left, outcome>>
  /\ queued \subseteq {SimMain} /\ queued \subseteq queued' /\ queued' \subseteq {SimMain}

LEMMA MainKeeps ==
  ASSUME Mm1Inv, MainStands, BodyTypes', QueuedHere', MainInv',
         pc[SimMain] \in Ending => queued' = {}
  PROVE  Mm1Inv'
<1> USE DEF Mm1Inv
<1>1. Running'
  BY DEF Running, MainStands
<1>2. StopInv'
  BY Names DEF StopInv, MainStands, Starting, Ending, BodyTypes
<1>3. StartInv'
  BY Names DEF StartInv, MainStands, Starting
<1>4. CurrentFirst' /\ MovingInv'
  BY Names DEF CurrentFirst, MovingInv, Moving, MainStands, Nobody
<1>5. StationInv'
  BY Names DEF StationInv, MainStands
<1>6. JobsAlone
  BY Names DEF JobsAlone, MainStands, SourceInv
<1> QED BY <1>1, <1>2, <1>3, <1>4, <1>5, <1>6, JobsStand

LEMMA MainSteps ==
  ASSUME Ground, Mm1Inv, MainStep
  PROVE  Mm1Inv'
<1> USE DEF Mm1Inv
<1>1. current = Main /\ queued \subseteq {SimMain} /\ UNCHANGED <<srvQueue, snkQueue, inHand, left>>
      /\ (pc[SimMain] = "server" \/ queued = {})
  BY DEF MainStep, From, At, bodyVars, MainInv
<1>2. /\ terminated \in [All -> BOOLEAN]
      /\ \A p \in Proc : terminated[p] => p \in Job
  BY DEF JobInv, Ground, KernelInv, CoInv, CoTypeOK
<1>3. ASSUME NEW place \in {"main", "activate", "run", "end", "return"}, Goto(Main, place)
      PROVE  BodyTypes' /\ pc'[Main] = place /\ \A p \in Proc : pc'[p] = pc[p]
  <2>1. place \in PlacesOf(Main)
    BY Names DEF PlacesOf
  <2>2. /\ srvQueue' \in Seq(Job) /\ snkQueue' \in Seq(Job) /\ left' \in Seq(Job)
        /\ inHand' \in [{Src, Srv} -> Job \cup {NULL}]
    BY <1>1 DEF BodyTypes
  <2> QED BY <1>3, <2>1, <2>2, GoesTo, Names DEF Goto
<1>4. CASE From(Main, "begin", "main") /\ BeginLevel(Level)
  <2>1. pc[Main] = "begin" /\ Goto(Main, "main")
    BY <1>4 DEF From, At
  <2>2. BodyTypes' /\ pc'[Main] = "main" /\ \A p \in Proc : pc'[p] = pc[p]
    BY <1>3, <2>1
  <2>3. Creates(Level) /\ UNCHANGED sqsOf
    BY <1>4, BeginLevelCreates
  <2>4. MainStands
    BY <1>1, <1>2, <2>2, <2>3, Names DEF Creates, MainStands
  <2>5. MainInv' /\ QueuedHere'
    BY <1>1, <1>2, <2>1, <2>2, <2>3, Names DEF Creates, MainInv, QueuedHere
  <2>6. pc[SimMain] \notin Ending
    BY <2>1 DEF MainInv, Ending
  <2> QED BY <2>2, <2>4, <2>5, <2>6, MainKeeps
<1>5. CASE From(Main, "main", "activate") /\ NewProcess(SimMain)
  <2>1. pc[Main] = "main" /\ Goto(Main, "activate")
    BY <1>5 DEF From, At
  <2>2. BodyTypes' /\ pc'[Main] = "activate" /\ \A p \in Proc : pc'[p] = pc[p]
    BY <1>3, <2>1
  <2>3. Creates(SimMain) /\ sqsOf' = [sqsOf EXCEPT ![SimMain] = Level] /\ queued = {}
    BY <1>5, <2>1, NewProcessCreates, Names DEF MainInv
  <2>4. MainStands
    BY <1>1, <1>2, <2>2, <2>3, Names DEF Creates, MainStands
  <2>5. MainInv' /\ QueuedHere'
    BY <1>1, <1>2, <2>1, <2>2, <2>3, Names DEF Creates, MainInv, QueuedHere
  <2>6. pc[SimMain] \notin Ending
    BY <2>1 DEF MainInv, Ending
  <2> QED BY <2>2, <2>4, <2>5, <2>6, MainKeeps
<1>6. CASE From(Main, "activate", "run") /\ Activate(SimMain)
  <2>1. pc[Main] = "activate" /\ Goto(Main, "run")
    BY <1>6 DEF From, At
  <2>2. BodyTypes' /\ pc'[Main] = "run" /\ \A p \in Proc : pc'[p] = pc[p]
    BY <1>3, <2>1
  <2>3. queued = {} /\ ~terminated[Level] /\ ~terminated[SimMain]
    BY <1>2, <2>1, Names DEF MainInv
  <2>4. Puts(SimMain)
    BY <1>1, <1>6, <2>3, ActivatePuts, Names
  <2>5. MainStands
    BY <1>1, <1>2, <2>2, <2>3, <2>4, Names DEF Puts, Quiet, MainStands
  <2>6. MainInv' /\ QueuedHere'
    BY <1>1, <2>1, <2>2, <2>3, <2>4, Names DEF Puts, Quiet, MainInv, QueuedHere
  <2>7. pc[SimMain] \notin Ending
    BY <2>1 DEF MainInv, Ending
  <2> QED BY <2>2, <2>5, <2>6, <2>7, MainKeeps
<1>7. CASE From(Main, "run", "end") /\ Run
  <2>1. pc[Main] = "run" /\ Goto(Main, "end")
    BY <1>7 DEF From, At
  <2>2. BodyTypes' /\ pc'[Main] = "end" /\ \A p \in Proc : pc'[p] = pc[p]
    BY <1>3, <2>1
  <2>3. Starts
    BY <1>1, <1>7, <2>1, RunStarts DEF MainInv
  <2>4. MainStands
    BY <1>1, <1>2, <2>2, <2>3, Names DEF Starts, Quiet, MainStands
  <2>5. MainInv' /\ QueuedHere'
    BY <1>1, <2>1, <2>2, <2>3, Names DEF Starts, Quiet, MainInv, QueuedHere
  <2>6. pc[SimMain] \notin Ending
    BY <2>1 DEF MainInv, Ending
  <2> QED BY <2>2, <2>4, <2>5, <2>6, MainKeeps
<1>8. CASE From(Main, "end", "return") /\ EndLevel
  <2>1. pc[Main] = "end" /\ Goto(Main, "return")
    BY <1>8 DEF From, At
  <2>2. BodyTypes' /\ pc'[Main] = "return" /\ \A p \in Proc : pc'[p] = pc[p]
    BY <1>3, <2>1
  <2>3. queued = {}
    BY <1>1, <2>1 DEF MainInv
  <2>4. Clears
    BY <1>1, <1>8, <2>3, EndLevelClears
  <2>5. MainStands
    BY <1>1, <1>2, <2>2, <2>3, <2>4, Names DEF Clears, MainStands
  <2>6. MainInv' /\ QueuedHere'
    BY <1>1, <2>1, <2>2, <2>3, <2>4, Names DEF Clears, MainInv, QueuedHere
  <2> QED BY <2>2, <2>4, <2>5, <2>6, MainKeeps DEF Clears
<1> QED BY <1>4, <1>5, <1>6, <1>7, <1>8 DEF MainStep

-----------------------------------------------------------------------------
(***************************************************************************)
(* simulation_main                                                         *)
(***************************************************************************)

\* A step of simulation_main, at whose time no job moves
SimStands ==
  /\ current = SimMain /\ current' \in {SimMain, Level}
  /\ pc'[Main] = pc[Main] /\ \A p \in Proc \ {SimMain} : pc'[p] = pc[p]
  /\ \A p \in Proc : terminated'[p] <=> terminated[p]
  /\ \A j \in Job : ev'[j] = ev[j] /\ (j \in alive' <=> j \in alive)
  /\ UNCHANGED <<srvQueue, snkQueue, inHand, left, outcome>>
  /\ queued' \subseteq queued \cup {Src, Srv, Snk}
  /\ BodyTypes' /\ QueuedHere'

LEMMA SimKeeps ==
  ASSUME Mm1Inv, SimStands
  PROVE  /\ BodyTypes' /\ Running' /\ QueuedHere' /\ MainInv' /\ MovingInv'
         /\ JobInv' /\ SourceInv' /\ PlaceInv' /\ OrderInv'
<1> USE DEF Mm1Inv
<1>1. Moving = {} /\ Moving' = {}
  BY Names DEF SimStands, MovingInv, Nobody, Moving
<1>2. MovingInv'
  BY <1>1 DEF MovingInv
<1>3. Running' /\ MainInv'
  BY Names DEF SimStands, Running, MainInv, BodyTypes
<1>4. JobsAlone
  BY <1>1, Names DEF SimStands, JobsAlone, SourceInv, Moving
<1> QED BY <1>2, <1>3, <1>4, JobsStand DEF SimStands

\* While it starts the stations.
LEMMA SimStarts ==
  ASSUME Mm1Inv, SimStands, current' = SimMain,
         pc[SimMain] \in Starting, pc'[SimMain] \in Starting,
         pc'[SimMain] \in {"start sink", "hold"} => ev'[Srv] # NULL,
         pc'[SimMain] = "hold" => ev'[Snk] # NULL
  PROVE  Mm1Inv'
<1> USE DEF Mm1Inv
<1>1. StartInv'
  BY Names DEF StartInv, SimStands
<1>2. StopInv' /\ StationInv' /\ CurrentFirst'
  BY DEF StopInv, StationInv, CurrentFirst, Starting, Ending
<1> QED BY <1>1, <1>2, SimKeeps

\* While it stops them.
LEMMA SimStops ==
  ASSUME Mm1Inv, SimStands, pc'[SimMain] \in Ending,
         \/ pc'[SimMain] = "over" /\ current' = Level /\ queued' = {}
         \/ pc'[SimMain] # "over" /\ current' = SimMain /\ First(SimMain)'
  PROVE  Mm1Inv'
<1> USE DEF Mm1Inv
<1>1. StartInv' /\ StationInv'
  BY DEF StartInv, StationInv, Starting, Ending
<1>2. StopInv' /\ CurrentFirst'
  BY Names DEF StopInv, CurrentFirst
<1> QED BY <1>1, <1>2, SimKeeps

\* Where simulation_main goes.
LEMMA SimGoes ==
  ASSUME Mm1Inv, NEW here, NEW place \in Starting \cup {"stop source"} \cup Ending,
         From(SimMain, here, place)
  PROVE  /\ current = SimMain /\ pc[SimMain] = here /\ pc'[SimMain] = place
         /\ pc'[Main] = pc[Main] /\ \A p \in Proc \ {SimMain} : pc'[p] = pc[p]
         /\ UNCHANGED <<srvQueue, snkQueue, inHand, left>> /\ BodyTypes'
<1>1. current = SimMain /\ pc[SimMain] = here /\ pc' = [pc EXCEPT ![SimMain] = place]
      /\ UNCHANGED <<srvQueue, snkQueue, inHand, left>> /\ BodyTypes
  BY DEF From, At, Goto, bodyVars, Mm1Inv
<1>2. place \in PlacesOf(SimMain)
  BY Names DEF PlacesOf
<1>3. /\ srvQueue' \in Seq(Job) /\ snkQueue' \in Seq(Job) /\ left' \in Seq(Job)
      /\ inHand' \in [{Src, Srv} -> Job \cup {NULL}]
  BY <1>1 DEF BodyTypes
<1> QED BY <1>1, <1>2, <1>3, GoesTo, Names

LEMMA SimCreates ==
  ASSUME Ground, Mm1Inv, NEW p \in {Srv, Snk, Src}, NEW here, NEW place \in {"sink", "source", "start source"},
         From(SimMain, here, place), here \in Starting, NewProcess(p)
  PROVE  Mm1Inv'
<1> USE DEF Mm1Inv
<1>1. Creates(p) /\ sqsOf' = [sqsOf EXCEPT ![p] = Level] /\ p \in Proc \ Job
  BY NewProcessCreates, Names
<1>2. /\ terminated \in [All -> BOOLEAN] /\ ~terminated[p]
      /\ sqsOf \in [Proc -> Sqs \cup {NULL}] /\ queued \subseteq Proc
  BY <1>1 DEF JobInv, Ground, KernelInv, CoInv, CoTypeOK, ControlInv, KernelTypeOK,
              NoticesInv, NoticesTypeOK
<1>3. QueuedHere'
  BY <1>1, <1>2 DEF QueuedHere, Creates
<1>4. current = SimMain /\ pc[SimMain] \in Starting /\ pc'[SimMain] = place
  BY SimGoes DEF Starting
<1>5. SimStands
  BY <1>1, <1>2, <1>3, SimGoes, Names DEF Creates, SimStands, Starting
<1> QED BY <1>1, <1>4, <1>5, SimStarts DEF Creates, Starting

LEMMA SimActivates ==
  ASSUME Ground, Mm1Inv, NEW p \in {Srv, Snk, Src}, NEW here, NEW place \in Starting,
         From(SimMain, here, place), here \in Starting, Activate(p)
  PROVE  Puts(p) /\ SimStands /\ pc[SimMain] = here /\ pc'[SimMain] = place
<1> USE DEF Mm1Inv
<1>1. /\ current = SimMain /\ pc[SimMain] = here /\ pc'[SimMain] = place
      /\ pc'[Main] = pc[Main] /\ \A q \in Proc \ {SimMain} : pc'[q] = pc[q]
      /\ UNCHANGED <<srvQueue, snkQueue, inHand, left>> /\ BodyTypes'
  BY SimGoes
<1>2. ~terminated[p] /\ p \in Proc \ Job
  BY Names DEF JobInv
<1>3. Puts(p)
  BY <1>1, <1>2, ActivatePuts, Names
<1>4. SimStands
  BY <1>1, <1>2, <1>3, Names DEF Puts, Quiet, SimStands, QueuedHere
<1> QED BY <1>1, <1>3, <1>4

LEMMA SimCancels ==
  ASSUME Ground, Mm1Inv, NEW p \in {Srv, Snk, Src}, NEW here, NEW place \in Ending \ {"over"},
         From(SimMain, here, place), here \notin Starting, Cancel(p)
  PROVE  Mm1Inv'
<1> USE DEF Mm1Inv
<1>1. /\ current = SimMain /\ pc[SimMain] = here /\ pc'[SimMain] = place
      /\ pc'[Main] = pc[Main] /\ \A q \in Proc \ {SimMain} : pc'[q] = pc[q]
      /\ UNCHANGED <<srvQueue, snkQueue, inHand, left>> /\ BodyTypes'
  BY SimGoes
<1>2. First(SimMain)
  BY <1>1, Names DEF CurrentFirst
<1>3. Cancels(p)
  BY <1>1, <1>2, CancelsOther, Names
<1>4. p \in Proc \ Job /\ p # SimMain /\ ev \in [Proc -> Time \cup {NULL}]
  BY NoticesAreNumbers, Names
<1>5. SimStands
  BY <1>1, <1>3, <1>4, Names DEF Cancels, Quiet, SimStands, QueuedHere
<1>6. First(SimMain)' /\ current' = SimMain
  <2>1. SimMain \in queued
    BY <1>1, RunningProcess, Names
  <2> QED BY <1>1, <1>2, <1>3, <1>4, <2>1 DEF Cancels, First
<1> QED BY <1>1, <1>5, <1>6, SimStops

LEMMA SimHolds ==
  ASSUME Ground, Mm1Inv, From(SimMain, "hold", "stop source"), Hold(SimMain, SimLen)
  PROVE  Mm1Inv'
<1> USE DEF Mm1Inv
<1>1. /\ current = SimMain /\ pc[SimMain] = "hold" /\ pc'[SimMain] = "stop source"
      /\ pc'[Main] = pc[Main] /\ \A q \in Proc \ {SimMain} : pc'[q] = pc[q]
      /\ UNCHANGED <<srvQueue, snkQueue, inHand, left>> /\ BodyTypes'
  BY SimGoes
<1>2. Waits(SimMain, SimLen)
  BY WaitsFor, ProgramAssumption, Names
<1>3. /\ current' = Level /\ \A p \in Proc \ {SimMain} : ev'[p] = ev[p]
  BY <1>2, NoticesAreNumbers DEF Waits
<1>4. SimStands
  BY <1>1, <1>2, <1>3, Names DEF Waits, Quiet, SimStands, QueuedHere
<1>5. StartInv' /\ StopInv' /\ CurrentFirst'
  BY <1>1, <1>3, Names DEF StartInv, StopInv, CurrentFirst, Starting, Ending
<1>6. StationInv'
  <2>1. ev[Srv] # NULL /\ ev[Snk] # NULL /\ pc[Srv] = "check" /\ pc[Snk] = "check"
    BY <1>1 DEF StartInv, Starting
  <2> QED BY <1>1, <1>3, <2>1, Names DEF StationInv
<1> QED BY <1>4, <1>5, <1>6, SimKeeps

LEMMA SimEnds ==
  ASSUME Ground, Mm1Inv, From(SimMain, "end simulation", "over"), EndSimulation(SimMain)
  PROVE  Mm1Inv'
<1> USE DEF Mm1Inv
<1>1. /\ current = SimMain /\ pc'[SimMain] = "over"
      /\ pc'[Main] = pc[Main] /\ \A q \in Proc \ {SimMain} : pc'[q] = pc[q]
      /\ UNCHANGED <<srvQueue, snkQueue, inHand, left>> /\ BodyTypes'
  BY SimGoes DEF Ending
<1>2. Closes(SimMain)
  BY EndSimulationCloses, Names
<1>3. SimStands
  BY <1>1, <1>2, Names DEF Closes, Quiet, SimStands, QueuedHere
<1> QED BY <1>1, <1>2, <1>3, SimStops DEF Closes, Ending

LEMMA SimSteps ==
  ASSUME Ground, Mm1Inv, SimulationMain
  PROVE  Mm1Inv'
<1>1. CASE \/ From(SimMain, "server", "sink") /\ NewProcess(Srv)
           \/ From(SimMain, "sink", "source") /\ NewProcess(Snk)
           \/ From(SimMain, "source", "start source") /\ NewProcess(Src)
  BY <1>1, SimCreates DEF Starting
<1>2. CASE From(SimMain, "start source", "start server") /\ Activate(Src)
  <2>1. Puts(Src) /\ SimStands /\ pc[SimMain] = "start source" /\ pc'[SimMain] = "start server"
    BY <1>2, SimActivates DEF Starting
  <2> QED BY <2>1, SimStarts DEF Puts, SimStands, Starting
<1>3. CASE From(SimMain, "start server", "start sink") /\ Activate(Srv)
  <2>1. Puts(Srv) /\ SimStands /\ pc[SimMain] = "start server" /\ pc'[SimMain] = "start sink"
    BY <1>3, SimActivates DEF Starting
  <2>2. current' = SimMain /\ ev'[Srv] # NULL
    BY <2>1 DEF Puts, SimStands
  <2> QED BY <2>1, <2>2, SimStarts DEF Starting
<1>4. CASE From(SimMain, "start sink", "hold") /\ Activate(Snk)
  <2>1. Puts(Snk) /\ SimStands /\ pc[SimMain] = "start sink" /\ pc'[SimMain] = "hold"
    BY <1>4, SimActivates DEF Starting
  <2>2. current' = SimMain /\ ev'[Snk] # NULL /\ ev'[Srv] # NULL
    BY <2>1, Names DEF Puts, SimStands, Mm1Inv, StartInv, Starting
  <2> QED BY <2>1, <2>2, SimStarts DEF Starting
<1>5. CASE From(SimMain, "hold", "stop source") /\ Hold(SimMain, SimLen)
  BY <1>5, SimHolds
<1>6. CASE \/ From(SimMain, "stop source", "stop server") /\ Cancel(Src)
           \/ From(SimMain, "stop server", "stop sink") /\ Cancel(Srv)
           \/ From(SimMain, "stop sink", "end simulation") /\ Cancel(Snk)
  BY <1>6, SimCancels DEF Starting, Ending
<1>7. CASE From(SimMain, "end simulation", "over") /\ EndSimulation(SimMain)
  BY <1>7, SimEnds
<1> QED BY <1>1, <1>2, <1>3, <1>4, <1>5, <1>6, <1>7 DEF SimulationMain

-----------------------------------------------------------------------------
(***************************************************************************)
(* The invariant                                                           *)
(***************************************************************************)

LEMMA BodiesBegin == Mm1Init => Mm1Inv
<1> SUFFICES ASSUME Mm1Init PROVE Mm1Inv
  OBVIOUS
<1> USE Names
<1>1. /\ alive = {} /\ current = Main /\ queued = {} /\ Running
      /\ ev = [p \in Proc |-> NULL] /\ terminated = [c \in All |-> FALSE]
  BY DEF Mm1Init, Init, CoInit, Running
<1>2. BodyTypes
  <2>1. /\ pc[Main] = "begin" /\ pc[SimMain] = "server" /\ pc[Src] = "hold"
        /\ pc[Srv] = "check" /\ pc[Snk] = "check" /\ \A j \in Job : pc[j] = "arrive"
        /\ pc = [p \in Proc \cup {Main} |-> pc[p]]
    BY DEF Mm1Init
  <2> QED BY <2>1 DEF BodyTypes, Mm1Init, Starting
<1>3. /\ pc[Main] = "begin" /\ pc[SimMain] = "server" /\ pc[Src] = "hold"
      /\ pc[Srv] = "check" /\ pc[Snk] = "check" /\ \A j \in Job : pc[j] = "arrive"
      /\ srvQueue = <<>> /\ snkQueue = <<>> /\ left = <<>>
  BY DEF Mm1Init
<1>4. QueuedHere /\ MainInv /\ CurrentFirst /\ MovingInv /\ StationInv /\ StopInv
  BY <1>1, <1>3 DEF QueuedHere, MainInv, StopInv, CurrentFirst, MovingInv, Moving, StationInv,
                    Starting, Ending
<1>5. StartInv
  BY <1>1, <1>3 DEF StartInv
<1>6. JobInv /\ SourceInv
  BY <1>1, <1>3 DEF JobInv, SourceInv
<1>7. Ran(srvQueue) = {} /\ Ran(snkQueue) = {} /\ Ran(left) = {}
  BY <1>3 DEF Ran
<1>8. PlaceInv
  BY <1>3, <1>7 DEF PlaceInv, InHand
<1>9. OrderInv
  <2>1. \A j \in Job : Stage(j) = 0
    BY <1>1 DEF Stage
  <2> QED BY <1>3, <2>1 DEF OrderInv, Rising
<1> QED BY <1>1, <1>2, <1>4, <1>5, <1>6, <1>8, <1>9 DEF Mm1Inv

LEMMA BodiesStutter ==
  ASSUME Mm1Inv, UNCHANGED mm1Vars
  PROVE  Mm1Inv'
<1> USE DEF Mm1Inv, mm1Vars, vars, coVars, evVars, progVars, bodyVars
<1>1. BodyTypes' /\ Running' /\ QueuedHere' /\ MainInv' /\ StartInv' /\ StopInv'
  BY DEF BodyTypes, Running, QueuedHere, MainInv, StartInv, StopInv
<1>2. CurrentFirst' /\ MovingInv'
  BY DEF CurrentFirst, First, MovingInv, Moving, NextUp, Nobody
<1>3. StationInv' /\ JobInv' /\ SourceInv'
  BY DEF StationInv, JobInv, SourceInv
<1>4. PlaceInv'
  BY DEF PlaceInv, InHand, Ran
<1>5. OrderInv'
  <2>1. \A j \in Job : Stage(j)' = Stage(j)
    BY DEF Stage, InHand
  <2> QED BY <2>1, OrderStays
<1> QED BY <1>1, <1>2, <1>3, <1>4, <1>5

LEMMA BodiesKeep ==
  ASSUME Ground, Mm1Inv, [Mm1Next]_mm1Vars
  PROVE  Mm1Inv'
<1>1. CASE Source
  BY <1>1, SourceHolds, SourceCreates, SourceSends DEF Source
<1>2. CASE Server
  BY <1>2, ServerSleeps, ServerServes, ServerReleases DEF Server
<1>3. CASE Sink
  BY <1>3, SinkSleeps, SinkTakes DEF Sink
<1>4. CASE UNCHANGED mm1Vars \/ Exited
  BY <1>4, BodiesStutter DEF Exited
<1> QED BY <1>1, <1>2, <1>3, <1>4, MainSteps, SimSteps, JobSteps, SchedulerKeeps DEF Mm1Next

\* Wherever the bodies of the processes stand, each has left in the lists and
\* among the notices what its text says, and the job that moves comes next
\* (mm1.cc:138-213).
THEOREM Mm1Invariant == Mm1Spec => []Mm1Inv
<1>1. Mm1Inv /\ Ground /\ [Mm1Next]_mm1Vars => Mm1Inv'
  BY BodiesKeep
<1> QED BY <1>1, BodiesBegin, AlwaysGround, PTL DEF Mm1Spec

-----------------------------------------------------------------------------
(***************************************************************************)
(* What follows from it                                                    *)
(***************************************************************************)

\* No wake-up is lost: until simulation_main stops the stations, one that
\* sleeps has nothing to do, although jobs and stations look at each other and
\* act in separate steps (mm1.cc:149-153, 161-163, 169-170, 181-184).
THEOREM AlwaysNobodySleepsOnWork == Mm1Spec => []NobodySleepsOnWork
<1>1. ASSUME Mm1Inv PROVE NobodySleepsOnWork
  <2> USE <1>1 DEF Mm1Inv
  <2>1. CASE pc[SimMain] \in Starting
    BY <2>1 DEF StartInv, NobodySleepsOnWork
  <2>2. CASE pc[SimMain] = "stop source"
    BY <2>2 DEF StationInv, BodyTypes, NobodySleepsOnWork, Idle
  <2>3. CASE pc[SimMain] \in Ending
    BY <2>3 DEF Ending, NobodySleepsOnWork, Stopping
  <2> QED BY <2>1, <2>2, <2>3 DEF BodyTypes
<1> QED BY <1>1, Mm1Invariant, PTL

\* How often a job is in a list without repetitions.
LEMMA TimesOnce ==
  ASSUME NEW q \in Seq(Job), NEW j \in Job, \A i, k \in DOMAIN q : i < k => q[i] # q[k]
  PROVE  Times(q, j) = IF j \in Ran(q) THEN 1 ELSE 0
<1>1. CASE j \notin Ran(q)
  <2>1. {i \in DOMAIN q : q[i] = j} = {}
    BY <1>1 DEF Ran
  <2> QED BY <1>1, <2>1, FS_EmptySet DEF Times
<1>2. CASE j \in Ran(q)
  <2>1. PICK m \in DOMAIN q : q[m] = j
    BY <1>2 DEF Ran
  <2>2. \A i \in DOMAIN q : q[i] = j => i = m
    BY <2>1
  <2>3. {i \in DOMAIN q : q[i] = j} = {m}
    BY <2>1, <2>2
  <2> QED BY <1>2, <2>3, FS_Singleton DEF Times
<1> QED BY <1>1, <1>2

\* The jobs at the sink, those in its list last, and their order.
LEMMA WayRises ==
  ASSUME BodyTypes, OrderInv
  PROVE  Rising(left \o snkQueue) /\ left \o snkQueue \in Seq(Job)
<1>1. left \in Seq(Job) /\ snkQueue \in Seq(Job)
  BY DEF BodyTypes
<1>2. /\ left \o snkQueue \in Seq(Job) /\ Len(left) \in Nat /\ Len(snkQueue) \in Nat
      /\ DOMAIN left = 1 .. Len(left) /\ DOMAIN snkQueue = 1 .. Len(snkQueue)
      /\ DOMAIN (left \o snkQueue) = 1 .. Len(left) + Len(snkQueue)
      /\ \A i \in 1 .. Len(left) : (left \o snkQueue)[i] = left[i]
      /\ \A i \in Len(left) + 1 .. Len(left) + Len(snkQueue) :
           (left \o snkQueue)[i] = snkQueue[i - Len(left)]
  BY <1>1
<1>3. ASSUME NEW i \in DOMAIN (left \o snkQueue), NEW k \in DOMAIN (left \o snkQueue), i < k
      PROVE  (left \o snkQueue)[i] < (left \o snkQueue)[k]
  <2>1. CASE k <= Len(left)
    BY <1>2, <1>3, <2>1 DEF OrderInv, Rising
  <2>2. CASE i <= Len(left) /\ k > Len(left)
    <3>1. k - Len(left) \in DOMAIN snkQueue /\ i \in DOMAIN left
      BY <1>2, <2>2
    <3>2. left[i] < snkQueue[k - Len(left)]
      BY <3>1 DEF OrderInv
    <3> QED BY <1>2, <2>2, <3>2
  <2>3. CASE i > Len(left)
    <3>1. i - Len(left) \in DOMAIN snkQueue /\ k - Len(left) \in DOMAIN snkQueue
          /\ i - Len(left) < k - Len(left)
      BY <1>2, <1>3, <2>3
    <3>2. snkQueue[i - Len(left)] < snkQueue[k - Len(left)]
      BY <3>1 DEF OrderInv, Rising
    <3> QED BY <1>2, <1>3, <2>3, <3>2
  <2> QED BY <1>2, <2>1, <2>2, <2>3
<1> QED BY <1>2, <1>3 DEF Rising

\* The jobs leave in the order in which they came, whatever the times drawn
\* (mm1.cc:147-163, 175-192).
THEOREM AlwaysFirstComeFirstServed == Mm1Spec => []FirstComeFirstServed
<1>1. Mm1Inv => FirstComeFirstServed
  BY WayRises DEF Mm1Inv, FirstComeFirstServed, Rising
<1> QED BY <1>1, Mm1Invariant, PTL

\* Nor is a job forgotten or served twice: one that sleeps is once in the
\* queue of the server or in its hands, one that has ended once at the sink
\* (mm1.cc:149-163, 181-189).
THEOREM AlwaysEveryJobHasAPlace == Mm1Spec => []EveryJobHasAPlace
<1>1. ASSUME Mm1Inv PROVE EveryJobHasAPlace
  <2> USE <1>1 DEF Mm1Inv
  <2>1. /\ srvQueue \in Seq(Job) /\ snkQueue \in Seq(Job) /\ left \in Seq(Job)
        /\ Rising(srvQueue) /\ Rising(snkQueue) /\ Rising(left)
    BY DEF BodyTypes, OrderInv
  <2>2. \A x \in Job : ~(x < x)
    BY Names
  <2>3. ASSUME NEW j \in Asleep
        PROVE  Times(srvQueue, j) + (IF pc[Srv] = "release" /\ inHand[Srv] = j THEN 1 ELSE 0) = 1
    <3>1. j \in Job /\ pc[j] = "leave" /\ ev[j] = NULL
      BY DEF Asleep, Idle
    <3>2. Times(srvQueue, j) = IF j \in Ran(srvQueue) THEN 1 ELSE 0
      <4>1. \A i, k \in DOMAIN srvQueue : i < k => srvQueue[i] # srvQueue[k]
        BY <2>1, <2>2 DEF Rising
      <4> QED BY <2>1, <3>1, <4>1, TimesOnce
    <3>3. j \in Ran(srvQueue) <=> ~InHand(j)
      BY <3>1 DEF PlaceInv
    <3> QED BY <3>2, <3>3 DEF InHand
  <2>4. ASSUME NEW j \in Job, terminated[j] PROVE Times(snkQueue \o left, j) = 1
    <3> DEFINE way == snkQueue \o left
    <3>1. j \in Ran(snkQueue) \cup Ran(left)
      BY <2>4, Names DEF JobInv, PlaceInv
    <3>2. /\ way \in Seq(Job) /\ Len(left) \in Nat /\ Len(snkQueue) \in Nat
          /\ DOMAIN left = 1 .. Len(left) /\ DOMAIN snkQueue = 1 .. Len(snkQueue)
          /\ DOMAIN way = 1 .. Len(snkQueue) + Len(left)
          /\ \A i \in 1 .. Len(snkQueue) : way[i] = snkQueue[i]
          /\ \A i \in Len(snkQueue) + 1 .. Len(snkQueue) + Len(left) :
               way[i] = left[i - Len(snkQueue)]
      BY <2>1
    <3> HIDE DEF way
    <3>3. j \in Ran(way)
      <4>1. CASE j \in Ran(snkQueue)
        <5>1. PICK m \in DOMAIN snkQueue : snkQueue[m] = j
          BY <4>1 DEF Ran
        <5>2. m \in DOMAIN way /\ way[m] = j
          BY <3>2, <5>1
        <5> QED BY <5>2 DEF Ran
      <4>2. CASE j \in Ran(left)
        <5>1. PICK m \in DOMAIN left : left[m] = j
          BY <4>2 DEF Ran
        <5>2. m + Len(snkQueue) \in DOMAIN way /\ way[m + Len(snkQueue)] = j
          BY <3>2, <5>1
        <5> QED BY <5>2 DEF Ran
      <4> QED BY <3>1, <4>1, <4>2
    <3>4. ASSUME NEW i \in DOMAIN way, NEW k \in DOMAIN way, i < k PROVE way[i] # way[k]
      <4>1. way[i] \in Job
        BY <3>2
      <4>2. CASE k <= Len(snkQueue)
        BY <2>1, <2>2, <3>2, <3>4, <4>1, <4>2 DEF Rising
      <4>3. CASE i <= Len(snkQueue) /\ k > Len(snkQueue)
        <5>1. k - Len(snkQueue) \in DOMAIN left /\ i \in DOMAIN snkQueue
          BY <3>2, <4>3
        <5>2. left[k - Len(snkQueue)] < snkQueue[i]
          BY <5>1 DEF OrderInv
        <5> QED BY <2>2, <3>2, <4>1, <4>3, <5>2
      <4>4. CASE i > Len(snkQueue)
        <5>1. i - Len(snkQueue) \in DOMAIN left /\ k - Len(snkQueue) \in DOMAIN left
              /\ i - Len(snkQueue) < k - Len(snkQueue)
          BY <3>2, <3>4, <4>4
        <5>2. left[i - Len(snkQueue)] < left[k - Len(snkQueue)]
          BY <2>1, <5>1 DEF Rising
        <5> QED BY <2>2, <3>2, <3>4, <4>1, <4>4, <5>2
      <4> QED BY <3>2, <4>2, <4>3, <4>4
    <3>5. Times(way, j) = 1
      BY <3>2, <3>3, <3>4, TimesOnce
    <3> QED BY <3>5 DEF way
  <2> QED BY <2>3, <2>4 DEF EveryJobHasAPlace
<1> QED BY <1>1, Mm1Invariant, PTL

\* The program meets no assertion of the kernel and no station wakes to an
\* empty list, which it does not test again (mm1.cc:169-171, 181-188).
THEOREM AlwaysRunsWithoutFault == Mm1Spec => []RunsWithoutFault
<1>1. ASSUME Ground, Mm1Inv PROVE RunsWithoutFault
  <2>1. Running /\ QueuedHere /\ StationInv
    BY <1>1 DEF Mm1Inv
  <2>2. current \in Proc => TimeFault(Level) = "ok" /\ ev[current] # NULL
    BY <1>1, <2>1, RunningProcess
  <2>3. current \in {Srv, Snk} => pc[SimMain] = "stop source"
    BY <1>1, GoingOn DEF Stations
  <2>4. At(Srv, "serve") => srvQueue # <<>>
    BY <2>1, <2>2, <2>3, Names DEF At, StationInv
  <2>5. At(Snk, "take") => snkQueue # <<>>
    BY <2>1, <2>2, <2>3, Names DEF At, StationInv
  <2> QED BY <2>1, <2>2, <2>4, <2>5 DEF RunsWithoutFault
<1> QED BY <1>1, AlwaysGround, Mm1Invariant, PTL

=============================================================================
