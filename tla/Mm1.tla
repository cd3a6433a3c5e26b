-------------------------------- MODULE Mm1 --------------------------------
(***************************************************************************)
(* A program on top of the kernel: the single-server queue of              *)
(* src/test/mm1.cc.  A source makes jobs, each a process of its own, which *)
(* queue at the server, are served one after the other, and end up at the  *)
(* sink; simulation_main starts the three stations, waits for the end of   *)
(* the simulation, cancels them and ends it.                               *)
(*                                                                         *)
(* Where Process lets a program do anything, here each body does what its  *)
(* text says: `pc' is where the body of each process stands, and a step of *)
(* the program is a step of Process together with what the body does       *)
(* before its next call.  One replication is run.  The random times are    *)
(* any from 1 to MaxGap; the statistics are left out.                      *)
(***************************************************************************)
EXTENDS Process, FiniteSets

CONSTANTS Job,             \* addresses of job processes, 1 .. n in the order of use
          Srv, Snk, Src,   \* srv, snk, src
          SimMain,         \* sim_main1
          Level,           \* the sequencing set of the simulation
          SimLen,          \* simLen
          MaxGap           \* the longest interarrival or service time

Stations == {Srv, Snk, Src}

ASSUME ProgramAssumption ==
  /\ Job = 1 .. SimLen
  /\ Srv # Snk /\ Snk # Src /\ Src # Srv
  /\ Job \cap Stations = {} /\ SimMain \notin Job \cup Stations
  /\ Proc = Job \cup Stations \cup {SimMain} /\ Sqs = {Level}
  /\ SimLen \in Nat /\ MaxGap \in Nat \ {0} /\ SimLen + MaxGap <= MaxTime

VARIABLES pc,        \* the next call of each body
          srvQueue,  \* srv->queue
          snkQueue,  \* snk->queue
          inHand,    \* the local handle j of source and server
          left       \* history: the jobs the sink has taken

bodyVars == <<srvQueue, snkQueue, inHand, left>>
mm1Vars  == <<vars, pc, bodyVars>>

Gap == 1 .. MaxGap

Mm1Init ==
  /\ Init
  /\ pc = [p \in Proc \cup {Main} |->
             CASE p = Main -> "begin"
               [] p = SimMain -> "server"
               [] p = Src -> "hold"
               [] p \in {Srv, Snk} -> "check"
               [] OTHER -> "arrive"]
  /\ srvQueue = <<>> /\ snkQueue = <<>> /\ left = <<>>
  /\ inHand = [p \in {Src, Srv} |-> NULL]

-----------------------------------------------------------------------------
At(p, place) == Running /\ current = p /\ pc[p] = place
Goto(p, place) == pc' = [pc EXCEPT ![p] = place]

\* A call of p's body at one place, after which it goes on at the next.
From(p, place, next) == At(p, place) /\ Goto(p, next) /\ UNCHANGED bodyVars

\* process::current of a process of this simulation
Current == curProc[Level]

\* process::idle
Idle(p) == ev[p] = NULL

ActivateAfterCurrent(p) == ActivateNear(p, Current, "after")

-----------------------------------------------------------------------------
\* main( ), one turn of its loop over the replications
MainStep ==
  \/ From(Main, "begin", "main") /\ BeginLevel(Level)
  \/ From(Main, "main", "activate") /\ NewProcess(SimMain)
  \/ From(Main, "activate", "run") /\ Activate(SimMain)
  \/ From(Main, "run", "end") /\ Run
  \/ From(Main, "end", "return") /\ EndLevel

SimulationMain ==
  \/ From(SimMain, "server", "sink") /\ NewProcess(Srv)
  \/ From(SimMain, "sink", "source") /\ NewProcess(Snk)
  \/ From(SimMain, "source", "start source") /\ NewProcess(Src)
  \/ From(SimMain, "start source", "start server") /\ Activate(Src)
  \/ From(SimMain, "start server", "start sink") /\ Activate(Srv)
  \/ From(SimMain, "start sink", "hold") /\ Activate(Snk)
  \/ From(SimMain, "hold", "stop source") /\ Hold(SimMain, SimLen)
  \/ From(SimMain, "stop source", "stop server") /\ Cancel(Src)
  \/ From(SimMain, "stop server", "stop sink") /\ Cancel(Srv)
  \/ From(SimMain, "stop sink", "end simulation") /\ Cancel(Snk)
  \/ From(SimMain, "end simulation", "over") /\ EndSimulation(SimMain)

Source ==
  \/ \E dt \in Gap : From(Src, "hold", "new") /\ Hold(Src, dt)
  \/ \E j \in Job \ alive :
       /\ \A i \in Job \ alive : j <= i
       /\ At(Src, "new") /\ Goto(Src, "send")
       /\ NewProcess(j)
       /\ inHand' = [inHand EXCEPT ![Src] = j]
       /\ UNCHANGED <<srvQueue, snkQueue, left>>
  \/ From(Src, "send", "hold") /\ ActivateAfterCurrent(inHand[Src])

\* Mutants: a job that queues without looking whether the sink sleeps, and
\* one that queues before all others.
JobUnnoticed(j) ==
  \/ From(j, "arrive", "queue") /\ Idle(Srv) /\ ActivateAfterCurrent(Srv)
  \/ /\ At(j, "queue") \/ (At(j, "arrive") /\ ~Idle(Srv))
     /\ srvQueue' = Append(srvQueue, j)
     /\ Passivate(j) /\ Goto(j, "leave")
     /\ UNCHANGED <<snkQueue, inHand, left>>
  \/ /\ At(j, "leave")
     /\ snkQueue' = Append(snkQueue, j)
     /\ Return(j) /\ Goto(j, "over")
     /\ UNCHANGED <<srvQueue, inHand, left>>

JobPushesIn(j) ==
  \/ From(j, "arrive", "queue") /\ Idle(Srv) /\ ActivateAfterCurrent(Srv)
  \/ /\ At(j, "queue") \/ (At(j, "arrive") /\ ~Idle(Srv))
     /\ srvQueue' = <<j>> \o srvQueue
     /\ Passivate(j) /\ Goto(j, "leave")
     /\ UNCHANGED <<snkQueue, inHand, left>>
  \/ From(j, "leave", "deliver") /\ Idle(Snk) /\ ActivateAfterCurrent(Snk)
  \/ /\ At(j, "deliver") \/ (At(j, "leave") /\ ~Idle(Snk))
     /\ snkQueue' = Append(snkQueue, j)
     /\ Return(j) /\ Goto(j, "over")
     /\ UNCHANGED <<srvQueue, inHand, left>>

\* The body of a job: it wakes the server, queues and sleeps until it has been
\* served; then it wakes the sink, queues there and ends.
JobBody(j) ==
  \/ From(j, "arrive", "queue") /\ Idle(Srv) /\ ActivateAfterCurrent(Srv)
  \/ /\ \/ At(j, "queue")
        \/ At(j, "arrive") /\ ~Idle(Srv)
     /\ srvQueue' = Append(srvQueue, j)
     /\ Passivate(j) /\ Goto(j, "leave")
     /\ UNCHANGED <<snkQueue, inHand, left>>
  \/ From(j, "leave", "deliver") /\ Idle(Snk) /\ ActivateAfterCurrent(Snk)
  \/ /\ \/ At(j, "deliver")
        \/ At(j, "leave") /\ ~Idle(Snk)
     /\ snkQueue' = Append(snkQueue, j)
     /\ Return(j) /\ Goto(j, "over")
     /\ UNCHANGED <<srvQueue, inHand, left>>

\* Mutant: the served job is not activated.
ServerForgets ==
  \/ From(Srv, "check", "serve") /\ srvQueue = <<>> /\ Passivate(Srv)
  \/ \E dt \in Gap :
       /\ At(Srv, "serve") \/ At(Srv, "check")
       /\ srvQueue # <<>>
       /\ inHand' = [inHand EXCEPT ![Srv] = Head(srvQueue)]
       /\ srvQueue' = Tail(srvQueue)
       /\ Hold(Srv, dt) /\ Goto(Srv, "check")
       /\ UNCHANGED <<snkQueue, left>>

\* The queue is tested once, before the server sleeps, and not when it wakes:
\* the front( ) of an empty list would be undefined, see RunsWithoutFault.
Server ==
  \/ From(Srv, "check", "serve") /\ srvQueue = <<>> /\ Passivate(Srv)
  \/ \E dt \in Gap :
       /\ \/ At(Srv, "serve")
          \/ At(Srv, "check")
       /\ srvQueue # <<>>
       /\ inHand' = [inHand EXCEPT ![Srv] = Head(srvQueue)]
       /\ srvQueue' = Tail(srvQueue)
       /\ Hold(Srv, dt) /\ Goto(Srv, "release")
       /\ UNCHANGED <<snkQueue, left>>
  \/ From(Srv, "release", "check") /\ ActivateAfterCurrent(inHand[Srv])

\* Mutant: a sink that has nothing to do asks again in no time.
SinkPolls ==
  \/ From(Snk, "check", "check") /\ snkQueue = <<>> /\ Hold(Snk, 0)
  \/ /\ At(Snk, "check") /\ snkQueue # <<>>
     /\ left' = Append(left, Head(snkQueue)) /\ snkQueue' = Tail(snkQueue)
     /\ UNCHANGED <<pc, srvQueue, inHand, vars>>

\* Like the server, without service.
Sink ==
  \/ From(Snk, "check", "take") /\ snkQueue = <<>> /\ Passivate(Snk)
  \/ /\ \/ At(Snk, "take")
        \/ At(Snk, "check")
     /\ snkQueue # <<>>
     /\ left' = Append(left, Head(snkQueue))
     /\ snkQueue' = Tail(snkQueue)
     /\ Goto(Snk, "check")
     /\ UNCHANGED <<vars, srvQueue, inHand>>

\* sqs::main and the program that has returned
Scheduler == SqsStep(Level) /\ UNCHANGED <<pc, bodyVars>>

Exited == pc[Main] = "return" /\ UNCHANGED mm1Vars

Mm1Next ==
  \/ MainStep
  \/ SimulationMain
  \/ Source
  \/ \E j \in Job : JobBody(j)
  \/ Server
  \/ Sink
  \/ Scheduler
  \/ Exited

\* One thread runs it all, and it runs on: whoever has control makes the next
\* call of its body.
Mm1Spec == Mm1Init /\ [][Mm1Next]_mm1Vars /\ WF_mm1Vars(Mm1Next)

-----------------------------------------------------------------------------
(***************************************************************************)
(* Properties                                                              *)
(***************************************************************************)

\* simulation_main has come to cancel the stations.
Stopping == pc[SimMain] \in {"stop server", "stop sink", "end simulation", "over"}

\* Jobs that sleep until the server has served them
Asleep == {j \in alive \cap Job : pc[j] = "leave" /\ Idle(j)}

Times(queue, j) == Cardinality({i \in DOMAIN queue : queue[i] = j})

\* No wake-up is lost: as long as the simulation runs, a station is not idle
\* while a job waits for it, although each tests its queue and sleeps, and
\* each job tests the station and queues, in separate steps (mm1.cc:149-153,
\* 161-163, 169-170, 181-184).
NobodySleepsOnWork ==
  ~Stopping => /\ srvQueue # <<>> => ~Idle(Srv)
               /\ snkQueue # <<>> => ~Idle(Snk)

\* No job is forgotten or served twice: one that sleeps is either once in the
\* queue of the server or in its hands, and one that has ended is once at the
\* sink.
EveryJobHasAPlace ==
  /\ \A j \in Asleep :
       Times(srvQueue, j) + (IF pc[Srv] = "release" /\ inHand[Srv] = j THEN 1 ELSE 0) = 1
  /\ \A j \in Job : terminated[j] => Times(snkQueue \o left, j) = 1

\* The jobs leave in the order in which they came, whatever the times drawn.
FirstComeFirstServed ==
  LET way == left \o snkQueue
  IN \A i, k \in DOMAIN way : i < k => way[i] < way[k]

\* The program uses the kernel as it should: no assertion fails, nobody is
\* resumed who may not be, cancel detaches nobody who does not run, and no
\* station wakes to an empty queue, which it does not test again
\* (mm1.cc:169-171, 181-188); whoever runs may ask for the time (117, 159, 182).
RunsWithoutFault ==
  /\ Running
  /\ current \in Proc => TimeFault(Level) = "ok"
  /\ At(Srv, "serve") => srvQueue # <<>>
  /\ At(Snk, "take") => snkQueue # <<>>

\* The simulation ends, and run( ) returns: simulation_main comes back from
\* hold( simLen ) although every other process keeps inserting notices, some
\* ahead of its own (sqsDll.cc:67).
SimulationEnds == <>(pc[Main] = "return")

\* A job that has been served leaves, even when the simulation ends at that
\* time: what follows from one event without delay all comes before
\* simulation_main, whose notice has been in the sequencing set longer.
JobsLeave ==
  \A j \in Job : (pc[j] = "leave" /\ ~Idle(j)) ~> Times(left, j) = 1

=============================================================================
