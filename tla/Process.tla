------------------------------ MODULE Process ------------------------------
(***************************************************************************)
(* The simulation kernel: processes (src/src/process.cc) are coroutines    *)
(* with at most one event notice; a sequencing set (src/src/sqs.cc) is the *)
(* coroutine that resumes, in its main, the process of its first notice;   *)
(* the singleton simulation (src/src/simulation.cc) stacks sequencing sets,*)
(* one per level.  Coroutine gives the transfer of control, EventOrder the *)
(* order of the notices, which SqsDll and SqsPrio implement.               *)
(*                                                                         *)
(* Control is explicit: `current' says who runs, and an action is one call *)
(* the running program or process makes, up to the next switch of context. *)
(* The programs in view keep handles to their processes, so none is        *)
(* deleted while in use, and do not ask for a time before now.             *)
(***************************************************************************)
EXTENDS Coroutine, EventOrder, Sequences

CONSTANTS Proc,    \* the coroutines that are processes
          Sqs,     \* the coroutines that are sequencing sets
          MaxTime  \* bound on event times

ASSUME PartsAssumption == Coroutine = Proc \cup Sqs /\ Proc \cap Sqs = {}
ASSUME MaxTimeAssumption == MaxTime \in Nat

Time == 0 .. MaxTime

ASSUME NoNoticeAssumption == NULL \notin Time

VARIABLES sqsOf,      \* process::_s, the sequencing set a process is bound to
          ev,         \* process::_ev: the time of the notice, or NULL
          queued,     \* processes whose notice is in its sequencing set
          before,     \* the order of the notices in the sequencing sets
          curProc,    \* sqs::_current, or NULL
          levels,     \* simulation::_sqs, the innermost level first
          clock,      \* history: the time of the last notice taken
          dispatched  \* history: processes whose notice has been taken once

evVars   == <<ev, queued, before, dispatched>>
progVars == <<sqsOf, levels>>
simVars  == <<curProc, clock>>
vars     == <<coVars, evVars, progVars, simVars>>

ProcessOutcomes ==
  {"no current", "no notice", "not current", "insert terminated",
   "insert near none", "undefined"}

TypeOK ==
  /\ CoTypeOK
  /\ outcome \in Outcomes \cup ProcessOutcomes
  /\ sqsOf \in [Proc -> Sqs \cup {NULL}]
  /\ ev \in [Proc -> Time \cup {NULL}]
  /\ queued \subseteq Proc /\ dispatched \subseteq Proc
  /\ before \subseteq queued \X queued
  /\ curProc \in [Sqs -> Proc \cup {NULL}]
  /\ levels \in Seq(Sqs)
  /\ clock \in [Sqs -> Time]

Init ==
  /\ CoInit
  /\ sqsOf = [p \in Proc |-> NULL]
  /\ ev = [p \in Proc |-> NULL]
  /\ queued = {} /\ dispatched = {}
  /\ before = {}
  /\ curProc = [s \in Sqs |-> NULL]
  /\ levels = <<>>
  /\ clock = [s \in Sqs |-> 0]

-----------------------------------------------------------------------------
Queue(s) == {p \in queued : sqsOf[p] = s}

\* sqs::firstProc
FirstProc(s) == Firsts(before, Queue(s))

\* The notice of p was in a list that has been cleared or deleted since:
\* clear( ) forgets the notices, the processes do not.
Dangling(p) == ev[p] # NULL /\ p \notin queued

\* A process the program may use: it and its sequencing set exist.
Usable == {p \in alive \cap Proc : sqsOf[p] \in alive}

\* Whoever runs, when it is not a scheduler, may call a public operation of p;
\* p itself, when it runs, may also hold, passivate, end the simulation and
\* return from inner_body.
User == Running /\ current \notin Sqs
Calls(p) == User /\ p \in Usable
Self(p) == Running /\ current = p /\ p \in Usable

\* process::time, with the assertion it may fail
TimeFault(s) ==
  CASE Queue(s) = {} -> "ok"
    [] Queue(s) # {} /\ curProc[s] = NULL -> "no current"
    [] OTHER -> IF ev[curProc[s]] = NULL THEN "no notice" ELSE "ok"

\* Mutant: always the time an empty sequencing set has.
NowZero(s) == 0

Now(s) == IF Queue(s) = {} THEN 0 ELSE ev[curProc[s]]

-----------------------------------------------------------------------------
(***************************************************************************)
(* Operations on the sequencing set of p                                   *)
(***************************************************************************)

Abort(why) == Halt(why) /\ UNCHANGED <<terminated, evVars, progVars, simVars>>

\* The caller goes on.
Stay == UNCHANGED <<coVars, progVars, simVars>>

\* Mutant: the notices are gone but their places are not.
ForgetProcsOnly(Q) == queued' = queued \ Q /\ dispatched' = dispatched \ Q /\ UNCHANGED before

Forget(Q) ==
  /\ queued' = queued \ Q
  /\ before' = {e \in before : e[1] \notin Q /\ e[2] \notin Q}
  /\ dispatched' = dispatched \ Q

\* remove and delete _ev
Unschedule(p) == ev' = [ev EXCEPT ![p] = NULL] /\ Forget({p})

\* remove, if p has a notice, then insertAt
ScheduleAt(p, t) ==
  /\ ev' = [ev EXCEPT ![p] = t]
  /\ queued' = queued \cup {p}
  /\ before' = PlacedAt(Without(before, p), Queue(sqsOf[p]) \ {p}, ev, p, t)
  /\ dispatched' = dispatched \ {p}

\* remove, if p has a notice, then insert next to q
ScheduleNear(p, q, where) ==
  /\ ev' = [ev EXCEPT ![p] = ev[q]]
  /\ queued' = queued \cup {p}
  /\ before' = LET rest == Queue(sqsOf[p]) \ {p}
               IN IF where = "before"
                  THEN PlacedBefore(Without(before, p), rest, p, q)
                  ELSE PlacedAfter(Without(before, p), rest, p, q)
  /\ dispatched' = dispatched \ {p}

\* The part that all activations at a time share ...
InsertIfIdle(p, t) ==
  \/ ev[p] # NULL /\ Stay /\ UNCHANGED evVars
  \/ ev[p] = NULL /\ terminated[p] /\ Abort("insert terminated")
  \/ ev[p] = NULL /\ ~terminated[p] /\ ScheduleAt(p, t) /\ Stay

\* ... and all reactivations at a time.
Reinsert(p, t) ==
  \/ Dangling(p) /\ Abort("undefined")
  \/ ~Dangling(p) /\ terminated[p] /\ Abort("insert terminated")
  \/ ~Dangling(p) /\ ~terminated[p] /\ ScheduleAt(p, t) /\ Stay

\* Insertion next to q, of p that has no notice any more.  The position of q
\* means nothing in a list that does not hold it.
InsertNear(p, q, where) ==
  \/ terminated[p] /\ Abort("insert terminated")
  \/ ~terminated[p] /\ p = q /\ Abort("insert near none")
  \/ ~terminated[p] /\ p # q /\ q \notin Queue(sqsOf[p]) /\ Abort("undefined")
  \/ ~terminated[p] /\ p # q /\ q \in Queue(sqsOf[p]) /\ ScheduleNear(p, q, where) /\ Stay

-----------------------------------------------------------------------------
(***************************************************************************)
(* What any part of the program may call on a process                      *)
(***************************************************************************)

Activate(p) ==
  /\ Calls(p)
  /\ LET s == sqsOf[p]
     IN \/ TimeFault(s) # "ok" /\ Abort(TimeFault(s))
        \/ TimeFault(s) = "ok" /\ InsertIfIdle(p, Now(s))

ActivateAt(p, t) ==
  /\ Calls(p)
  /\ LET s == sqsOf[p]
     IN \/ TimeFault(s) # "ok" /\ Abort(TimeFault(s))
        \/ TimeFault(s) = "ok" /\ t >= Now(s) /\ InsertIfIdle(p, t)

ActivateDelay(p, dt) ==
  /\ Calls(p)
  /\ LET s == sqsOf[p]
     IN \/ TimeFault(s) # "ok" /\ Abort(TimeFault(s))
        \/ TimeFault(s) = "ok" /\ Now(s) + dt \in Time /\ InsertIfIdle(p, Now(s) + dt)

\* activateBefore and activateAfter: the log message asks q for its time.
ActivateNear(p, q, where) ==
  /\ Calls(p) /\ q \in Usable
  /\ \/ ev[p] # NULL /\ Stay /\ UNCHANGED evVars
     \/ ev[p] = NULL /\ ev[q] = NULL /\ Abort("no notice")
     \/ ev[p] = NULL /\ ev[q] # NULL /\ InsertNear(p, q, where)

Reactivate(p) ==
  /\ Calls(p)
  /\ LET s == sqsOf[p]
     IN \/ TimeFault(s) # "ok" /\ Abort(TimeFault(s))
        \/ TimeFault(s) = "ok" /\ Reinsert(p, Now(s))

\* reactivateAt does not ask what time it is; the program does.
ReactivateAt(p, t) ==
  /\ Calls(p)
  /\ TimeFault(sqsOf[p]) = "ok" => t >= Now(sqsOf[p])
  /\ Reinsert(p, t)

ReactivateDelay(p, dt) ==
  /\ Calls(p)
  /\ LET s == sqsOf[p]
     IN \/ TimeFault(s) # "ok" /\ Abort(TimeFault(s))
        \/ TimeFault(s) = "ok" /\ Now(s) + dt \in Time /\ Reinsert(p, Now(s) + dt)

ReactivateNear(p, q, where) ==
  /\ Calls(p) /\ q \in Usable
  /\ \/ ev[q] = NULL /\ Abort("no notice")
     \/ ev[q] # NULL /\ Dangling(p) /\ Abort("undefined")
     \/ ev[q] # NULL /\ ~Dangling(p) /\ InsertNear(p, q, where)

\* Mutant: cancel only takes p off the line.
CancelStay(p) ==
  /\ Calls(p)
  /\ \/ ev[p] = NULL /\ Stay /\ UNCHANGED evVars
     \/ p \in queued /\ Unschedule(p) /\ Stay

\* cancel takes p off the line and detaches p, not the process that runs,
\* unless the process the scheduler resumed last is now first.
Cancel(p) ==
  /\ Calls(p)
  /\ \/ ev[p] = NULL /\ Stay /\ UNCHANGED evVars
     \/ Dangling(p) /\ Abort("undefined")
     \/ /\ p \in queued
        /\ Unschedule(p)
        /\ UNCHANGED <<progVars, simVars>>
        /\ LET s    == sqsOf[p]
               rest == Firsts(Without(before, p), Queue(s) \ {p})
           IN \/ rest = {curProc[s]} /\ UNCHANGED coVars
              \/ rest # {curProc[s]} /\ Detach(p)

-----------------------------------------------------------------------------
(***************************************************************************)
(* What a process may call on itself                                       *)
(***************************************************************************)

\* The assertions of hold and passivate
Fault(p) ==
  CASE curProc[sqsOf[p]] # p -> "not current"
    [] ev[p] = NULL          -> "no notice"
    [] Dangling(p)           -> "undefined"
    [] OTHER                 -> "ok"

Hold(p, dt) ==
  /\ Self(p)
  /\ LET s == sqsOf[p]
     IN \/ TimeFault(s) # "ok" /\ Abort(TimeFault(s))
        \/ TimeFault(s) = "ok" /\ Fault(p) # "ok" /\ Abort(Fault(p))
        \/ /\ TimeFault(s) = "ok" /\ Fault(p) = "ok"
           /\ Now(s) + dt \in Time
           /\ ScheduleAt(p, Now(s) + dt)
           /\ Detach(p)
           /\ UNCHANGED <<progVars, simVars>>

\* Mutant: the notice of a passive process stays.
PassivateNoticed(p) ==
  /\ Self(p)
  /\ Fault(p) = "ok"
  /\ Detach(p)
  /\ UNCHANGED <<evVars, progVars, simVars>>

Passivate(p) ==
  /\ Self(p)
  /\ \/ Fault(p) # "ok" /\ Abort(Fault(p))
     \/ /\ Fault(p) = "ok"
        /\ Unschedule(p)
        /\ Detach(p)
        /\ UNCHANGED <<progVars, simVars>>

\* Mutant: the simulation ends when the process next gives up control.
EndSimulationLater(p) ==
  /\ Self(p)
  /\ Forget(Queue(sqsOf[p])) /\ UNCHANGED ev
  /\ Stay

\* process::end_simulation: the notices stay with the processes.
EndSimulation(p) ==
  /\ Self(p)
  /\ Forget(Queue(sqsOf[p])) /\ UNCHANGED ev
  /\ Detach(p)
  /\ UNCHANGED <<progVars, simVars>>

\* Mutant: a process that ends keeps its notice.
ReturnNoticed(p) ==
  /\ Self(p)
  /\ Finish(p)
  /\ UNCHANGED <<evVars, progVars, simVars>>

\* inner_body returns; process::main and the trampoline do the rest.
Return(p) ==
  /\ Self(p)
  /\ \/ Dangling(p) /\ Abort("undefined")
     \/ /\ ~Dangling(p)
        /\ Unschedule(p)
        /\ Finish(p)
        /\ UNCHANGED <<progVars, simVars>>

-----------------------------------------------------------------------------
(***************************************************************************)
(* The scheduler and the levels                                            *)
(***************************************************************************)

\* sqs::main, from where it starts or where resume returns, to the next
\* resume or to its end.
SqsStep(s) ==
  /\ Running /\ current = s
  /\ UNCHANGED <<progVars, ev, queued, before>>
  /\ \/ /\ Queue(s) = {}
        /\ Finish(s)
        /\ UNCHANGED <<simVars, dispatched>>
     \/ \E p \in FirstProc(s) :
          /\ Resume(p)
          /\ curProc' = [curProc EXCEPT ![s] = p]
          /\ clock' = [clock EXCEPT ![s] = ev[p]]
          /\ dispatched' = dispatched \cup {p}

\* The constructor of process: bound to the innermost level.
NewProcess(p) ==
  /\ User
  /\ levels # <<>>
  /\ New(p)
  /\ sqsOf' = [sqsOf EXCEPT ![p] = Head(levels)]
  /\ UNCHANGED <<evVars, levels, simVars>>

\* begin_simulation of a new sequencing set, at an address no process is
\* bound to.
BeginLevel(s) ==
  /\ User
  /\ \A p \in Proc : sqsOf[p] # s
  /\ New(s)
  /\ levels' = <<s>> \o levels
  /\ curProc' = [curProc EXCEPT ![s] = NULL]
  /\ clock' = [clock EXCEPT ![s] = 0]
  /\ UNCHANGED <<evVars, sqsOf>>

\* simulation::end_simulation deletes the sequencing set; the processes keep
\* their notices.
EndLevel ==
  /\ User
  /\ levels # <<>>
  /\ Destroy(Head(levels))
  /\ UNCHANGED <<sqsOf, ev, simVars>>
  /\ \/ outcome' # "ok" /\ UNCHANGED <<levels, queued, before, dispatched>>
     \/ outcome' = "ok" /\ levels' = Tail(levels) /\ Forget(Queue(Head(levels)))

\* simulation::run
Run ==
  /\ User
  /\ levels # <<>>
  /\ Call(Head(levels))
  /\ UNCHANGED <<evVars, progVars, simVars>>

-----------------------------------------------------------------------------
Places == {"before", "after"}

Next ==
  \/ \E p \in Proc : Activate(p)
  \/ \E p \in Proc, t \in Time : ActivateAt(p, t)
  \/ \E p \in Proc, dt \in Time : ActivateDelay(p, dt)
  \/ \E p, q \in Proc, w \in Places : ActivateNear(p, q, w)
  \/ \E p \in Proc : Reactivate(p)
  \/ \E p \in Proc, t \in Time : ReactivateAt(p, t)
  \/ \E p \in Proc, dt \in Time : ReactivateDelay(p, dt)
  \/ \E p, q \in Proc, w \in Places : ReactivateNear(p, q, w)
  \/ \E p \in Proc : Cancel(p)
  \/ \E p \in Proc, dt \in Time : Hold(p, dt)
  \/ \E p \in Proc : Passivate(p)
  \/ \E p \in Proc : EndSimulation(p)
  \/ \E p \in Proc : Return(p)
  \/ \E p \in Proc : NewProcess(p)
  \/ \E s \in Sqs : SqsStep(s)
  \/ \E s \in Sqs : BeginLevel(s)
  \/ EndLevel
  \/ Run

Spec == Init /\ [][Next]_vars

-----------------------------------------------------------------------------
(***************************************************************************)
(* Properties                                                              *)
(***************************************************************************)

\* Whatever was activated, reactivated, cancelled or cleared in between, the
\* notices of a sequencing set stay in a strict line sorted by time, so
\* first( ) is one notice and the earliest.
LineOfEvents == \A s \in Sqs : IsLine(before, Queue(s), ev)

\* What sqs::main will resume is a process that can be resumed: alive, not
\* terminated, called by nobody.  So the scheduler never meets a FATAL message
\* (coroutine.cc:249-256), however processes end or are rescheduled.
QueuedCanResume ==
  \A p \in queued : p \in alive /\ ~terminated[p] /\ caller[p] = NULL

\* No switch of context the kernel makes itself goes wrong: whatever the
\* program calls, at any depth of levels, a scheduler resumes nobody who has
\* terminated or is attached, nobody enters the context it is in, and run does
\* not follow a chain back to its caller (coroutine.cc:113, 249-256, 275-280).
SwitchesSucceed ==
  outcome \notin {"resume terminated", "resume attached", "enter self",
                  "call operating", "hang"}

\* The process that runs is the one its sequencing set calls current, and it
\* has its notice in the set: the assertions of hold and passivate
\* (process.cc:94-95, 125-126) hold for every process that calls them.
RunningHasNotice ==
  current \in Proc =>
    /\ curProc[sqsOf[current]] = current
    /\ current \in queued
    /\ ev[current] # NULL

\* A process that keeps the notice of a cleared sequencing set is harmless as
\* long as the simulation runs: its set has ended, or is about to, before
\* anybody can remove the notice again.
DanglingMeansOver ==
  \A p \in Proc :
    Dangling(p) => LET s == sqsOf[p]
                   IN s \notin alive \/ terminated[s] \/ (current = s /\ Queue(s) = {})

\* run() gives control back to the main program only when the simulation it
\* started has ended: no detach of a process slips past the scheduler
\* (coroutine.cc:290-292).
RunReturnsWhenOver ==
  current = Main =>
    \A s \in Sqs : s \in alive /\ curProc[s] # NULL => terminated[s]

\* Time does not run backwards: the notices a scheduler takes have
\* non-decreasing times, even when processes are moved next to one another
\* (process.cc:205-225) or moved while they run.
TimeIsMonotone ==
  [][\A s \in Sqs : s \in alive /\ s \in alive' => clock'[s] >= clock[s]]_vars

\* A scheduler takes every notice once: whoever it resumed has given up or
\* replaced the notice when the scheduler runs again, so _processed, which
\* counts resumes (sqs.cc:61), counts processed event notices
\* (simulation.hh:55).
NoticeTakenOnce ==
  [][\A s \in Sqs, p \in Proc :
       current = s /\ p \in dispatched' /\ curProc'[s] = p /\ Queue(s) # {}
         => p \notin dispatched]_vars

\* A process that gives up control gives it to the scheduler it is bound to
\* ("control is passed back to the scheduler, which will select the next
\* event notice from the sequencing set", process.cc:86-88).
ControlToOwnScheduler ==
  [][\A p \in Proc :
       current = p /\ current' # p /\ callee'[p] = NULL
         => current' = sqsOf[p]]_vars

\* activate() puts the process in front of the sequencing set (process.hh:52)
\* when the process that runs is one of that set and has its notice at the
\* time at which it was resumed.  (When it has moved its notice to a later
\* time, it does not.)
ActivatedRunsNext ==
  [][\A p \in Usable :
       /\ Activate(p) /\ ev[p] = NULL /\ ev'[p] # NULL
       /\ current \in Proc /\ sqsOf[current] = sqsOf[p] /\ ev[current] = clock[sqsOf[p]]
       => p \in Firsts(before', {q \in queued' : sqsOf[q] = sqsOf[p]})]_vars

\* While a simulation runs, detach is only called on the coroutine that runs
\* (the assertion and its FIXME, coroutine.cc:297-299).
DetachOnlyCurrent == current \in Proc => outcome # "detach not current"

=============================================================================
