--------------------------- MODULE ProcessProofs ---------------------------
(***************************************************************************)
(* Proofs about Process, for any number of processes and sequencing sets,  *)
(* any bound on time and any nesting of levels; and about Ownership, the   *)
(* same kernel with the handles that keep its processes.                   *)
(*                                                                         *)
(* The inductive invariant KernelInv has three parts.  CoInv, from         *)
(* CoroutineProofs, is about any coroutines.  ControlInv says what the     *)
(* kernel does with them: only sequencing sets are called, they call       *)
(* nobody, and a process has control, itself or through a sequencing set   *)
(* it runs, only while its own sequencing set is being run and calls it    *)
(* current.  NoticesInv is about the event notices alone.                  *)
(*                                                                         *)
(* On top of it, LevelInv is about what a level has come to, at any depth; *)
(* FlatInv, about time and the end of a simulation, holds of programs in   *)
(* which no process runs a level itself (NobodyNests).  OwnInv, in the last*)
(* part, says who has no handle.                                           *)
(***************************************************************************)
EXTENDS Ownership, CoroutineProofs, EventOrderProofs

\* What the kernel lets a program be halted by, besides its own assertions.
KernelOutcomes ==
  {"ok", "call terminated", "call attached", "detach not current", "delete linked"}

KernelTypeOK ==
  /\ outcome \in KernelOutcomes \cup ProcessOutcomes
  /\ sqsOf \in [Proc -> Sqs \cup {NULL}]
  /\ curProc \in [Sqs -> Proc \cup {NULL}]
  /\ levels \in Seq(Sqs)
  /\ clock \in [Sqs -> Time]

\* Only sequencing sets are called, and they call nobody.
OnlyRunCalls ==
  /\ \A s \in Sqs : callee[s] = NULL
  /\ \A p \in Proc \cup {Main} : caller[p] = NULL

\* A sequencing set that has control was called by run.
SqsIsCalled == current \in Sqs => caller[current] # NULL

\* No process runs the sequencing set that schedules it.
NotOwnScheduler == \A p \in Proc : callee[p] # NULL => callee[p] # sqsOf[p]

\* p, or the sequencing set p runs, has control.
HasControl(p) == current = p \/ callee[p] = current

\* Who has control was given it by a sequencing set that is being run.
ControlIsGiven ==
  \A p \in Proc : HasControl(p) =>
    /\ p \in queued
    /\ sqsOf[p] \in Sqs \cap alive
    /\ ~terminated[sqsOf[p]]
    /\ caller[sqsOf[p]] # NULL
    /\ curProc[sqsOf[p]] = p

\* The levels are different sequencing sets, none deleted.
LevelsAlive ==
  \A i \in 1 .. Len(levels) :
    /\ levels[i] \in alive
    /\ \A j \in 1 .. Len(levels) : levels[i] = levels[j] => i = j

ControlInv ==
  /\ KernelTypeOK
  /\ OnlyRunCalls
  /\ SqsIsCalled
  /\ NotOwnScheduler
  /\ ControlIsGiven
  /\ LevelsAlive

NoticesTypeOK ==
  /\ ev \in [Proc -> Time \cup {NULL}]
  /\ queued \subseteq Proc /\ dispatched \subseteq Proc
  /\ before \subseteq queued \X queued
  /\ \A p \in queued : ev[p] # NULL

NoticesInv == NoticesTypeOK /\ LineOfEvents

\* What is queued can be resumed.
QueuedLive == \A p \in queued : p \in alive /\ ~terminated[p]

KernelInv == CoInv /\ ControlInv /\ NoticesInv /\ QueuedLive

-----------------------------------------------------------------------------
(***************************************************************************)
(* Control                                                                 *)
(***************************************************************************)

\* Who is called is a sequencing set, so chains have at most two members.
LEMMA CalleeIsSqs ==
  ASSUME CoInv, OnlyRunCalls, NEW c \in All, callee[c] # NULL
  PROVE  callee[c] \in Sqs /\ caller[callee[c]] = c
<1>1. callee[c] \in All /\ caller[callee[c]] = c
  BY DEF CoInv, CoTypeOK, LinksAgree
<1> QED BY <1>1, NullAssumption, PartsAssumption DEF OnlyRunCalls, All

\* Where the loops over _callee end.
LEMMA LeafIsNext ==
  ASSUME CoInv, OnlyRunCalls, NEW c \in All, NEW d \in Leaves(callee, c)
  PROVE  IF callee[c] = NULL THEN d = c ELSE d = callee[c]
<1>1. CASE callee[c] = NULL
  <2>1. Closed(callee, {c})
    BY <1>1 DEF Closed
  <2> QED BY <1>1, <2>1, ReachLeast DEF Leaves
<1>2. CASE callee[c] # NULL
  <2>1. callee[c] \in Sqs /\ callee[c] \in All
    BY <1>2, CalleeIsSqs, PartsAssumption DEF All
  <2>2. Closed(callee, {c, callee[c]})
    BY <2>1 DEF Closed, OnlyRunCalls
  <2>3. Reach(callee, c) \subseteq {c, callee[c]}
    BY <2>1, <2>2, ReachLeast
  <2> QED BY <1>2, <2>3 DEF Leaves
<1> QED BY <1>1, <1>2

\* Giving up control: a process goes to Main or to the sequencing set that
\* Main called, whatever level it runs in.
LEMMA LeaveToScheduler ==
  ASSUME CoInv, OnlyRunCalls, NEW p \in Proc, current = p, Leave(p)
  PROVE  /\ UNCHANGED <<alive, links, outcome>>
         /\ current' \in Sqs \cup {Main}
         /\ current' \in Sqs => caller[current'] = Main
<1>1. caller[p] = NULL /\ p # Main /\ p \notin Sqs /\ Main \notin Sqs
  BY MainAssumption, PartsAssumption DEF OnlyRunCalls
<1>2. EnterLeaf(Main)
  BY <1>1 DEF Leave
<1>3. Leaves(callee, Main) # {}
  BY LeafExists DEF CoInv, All
<1>4. PICK d \in Leaves(callee, Main) : Enter(d) /\ UNCHANGED links
  BY <1>2, <1>3 DEF EnterLeaf
<1>5. (d \in Sqs /\ caller[d] = Main) \/ d = Main
  BY LeafIsNext, CalleeIsSqs DEF All
<1> QED BY <1>1, <1>4, <1>5 DEF Enter, links

\* Steps after which everybody is where they were: calls that change notices
\* only, and calls that abort.
LEMMA StandStill ==
  ASSUME KernelInv, UNCHANGED <<alive, terminated, links, current>>,
         outcome' \in KernelOutcomes \cup ProcessOutcomes,
         UNCHANGED <<progVars, simVars>>, NoticesInv', QueuedLive',
         \A p \in Proc : HasControl(p) => p \in queued'
  PROVE  KernelInv'
<1> USE DEF KernelInv, ControlInv, links, progVars, simVars
<1>1. CoInv'
  BY CoStutterInv
<1>2. KernelTypeOK' /\ OnlyRunCalls' /\ SqsIsCalled' /\ NotOwnScheduler' /\ LevelsAlive'
  BY DEF KernelTypeOK, OnlyRunCalls, SqsIsCalled, NotOwnScheduler, LevelsAlive
<1>3. ControlIsGiven'
  BY DEF ControlIsGiven, HasControl
<1> QED BY <1>1, <1>2, <1>3

\* Steps in which the process that runs gives up control.
LEMMA GiveUp ==
  ASSUME KernelInv, NEW p \in Proc, current = p, Detach(p) \/ Finish(p),
         UNCHANGED <<progVars, simVars>>, NoticesInv',
         queued' \subseteq queued \cup {p}, Finish(p) => p \notin queued'
  PROVE  KernelInv'
<1> USE DEF KernelInv, ControlInv, progVars, simVars
<1>1. /\ UNCHANGED <<alive, links, outcome>>
      /\ current' \in Sqs \cup {Main}
      /\ current' \in Sqs => caller[current'] = Main
  BY LeaveToScheduler DEF Detach, Finish
<1>2. p \in alive /\ p \in Coroutine /\ p \notin Sqs /\ p \in All
  BY PartsAssumption, MainAssumption DEF CoInv, CurrentIsLeaf, All
<1>3. CoInv'
  BY <1>2, DetachInv, FinishInv
<1>4. KernelTypeOK' /\ OnlyRunCalls' /\ NotOwnScheduler' /\ LevelsAlive'
  BY <1>1 DEF KernelTypeOK, OnlyRunCalls, NotOwnScheduler, LevelsAlive, links
<1>5. SqsIsCalled'
  BY <1>1, NullAssumption DEF SqsIsCalled, links
<1>6. ControlIsGiven'
  <2> SUFFICES ASSUME NEW q \in Proc, HasControl(q)' PROVE FALSE
    BY DEF ControlIsGiven
  <2>1. current' # q /\ callee[q] = current'
    BY <1>1, PartsAssumption, MainAssumption DEF HasControl, links
  <2>2. caller[current'] = q
    BY <1>1, <2>1, PartsAssumption DEF CoInv, LinksAgree, All
  <2> QED BY <1>1, <2>2, PartsAssumption, MainAssumption, NullAssumption DEF OnlyRunCalls
<1>7. QueuedLive'
  <2>1. \A q \in queued \cup {p} : q \in alive' /\ q \in All /\ ~terminated[q]
    BY <1>1, <1>2 DEF QueuedLive, CoInv, CoTypeOK, CurrentIsLeaf, All
  <2>2. CASE Detach(p)
    BY <2>1, <2>2 DEF QueuedLive, Detach
  <2>3. CASE Finish(p)
    BY <1>2, <2>1, <2>3 DEF QueuedLive, Finish, CoInv, CoTypeOK
  <2> QED BY <2>2, <2>3
<1> QED BY <1>3, <1>4, <1>5, <1>6, <1>7

-----------------------------------------------------------------------------
(***************************************************************************)
(* Notices                                                                 *)
(***************************************************************************)

\* Notices taken off the line.
LEMMA ForgetNotices ==
  ASSUME NoticesInv, NEW Q, Forget(Q), UNCHANGED sqsOf,
         ev' \in [Proc -> Time \cup {NULL}],
         \A q \in queued \ Q : ev'[q] = ev[q]
  PROVE  NoticesInv' /\ queued' = queued \ Q
<1> USE DEF NoticesInv, NoticesTypeOK, Forget
<1>1. NoticesTypeOK'
  <2>1. before' \subseteq queued' \X queued'
    OBVIOUS
  <2> QED BY <2>1
<1>2. LineOfEvents'
  <2> SUFFICES ASSUME NEW s \in Sqs PROVE IsLine(before', Queue(s)', ev')
    BY DEF LineOfEvents
  <2>1. IsLine(before, Queue(s), ev) /\ Queue(s)' \subseteq Queue(s)
    BY DEF LineOfEvents, Queue
  <2>2. \A q, r \in Queue(s)' : <<q, r>> \in before' <=> <<q, r>> \in before
    BY DEF Queue
  <2>3. \A q \in Queue(s)' : ev'[q] = ev[q]
    BY DEF Queue
  <2> QED BY <2>1, <2>2, <2>3, LineOfSame
<1> QED BY <1>1, <1>2

\* Taking p off leaves the others in line.
LEMMA CutNotices ==
  ASSUME NoticesInv, NEW p \in Proc, sqsOf[p] \in Sqs
  PROVE  LET rest == Queue(sqsOf[p]) \ {p}
             cut  == Without(before, p)
         IN /\ IsLine(cut, rest, ev)
            /\ Absent(cut, rest, p) /\ <<p, p>> \notin cut /\ p \notin rest
            /\ \A q \in rest : q \in Proc /\ ev[q] \in Time
            /\ rest \subseteq queued \cup {p}
            /\ cut \subseteq (queued \cup {p}) \X (queued \cup {p})
            /\ \A q, r : q # p /\ r # p => (<<q, r>> \in cut <=> <<q, r>> \in before)
<1> DEFINE rest == Queue(sqsOf[p]) \ {p}
           cut  == Without(before, p)
<1> USE DEF NoticesInv, NoticesTypeOK
<1>1. \A q, r : q # p /\ r # p => (<<q, r>> \in cut <=> <<q, r>> \in before)
  BY DEF Without
<1>2. Absent(cut, rest, p) /\ <<p, p>> \notin cut /\ p \notin rest
  BY DEF Without, Absent
<1>3. \A q \in rest : q \in Proc /\ ev[q] \in Time
  BY DEF Queue
<1>4. rest \subseteq queued \cup {p} /\ cut \subseteq (queued \cup {p}) \X (queued \cup {p})
  BY DEF Queue, Without
<1>5. IsLine(cut, rest, ev)
  <2>1. IsLine(before, Queue(sqsOf[p]), ev) /\ rest \subseteq Queue(sqsOf[p])
    BY DEF LineOfEvents
  <2>2. \A q, r \in rest : <<q, r>> \in cut <=> <<q, r>> \in before
    BY <1>1
  <2> HIDE DEF NoticesInv, rest, cut
  <2> QED BY <2>1, <2>2, LineOfSame
<1> QED BY <1>1, <1>2, <1>3, <1>4, <1>5

\* A notice for p that has its place in the line of p's sequencing set.
LEMMA PlaceNotices ==
  ASSUME NoticesInv, NEW p \in Proc, NEW t \in Time, sqsOf[p] \in Sqs,
         ev' = [ev EXCEPT ![p] = t], queued' = queued \cup {p},
         dispatched' = dispatched \ {p}, UNCHANGED sqsOf,
         before' \subseteq (queued \cup {p}) \X (queued \cup {p}),
         \A q, r : q # p /\ r # p => (<<q, r>> \in before' <=> <<q, r>> \in before),
         IsLine(before', (Queue(sqsOf[p]) \ {p}) \cup {p}, ev')
  PROVE  NoticesInv'
<1>1. ev'[p] = t /\ \A q \in Proc \ {p} : ev'[q] = ev[q]
  BY DEF NoticesInv, NoticesTypeOK
<1>2. NoticesTypeOK'
  BY NoNoticeAssumption DEF NoticesInv, NoticesTypeOK
<1>3. LineOfEvents'
  <2> SUFFICES ASSUME NEW s \in Sqs PROVE IsLine(before', Queue(s)', ev')
    BY DEF LineOfEvents
  <2>1. CASE s = sqsOf[p]
    <3>1. Queue(s)' = (Queue(sqsOf[p]) \ {p}) \cup {p}
      BY <2>1 DEF Queue, NoticesInv, NoticesTypeOK
    <3> QED BY <3>1
  <2>2. CASE s # sqsOf[p]
    <3>1. Queue(s)' = Queue(s) /\ p \notin Queue(s) /\ Queue(s) \subseteq Proc
      BY <2>2 DEF Queue, NoticesInv, NoticesTypeOK
    <3>2. IsLine(before, Queue(s), ev)
      BY DEF NoticesInv, LineOfEvents
    <3>3. \A q, r \in Queue(s) : <<q, r>> \in before' <=> <<q, r>> \in before
      BY <3>1
    <3>4. \A q \in Queue(s) : ev'[q] = ev[q]
      BY <1>1, <3>1
    <3>5. IsLine(before', Queue(s), ev')
      BY <3>2, <3>3, <3>4, LineOfSame
    <3> QED BY <3>1, <3>5
  <2> QED BY <2>1, <2>2
<1> QED BY <1>2, <1>3 DEF NoticesInv

\* A notice for p at time t.
LEMMA ScheduleAtNotices ==
  ASSUME NoticesInv, NEW p \in Proc, NEW t \in Time, sqsOf[p] \in Sqs,
         ScheduleAt(p, t), UNCHANGED sqsOf
  PROVE  NoticesInv' /\ queued' = queued \cup {p}
<1> DEFINE rest == Queue(sqsOf[p]) \ {p}
           cut  == Without(before, p)
<1>1. /\ ev' = [ev EXCEPT ![p] = t] /\ queued' = queued \cup {p}
      /\ dispatched' = dispatched \ {p} /\ before' = PlacedAt(cut, rest, ev, p, t)
  BY DEF ScheduleAt
<1>2. ev'[p] = t /\ \A q \in Proc \ {p} : ev'[q] = ev[q]
  BY <1>1 DEF NoticesInv, NoticesTypeOK
<1>3. /\ IsLine(cut, rest, ev)
      /\ Absent(cut, rest, p) /\ <<p, p>> \notin cut /\ p \notin rest
      /\ \A q \in rest : q \in Proc /\ ev[q] \in Time
      /\ rest \subseteq queued \cup {p}
      /\ cut \subseteq (queued \cup {p}) \X (queued \cup {p})
      /\ \A q, r : q # p /\ r # p => (<<q, r>> \in cut <=> <<q, r>> \in before)
  BY CutNotices
<1> HIDE DEF rest, cut
<1>4. \A q \in rest : ev[q] \in Nat /\ ev'[q] = ev[q]
  BY <1>2, <1>3 DEF Time
<1>5. IsLine(PlacedAt(cut, rest, ev, p, t), rest \cup {p}, ev')
  BY <1>2, <1>3, <1>4, PlacedAtLine DEF Time
<1>6. before' \subseteq (queued \cup {p}) \X (queued \cup {p})
  BY <1>1, <1>3, PlacedWithin
<1>7. \A q, r : q # p /\ r # p => (<<q, r>> \in before' <=> <<q, r>> \in before)
  BY <1>1, <1>3 DEF PlacedAt
<1> QED BY <1>1, <1>5, <1>6, <1>7, PlaceNotices DEF rest

\* A notice for p next to that of q.
LEMMA ScheduleNearNotices ==
  ASSUME NoticesInv, NEW p \in Proc, NEW q \in Queue(sqsOf[p]), q # p, NEW where,
         sqsOf[p] \in Sqs, ScheduleNear(p, q, where), UNCHANGED sqsOf
  PROVE  NoticesInv' /\ queued' = queued \cup {p}
<1> DEFINE rest == Queue(sqsOf[p]) \ {p}
           cut  == Without(before, p)
           t    == ev[q]
<1>1. /\ ev' = [ev EXCEPT ![p] = t] /\ queued' = queued \cup {p}
      /\ dispatched' = dispatched \ {p}
      /\ before' = PlacedBefore(cut, rest, p, q) \/ before' = PlacedAfter(cut, rest, p, q)
  BY DEF ScheduleNear
<1>2. ev'[p] = t /\ \A r \in Proc \ {p} : ev'[r] = ev[r]
  BY <1>1 DEF NoticesInv, NoticesTypeOK
<1>3. /\ IsLine(cut, rest, ev)
      /\ Absent(cut, rest, p) /\ <<p, p>> \notin cut /\ p \notin rest
      /\ \A r \in rest : r \in Proc /\ ev[r] \in Time
      /\ rest \subseteq queued \cup {p}
      /\ cut \subseteq (queued \cup {p}) \X (queued \cup {p})
      /\ \A r, u : r # p /\ u # p => (<<r, u>> \in cut <=> <<r, u>> \in before)
  BY CutNotices
<1>4. q \in rest
  OBVIOUS
<1> HIDE DEF rest, cut
<1>5. \A r \in rest : ev[r] \in Nat /\ ev'[r] = ev[r]
  BY <1>2, <1>3 DEF Time
<1>6. /\ IsLine(PlacedBefore(cut, rest, p, q), rest \cup {p}, ev')
      /\ IsLine(PlacedAfter(cut, rest, p, q), rest \cup {p}, ev')
  BY <1>2, <1>3, <1>4, <1>5, PlacedBeforeLine, PlacedAfterLine
<1>7. before' \subseteq (queued \cup {p}) \X (queued \cup {p})
  <2>1. q \in queued \cup {p}
    BY <1>3, <1>4
  <2> QED BY <1>1, <1>3, <2>1, PlacedWithin
<1>8. \A r, u : r # p /\ u # p => (<<r, u>> \in before' <=> <<r, u>> \in before)
  BY <1>1, <1>3 DEF PlacedBefore, PlacedAfter
<1>9. IsLine(before', rest \cup {p}, ev') /\ t \in Time
  BY <1>1, <1>3, <1>4, <1>6
<1> QED BY <1>1, <1>7, <1>8, <1>9, PlaceNotices DEF rest

-----------------------------------------------------------------------------
(***************************************************************************)
(* Calls that do not give up control                                       *)
(***************************************************************************)

\* Notices nobody touched.
LEMMA SameNotices ==
  ASSUME NoticesInv, UNCHANGED <<ev, queued, before>>, dispatched' \subseteq Proc,
         \A q \in queued : sqsOf'[q] = sqsOf[q]
  PROVE  NoticesInv'
<1>1. \A s \in Sqs : Queue(s)' = Queue(s)
  BY DEF Queue
<1> QED BY <1>1 DEF NoticesInv, NoticesTypeOK, LineOfEvents

\* A process the program may use, and the program that may use it.
LEMMA UsableProc ==
  ASSUME KernelInv, NEW p \in Usable
  PROVE  p \in Proc /\ p \in alive /\ p \in All /\ sqsOf[p] \in Sqs /\ sqsOf[p] \in alive
BY NullAssumption, PartsAssumption
   DEF Usable, KernelInv, ControlInv, KernelTypeOK, CoInv, CoTypeOK, All

\* A program aborted by an assertion of the kernel.
LEMMA AbortInv ==
  ASSUME KernelInv, NEW why \in ProcessOutcomes, Abort(why)
  PROVE  KernelInv'
<1>1. NoticesInv'
  BY SameNotices DEF Abort, evVars, progVars, KernelInv, NoticesInv, NoticesTypeOK
<1>2. QueuedLive' /\ \A p \in Proc : HasControl(p) => p \in queued'
  BY DEF Abort, Halt, evVars, KernelInv, ControlInv, ControlIsGiven, QueuedLive
<1> QED BY <1>1, <1>2, StandStill DEF Abort, Halt

\* A call without effect.
LEMMA StayInv ==
  ASSUME KernelInv, Stay, UNCHANGED evVars
  PROVE  KernelInv'
<1>1. NoticesInv'
  BY SameNotices DEF Stay, evVars, progVars, KernelInv, NoticesInv, NoticesTypeOK
<1>2. QueuedLive' /\ \A p \in Proc : HasControl(p) => p \in queued'
  BY DEF Stay, coVars, evVars, KernelInv, ControlInv, ControlIsGiven, QueuedLive
<1>3. outcome' \in KernelOutcomes \cup ProcessOutcomes
  BY DEF Stay, coVars, KernelInv, ControlInv, KernelTypeOK
<1> QED BY <1>1, <1>2, <1>3, StandStill DEF Stay, coVars, links

\* A call that gives p a notice.
LEMMA StayQueuedInv ==
  ASSUME KernelInv, NEW p \in Usable, ~terminated[p], Stay, NoticesInv',
         queued' = queued \cup {p}
  PROVE  KernelInv'
<1>1. QueuedLive' /\ \A q \in Proc : HasControl(q) => q \in queued'
  BY UsableProc DEF Stay, coVars, KernelInv, ControlInv, ControlIsGiven, QueuedLive
<1>2. outcome' \in KernelOutcomes \cup ProcessOutcomes
  BY DEF Stay, coVars, KernelInv, ControlInv, KernelTypeOK
<1> QED BY <1>1, <1>2, StandStill DEF Stay, coVars, links

\* What insertAt needs and does, whoever calls it.
LEMMA StayScheduleAtInv ==
  ASSUME KernelInv, NEW p \in Usable, ~terminated[p], NEW t \in Time,
         ScheduleAt(p, t), Stay
  PROVE  KernelInv'
<1>1. p \in Proc /\ sqsOf[p] \in Sqs
  BY UsableProc
<1>2. NoticesInv' /\ queued' = queued \cup {p}
  BY <1>1, ScheduleAtNotices DEF KernelInv, Stay, progVars
<1> QED BY <1>2, StayQueuedInv

LEMMA InsertIfIdleInv ==
  ASSUME KernelInv, NEW p \in Usable, NEW t \in Time, InsertIfIdle(p, t)
  PROVE  KernelInv'
BY StayInv, AbortInv, StayScheduleAtInv DEF InsertIfIdle, ProcessOutcomes

LEMMA ReinsertInv ==
  ASSUME KernelInv, NEW p \in Usable, NEW t \in Time, Reinsert(p, t)
  PROVE  KernelInv'
BY AbortInv, StayScheduleAtInv DEF Reinsert, ProcessOutcomes

LEMMA InsertNearInv ==
  ASSUME KernelInv, NEW p \in Usable, NEW q \in Proc, NEW where, InsertNear(p, q, where)
  PROVE  KernelInv'
<1>1. CASE \E why \in ProcessOutcomes : Abort(why)
  BY <1>1, AbortInv
<1>2. CASE ~terminated[p] /\ p # q /\ q \in Queue(sqsOf[p]) /\ ScheduleNear(p, q, where) /\ Stay
  <2>1. p \in Proc /\ sqsOf[p] \in Sqs
    BY UsableProc
  <2>2. NoticesInv' /\ queued' = queued \cup {p}
    BY <1>2, <2>1, ScheduleNearNotices DEF KernelInv, Stay, progVars
  <2> QED BY <1>2, <2>2, StayQueuedInv
<1> QED BY <1>1, <1>2 DEF InsertNear, ProcessOutcomes

\* What process::time returns is a time, or its failure is one we know.
LEMMA NowIsTime ==
  ASSUME KernelInv, NEW s \in Sqs
  PROVE  /\ TimeFault(s) # "ok" => TimeFault(s) \in ProcessOutcomes
         /\ TimeFault(s) = "ok" => Now(s) \in Time
<1>1. TimeFault(s) # "ok" => TimeFault(s) \in ProcessOutcomes
  BY DEF TimeFault, ProcessOutcomes
<1>2. ASSUME TimeFault(s) = "ok" PROVE Now(s) \in Time
  <2>1. CASE Queue(s) = {}
    BY <2>1, MaxTimeAssumption DEF Now, Time
  <2>2. CASE Queue(s) # {}
    <3>1. curProc[s] \in Proc /\ ev[curProc[s]] # NULL
      BY <1>2, <2>2 DEF TimeFault, KernelInv, ControlInv, KernelTypeOK
    <3> QED BY <2>2, <3>1 DEF Now, KernelInv, NoticesInv, NoticesTypeOK
  <2> QED BY <2>1, <2>2
<1> QED BY <1>1, <1>2

-----------------------------------------------------------------------------
(***************************************************************************)
(* Calls that give up control                                              *)
(***************************************************************************)

LEMMA UnscheduleNotices ==
  ASSUME NoticesInv, NEW p \in Proc, Unschedule(p), UNCHANGED sqsOf
  PROVE  NoticesInv' /\ queued' = queued \ {p}
<1>1. /\ ev' \in [Proc -> Time \cup {NULL}]
      /\ \A q \in queued \ {p} : ev'[q] = ev[q]
  BY DEF Unschedule, NoticesInv, NoticesTypeOK
<1> QED BY <1>1, ForgetNotices DEF Unschedule

\* cancel: if p is still called current somewhere, cancel is called by p
\* itself, or the program is aborted.
LEMMA CancelInv ==
  ASSUME KernelInv, NEW p \in Proc, Cancel(p)
  PROVE  KernelInv'
<1>0. p \in Usable /\ current \notin Sqs
  BY DEF Cancel, Calls, User
<1>1. CASE Stay /\ UNCHANGED evVars
  BY <1>1, StayInv
<1>2. CASE Abort("undefined")
  BY <1>2, AbortInv DEF ProcessOutcomes
<1>3. CASE p \in queued /\ Unschedule(p) /\ UNCHANGED <<progVars, simVars>>
           /\ (UNCHANGED coVars \/ Detach(p))
           /\ (UNCHANGED coVars =>
                 \/ Firsts(Without(before, p), Queue(sqsOf[p]) \ {p}) = {curProc[sqsOf[p]]}
                 \/ Detach(p))
  <2>1. NoticesInv' /\ queued' = queued \ {p}
    BY <1>3, UnscheduleNotices DEF KernelInv, progVars
  <2>2. CASE current = p /\ Detach(p)
    BY <2>1, <2>2, <1>3, GiveUp
  <2>3. CASE UNCHANGED <<alive, terminated, links, current>>
             /\ outcome' \in KernelOutcomes \cup ProcessOutcomes
             /\ ~HasControl(p)
    <3>1. QueuedLive' /\ \A q \in Proc : HasControl(q) => q \in queued'
      BY <2>1, <2>3 DEF KernelInv, ControlInv, ControlIsGiven, QueuedLive
    <3> QED BY <1>3, <2>1, <2>3, <3>1, StandStill
  <2>4. CASE current # p /\ Detach(p)
    <3>1. ~HasControl(p)
      <4> SUFFICES ASSUME callee[p] = current PROVE FALSE
        BY <2>4 DEF HasControl
      <4>1. callee[p] # NULL /\ p \in All
        BY NullAssumption, PartsAssumption DEF KernelInv, CoInv, CoTypeOK, All
      <4> QED BY <1>0, <4>1, CalleeIsSqs DEF KernelInv, ControlInv
    <3> QED BY <2>3, <2>4, <3>1 DEF Detach, Leave, Halt, KernelOutcomes
  <2>5. CASE UNCHANGED coVars /\ ~Detach(p)
    <3>1. Firsts(Without(before, p), Queue(sqsOf[p]) \ {p}) = {curProc[sqsOf[p]]}
      BY <1>3, <2>5
    <3>2. curProc[sqsOf[p]] # p
      BY <3>1 DEF Firsts
    <3>3. ~HasControl(p)
      BY <3>2 DEF KernelInv, ControlInv, ControlIsGiven
    <3> QED BY <2>3, <2>5, <3>3 DEF coVars, links, KernelInv, ControlInv, KernelTypeOK
  <2> QED BY <1>3, <2>2, <2>4, <2>5
<1> QED BY <1>1, <1>2, <1>3 DEF Cancel

LEMMA HoldInv ==
  ASSUME KernelInv, NEW p \in Proc, NEW dt \in Time, Hold(p, dt)
  PROVE  KernelInv'
<1>0. current = p /\ p \in Usable /\ sqsOf[p] \in Sqs
  BY UsableProc DEF Hold, Self
<1>1. CASE \E why \in ProcessOutcomes : Abort(why)
  BY <1>1, AbortInv
<1>2. CASE /\ Now(sqsOf[p]) + dt \in Time
           /\ ScheduleAt(p, Now(sqsOf[p]) + dt)
           /\ Detach(p)
           /\ UNCHANGED <<progVars, simVars>>
  <2>1. NoticesInv' /\ queued' = queued \cup {p}
    BY <1>0, <1>2, ScheduleAtNotices DEF KernelInv, progVars
  <2>2. ~Finish(p)
    <3>1. p \in All /\ terminated[p] = FALSE
      BY <1>0, PartsAssumption DEF KernelInv, CoInv, CoTypeOK, CurrentIsLeaf, All
    <3> QED BY <1>2, <3>1 DEF Finish, Detach, KernelInv, CoInv, CoTypeOK
  <2> QED BY <1>0, <1>2, <2>1, <2>2, GiveUp
<1>3. Fault(p) # "ok" => Fault(p) \in ProcessOutcomes
  BY DEF Fault, ProcessOutcomes
<1> QED BY <1>0, <1>1, <1>2, <1>3, NowIsTime DEF Hold

LEMMA PassivateInv ==
  ASSUME KernelInv, NEW p \in Proc, Passivate(p)
  PROVE  KernelInv'
<1>0. current = p /\ p \in Usable
  BY DEF Passivate, Self
<1>1. CASE Fault(p) # "ok" /\ Abort(Fault(p))
  BY <1>1, AbortInv DEF Fault, ProcessOutcomes
<1>2. CASE Unschedule(p) /\ Detach(p) /\ UNCHANGED <<progVars, simVars>>
  BY <1>0, <1>2, UnscheduleNotices, GiveUp DEF KernelInv, progVars
<1> QED BY <1>1, <1>2 DEF Passivate

LEMMA EndSimulationInv ==
  ASSUME KernelInv, NEW p \in Proc, EndSimulation(p)
  PROVE  KernelInv'
<1>0. current = p /\ p \in queued
  BY DEF EndSimulation, Self, KernelInv, ControlInv, ControlIsGiven, HasControl
<1>1. NoticesInv' /\ queued' = queued \ Queue(sqsOf[p])
  BY ForgetNotices DEF EndSimulation, KernelInv, NoticesInv, NoticesTypeOK, progVars
<1>2. p \notin queued'
  BY <1>0, <1>1 DEF Queue
<1> QED BY <1>0, <1>1, <1>2, GiveUp DEF EndSimulation

LEMMA ReturnInv ==
  ASSUME KernelInv, NEW p \in Proc, Return(p)
  PROVE  KernelInv'
<1>0. current = p /\ p \in Usable
  BY DEF Return, Self
<1>1. CASE Abort("undefined")
  BY <1>1, AbortInv DEF ProcessOutcomes
<1>2. CASE Unschedule(p) /\ Finish(p) /\ UNCHANGED <<progVars, simVars>>
  BY <1>0, <1>2, UnscheduleNotices, GiveUp DEF KernelInv, progVars
<1> QED BY <1>1, <1>2 DEF Return

-----------------------------------------------------------------------------
(***************************************************************************)
(* The scheduler and the levels                                            *)
(***************************************************************************)

\* sqs::main ends: run returns to whoever called it, a process that its own
\* scheduler, another one, still calls current.
LEMMA SqsEndInv ==
  ASSUME KernelInv, NEW s \in Sqs, current = s, Queue(s) = {}, Finish(s),
         UNCHANGED <<progVars, simVars, evVars>>
  PROVE  KernelInv'
<1> USE DEF KernelInv, ControlInv, progVars, simVars, evVars
<1> DEFINE n == caller[s]
<1>1. s \in alive /\ s \in Coroutine /\ s \in All /\ s \notin Proc /\ callee[s] = NULL
  BY PartsAssumption, MainAssumption DEF CoInv, CurrentIsLeaf, All
<1>2. n \in All /\ callee[n] = s /\ n # s /\ n \notin Sqs
  BY <1>1, NullAssumption DEF SqsIsCalled, OnlyRunCalls, CoInv, CoTypeOK, LinksAgree, All
<1>3. /\ UNCHANGED <<alive, outcome>> /\ current' = n
      /\ callee' = [callee EXCEPT ![n] = NULL] /\ caller' = [caller EXCEPT ![s] = NULL]
      /\ terminated' = [terminated EXCEPT ![s] = TRUE]
  BY <1>1, <1>2 DEF Finish, Leave, Enter, SqsIsCalled
<1>4. CoInv'
  BY <1>1, FinishInv
<1>5. KernelTypeOK' /\ LevelsAlive'
  BY <1>3 DEF KernelTypeOK, LevelsAlive
<1>6. OnlyRunCalls' /\ SqsIsCalled' /\ NotOwnScheduler'
  BY <1>1, <1>2, <1>3, PartsAssumption
     DEF OnlyRunCalls, SqsIsCalled, NotOwnScheduler, CoInv, CoTypeOK, All
<1>7. ControlIsGiven'
  <2> SUFFICES ASSUME NEW q \in Proc, HasControl(q)'
               PROVE  /\ q \in queued /\ sqsOf[q] \in Sqs \cap alive
                      /\ ~terminated'[sqsOf[q]] /\ caller'[sqsOf[q]] # NULL
                      /\ curProc[sqsOf[q]] = q
    BY <1>3 DEF ControlIsGiven
  <2>1. q = n
    <3> SUFFICES ASSUME q # n, callee'[q] = n PROVE FALSE
      BY <1>3 DEF HasControl
    <3>1. callee[q] = n /\ q \in All
      BY <1>3, PartsAssumption DEF CoInv, CoTypeOK, All
    <3> QED BY <1>2, <3>1, CalleeIsSqs, NullAssumption DEF All
  <2>2. HasControl(q)
    BY <1>2, <2>1 DEF HasControl
  <2>3. /\ q \in queued /\ sqsOf[q] \in Sqs \cap alive /\ ~terminated[sqsOf[q]]
        /\ caller[sqsOf[q]] # NULL /\ curProc[sqsOf[q]] = q
    BY <2>2 DEF ControlIsGiven
  <2>4. sqsOf[q] # s
    BY <2>3 DEF Queue
  <2> QED BY <1>3, <2>3, <2>4, PartsAssumption DEF CoInv, CoTypeOK, All
<1>8. NoticesInv'
  BY SameNotices DEF NoticesInv, NoticesTypeOK
<1>9. QueuedLive'
  BY <1>1, <1>3 DEF QueuedLive, CoInv, CoTypeOK, NoticesInv, NoticesTypeOK
<1> QED BY <1>4, <1>5, <1>6, <1>7, <1>8, <1>9

\* sqs::main resumes the process of the first notice.  It runs, or the
\* sequencing set it runs itself does, never the one that resumes it.
LEMMA SqsResumeInv ==
  ASSUME KernelInv, NEW s \in Sqs, current = s, NEW p \in FirstProc(s), Resume(p),
         curProc' = [curProc EXCEPT ![s] = p], clock' = [clock EXCEPT ![s] = ev[p]],
         dispatched' = dispatched \cup {p}, UNCHANGED <<progVars, ev, queued, before>>
  PROVE  KernelInv'
<1> USE DEF KernelInv, ControlInv, progVars
<1>1. p \in Proc /\ p \in queued /\ sqsOf[p] = s /\ ev[p] \in Time
  BY DEF FirstProc, Firsts, Queue, NoticesInv, NoticesTypeOK
<1>2. p \in alive /\ p \in All /\ p \notin Sqs /\ ~terminated[p] /\ caller[p] = NULL
  BY <1>1, PartsAssumption DEF QueuedLive, OnlyRunCalls, All
<1>3. EnterLeaf(p) /\ UNCHANGED terminated
  BY <1>2 DEF Resume
<1>4. Leaves(callee, p) # {}
  BY <1>2, LeafExists DEF CoInv
<1>5. PICK d \in Leaves(callee, p) : Enter(d) /\ UNCHANGED links
  BY <1>3, <1>4 DEF EnterLeaf
<1>6. \/ d = p
      \/ callee[p] # NULL /\ d = callee[p] /\ d \in Sqs /\ caller[d] = p
  BY <1>2, LeafIsNext, CalleeIsSqs
<1>7. d # s
  <2> SUFFICES ASSUME d = s PROVE FALSE
    OBVIOUS
  <2> QED BY <1>1, <1>2, <1>6 DEF NotOwnScheduler
<1>8. current' = d /\ UNCHANGED <<alive, outcome, links, terminated>>
  BY <1>3, <1>5, <1>7 DEF Enter
<1>9. CoInv'
  BY <1>2, ResumeInv
<1>10. KernelTypeOK'
  BY <1>1, <1>8 DEF KernelTypeOK
<1>11. OnlyRunCalls' /\ NotOwnScheduler' /\ LevelsAlive'
  BY <1>8 DEF OnlyRunCalls, NotOwnScheduler, LevelsAlive, links
<1>12. SqsIsCalled'
  BY <1>2, <1>6, <1>8, NullAssumption DEF SqsIsCalled, links, All
<1>13. ControlIsGiven'
  <2> SUFFICES ASSUME NEW q \in Proc, HasControl(q)' PROVE q = p
    <3>1. s \in alive /\ ~terminated[s] /\ caller[s] # NULL
      BY PartsAssumption, MainAssumption DEF CoInv, CurrentIsLeaf, SqsIsCalled
    <3>2. curProc'[s] = p
      BY DEF KernelTypeOK
    <3> QED BY <1>1, <1>8, <3>1, <3>2 DEF ControlIsGiven, links
  <2>1. q \in All /\ q \notin Sqs /\ p \notin Sqs
    BY <1>2, PartsAssumption DEF All
  <2>2. q = d \/ callee[q] = d
    BY <1>8 DEF HasControl, links
  <2>3. CASE q = d
    BY <1>6, <2>1, <2>3
  <2>4. CASE callee[q] = d
    <3>1. d # NULL
      BY <1>2, <1>6, NullAssumption DEF All
    <3>2. d \in Sqs /\ caller[d] = q
      BY <2>1, <2>4, <3>1, CalleeIsSqs
    <3> QED BY <1>6, <2>1, <3>2
  <2> QED BY <2>2, <2>3, <2>4
<1>14. NoticesInv'
  BY <1>1, SameNotices DEF NoticesInv, NoticesTypeOK
<1>15. QueuedLive'
  BY <1>8 DEF QueuedLive
<1> QED BY <1>9, <1>10, <1>11, <1>12, <1>13, <1>14, <1>15

LEMMA SqsStepInv ==
  ASSUME KernelInv, NEW s \in Sqs, SqsStep(s)
  PROVE  KernelInv'
BY SqsEndInv, SqsResumeInv DEF SqsStep, evVars

\* The constructor of process.
LEMMA NewProcessInv ==
  ASSUME KernelInv, NEW p \in Proc, NewProcess(p)
  PROVE  KernelInv'
<1> USE DEF KernelInv, ControlInv, NewProcess, simVars, evVars
<1>1. /\ p \in Coroutine /\ p \in All /\ p \notin alive /\ p \notin Sqs /\ p \notin queued
      /\ p # Main /\ NULL \notin All
  BY PartsAssumption, MainAssumption, NullAssumption DEF New, QueuedLive, All
<1>2. /\ alive' = alive \cup {p} /\ terminated' = [terminated EXCEPT ![p] = FALSE]
      /\ UNCHANGED <<caller, callee, current, outcome>>
      /\ sqsOf' = [sqsOf EXCEPT ![p] = Head(levels)] /\ Head(levels) \in Sqs
  BY DEF New, links, KernelTypeOK
<1>3. CoInv'
  BY <1>1, NewInv
<1>4. callee[p] = NULL /\ current # p
  BY <1>1 DEF CoInv, DeadIsDetached, CurrentIsLeaf
<1>5. \A q \in Proc \ {p} : sqsOf'[q] = sqsOf[q]
  BY <1>2 DEF KernelTypeOK
<1>6. \A c \in All \ {p} : terminated'[c] = terminated[c]
  BY <1>2 DEF CoInv, CoTypeOK
<1>7. KernelTypeOK' /\ OnlyRunCalls' /\ SqsIsCalled'
  BY <1>2 DEF KernelTypeOK, OnlyRunCalls, SqsIsCalled
<1>8. NotOwnScheduler' /\ LevelsAlive'
  BY <1>2, <1>4, <1>5 DEF NotOwnScheduler, LevelsAlive
<1>9. ControlIsGiven'
  <2> SUFFICES ASSUME NEW q \in Proc, HasControl(q)'
               PROVE  /\ q \in queued /\ sqsOf'[q] \in Sqs \cap alive'
                      /\ ~terminated'[sqsOf'[q]] /\ caller[sqsOf'[q]] # NULL
                      /\ curProc[sqsOf'[q]] = q
    BY <1>2 DEF ControlIsGiven
  <2>1. HasControl(q) /\ q # p
    BY <1>1, <1>2, <1>4 DEF HasControl, CoInv, CoTypeOK
  <2>2. sqsOf'[q] = sqsOf[q]
    BY <1>5, <2>1
  <2>3. sqsOf[q] \in Sqs \cap alive /\ sqsOf[q] \in All /\ sqsOf[q] # p
    BY <1>1, <2>1, PartsAssumption DEF ControlIsGiven, All
  <2> QED BY <1>2, <1>6, <2>1, <2>2, <2>3 DEF ControlIsGiven
<1>10. NoticesInv'
  BY <1>1, <1>5, SameNotices DEF NoticesInv, NoticesTypeOK
<1>11. QueuedLive'
  BY <1>1, <1>2, <1>6, PartsAssumption DEF QueuedLive, NoticesInv, NoticesTypeOK, All
<1> QED BY <1>3, <1>7, <1>8, <1>9, <1>10, <1>11

\* begin_simulation: the new level is nobody's scheduler yet.
LEMMA BeginLevelInv ==
  ASSUME KernelInv, NEW s \in Sqs, BeginLevel(s)
  PROVE  KernelInv'
<1> USE DEF KernelInv, ControlInv, BeginLevel, evVars
<1>1. /\ s \in Coroutine /\ s \in All /\ s \notin alive /\ s \notin Proc
      /\ s # Main /\ NULL \notin All
  BY PartsAssumption, MainAssumption, NullAssumption DEF New, All
<1>2. /\ alive' = alive \cup {s} /\ terminated' = [terminated EXCEPT ![s] = FALSE]
      /\ UNCHANGED <<caller, callee, current, outcome>>
  BY DEF New, links
<1>3. CoInv'
  BY <1>1, NewInv
<1>4. \A c \in All \ {s} : terminated'[c] = terminated[c]
  BY <1>2 DEF CoInv, CoTypeOK
<1>5. \A r \in Sqs \ {s} : curProc'[r] = curProc[r]
  BY DEF KernelTypeOK
<1>6. KernelTypeOK'
  <2>1. levels' \in Seq(Sqs)
    BY DEF KernelTypeOK
  <2>2. curProc' \in [Sqs -> Proc \cup {NULL}] /\ clock' \in [Sqs -> Time]
    BY MaxTimeAssumption DEF KernelTypeOK, Time
  <2> QED BY <1>2, <2>1, <2>2 DEF KernelTypeOK
<1>7. OnlyRunCalls' /\ SqsIsCalled' /\ NotOwnScheduler'
  BY <1>2 DEF OnlyRunCalls, SqsIsCalled, NotOwnScheduler
<1>8. LevelsAlive'
  <2>1. /\ levels \in Seq(Sqs) /\ Len(levels') = Len(levels) + 1
        /\ levels'[1] = s
        /\ \A i \in 2 .. Len(levels') : levels'[i] = levels[i - 1] /\ i - 1 \in 1 .. Len(levels)
    BY DEF KernelTypeOK
  <2>2. \A i \in 2 .. Len(levels') : levels'[i] \in alive /\ levels'[i] # s
    BY <1>1, <2>1 DEF LevelsAlive
  <2>3. ASSUME NEW i \in 1 .. Len(levels'), NEW j \in 1 .. Len(levels'), levels'[i] = levels'[j]
        PROVE  i = j
    <3>1. CASE i = 1 \/ j = 1
      BY <2>1, <2>2, <2>3, <3>1
    <3>2. CASE i # 1 /\ j # 1
      <4>1. i \in 2 .. Len(levels') /\ j \in 2 .. Len(levels') /\ Len(levels) \in Nat
        BY <2>1, <3>2
      <4>2. levels[i - 1] = levels[j - 1] /\ i - 1 \in 1 .. Len(levels) /\ j - 1 \in 1 .. Len(levels)
        BY <2>1, <2>3, <4>1
      <4>3. i - 1 = j - 1
        BY <4>2 DEF LevelsAlive
      <4> QED BY <4>1, <4>3
    <3> QED BY <3>1, <3>2
  <2>4. ASSUME NEW i \in 1 .. Len(levels') PROVE levels'[i] \in alive'
    <3>1. CASE i = 1
      BY <1>2, <2>1, <3>1
    <3>2. CASE i # 1
      BY <1>2, <2>1, <2>2, <3>2
    <3> QED BY <3>1, <3>2
  <2> QED BY <2>3, <2>4 DEF LevelsAlive
<1>9. ControlIsGiven'
  <2> SUFFICES ASSUME NEW q \in Proc, HasControl(q)'
               PROVE  /\ q \in queued /\ sqsOf[q] \in Sqs \cap alive'
                      /\ ~terminated'[sqsOf[q]] /\ caller[sqsOf[q]] # NULL
                      /\ curProc'[sqsOf[q]] = q
    BY <1>2 DEF ControlIsGiven
  <2>1. HasControl(q)
    BY <1>2 DEF HasControl
  <2>2. sqsOf[q] \in (Sqs \cap alive) \ {s} /\ sqsOf[q] \in All
    BY <1>1, <2>1, PartsAssumption DEF ControlIsGiven, All
  <2> QED BY <1>2, <1>4, <1>5, <2>1, <2>2 DEF ControlIsGiven
<1>10. NoticesInv'
  BY SameNotices DEF NoticesInv, NoticesTypeOK
<1>11. QueuedLive'
  BY <1>1, <1>2, <1>4, PartsAssumption DEF QueuedLive, NoticesInv, NoticesTypeOK, All
<1> QED BY <1>3, <1>6, <1>7, <1>8, <1>9, <1>10, <1>11

\* simulation::end_simulation: a sequencing set that is being run has a
\* caller, and the assertion of ~coroutine aborts the program.
LEMMA EndLevelInv ==
  ASSUME KernelInv, EndLevel
  PROVE  KernelInv'
<1> USE DEF KernelInv, ControlInv, EndLevel
<1> DEFINE h == Head(levels)
<1>1. /\ h \in Sqs /\ h = levels[1] /\ 1 \in 1 .. Len(levels) /\ levels \in Seq(Sqs)
  BY DEF KernelTypeOK
<1>2. h \in Coroutine /\ h \notin Proc
  BY <1>1, PartsAssumption
<1>3. CoInv'
  BY <1>2, DestroyInv
<1>4. CASE Halt("delete linked") /\ UNCHANGED <<levels, queued, before, dispatched>>
  <2>1. NoticesInv' /\ QueuedLive'
    BY <1>4, SameNotices DEF Destroy, Halt, NoticesInv, NoticesTypeOK, QueuedLive
  <2>2. \A p \in Proc : HasControl(p) => p \in queued'
    BY <1>4 DEF ControlIsGiven
  <2> QED BY <1>4, <2>1, <2>2, StandStill DEF Destroy, Halt, KernelOutcomes, progVars, simVars
<1>5. CASE /\ caller[h] = NULL /\ alive' = alive \ {h} /\ UNCHANGED <<links, current, outcome>>
           /\ levels' = Tail(levels) /\ Forget(Queue(h))
  <2>1. NoticesInv' /\ queued' = queued \ Queue(h)
    BY <1>5, ForgetNotices DEF NoticesInv, NoticesTypeOK
  <2>2. KernelTypeOK' /\ OnlyRunCalls' /\ SqsIsCalled' /\ NotOwnScheduler'
    BY <1>1, <1>5 DEF KernelTypeOK, OnlyRunCalls, SqsIsCalled, NotOwnScheduler, links, simVars
  <2>3. LevelsAlive'
    <3>1. /\ Len(levels') = Len(levels) - 1
          /\ \A i \in 1 .. Len(levels') : levels'[i] = levels[i + 1] /\ i + 1 \in 1 .. Len(levels)
      BY <1>1, <1>5
    <3>2. \A i \in 1 .. Len(levels') : levels'[i] \in alive /\ levels'[i] # h
      BY <1>1, <3>1 DEF LevelsAlive
    <3>3. \A i, j \in 1 .. Len(levels') : levels'[i] = levels'[j] => i = j
      BY <1>1, <3>1 DEF LevelsAlive
    <3> QED BY <1>5, <3>2, <3>3 DEF LevelsAlive
  <2>4. ControlIsGiven'
    BY <1>5, <2>1 DEF ControlIsGiven, HasControl, Queue, Destroy, links, simVars
  <2>5. QueuedLive'
    BY <1>2, <1>5, <2>1 DEF QueuedLive, Destroy, NoticesInv, NoticesTypeOK
  <2> QED BY <1>3, <2>1, <2>2, <2>3, <2>4, <2>5
<1>6. outcome = "ok"
  BY DEF User, Running
<1> QED BY <1>4, <1>5, <1>6 DEF Destroy, Halt

\* simulation::run: a process that calls it keeps its notice, and the level
\* it runs is not the one that schedules it.
LEMMA RunInv ==
  ASSUME KernelInv, Run
  PROVE  KernelInv'
<1> USE DEF KernelInv, ControlInv, Run, evVars, progVars, simVars
<1> DEFINE h == Head(levels)
           linked == [callee EXCEPT ![current] = h]
<1>1. /\ h \in Sqs /\ h = levels[1] /\ 1 \in 1 .. Len(levels)
  BY DEF KernelTypeOK
<1>2. h \in alive /\ h \in Coroutine /\ h \in All /\ h \notin Proc /\ h # Main
  BY <1>1, PartsAssumption, MainAssumption DEF LevelsAlive, All
<1>3. CoInv'
  BY <1>2, CallInv
<1>4. NoticesInv'
  BY SameNotices DEF NoticesInv, NoticesTypeOK
<1>5. CASE \E why \in KernelOutcomes : Halt(why)
  <2>1. QueuedLive' /\ \A p \in Proc : HasControl(p) => p \in queued'
    BY <1>5 DEF Call, Halt, ControlIsGiven, QueuedLive
  <2> QED BY <1>4, <1>5, <2>1, StandStill DEF Call, Halt
<1>6. current \in All /\ current \notin Sqs /\ current # h /\ NULL \notin All
  BY <1>1, NullAssumption DEF User, CoInv, CoTypeOK, All
<1>7. Leaves(linked, h) = {h}
  <2>1. linked \in [All -> All \cup {NULL}] /\ linked[h] = NULL
    BY <1>1, <1>2, <1>6 DEF OnlyRunCalls, CoInv, CoTypeOK
  <2>2. Closed(linked, {h})
    BY <2>1 DEF Closed
  <2>3. Reach(linked, h) \subseteq {h}
    BY <1>2, <2>2, ReachLeast
  <2>4. h \in Reach(linked, h)
    BY <1>2, <2>1, ReachClosed
  <2> QED BY <2>1, <2>3, <2>4 DEF Leaves
<1>8. CASE \E d \in Leaves(linked, h) \ {current} :
             /\ Enter(d) /\ callee' = linked /\ caller[h] = NULL
             /\ caller' = [caller EXCEPT ![h] = current]
  <2>5. /\ current' = h /\ UNCHANGED <<alive, outcome, terminated>>
        /\ callee' = linked /\ caller[h] = NULL /\ caller' = [caller EXCEPT ![h] = current]
    BY <1>8, <1>6, <1>7 DEF Enter, Call
  <2>6. KernelTypeOK' /\ LevelsAlive'
    BY <2>5 DEF KernelTypeOK, LevelsAlive
  <2>7. OnlyRunCalls' /\ SqsIsCalled'
    BY <1>2, <1>6, <2>5, PartsAssumption
       DEF OnlyRunCalls, SqsIsCalled, CoInv, CoTypeOK, All
  <2>8. ASSUME NEW q \in Proc, current = q PROVE sqsOf[q] # h
    BY <2>5, <2>8 DEF ControlIsGiven, HasControl
  <2>9. NotOwnScheduler'
    BY <2>5, <2>8, PartsAssumption DEF NotOwnScheduler, CoInv, CoTypeOK, All
  <2>10. ControlIsGiven'
    <3> SUFFICES ASSUME NEW q \in Proc, HasControl(q)'
                 PROVE  /\ q \in queued /\ sqsOf[q] \in Sqs \cap alive
                        /\ ~terminated[sqsOf[q]] /\ caller'[sqsOf[q]] # NULL
                        /\ curProc[sqsOf[q]] = q
      BY <2>5 DEF ControlIsGiven
    <3>1. q \in All /\ q # h
      BY <1>2, PartsAssumption DEF All
    <3>2. current = q
      <4> SUFFICES ASSUME current # q, callee'[q] = h PROVE FALSE
        BY <2>5, <3>1 DEF HasControl
      <4>1. callee[q] = h
        BY <2>5, <3>1 DEF CoInv, CoTypeOK
      <4>2. caller[h] = q
        BY <1>2, <1>6, <3>1, <4>1 DEF CoInv, LinksAgree
      <4> QED BY <1>6, <2>5, <3>1, <4>2
    <3>3. /\ q \in queued /\ sqsOf[q] \in Sqs \cap alive /\ ~terminated[sqsOf[q]]
          /\ caller[sqsOf[q]] # NULL /\ curProc[sqsOf[q]] = q /\ sqsOf[q] # h
      BY <2>8, <3>2 DEF ControlIsGiven, HasControl
    <3> QED BY <2>5, <3>3, PartsAssumption DEF CoInv, CoTypeOK, All
  <2>11. QueuedLive'
    BY <2>5 DEF QueuedLive
  <2> QED BY <1>3, <1>4, <2>6, <2>7, <2>9, <2>10, <2>11
<1> QED BY <1>5, <1>6, <1>7, <1>8 DEF Call, KernelOutcomes

-----------------------------------------------------------------------------
(***************************************************************************)
(* Every step, and the theorems                                            *)
(***************************************************************************)

LEMMA InitInv == Init => KernelInv
<1> SUFFICES ASSUME Init PROVE KernelInv
  OBVIOUS
<1> USE DEF Init
<1>1. CoInv
  BY CoInitInv
<1>2. KernelTypeOK /\ LevelsAlive
  BY MaxTimeAssumption DEF CoInit, KernelTypeOK, LevelsAlive, KernelOutcomes, Time
<1>3. OnlyRunCalls /\ SqsIsCalled /\ NotOwnScheduler
  BY PartsAssumption, MainAssumption DEF CoInit, OnlyRunCalls, SqsIsCalled, NotOwnScheduler, All
<1>4. ControlIsGiven
  BY PartsAssumption, MainAssumption, NullAssumption DEF CoInit, ControlIsGiven, HasControl, All
<1>5. NoticesInv /\ QueuedLive
  BY DEF NoticesInv, NoticesTypeOK, LineOfEvents, IsLine, Queue, QueuedLive
<1> QED BY <1>1, <1>2, <1>3, <1>4, <1>5 DEF KernelInv, ControlInv

LEMMA ActivateInv ==
  ASSUME KernelInv, NEW p \in Proc, Activate(p)
  PROVE  KernelInv'
<1>1. p \in Usable /\ sqsOf[p] \in Sqs
  BY UsableProc DEF Activate, Calls
<1> QED BY <1>1, NowIsTime, AbortInv, InsertIfIdleInv DEF Activate

LEMMA ActivateAtInv ==
  ASSUME KernelInv, NEW p \in Proc, NEW t \in Time, ActivateAt(p, t)
  PROVE  KernelInv'
<1>1. p \in Usable /\ sqsOf[p] \in Sqs
  BY UsableProc DEF ActivateAt, Calls
<1> QED BY <1>1, NowIsTime, AbortInv, InsertIfIdleInv DEF ActivateAt

LEMMA ActivateDelayInv ==
  ASSUME KernelInv, NEW p \in Proc, NEW dt \in Time, ActivateDelay(p, dt)
  PROVE  KernelInv'
<1>1. p \in Usable /\ sqsOf[p] \in Sqs
  BY UsableProc DEF ActivateDelay, Calls
<1> QED BY <1>1, NowIsTime, AbortInv, InsertIfIdleInv DEF ActivateDelay

LEMMA ActivateNearInv ==
  ASSUME KernelInv, NEW p \in Proc, NEW q \in Proc, NEW where, ActivateNear(p, q, where)
  PROVE  KernelInv'
BY StayInv, AbortInv, InsertNearInv DEF ActivateNear, Calls, ProcessOutcomes

LEMMA ReactivateInv ==
  ASSUME KernelInv, NEW p \in Proc, Reactivate(p)
  PROVE  KernelInv'
<1>1. p \in Usable /\ sqsOf[p] \in Sqs
  BY UsableProc DEF Reactivate, Calls
<1> QED BY <1>1, NowIsTime, AbortInv, ReinsertInv DEF Reactivate

LEMMA ReactivateAtInv ==
  ASSUME KernelInv, NEW p \in Proc, NEW t \in Time, ReactivateAt(p, t)
  PROVE  KernelInv'
BY ReinsertInv DEF ReactivateAt, Calls

LEMMA ReactivateDelayInv ==
  ASSUME KernelInv, NEW p \in Proc, NEW dt \in Time, ReactivateDelay(p, dt)
  PROVE  KernelInv'
<1>1. p \in Usable /\ sqsOf[p] \in Sqs
  BY UsableProc DEF ReactivateDelay, Calls
<1> QED BY <1>1, NowIsTime, AbortInv, ReinsertInv DEF ReactivateDelay

LEMMA ReactivateNearInv ==
  ASSUME KernelInv, NEW p \in Proc, NEW q \in Proc, NEW where, ReactivateNear(p, q, where)
  PROVE  KernelInv'
BY AbortInv, InsertNearInv DEF ReactivateNear, Calls, ProcessOutcomes

LEMMA KernelInvStep ==
  ASSUME KernelInv, Next \/ UNCHANGED vars
  PROVE  KernelInv'
<1>1. CASE \E p \in Proc : Activate(p) \/ Reactivate(p) \/ Cancel(p)
  BY <1>1, ActivateInv, ReactivateInv, CancelInv
<1>2. CASE \E p \in Proc, t \in Time :
             ActivateAt(p, t) \/ ActivateDelay(p, t) \/ ReactivateAt(p, t) \/ ReactivateDelay(p, t)
  BY <1>2, ActivateAtInv, ActivateDelayInv, ReactivateAtInv, ReactivateDelayInv
<1>3. CASE \E p, q \in Proc, w \in Places : ActivateNear(p, q, w) \/ ReactivateNear(p, q, w)
  BY <1>3, ActivateNearInv, ReactivateNearInv
<1>4. CASE \E p \in Proc, dt \in Time : Hold(p, dt)
  BY <1>4, HoldInv
<1>5. CASE \E p \in Proc : Passivate(p) \/ EndSimulation(p) \/ Return(p) \/ NewProcess(p)
  BY <1>5, PassivateInv, EndSimulationInv, ReturnInv, NewProcessInv
<1>6. CASE \E s \in Sqs : SqsStep(s) \/ BeginLevel(s)
  BY <1>6, SqsStepInv, BeginLevelInv
<1>7. CASE EndLevel \/ Run
  BY <1>7, EndLevelInv, RunInv
<1>8. CASE UNCHANGED vars
  BY <1>8, StayInv DEF vars, Stay
<1> QED BY <1>1, <1>2, <1>3, <1>4, <1>5, <1>6, <1>7, <1>8 DEF Next

\* KernelInv holds whatever the program calls, at any depth of levels.
THEOREM KernelInvariant == Spec => []KernelInv
<1>1. KernelInv /\ [Next]_vars => KernelInv'
  BY KernelInvStep
<1> QED BY <1>1, InitInv, PTL DEF Spec

\* TypeOK: every variable has its type, and only processes with a queued
\* notice are in the order.
THEOREM KernelTypeCorrect == Spec => []TypeOK
<1>1. KernelInv => TypeOK
  BY DEF Outcomes, KernelOutcomes, KernelInv, CoInv, ControlInv, KernelTypeOK, NoticesInv, NoticesTypeOK, TypeOK
<1> QED BY <1>1, KernelInvariant, PTL

\* LineOfEvents: no sequence of calls on processes gets a sequencing set out
\* of order.
THEOREM AlwaysLineOfEvents == Spec => []LineOfEvents
<1>1. KernelInv => LineOfEvents
  BY DEF KernelInv, NoticesInv
<1> QED BY <1>1, KernelInvariant, PTL

\* QueuedCanResume: sqs::main never meets the FATAL messages of resume.
THEOREM QueuedCanAlwaysResume == Spec => []QueuedCanResume
<1>1. KernelInv => QueuedCanResume
  BY DEF KernelInv, ControlInv, OnlyRunCalls, NoticesInv, NoticesTypeOK, QueuedLive, QueuedCanResume
<1> QED BY <1>1, KernelInvariant, PTL

\* SwitchesSucceed: the FATAL messages of resume, the assertion of enter and
\* the loops of call are never the end of a program that uses processes.
THEOREM SwitchesAlwaysSucceed == Spec => []SwitchesSucceed
<1>1. KernelInv => SwitchesSucceed
  BY DEF KernelInv, ControlInv, KernelTypeOK, KernelOutcomes, ProcessOutcomes, SwitchesSucceed
<1> QED BY <1>1, KernelInvariant, PTL

\* RunningHasNotice: the assertions of hold and passivate hold for every
\* process that calls them.
THEOREM RunningAlwaysHasNotice == Spec => []RunningHasNotice
<1>1. KernelInv => RunningHasNotice
  BY DEF KernelInv, ControlInv, ControlIsGiven, HasControl, NoticesInv, NoticesTypeOK, RunningHasNotice
<1> QED BY <1>1, KernelInvariant, PTL

-----------------------------------------------------------------------------
(***************************************************************************)
(* What every step comes to.  The properties below are about time, about   *)
(* the end of a simulation and about who gets control; for them the calls  *)
(* of Process differ only in what they do to the notices and to control.   *)
(***************************************************************************)

\* A call that is aborted or has no effect.
Idles == UNCHANGED <<alive, terminated, links, current, evVars, progVars, simVars>>

\* A time nobody who asks what time it is can call past.
NotBefore(p, t) == TimeFault(sqsOf[p]) = "ok" => t >= Now(sqsOf[p])

PutsAt(p, t) ==
  /\ p \in Usable /\ current \notin Sqs /\ NotBefore(p, t)
  /\ ScheduleAt(p, t) /\ Stay

PutsNear(p, q, where) ==
  /\ p \in Usable /\ current \notin Sqs
  /\ q # p /\ q \in Queue(sqsOf[p])
  /\ ScheduleNear(p, q, where) /\ Stay

\* cancel, called on somebody who does not run
TakesOff(p) ==
  /\ p \in Usable /\ current \notin Sqs /\ ~HasControl(p)
  /\ Unschedule(p)
  /\ UNCHANGED <<alive, terminated, links, current, progVars, simVars>>

\* hold, passivate, cancel, end_simulation and the end of inner_body
GivesUp(p) ==
  /\ current = p /\ p \in Usable
  /\ Detach(p) \/ Finish(p)
  /\ UNCHANGED <<progVars, simVars>>
  /\ \/ \E t \in Time : NotBefore(p, t) /\ ScheduleAt(p, t)
     \/ Unschedule(p)
     \/ Forget(Queue(sqsOf[p])) /\ UNCHANGED ev

\* The scheduler s resumes p, or whom p runs.
Takes(s, p) ==
  /\ current = s /\ p \in FirstProc(s)
  /\ UNCHANGED <<alive, terminated, links, progVars, ev, queued, before>>
  /\ current' = (IF callee[p] = NULL THEN p ELSE callee[p])
  /\ callee[p] # NULL => callee[p] \in Sqs /\ caller[callee[p]] = p
  /\ curProc' = [curProc EXCEPT ![s] = p]
  /\ clock' = [clock EXCEPT ![s] = ev[p]]
  /\ dispatched' = dispatched \cup {p}

\* The scheduler s ends and returns to its caller.
Ends(s) ==
  /\ current = s /\ Queue(s) = {}
  /\ UNCHANGED <<alive, progVars, simVars, evVars>>
  /\ terminated' = [terminated EXCEPT ![s] = TRUE]
  /\ current' = caller[s] /\ current' \in All \ Sqs /\ callee[current'] = s
  /\ callee' = [callee EXCEPT ![caller[s]] = NULL]
  /\ caller' = [caller EXCEPT ![s] = NULL]

\* end_simulation of a level that is not being run
Drops(s) ==
  /\ s \in Sqs /\ current \notin Sqs
  /\ caller[s] = NULL
  /\ alive' = alive \ {s} /\ UNCHANGED <<terminated, links, current, sqsOf, ev, simVars>>
  /\ Forget(Queue(s))

\* run of a level
Runs(s) ==
  /\ s \in Sqs \cap alive /\ current \notin Sqs /\ current \in All
  /\ UNCHANGED <<alive, terminated, evVars, progVars, simVars>>
  /\ ~terminated[s] /\ caller[s] = NULL
  /\ current' = s
  /\ callee' = [callee EXCEPT ![current] = s]
  /\ caller' = [caller EXCEPT ![s] = current]

LEMMA AbortIdles ==
  ASSUME NEW why, Abort(why)
  PROVE  Idles
BY DEF Abort, Halt, Idles

LEMMA StayIdles ==
  ASSUME Stay, UNCHANGED evVars
  PROVE  Idles
BY DEF Stay, coVars, links, Idles

\* sqs::main, by what it leaves.
LEMMA SqsStepKinds ==
  ASSUME KernelInv, NEW s \in Sqs, SqsStep(s)
  PROVE  Ends(s) \/ \E p \in Proc : Takes(s, p)
<1> USE DEF KernelInv, ControlInv
<1>0. current = s
  BY DEF SqsStep
<1>1. CASE Queue(s) = {} /\ Finish(s) /\ UNCHANGED <<progVars, simVars, evVars>>
  <2> DEFINE n == caller[s]
  <2>1. s \in All /\ s \notin Proc
    BY PartsAssumption DEF All
  <2>2. n \in All /\ callee[n] = s /\ n # s /\ n \notin Sqs
    BY <1>0, <2>1, NullAssumption
       DEF SqsIsCalled, OnlyRunCalls, CoInv, CoTypeOK, LinksAgree, All
  <2>3. /\ UNCHANGED <<alive, outcome>> /\ current' = n
        /\ callee' = [callee EXCEPT ![n] = NULL] /\ caller' = [caller EXCEPT ![s] = NULL]
        /\ terminated' = [terminated EXCEPT ![s] = TRUE]
    BY <1>0, <1>1, <2>2 DEF Finish, Leave, Enter, SqsIsCalled
  <2> QED BY <1>0, <1>1, <2>2, <2>3 DEF Ends
<1>2. CASE \E p \in FirstProc(s) :
              /\ Resume(p) /\ UNCHANGED <<progVars, ev, queued, before>>
              /\ curProc' = [curProc EXCEPT ![s] = p]
              /\ clock' = [clock EXCEPT ![s] = ev[p]]
              /\ dispatched' = dispatched \cup {p}
  <2>1. PICK p \in FirstProc(s) :
              /\ Resume(p) /\ UNCHANGED <<progVars, ev, queued, before>>
              /\ curProc' = [curProc EXCEPT ![s] = p]
              /\ clock' = [clock EXCEPT ![s] = ev[p]]
              /\ dispatched' = dispatched \cup {p}
    BY <1>2
  <2>2. p \in Proc /\ p \in queued /\ sqsOf[p] = s
    BY DEF FirstProc, Firsts, Queue, NoticesInv, NoticesTypeOK
  <2>3. p \in alive /\ p \in All /\ p # s /\ ~terminated[p] /\ caller[p] = NULL
    BY <2>2, PartsAssumption DEF QueuedLive, OnlyRunCalls, All
  <2>4. EnterLeaf(p) /\ UNCHANGED terminated
    BY <1>0, <2>1, <2>3 DEF Resume
  <2>5. PICK d \in Leaves(callee, p) : Enter(d) /\ UNCHANGED links
    BY <2>3, <2>4, LeafExists DEF EnterLeaf, CoInv
  <2>6. /\ d = IF callee[p] = NULL THEN p ELSE callee[p]
        /\ callee[p] # NULL => callee[p] \in Sqs /\ caller[callee[p]] = p
    BY <2>3, LeafIsNext, CalleeIsSqs
  <2>7. d # s
    BY <2>2, <2>3, <2>6 DEF NotOwnScheduler
  <2>8. current' = d /\ UNCHANGED <<alive, terminated, links>>
    BY <1>0, <2>4, <2>5, <2>7 DEF Enter
  <2> QED BY <1>0, <2>1, <2>2, <2>6, <2>8 DEF Takes
<1> QED BY <1>1, <1>2 DEF SqsStep, evVars

LEMMA InsertIfIdleKinds ==
  ASSUME NEW p \in Usable, NEW t \in Time, current \notin Sqs, NotBefore(p, t),
         InsertIfIdle(p, t)
  PROVE  Idles \/ PutsAt(p, t)
BY AbortIdles, StayIdles DEF InsertIfIdle, PutsAt

LEMMA ReinsertKinds ==
  ASSUME NEW p \in Usable, NEW t \in Time, current \notin Sqs, NotBefore(p, t),
         Reinsert(p, t)
  PROVE  Idles \/ PutsAt(p, t)
BY AbortIdles DEF Reinsert, PutsAt

LEMMA InsertNearKinds ==
  ASSUME NEW p \in Usable, NEW q, NEW where, current \notin Sqs, InsertNear(p, q, where)
  PROVE  Idles \/ PutsNear(p, q, where)
BY AbortIdles DEF InsertNear, PutsNear

\* The calls at a time.  A delay makes it no earlier.
LEMMA AtKinds ==
  ASSUME KernelInv, NEW p \in Proc, NEW t \in Time,
         \/ Activate(p) \/ ActivateAt(p, t) \/ ActivateDelay(p, t)
         \/ Reactivate(p) \/ ReactivateAt(p, t) \/ ReactivateDelay(p, t)
  PROVE  Idles \/ \E u \in Time : PutsAt(p, u)
<1> DEFINE s == sqsOf[p]
<1>1. p \in Usable /\ s \in Sqs /\ current \notin Sqs
  BY UsableProc
     DEF Activate, ActivateAt, ActivateDelay, Reactivate, ReactivateAt, ReactivateDelay, Calls, User
<1>2. TimeFault(s) = "ok" => Now(s) \in Time /\ Now(s) + t >= Now(s) /\ Now(s) >= Now(s)
  BY <1>1, NowIsTime, MaxTimeAssumption DEF Time
<1>3. CASE \E why : Abort(why)
  BY <1>3, AbortIdles
<1>4. CASE \E u \in Time : NotBefore(p, u) /\ (InsertIfIdle(p, u) \/ Reinsert(p, u))
  BY <1>1, <1>4, InsertIfIdleKinds, ReinsertKinds
<1>5. CASE Activate(p) \/ Reactivate(p)
  BY <1>2, <1>3, <1>4, <1>5 DEF Activate, Reactivate, NotBefore
<1>6. CASE ActivateAt(p, t) \/ ReactivateAt(p, t)
  BY <1>2, <1>3, <1>4, <1>6 DEF ActivateAt, ReactivateAt, NotBefore
<1>7. CASE ActivateDelay(p, t) \/ ReactivateDelay(p, t)
  BY <1>2, <1>3, <1>4, <1>7 DEF ActivateDelay, ReactivateDelay, NotBefore
<1> QED BY <1>5, <1>6, <1>7

LEMMA NearKinds ==
  ASSUME NEW p \in Proc, NEW q \in Proc, NEW where,
         ActivateNear(p, q, where) \/ ReactivateNear(p, q, where)
  PROVE  Idles \/ PutsNear(p, q, where)
BY AbortIdles, StayIdles, InsertNearKinds DEF ActivateNear, ReactivateNear, Calls, User

LEMMA CancelKinds ==
  ASSUME KernelInv, NEW p \in Proc, Cancel(p)
  PROVE  Idles \/ TakesOff(p) \/ GivesUp(p)
<1>0. p \in Usable /\ current \notin Sqs
  BY DEF Cancel, Calls, User
<1>1. CASE (Stay /\ UNCHANGED evVars) \/ Abort("undefined")
  BY <1>1, StayIdles, AbortIdles
<1>2. CASE p \in queued /\ Unschedule(p) /\ UNCHANGED <<progVars, simVars>>
           /\ \/ /\ Firsts(Without(before, p), Queue(sqsOf[p]) \ {p}) = {curProc[sqsOf[p]]}
                 /\ UNCHANGED coVars
              \/ Detach(p)
  <2>1. current # p => ~HasControl(p)
    <3> SUFFICES ASSUME callee[p] = current PROVE FALSE
      BY DEF HasControl
    <3>1. callee[p] # NULL /\ p \in All
      BY NullAssumption, PartsAssumption DEF KernelInv, CoInv, CoTypeOK, All
    <3> QED BY <1>0, <3>1, CalleeIsSqs DEF KernelInv, ControlInv
  <2>2. CASE current # p /\ Detach(p)
    BY <1>0, <1>2, <2>1, <2>2 DEF Detach, Leave, Halt, TakesOff
  <2>3. CASE current = p /\ Detach(p)
    BY <1>0, <1>2, <2>3 DEF GivesUp
  <2>4. CASE /\ Firsts(Without(before, p), Queue(sqsOf[p]) \ {p}) = {curProc[sqsOf[p]]}
             /\ UNCHANGED coVars
    <3>1. curProc[sqsOf[p]] # p
      BY <2>4 DEF Firsts
    <3>2. ~HasControl(p)
      BY <3>1 DEF KernelInv, ControlInv, ControlIsGiven
    <3> QED BY <1>0, <1>2, <2>4, <3>2 DEF TakesOff, coVars, links
  <2> QED BY <1>2, <2>2, <2>3, <2>4
<1> QED BY <1>1, <1>2 DEF Cancel

LEMMA SelfKinds ==
  ASSUME KernelInv, NEW p \in Proc, NEW dt \in Time,
         Hold(p, dt) \/ Passivate(p) \/ EndSimulation(p) \/ Return(p)
  PROVE  Idles \/ GivesUp(p)
<1>0. current = p /\ p \in Usable /\ sqsOf[p] \in Sqs
  BY UsableProc DEF Hold, Passivate, EndSimulation, Return, Self
<1>1. CASE \E why : Abort(why)
  BY <1>1, AbortIdles
<1>2. CASE /\ TimeFault(sqsOf[p]) = "ok"
           /\ Now(sqsOf[p]) + dt \in Time
           /\ ScheduleAt(p, Now(sqsOf[p]) + dt)
           /\ Detach(p) /\ UNCHANGED <<progVars, simVars>>
  <2>1. Now(sqsOf[p]) + dt >= Now(sqsOf[p])
    BY <1>0, <1>2, NowIsTime, MaxTimeAssumption DEF Time
  <2> QED BY <1>0, <1>2, <2>1 DEF GivesUp, NotBefore
<1>3. CASE /\ Unschedule(p) \/ (Forget(Queue(sqsOf[p])) /\ UNCHANGED ev)
           /\ Detach(p) \/ Finish(p)
           /\ UNCHANGED <<progVars, simVars>>
  BY <1>0, <1>3 DEF GivesUp
<1>4. CASE Hold(p, dt)
  <2>1. \/ Abort(TimeFault(sqsOf[p])) \/ Abort(Fault(p))
        \/ /\ TimeFault(sqsOf[p]) = "ok"
           /\ Now(sqsOf[p]) + dt \in Time
           /\ ScheduleAt(p, Now(sqsOf[p]) + dt)
           /\ Detach(p) /\ UNCHANGED <<progVars, simVars>>
    BY <1>4 DEF Hold
  <2> QED BY <1>1, <1>2, <2>1
<1>5. CASE Passivate(p)
  <2>1. Abort(Fault(p)) \/ (Unschedule(p) /\ Detach(p) /\ UNCHANGED <<progVars, simVars>>)
    BY <1>5 DEF Passivate
  <2> QED BY <1>1, <1>3, <2>1
<1>6. CASE EndSimulation(p)
  BY <1>3, <1>6 DEF EndSimulation
<1>7. CASE Return(p)
  <2>1. Abort("undefined") \/ (Unschedule(p) /\ Finish(p) /\ UNCHANGED <<progVars, simVars>>)
    BY <1>7 DEF Return
  <2> QED BY <1>1, <1>3, <2>1
<1> QED BY <1>4, <1>5, <1>6, <1>7

LEMMA EndLevelKinds ==
  ASSUME KernelInv, EndLevel
  PROVE  Idles \/ \E s \in Sqs : Drops(s)
<1>1. Head(levels) \in Sqs /\ current \notin Sqs /\ outcome = "ok"
  BY DEF EndLevel, User, Running, KernelInv, ControlInv, KernelTypeOK
<1>2. CASE Halt("delete linked") /\ UNCHANGED <<terminated, sqsOf, ev, simVars>>
           /\ outcome' # "ok" /\ UNCHANGED <<levels, queued, before, dispatched>>
  BY <1>2 DEF Halt, Idles, evVars, progVars
<1>3. CASE /\ caller[Head(levels)] = NULL
           /\ alive' = alive \ {Head(levels)}
           /\ UNCHANGED <<terminated, links, current, sqsOf, ev, simVars>>
           /\ Forget(Queue(Head(levels)))
  BY <1>1, <1>3 DEF Drops
<1> QED BY <1>1, <1>2, <1>3 DEF EndLevel, Destroy, Halt

LEMMA RunKinds ==
  ASSUME KernelInv, Run
  PROVE  Idles \/ \E s \in Sqs : Runs(s)
<1> USE DEF KernelInv, ControlInv
<1> DEFINE h == Head(levels)
           linked == [callee EXCEPT ![current] = h]
<1>1. h \in Sqs /\ h = levels[1] /\ 1 \in 1 .. Len(levels)
  BY DEF Run, KernelTypeOK
<1>2. h \in alive /\ h \in All
  BY <1>1, PartsAssumption DEF LevelsAlive, All
<1>3. current \in All /\ current \notin Sqs /\ current # h
  BY <1>1 DEF Run, User, CoInv, CoTypeOK
<1>4. CASE \E why : Halt(why)
  BY <1>4 DEF Run, Call, Halt, Idles
<1>5. CASE ~terminated[h] /\ caller[h] = NULL
           /\ \E d \in Leaves(linked, h) \ {current} :
                /\ Enter(d) /\ callee' = linked
                /\ caller' = [caller EXCEPT ![h] = current]
  <2>1. PICK d \in Leaves(linked, h) \ {current} :
                /\ Enter(d) /\ callee' = linked
                /\ caller' = [caller EXCEPT ![h] = current]
    BY <1>5
  <2>2. linked \in [All -> All \cup {NULL}] /\ linked[h] = NULL
    BY <1>1, <1>2, <1>3 DEF OnlyRunCalls, CoInv, CoTypeOK
  <2>3. Closed(linked, {h})
    BY <2>2 DEF Closed
  <2>4. Reach(linked, h) \subseteq {h}
    BY <1>2, <2>3, ReachLeast
  <2>5. d = h
    BY <2>4 DEF Leaves
  <2>6. current' = h /\ UNCHANGED alive
    BY <1>3, <2>1, <2>5 DEF Enter
  <2> QED BY <1>1, <1>2, <1>3, <1>5, <2>1, <2>6 DEF Run, Runs, Call
<1> QED BY <1>4, <1>5 DEF Run, Call

\* Every step is one of these.
LEMMA StepKinds ==
  ASSUME KernelInv, Next
  PROVE  \/ Idles
         \/ \E p \in Proc, t \in Time : PutsAt(p, t)
         \/ \E p, q \in Proc, where \in Places : PutsNear(p, q, where)
         \/ \E p \in Proc : TakesOff(p) \/ GivesUp(p) \/ NewProcess(p)
         \/ \E s \in Sqs : Ends(s) \/ BeginLevel(s) \/ Drops(s) \/ Runs(s)
         \/ \E s \in Sqs, p \in Proc : Takes(s, p)
<1>0. 0 \in Time
  BY MaxTimeAssumption DEF Time
<1>1. CASE \E p \in Proc : Activate(p) \/ Reactivate(p)
  BY <1>0, <1>1, AtKinds
<1>2. CASE \E p \in Proc, t \in Time :
             ActivateAt(p, t) \/ ActivateDelay(p, t) \/ ReactivateAt(p, t) \/ ReactivateDelay(p, t)
  BY <1>2, AtKinds
<1>3. CASE \E p, q \in Proc, w \in Places : ActivateNear(p, q, w) \/ ReactivateNear(p, q, w)
  BY <1>3, NearKinds
<1>4. CASE \E p \in Proc : Cancel(p) \/ NewProcess(p)
  BY <1>4, CancelKinds
<1>5. CASE \E p \in Proc, dt \in Time : Hold(p, dt)
  BY <1>5, SelfKinds
<1>6. CASE \E p \in Proc : Passivate(p) \/ EndSimulation(p) \/ Return(p)
  BY <1>0, <1>6, SelfKinds
<1>7. CASE \E s \in Sqs : SqsStep(s) \/ BeginLevel(s)
  BY <1>7, SqsStepKinds
<1>8. CASE EndLevel \/ Run
  BY <1>8, EndLevelKinds, RunKinds
<1> QED BY <1>1, <1>2, <1>3, <1>4, <1>5, <1>6, <1>7, <1>8 DEF Next

\* What ScheduleAt and ScheduleNear do to the times.
LEMMA OneScheduled ==
  ASSUME KernelInv, NEW p \in Proc, NEW t,
         ScheduleAt(p, t) \/ \E q, w : t = ev[q] /\ ScheduleNear(p, q, w)
  PROVE  /\ ev'[p] = t /\ \A r \in Proc \ {p} : ev'[r] = ev[r]
         /\ queued' = queued \cup {p} /\ dispatched' = dispatched \ {p}
BY DEF ScheduleAt, ScheduleNear, KernelInv, NoticesInv, NoticesTypeOK

\* ... and Unschedule and Forget.
LEMMA SomeForgotten ==
  ASSUME KernelInv, NEW Q, Forget(Q),
         UNCHANGED ev \/ \E p \in Proc : Q = {p} /\ ev' = [ev EXCEPT ![p] = NULL]
  PROVE  /\ queued' = queued \ Q /\ dispatched' = dispatched \ Q
         /\ \A r \in Proc \ Q : ev'[r] = ev[r]
         /\ \A r \in Proc : ev'[r] \in {ev[r], NULL}
BY DEF Forget, KernelInv, NoticesInv, NoticesTypeOK

\* The time, for the process that runs.
LEMMA RunningTime ==
  ASSUME KernelInv, NEW p \in Proc, current = p
  PROVE  /\ p \in Queue(sqsOf[p]) /\ ev[p] \in Time
         /\ TimeFault(sqsOf[p]) = "ok" /\ Now(sqsOf[p]) = ev[p]
<1>1. p \in queued /\ curProc[sqsOf[p]] = p
  BY DEF KernelInv, ControlInv, ControlIsGiven, HasControl
<1>2. p \in Queue(sqsOf[p]) /\ ev[p] \in Time /\ ev[p] # NULL /\ p # NULL
  BY <1>1, NoNoticeAssumption, NullAssumption, PartsAssumption
     DEF Queue, KernelInv, NoticesInv, NoticesTypeOK
<1> QED BY <1>1, <1>2 DEF TimeFault, Now

\* Where control goes when a process gives it up.
LEMMA GivenUp ==
  ASSUME KernelInv, NEW p \in Proc, GivesUp(p)
  PROVE  /\ UNCHANGED <<alive, links, sqsOf, simVars>>
         /\ current' \in Sqs \cup {Main}
         /\ current' \in Sqs => caller[current'] = Main
         /\ \A c \in All \ {p} : terminated'[c] = terminated[c]
<1>1. /\ UNCHANGED <<alive, links>>
      /\ current' \in Sqs \cup {Main}
      /\ current' \in Sqs => caller[current'] = Main
  BY LeaveToScheduler DEF GivesUp, Detach, Finish, KernelInv, ControlInv
<1>2. \A c \in All \ {p} : terminated'[c] = terminated[c]
  BY DEF GivesUp, Detach, Finish, KernelInv, CoInv, CoTypeOK
<1> QED BY <1>1, <1>2 DEF GivesUp, progVars

-----------------------------------------------------------------------------
(***************************************************************************)
(* Time and the end of a simulation, at any depth of levels                *)
(***************************************************************************)

\* A scheduler that has resumed somebody and has not ended is being run.
StartedIsRun ==
  \A s \in Sqs \cap alive : curProc[s] # NULL /\ ~terminated[s] => caller[s] # NULL

\* A process that does not exist yet has no notice.
UnbornIdle == \A p \in Proc \ alive : ev[p] = NULL

\* While a process has control nothing in its sequencing set is scheduled for
\* a time before that at which the process was resumed.
TimeIsGiven ==
  \A p \in Proc : HasControl(p) =>
    \A q \in Queue(sqsOf[p]) : clock[sqsOf[p]] <= ev[q]

LevelInv == StartedIsRun /\ UnbornIdle /\ TimeIsGiven

LEMMA StartedIsRunStep ==
  ASSUME KernelInv, StartedIsRun, Next
  PROVE  StartedIsRun'
<1> USE DEF KernelInv, ControlInv
<1>0. \A s \in Sqs : s \in All /\ s \notin Proc
  BY PartsAssumption DEF All
<1>1. CASE UNCHANGED <<terminated, links, curProc>> /\ alive' \subseteq alive
  BY <1>1 DEF StartedIsRun, links
<1>2. ASSUME NEW p \in Proc, GivesUp(p) PROVE StartedIsRun'
  BY <1>0, <1>2, GivenUp DEF StartedIsRun, links, simVars
<1>3. ASSUME NEW p \in Proc, NewProcess(p) PROVE StartedIsRun'
  BY <1>0, <1>3 DEF StartedIsRun, NewProcess, New, links, simVars, CoInv, CoTypeOK
<1>4. ASSUME NEW s \in Sqs, BeginLevel(s) PROVE StartedIsRun'
  BY <1>0, <1>4 DEF StartedIsRun, BeginLevel, New, links, KernelTypeOK, CoInv, CoTypeOK
<1>5. ASSUME NEW s \in Sqs, NEW p \in Proc, Takes(s, p) PROVE StartedIsRun'
  <2>1. /\ UNCHANGED <<alive, terminated, caller>> /\ curProc' = [curProc EXCEPT ![s] = p]
        /\ caller[s] # NULL
    BY <1>5 DEF Takes, links, SqsIsCalled
  <2> QED BY <2>1 DEF StartedIsRun, KernelTypeOK
<1>6. ASSUME NEW s \in Sqs, Ends(s) PROVE StartedIsRun'
  BY <1>0, <1>6 DEF StartedIsRun, Ends, simVars, CoInv, CoTypeOK
<1>7. ASSUME NEW s \in Sqs, Runs(s) PROVE StartedIsRun'
  <2>1. /\ UNCHANGED <<alive, terminated, curProc>>
        /\ caller' = [caller EXCEPT ![s] = current] /\ current \in All
    BY <1>7 DEF Runs, simVars
  <2> QED BY <1>0, <2>1, NullAssumption DEF StartedIsRun, CoInv, CoTypeOK, All
<1>8. ASSUME NEW p \in Proc, TakesOff(p) PROVE StartedIsRun'
  BY <1>1, <1>8 DEF TakesOff, simVars
<1>9. ASSUME NEW s \in Sqs, Drops(s) PROVE StartedIsRun'
  BY <1>1, <1>9 DEF Drops, simVars
<1>10. CASE Idles \/ Stay
  BY <1>1, <1>10 DEF Idles, Stay, coVars, links, simVars
<1> QED BY <1>2, <1>3, <1>4, <1>5, <1>6, <1>7, <1>8, <1>9, <1>10, StepKinds DEF PutsAt, PutsNear

LEMMA UnbornIdleStep ==
  ASSUME KernelInv, UnbornIdle, Next
  PROVE  UnbornIdle'
<1>1. CASE alive \subseteq alive' /\ UNCHANGED ev
  BY <1>1 DEF UnbornIdle
<1>2. ASSUME NEW p \in Proc, p \in alive, alive' = alive,
             \A q \in Proc \ {p} : ev'[q] \in {ev[q], NULL}
      PROVE  UnbornIdle'
  BY <1>2 DEF UnbornIdle
<1>3. ASSUME NEW p \in Proc, NEW t \in Time, PutsAt(p, t) PROVE UnbornIdle'
  BY <1>2, <1>3, OneScheduled, UsableProc DEF PutsAt, Stay, coVars
<1>4. ASSUME NEW p \in Proc, NEW q \in Proc, NEW w, PutsNear(p, q, w) PROVE UnbornIdle'
  BY <1>2, <1>4, OneScheduled, UsableProc DEF PutsNear, Stay, coVars
<1>5. ASSUME NEW p \in Proc, TakesOff(p) PROVE UnbornIdle'
  BY <1>2, <1>5, SomeForgotten, UsableProc DEF TakesOff, Unschedule
<1>6. ASSUME NEW p \in Proc, GivesUp(p) PROVE UnbornIdle'
  <2>1. p \in alive /\ alive' = alive
    BY <1>6, GivenUp, UsableProc DEF GivesUp
  <2>2. \A q \in Proc \ {p} : ev'[q] \in {ev[q], NULL}
    BY <1>6, OneScheduled, SomeForgotten DEF GivesUp, Unschedule
  <2> QED BY <1>2, <2>1, <2>2
<1>7. ASSUME NEW s \in Sqs, Drops(s) PROVE UnbornIdle'
  BY <1>7, PartsAssumption DEF Drops, UnbornIdle
<1>8. CASE Idles \/ \E p \in Proc : NewProcess(p)
  BY <1>1, <1>8 DEF Idles, NewProcess, New, evVars
<1>9. ASSUME NEW s \in Sqs, Ends(s) \/ BeginLevel(s) \/ Runs(s) \/ \E p \in Proc : Takes(s, p)
      PROVE  UnbornIdle'
  BY <1>1, <1>9 DEF Ends, BeginLevel, New, Runs, Takes, evVars
<1> QED BY <1>3, <1>4, <1>5, <1>6, <1>7, <1>8, <1>9, StepKinds

\* Who has control when a scheduler takes a notice, ends, or is run.
LEMMA ControlTaken ==
  ASSUME KernelInv, NEW s \in Sqs, NEW p \in Proc, Takes(s, p), NEW q \in Proc, HasControl(q)'
  PROVE  q = p
<1> USE DEF KernelInv, ControlInv
<1>1. q \in All /\ q \notin Sqs /\ p \notin Sqs /\ p # NULL /\ UNCHANGED callee
  BY PartsAssumption, NullAssumption DEF Takes, links, All
<1>2. CASE q = current'
  BY <1>1, <1>2 DEF Takes
<1>3. CASE callee[q] = current'
  <2>1. current' # NULL
    BY <1>1 DEF Takes
  <2>2. current' \in Sqs /\ caller[current'] = q
    BY <1>1, <1>3, <2>1, CalleeIsSqs
  <2> QED BY <1>1, <2>2 DEF Takes
<1> QED BY <1>1, <1>2, <1>3 DEF HasControl

LEMMA ControlReturned ==
  ASSUME KernelInv, NEW s \in Sqs, Ends(s), NEW q \in Proc, HasControl(q)'
  PROVE  HasControl(q)
<1> USE DEF KernelInv, ControlInv
<1>1. /\ q \in All /\ current = s /\ caller[s] \in All \ Sqs /\ current' = caller[s]
      /\ callee[caller[s]] = s /\ callee' = [callee EXCEPT ![caller[s]] = NULL] /\ NULL \notin All
  BY PartsAssumption, NullAssumption DEF Ends, All
<1>2. CASE q = current'
  BY <1>1, <1>2 DEF HasControl
<1>3. CASE q # current'
  <2>1. callee[q] = caller[s]
    BY <1>1, <1>3 DEF HasControl, CoInv, CoTypeOK
  <2> QED BY <1>1, <2>1, CalleeIsSqs
<1> QED BY <1>2, <1>3

LEMMA ControlCalled ==
  ASSUME KernelInv, NEW s \in Sqs, Runs(s), NEW q \in Proc, HasControl(q)'
  PROVE  q = current
<1> USE DEF KernelInv, ControlInv
<1>1. /\ q \in All /\ q \notin Sqs /\ s \in All /\ current' = s /\ current \in All
      /\ callee' = [callee EXCEPT ![current] = s] /\ caller[s] = NULL /\ NULL \notin All
  BY PartsAssumption, NullAssumption DEF Runs, All
<1>2. callee'[q] = s
  BY <1>1 DEF HasControl
<1>3. q # current => callee[q] = s
  BY <1>1, <1>2 DEF CoInv, CoTypeOK
<1>4. callee[q] = s => caller[s] = q
  BY <1>1 DEF CoInv, LinksAgree
<1> QED BY <1>1, <1>3, <1>4

LEMMA ControlGivenUp ==
  ASSUME KernelInv, NEW p \in Proc, GivesUp(p), NEW q \in Proc
  PROVE  ~HasControl(q)'
<1> SUFFICES ASSUME HasControl(q)' PROVE FALSE
  OBVIOUS
<1>1. /\ callee' = callee /\ current' \in Sqs \cup {Main}
      /\ current' \in Sqs => caller[current'] = Main
  BY GivenUp DEF links
<1>2. /\ q \in All /\ q # Main /\ q \notin Sqs /\ Main \notin Sqs /\ NULL \notin All
      /\ \A s \in Sqs : s \in All
  BY PartsAssumption, MainAssumption, NullAssumption DEF All
<1>3. callee[q] = current' /\ current' # NULL
  BY <1>1, <1>2 DEF HasControl, All
<1>4. current' \in Sqs /\ caller[current'] = q
  BY <1>2, <1>3, CalleeIsSqs DEF KernelInv, ControlInv
<1> QED BY <1>1, <1>2, <1>4

\* A process that gets a notice from whoever runs gets one no earlier than
\* the scheduler of whoever runs has come to.
LEMMA PutInTime ==
  ASSUME KernelInv, NEW p \in Usable, NEW t \in Time, current \notin Sqs, Stay,
         TimeIsGiven,
         ev'[p] = t, \A r \in Proc \ {p} : ev'[r] = ev[r], queued' = queued \cup {p},
         current \in Proc /\ sqsOf[current] = sqsOf[p] => clock[sqsOf[p]] <= t
  PROVE  TimeIsGiven'
<1> SUFFICES ASSUME NEW q \in Proc, HasControl(q)', NEW r \in Queue(sqsOf[q])'
             PROVE  clock'[sqsOf'[q]] <= ev'[r]
  BY DEF TimeIsGiven
<1>1. UNCHANGED <<current, callee, sqsOf, clock>>
  BY DEF Stay, coVars, progVars, simVars
<1>2. q \in All /\ HasControl(q)
  BY <1>1, PartsAssumption DEF HasControl, All
<1>3. current = q
  <2>1. current # NULL
    BY NullAssumption DEF KernelInv, CoInv, CoTypeOK, All
  <2> QED BY <1>2, <2>1, CalleeIsSqs DEF HasControl, KernelInv, ControlInv
<1>4. CASE r = p
  BY <1>1, <1>3, <1>4 DEF Queue
<1>5. CASE r # p
  <2>1. r \in Queue(sqsOf[q]) /\ r \in Proc
    BY <1>1, <1>5 DEF Queue, KernelInv, NoticesInv, NoticesTypeOK
  <2> QED BY <1>1, <1>2, <1>5, <2>1 DEF TimeIsGiven
<1> QED BY <1>4, <1>5

LEMMA TimeIsGivenStep ==
  ASSUME KernelInv, TimeIsGiven, Next
  PROVE  TimeIsGiven'
<1> USE DEF KernelInv, ControlInv
<1>1. ASSUME \A q \in Proc : HasControl(q)' =>
               /\ HasControl(q) /\ sqsOf'[q] = sqsOf[q] /\ clock'[sqsOf[q]] = clock[sqsOf[q]]
               /\ Queue(sqsOf[q])' \subseteq Queue(sqsOf[q]),
             \A r \in queued' : ev'[r] = ev[r]
      PROVE  TimeIsGiven'
  BY <1>1 DEF TimeIsGiven, Queue
<1>2. ASSUME NEW p \in Proc, NEW t \in Time, PutsAt(p, t) PROVE TimeIsGiven'
  <2>1. ASSUME current \in Proc, sqsOf[current] = sqsOf[p] PROVE clock[sqsOf[p]] <= t
    <3>1. /\ current \in Queue(sqsOf[p]) /\ ev[current] \in Time /\ ev[current] <= t
      BY <1>2, <2>1, RunningTime DEF PutsAt, NotBefore, Time
    <3>2. clock[sqsOf[p]] <= ev[current] /\ clock[sqsOf[p]] \in Time
      BY <1>2, <2>1, <3>1, UsableProc DEF TimeIsGiven, HasControl, PutsAt, KernelTypeOK
    <3> QED BY <3>1, <3>2, MaxTimeAssumption DEF Time
  <2> QED BY <1>2, <2>1, OneScheduled, PutInTime DEF PutsAt
<1>3. ASSUME NEW p \in Proc, NEW q \in Proc, NEW w, PutsNear(p, q, w) PROVE TimeIsGiven'
  <2>1. q \in queued /\ sqsOf[q] = sqsOf[p] /\ ev[q] \in Time
    BY <1>3 DEF PutsNear, Queue, NoticesInv, NoticesTypeOK
  <2>2. ASSUME current \in Proc, sqsOf[current] = sqsOf[p] PROVE clock[sqsOf[p]] <= ev[q]
    BY <1>3, <2>2 DEF TimeIsGiven, HasControl, PutsNear
  <2>3. /\ ev'[p] = ev[q] /\ queued' = queued \cup {p}
        /\ \A r \in Proc \ {p} : ev'[r] = ev[r]
        /\ p \in Usable /\ current \notin Sqs /\ Stay
    BY <1>3, OneScheduled DEF PutsNear
  <2> DEFINE t == ev[q]
  <2>4. /\ t \in Time /\ ev'[p] = t
        /\ current \in Proc /\ sqsOf[current] = sqsOf[p] => clock[sqsOf[p]] <= t
    BY <2>1, <2>2, <2>3
  <2> HIDE DEF t
  <2> QED BY <2>3, <2>4, PutInTime
<1>4. ASSUME NEW p \in Proc, TakesOff(p) PROVE TimeIsGiven'
  <2>1. /\ queued' = queued \ {p} /\ \A r \in Proc \ {p} : ev'[r] = ev[r]
        /\ UNCHANGED <<current, callee, sqsOf, clock>>
    BY <1>4, SomeForgotten DEF TakesOff, Unschedule, links, progVars, simVars
  <2>2. \A r \in queued' : ev'[r] = ev[r]
    BY <2>1 DEF NoticesInv, NoticesTypeOK
  <2> QED BY <1>1, <2>1, <2>2 DEF HasControl, Queue
<1>5. ASSUME NEW p \in Proc, GivesUp(p) PROVE TimeIsGiven'
  BY <1>5, ControlGivenUp DEF TimeIsGiven
<1>6. ASSUME NEW p \in Proc, NewProcess(p) PROVE TimeIsGiven'
  <2>1. /\ p \notin alive /\ UNCHANGED <<current, callee, clock, queued, ev>>
        /\ \A q \in Proc \ {p} : sqsOf'[q] = sqsOf[q]
    BY <1>6 DEF NewProcess, New, links, evVars, simVars, KernelTypeOK
  <2>2. \A q \in Proc : HasControl(q) => q # p
    BY <2>1 DEF ControlIsGiven, QueuedLive
  <2>3. p \notin queued /\ queued \subseteq Proc
    BY <2>1 DEF QueuedLive, NoticesInv, NoticesTypeOK
  <2> QED BY <1>1, <2>1, <2>2, <2>3 DEF HasControl, Queue
<1>7. ASSUME NEW s \in Sqs, BeginLevel(s) PROVE TimeIsGiven'
  <2>1. /\ s \notin alive /\ UNCHANGED <<current, callee, sqsOf, queued, ev>>
        /\ \A r \in Sqs \ {s} : clock'[r] = clock[r]
    BY <1>7 DEF BeginLevel, New, links, evVars, KernelTypeOK
  <2>2. \A q \in Proc : HasControl(q) => sqsOf[q] \in Sqs \ {s}
    BY <2>1 DEF ControlIsGiven
  <2> QED BY <1>1, <2>1, <2>2 DEF HasControl, Queue
<1>8. ASSUME NEW s \in Sqs, Drops(s) PROVE TimeIsGiven'
  <2>1. /\ queued' \subseteq queued
        /\ UNCHANGED <<current, callee, sqsOf, clock, ev>>
    BY <1>8, SomeForgotten DEF Drops, links, simVars
  <2> QED BY <1>1, <2>1 DEF HasControl, Queue
<1>9. ASSUME NEW s \in Sqs, Runs(s) PROVE TimeIsGiven'
  <2>1. UNCHANGED <<sqsOf, clock, queued, ev>>
    BY <1>9 DEF Runs, evVars, progVars, simVars
  <2> QED BY <1>1, <1>9, <2>1, ControlCalled DEF HasControl, Queue
<1>10. ASSUME NEW s \in Sqs, Ends(s) PROVE TimeIsGiven'
  <2>1. UNCHANGED <<sqsOf, clock, queued, ev>>
    BY <1>10 DEF Ends, evVars, progVars, simVars
  <2> QED BY <1>1, <1>10, <2>1, ControlReturned DEF Queue
<1>11. ASSUME NEW s \in Sqs, NEW p \in Proc, Takes(s, p) PROVE TimeIsGiven'
  <2>1. /\ UNCHANGED <<sqsOf, queued, ev>> /\ p \in Queue(s)
        /\ clock' = [clock EXCEPT ![s] = ev[p]]
    BY <1>11 DEF Takes, progVars, FirstProc, Firsts
  <2>2. sqsOf[p] = s /\ clock'[s] = ev[p]
    BY <2>1 DEF Queue, KernelTypeOK
  <2>3. \A r \in Queue(s) : ev[p] <= ev[r]
    <3>1. /\ IsLine(before, Queue(s), ev)
          /\ \A r \in Queue(s) : ev[r] \in Nat
      BY DEF NoticesInv, NoticesTypeOK, LineOfEvents, Queue, Time
    <3>2. p \in Firsts(before, Queue(s))
      BY <1>11 DEF Takes, FirstProc
    <3> QED BY <3>1, <3>2, FirstOfLine
  <2> QED BY <1>11, <2>1, <2>2, <2>3, ControlTaken DEF TimeIsGiven, Queue
<1>12. CASE Idles
  BY <1>1, <1>12 DEF Idles, links, evVars, progVars, simVars, HasControl, Queue
<1> QED BY <1>2, <1>3, <1>4, <1>5, <1>6, <1>7, <1>8, <1>9, <1>10, <1>11, <1>12, StepKinds

THEOREM LevelInvariant == Spec => []LevelInv
<1>1. Init => LevelInv
  BY PartsAssumption, MainAssumption, NullAssumption
     DEF Init, CoInit, LevelInv, StartedIsRun, UnbornIdle, TimeIsGiven, Queue
<1>2. KernelInv /\ LevelInv /\ [Next]_vars => LevelInv'
  <2>1. CASE Next
    BY <2>1, StartedIsRunStep, UnbornIdleStep, TimeIsGivenStep DEF LevelInv
  <2>2. CASE UNCHANGED vars
    BY <2>2 DEF vars, coVars, evVars, progVars, simVars, LevelInv,
                StartedIsRun, UnbornIdle, TimeIsGiven, HasControl, Queue
  <2> QED BY <2>1, <2>2
<1> QED BY <1>1, <1>2, KernelInvariant, PTL DEF Spec

\* ActivatedRunsNext: activate( ) puts the process in front, at any depth of
\* levels, because nothing in the set of the process that runs is scheduled
\* for a time before that at which it was resumed.
THEOREM ActivatedAlwaysRunsNext == Spec => ActivatedRunsNext
<1>1. ASSUME KernelInv, LevelInv, NEW p \in Usable, Activate(p),
             ev[p] = NULL, ev'[p] # NULL, current \in Proc,
             sqsOf[current] = sqsOf[p], ev[current] = clock[sqsOf[p]]
      PROVE  p \in Firsts(before', {q \in queued' : sqsOf[q] = sqsOf[p]})
  <2> DEFINE s == sqsOf[p]
  <2>1. TimeFault(s) = "ok" /\ Now(s) = clock[s]
    BY <1>1, RunningTime
  <2>2. ScheduleAt(p, clock[s])
    <3>1. \A why : Abort(why) => ev' = ev
      BY DEF Abort, evVars
    <3>2. InsertIfIdle(p, clock[s])
      BY <1>1, <2>1, <3>1 DEF Activate
    <3> QED BY <1>1, <3>1, <3>2 DEF InsertIfIdle, evVars
  <2>3. \A q \in Queue(s) : clock[s] <= ev[q] /\ clock[s] \in Nat /\ ev[q] \in Nat
    BY <1>1, UsableProc
       DEF KernelInv, ControlInv, KernelTypeOK, NoticesInv, NoticesTypeOK, Time, Queue,
           LevelInv, TimeIsGiven, HasControl
  <2>4. \A q \in Queue(s) \ {p} : <<p, q>> \in before'
    BY <2>2, <2>3 DEF ScheduleAt, PlacedAt
  <2>5. queued' = queued \cup {p}
    BY <2>2 DEF ScheduleAt
  <2> QED BY <2>4, <2>5 DEF Firsts, Queue
<1>2. KernelInv /\ LevelInv /\ [Next]_vars =>
        [\A p \in Usable :
           /\ Activate(p) /\ ev[p] = NULL /\ ev'[p] # NULL
           /\ current \in Proc /\ sqsOf[current] = sqsOf[p] /\ ev[current] = clock[sqsOf[p]]
           => p \in Firsts(before', {q \in queued' : sqsOf[q] = sqsOf[p]})]_vars
  BY <1>1
<1> QED BY <1>2, KernelInvariant, LevelInvariant, PTL DEF Spec, ActivatedRunsNext

-----------------------------------------------------------------------------
(***************************************************************************)
(* Levels run by the main program only.  A process may open a level, fill  *)
(* it and close it, but not run it: then a simulation and the levels below *)
(* it take turns, and there is one scheduler at a time.  With a level that *)
(* a process runs none of the properties below holds: a process of the     *)
(* inner level that gives up control gives it to the scheduler of the      *)
(* outermost level (coroutine.cc:290-292).                                 *)
(***************************************************************************)

NobodyNests == \A p \in Proc : callee[p] = NULL

\* Only the process that runs was dispatched by its notice.
TakenIsRunning == \A p \in dispatched : current = p

\* In a simulation that has not ended nothing is scheduled for a time that
\* has gone by.
NotBehindClock ==
  \A s \in Sqs \cap alive : ~terminated[s] =>
    /\ curProc[s] = NULL => clock[s] = 0
    /\ \A q \in Queue(s) : clock[s] <= ev[q]

FlatInv == TakenIsRunning /\ NotBehindClock /\ DanglingMeansOver

\* The scheduler that is being run was called by the main program, and the
\* process that runs is one of its own.
LEMMA OneScheduler ==
  ASSUME KernelInv, NobodyNests
  PROVE  /\ \A s \in Sqs : caller[s] # NULL => callee[Main] = s
         /\ current \in Proc => callee[Main] = sqsOf[current]
         /\ current = Main => \A s \in Sqs : caller[s] = NULL
<1> USE DEF KernelInv, ControlInv
<1>1. ASSUME NEW s \in Sqs, caller[s] # NULL PROVE callee[Main] = s
  <2>1. s \in All /\ caller[s] \in All /\ callee[caller[s]] = s /\ s # NULL
    BY <1>1, PartsAssumption, NullAssumption DEF CoInv, CoTypeOK, LinksAgree, All
  <2>2. caller[s] \notin Proc /\ caller[s] \notin Sqs
    BY <2>1 DEF NobodyNests, OnlyRunCalls
  <2> QED BY <2>1, <2>2, PartsAssumption DEF All
<1>2. ASSUME current \in Proc PROVE sqsOf[current] \in Sqs /\ caller[sqsOf[current]] # NULL
  BY <1>2 DEF ControlIsGiven, HasControl
<1>3. current = Main => callee[Main] = NULL
  BY DEF CoInv, CurrentIsLeaf
<1>4. \A s \in Sqs : s # NULL
  BY PartsAssumption, NullAssumption
<1> QED BY <1>1, <1>2, <1>3, <1>4

\* ... so it is to that scheduler that a process gives up control.
LEMMA GivenToScheduler ==
  ASSUME KernelInv, NobodyNests, NEW p \in Proc, current = p, Leave(p)
  PROVE  current' = sqsOf[p] /\ UNCHANGED <<alive, links, outcome>>
<1> USE DEF KernelInv, ControlInv
<1>1. caller[p] = NULL /\ callee[Main] = sqsOf[p] /\ sqsOf[p] \in Sqs /\ sqsOf[p] # NULL
  BY OneScheduler, PartsAssumption, NullAssumption
     DEF OnlyRunCalls, ControlIsGiven, HasControl
<1>2. EnterLeaf(Main)
  BY <1>1 DEF Leave
<1>3. Leaves(callee, Main) # {}
  BY LeafExists DEF CoInv, All
<1>4. PICK d \in Leaves(callee, Main) : Enter(d) /\ UNCHANGED links
  BY <1>2, <1>3 DEF EnterLeaf
<1>5. d = sqsOf[p]
  BY <1>1, LeafIsNext DEF All
<1> QED BY <1>1, <1>4, <1>5, PartsAssumption DEF Enter, links

LEMMA TakenIsRunningStep ==
  ASSUME KernelInv, NobodyNests, NobodyNests', TakenIsRunning, Next
  PROVE  TakenIsRunning'
<1> USE DEF KernelInv, ControlInv
<1>0. \A p \in dispatched : p \in Proc
  BY DEF NoticesInv, NoticesTypeOK
<1>1. CASE current' = current /\ dispatched' \subseteq dispatched
  BY <1>1 DEF TakenIsRunning
<1>2. CASE current \in Sqs \cup {Main} /\ dispatched' = dispatched
  BY <1>0, <1>2, PartsAssumption, MainAssumption DEF TakenIsRunning
<1>3. ASSUME NEW p \in Proc, NEW t \in Time, PutsAt(p, t) PROVE TakenIsRunning'
  BY <1>1, <1>3, OneScheduled DEF PutsAt, Stay, coVars
<1>4. ASSUME NEW p \in Proc, NEW q \in Proc, NEW w, PutsNear(p, q, w) PROVE TakenIsRunning'
  BY <1>1, <1>4, OneScheduled DEF PutsNear, Stay, coVars
<1>5. ASSUME NEW p \in Proc, TakesOff(p) PROVE TakenIsRunning'
  BY <1>1, <1>5, SomeForgotten DEF TakesOff, Unschedule
<1>6. ASSUME NEW p \in Proc, GivesUp(p) PROVE TakenIsRunning'
  <2>1. current = p /\ p \in Queue(sqsOf[p])
    BY <1>6, RunningTime DEF GivesUp
  <2>2. p \notin dispatched' /\ dispatched' \subseteq dispatched
    BY <1>6, <2>1, OneScheduled, SomeForgotten DEF GivesUp, Unschedule
  <2> QED BY <2>1, <2>2 DEF TakenIsRunning
<1>7. ASSUME NEW p \in Proc, NewProcess(p) PROVE TakenIsRunning'
  BY <1>1, <1>7 DEF NewProcess, New, evVars
<1>8. ASSUME NEW s \in Sqs, BeginLevel(s) PROVE TakenIsRunning'
  BY <1>1, <1>8 DEF BeginLevel, New, evVars
<1>9. ASSUME NEW s \in Sqs, Drops(s) PROVE TakenIsRunning'
  BY <1>1, <1>9, SomeForgotten DEF Drops
<1>10. ASSUME NEW s \in Sqs, Ends(s) PROVE TakenIsRunning'
  BY <1>2, <1>10 DEF Ends, evVars
<1>11. ASSUME NEW s \in Sqs, Runs(s) PROVE TakenIsRunning'
  <2>1. current \notin Proc
    BY <1>11, PartsAssumption, NullAssumption DEF Runs, NobodyNests, CoInv, CoTypeOK
  <2> QED BY <1>2, <1>11, <2>1, PartsAssumption DEF Runs, evVars, All
<1>12. ASSUME NEW s \in Sqs, NEW p \in Proc, Takes(s, p) PROVE TakenIsRunning'
  BY <1>0, <1>12, PartsAssumption DEF Takes, TakenIsRunning, NobodyNests
<1>13. CASE Idles
  BY <1>1, <1>13 DEF Idles, evVars
<1> QED BY <1>3, <1>4, <1>5, <1>6, <1>7, <1>8, <1>9, <1>10, <1>11, <1>12, <1>13, StepKinds

\* A notice for p at a time nobody can call past.
LEMMA PutNotBehind ==
  ASSUME KernelInv, NobodyNests, StartedIsRun, NotBehindClock, current \notin Sqs,
         NEW p \in Proc, NEW t \in Time, NotBefore(p, t),
         sqsOf[p] \in Sqs \cap alive, ~terminated[sqsOf[p]]
  PROVE  clock[sqsOf[p]] <= t
<1> USE DEF KernelInv, ControlInv
<1> DEFINE s == sqsOf[p]
<1>1. CASE curProc[s] = NULL
  BY <1>1 DEF NotBehindClock, Time
<1>2. CASE curProc[s] # NULL
  <2>1. caller[s] # NULL
    BY <1>2 DEF StartedIsRun
  <2>2. callee[Main] = s /\ current # Main
    BY <2>1, OneScheduler
  <2>3. current \in Proc /\ sqsOf[current] = s
    BY <2>2, OneScheduler, PartsAssumption DEF CoInv, CoTypeOK, All
  <2>4. /\ current \in Queue(s) /\ ev[current] \in Time
        /\ TimeFault(s) = "ok" /\ Now(s) = ev[current]
    BY <2>3, RunningTime
  <2>5. clock[s] <= ev[current] /\ ev[current] <= t /\ clock[s] \in Time
    BY <2>4 DEF NotBehindClock, NotBefore, Time, KernelTypeOK
  <2> QED BY <2>4, <2>5, MaxTimeAssumption DEF Time
<1> QED BY <1>1, <1>2

LEMMA NotBehindClockStep ==
  ASSUME KernelInv, NobodyNests, StartedIsRun, NotBehindClock, Next
  PROVE  NotBehindClock'
<1> USE DEF KernelInv, ControlInv
<1>0. \A s \in Sqs : s \in All /\ s \notin Proc
  BY PartsAssumption DEF All
<1>1. ASSUME alive' \subseteq alive, UNCHANGED <<sqsOf, simVars>>,
             \A s \in Sqs : ~terminated'[s] => ~terminated[s],
             \A q \in queued' : q \in queued /\ ev'[q] = ev[q]
      PROVE  NotBehindClock'
  BY <1>1 DEF NotBehindClock, Queue, simVars
<1>2. ASSUME NEW p \in Proc, NEW t, UNCHANGED <<alive, sqsOf, simVars>>,
             \A s \in Sqs : ~terminated'[s] => ~terminated[s],
             ev'[p] = t, \A r \in Proc \ {p} : ev'[r] = ev[r], queued' = queued \cup {p},
             sqsOf[p] \in Sqs \cap alive /\ ~terminated[sqsOf[p]] => clock[sqsOf[p]] <= t
      PROVE  NotBehindClock'
  <2> SUFFICES ASSUME NEW s \in Sqs \cap alive, ~terminated[s], NEW q \in Queue(s)'
               PROVE  clock[s] <= ev'[q]
    BY <1>2 DEF NotBehindClock, simVars
  <2>1. CASE q = p
    BY <1>2, <2>1 DEF Queue
  <2>2. CASE q # p
    <3>1. q \in Queue(s) /\ q \in Proc
      BY <1>2, <2>2 DEF Queue, NoticesInv, NoticesTypeOK
    <3> QED BY <1>2, <2>2, <3>1 DEF NotBehindClock
  <2> QED BY <2>1, <2>2
<1>3. ASSUME NEW p \in Proc, NEW t \in Time, PutsAt(p, t) PROVE NotBehindClock'
  <2>1. sqsOf[p] \in Sqs \cap alive /\ ~terminated[sqsOf[p]] => clock[sqsOf[p]] <= t
    BY <1>3, PutNotBehind DEF PutsAt
  <2>2. UNCHANGED <<alive, terminated, sqsOf, simVars>>
    BY <1>3 DEF PutsAt, Stay, coVars, progVars
  <2> QED BY <1>2, <1>3, <2>1, <2>2, OneScheduled DEF PutsAt
<1>4. ASSUME NEW p \in Proc, NEW q \in Proc, NEW w, PutsNear(p, q, w) PROVE NotBehindClock'
  <2>1. sqsOf[p] \in Sqs \cap alive /\ ~terminated[sqsOf[p]] => clock[sqsOf[p]] <= ev[q]
    BY <1>4 DEF PutsNear, NotBehindClock
  <2>2. UNCHANGED <<alive, terminated, sqsOf, simVars>>
    BY <1>4 DEF PutsNear, Stay, coVars, progVars
  <2>3. /\ ev'[p] = ev[q] /\ queued' = queued \cup {p}
        /\ \A r \in Proc \ {p} : ev'[r] = ev[r]
    BY <1>4, OneScheduled DEF PutsNear
  <2> QED BY <1>2, <2>1, <2>2, <2>3
<1>5. ASSUME NEW p \in Proc, TakesOff(p) PROVE NotBehindClock'
  <2>1. /\ queued' = queued \ {p} /\ \A r \in Proc \ {p} : ev'[r] = ev[r]
    BY <1>5, SomeForgotten DEF TakesOff, Unschedule
  <2> QED BY <1>1, <1>5, <2>1 DEF TakesOff, progVars, NoticesInv, NoticesTypeOK
<1>6. ASSUME NEW p \in Proc, GivesUp(p) PROVE NotBehindClock'
  <2>1. UNCHANGED <<alive, sqsOf, simVars>> /\ \A s \in Sqs : terminated'[s] = terminated[s]
    BY <1>0, <1>6, GivenUp
  <2>2. ASSUME NEW t \in Time, NotBefore(p, t), ScheduleAt(p, t) PROVE NotBehindClock'
    <3>1. sqsOf[p] \in Sqs \cap alive /\ ~terminated[sqsOf[p]] => clock[sqsOf[p]] <= t
      BY <1>6, <2>2, PartsAssumption, PutNotBehind DEF GivesUp
    <3> QED BY <1>2, <2>1, <2>2, <3>1, OneScheduled
  <2>3. CASE Unschedule(p) \/ (Forget(Queue(sqsOf[p])) /\ UNCHANGED ev)
    <3>1. \A q \in queued' : q \in queued /\ ev'[q] = ev[q]
      BY <2>3, SomeForgotten DEF Unschedule, NoticesInv, NoticesTypeOK
    <3> QED BY <1>1, <2>1, <3>1
  <2> QED BY <1>6, <2>2, <2>3 DEF GivesUp
<1>7. ASSUME NEW p \in Proc, NewProcess(p) PROVE NotBehindClock'
  <2>1. /\ p \notin queued /\ alive' = alive \cup {p} /\ UNCHANGED <<simVars, queued, ev>>
        /\ \A s \in Sqs : terminated'[s] = terminated[s]
        /\ \A q \in Proc \ {p} : sqsOf'[q] = sqsOf[q]
    BY <1>0, <1>7 DEF NewProcess, New, evVars, KernelTypeOK, QueuedLive, CoInv, CoTypeOK
  <2>2. \A s \in Sqs : Queue(s)' = Queue(s)
    BY <2>1 DEF Queue, NoticesInv, NoticesTypeOK
  <2> QED BY <1>0, <2>1, <2>2 DEF NotBehindClock, simVars
<1>8. ASSUME NEW s \in Sqs, BeginLevel(s) PROVE NotBehindClock'
  <2>1. /\ alive' = alive \cup {s} /\ UNCHANGED <<queued, ev, sqsOf>>
        /\ curProc'[s] = NULL /\ clock'[s] = 0 /\ Queue(s) = {}
        /\ \A r \in Sqs \ {s} : /\ terminated'[r] = terminated[r]
                                /\ curProc'[r] = curProc[r] /\ clock'[r] = clock[r]
    BY <1>0, <1>8
       DEF BeginLevel, New, evVars, KernelTypeOK, CoInv, CoTypeOK, Queue, NoticesInv, NoticesTypeOK
  <2> QED BY <2>1 DEF NotBehindClock, Queue
<1>9. ASSUME NEW s \in Sqs, Drops(s) PROVE NotBehindClock'
  BY <1>1, <1>9, SomeForgotten DEF Drops
<1>10. ASSUME NEW s \in Sqs, Ends(s) PROVE NotBehindClock'
  BY <1>0, <1>1, <1>10 DEF Ends, progVars, evVars, CoInv, CoTypeOK
<1>11. ASSUME NEW s \in Sqs, Runs(s) PROVE NotBehindClock'
  BY <1>1, <1>11 DEF Runs, progVars, evVars
<1>12. ASSUME NEW s \in Sqs, NEW p \in Proc, Takes(s, p) PROVE NotBehindClock'
  <2>1. /\ UNCHANGED <<alive, terminated, sqsOf, queued, ev>> /\ p \in Firsts(before, Queue(s))
        /\ curProc' = [curProc EXCEPT ![s] = p] /\ clock' = [clock EXCEPT ![s] = ev[p]]
    BY <1>12 DEF Takes, progVars, FirstProc
  <2>2. \A r \in Queue(s) : ev[p] <= ev[r]
    <3>1. IsLine(before, Queue(s), ev) /\ \A r \in Queue(s) : ev[r] \in Nat
      BY DEF NoticesInv, NoticesTypeOK, LineOfEvents, Queue, Time
    <3> QED BY <2>1, <3>1, FirstOfLine
  <2>3. p # NULL
    BY PartsAssumption, NullAssumption
  <2>4. /\ curProc'[s] = p /\ clock'[s] = ev[p]
        /\ \A r \in Sqs \ {s} : curProc'[r] = curProc[r] /\ clock'[r] = clock[r]
    BY <2>1 DEF KernelTypeOK
  <2> QED BY <2>1, <2>2, <2>3, <2>4 DEF NotBehindClock, Queue
<1>13. CASE Idles
  BY <1>1, <1>13 DEF Idles, progVars, evVars
<1> QED BY <1>3, <1>4, <1>5, <1>6, <1>7, <1>8, <1>9, <1>10, <1>11, <1>12, <1>13, StepKinds

LEMMA DanglingStep ==
  ASSUME KernelInv, NobodyNests, UnbornIdle, DanglingMeansOver, Next
  PROVE  DanglingMeansOver'
<1> USE DEF KernelInv, ControlInv
<1> DEFINE Gone(s) == s \notin alive \/ terminated[s]
<1>0. /\ \A s \in Sqs : s \in All /\ s \notin Proc /\ s # NULL
      /\ \A p \in Proc : sqsOf[p] \in Sqs \/ sqsOf[p] \notin alive'
  <2>1. \A c \in alive' : c # NULL
    BY NullAssumption, KernelInvStep DEF CoInv, CoTypeOK
  <2> QED BY <2>1, PartsAssumption, NullAssumption DEF KernelTypeOK, All
<1>1. ASSUME \A p \in Proc : Dangling(p)' =>
               \/ Dangling(p) /\ sqsOf'[p] = sqsOf[p]
               \/ Gone(sqsOf[p])' \/ (current' = sqsOf'[p] /\ Queue(sqsOf[p])' = {}),
             \A s \in Sqs : Gone(s) /\ (\E p \in Proc : sqsOf[p] = s) => Gone(s)',
             \A s \in Sqs : current = s /\ Queue(s) = {} => Gone(s)'
      PROVE  DanglingMeansOver'
  <2> SUFFICES ASSUME NEW p \in Proc, Dangling(p)'
               PROVE  Gone(sqsOf[p])' \/ (current' = sqsOf'[p] /\ Queue(sqsOf[p])' = {})
    BY DEF DanglingMeansOver
  <2>1. CASE Dangling(p) /\ sqsOf'[p] = sqsOf[p]
    <3>1. Gone(sqsOf[p]) \/ (current = sqsOf[p] /\ Queue(sqsOf[p]) = {})
      BY <2>1 DEF DanglingMeansOver
    <3> QED BY <1>0, <1>1, <2>1, <3>1
  <2> QED BY <1>1, <2>1
<1> HIDE DEF Gone
<1>2. ASSUME current \notin Sqs, UNCHANGED sqsOf, alive' \subseteq alive,
             \A s \in Sqs : terminated'[s] = terminated[s],
             \A p \in Proc : Dangling(p)' =>
               Dangling(p) \/ Gone(sqsOf[p])' \/ (current' = sqsOf'[p] /\ Queue(sqsOf[p])' = {})
      PROVE  DanglingMeansOver'
  BY <1>1, <1>2 DEF Gone
<1>3. ASSUME NEW p \in Proc, NEW t \in Time, PutsAt(p, t) PROVE DanglingMeansOver'
  BY <1>2, <1>3, OneScheduled DEF PutsAt, Stay, coVars, progVars, Dangling
<1>4. ASSUME NEW p \in Proc, NEW q \in Proc, NEW w, PutsNear(p, q, w) PROVE DanglingMeansOver'
  BY <1>2, <1>4, OneScheduled DEF PutsNear, Stay, coVars, progVars, Dangling
<1>5. ASSUME NEW p \in Proc, Unschedule(p) PROVE \A q \in Proc : Dangling(q)' => Dangling(q)
  <2>1. queued' = queued \ {p} /\ ev'[p] = NULL /\ \A q \in Proc \ {p} : ev'[q] = ev[q]
    BY <1>5 DEF Unschedule, Forget, NoticesInv, NoticesTypeOK
  <2> QED BY <2>1 DEF Dangling
<1>6. ASSUME NEW p \in Proc, TakesOff(p) PROVE DanglingMeansOver'
  BY <1>2, <1>5, <1>6 DEF TakesOff, progVars
<1>7. ASSUME NEW p \in Proc, GivesUp(p) PROVE DanglingMeansOver'
  <2>1. /\ UNCHANGED <<alive, sqsOf>> /\ current \notin Sqs /\ current' = sqsOf[p]
        /\ \A s \in Sqs : terminated'[s] = terminated[s]
    BY <1>0, <1>7, GivenUp, GivenToScheduler DEF GivesUp, Detach, Finish
  <2>2. CASE \E t \in Time : ScheduleAt(p, t)
    BY <1>2, <2>1, <2>2, OneScheduled DEF Dangling
  <2>3. CASE Unschedule(p)
    BY <1>2, <1>5, <2>1, <2>3
  <2>4. CASE Forget(Queue(sqsOf[p])) /\ UNCHANGED ev
    <3>1. queued' = queued \ Queue(sqsOf[p])
      BY <2>4 DEF Forget
    <3>2. Queue(sqsOf[p])' = {}
      BY <2>1, <3>1 DEF Queue
    <3>3. \A q \in Proc : Dangling(q)' => Dangling(q) \/ sqsOf[q] = sqsOf[p]
      BY <2>4, <3>1 DEF Dangling, Queue
    <3>4. \A q \in Proc : sqsOf[q] = sqsOf[p] => current' = sqsOf'[q] /\ Queue(sqsOf[q])' = {}
      BY <2>1, <3>2 DEF Queue
    <3> QED BY <1>2, <2>1, <3>3, <3>4
  <2> QED BY <1>7, <2>2, <2>3, <2>4 DEF GivesUp
<1>8. ASSUME NEW p \in Proc, NewProcess(p) PROVE DanglingMeansOver'
  <2>1. /\ p \notin alive /\ alive' = alive \cup {p} /\ current \notin Sqs /\ UNCHANGED <<ev, queued>>
        /\ \A s \in Sqs : terminated'[s] = terminated[s]
        /\ \A q \in Proc \ {p} : sqsOf'[q] = sqsOf[q]
    BY <1>0, <1>8 DEF NewProcess, User, New, evVars, KernelTypeOK, CoInv, CoTypeOK
  <2>2. \A q \in Proc : Dangling(q)' => Dangling(q) /\ q # p
    BY <2>1 DEF Dangling, UnbornIdle
  <2> QED BY <1>0, <1>1, <2>1, <2>2 DEF Gone
<1>9. ASSUME NEW s \in Sqs, BeginLevel(s) PROVE DanglingMeansOver'
  <2>1. /\ alive' = alive \cup {s} /\ current \notin Sqs /\ UNCHANGED <<sqsOf, ev, queued>>
        /\ \A r \in Sqs \ {s} : terminated'[r] = terminated[r]
        /\ \A p \in Proc : sqsOf[p] # s
    BY <1>0, <1>9 DEF BeginLevel, User, New, evVars, CoInv, CoTypeOK
  <2>2. \A q \in Proc : Dangling(q)' => Dangling(q)
    BY <2>1 DEF Dangling
  <2> QED BY <1>0, <1>1, <2>1, <2>2 DEF Gone
<1>10. ASSUME NEW s \in Sqs, Drops(s) PROVE DanglingMeansOver'
  <2>1. queued' = queued \ Queue(s) /\ UNCHANGED ev
    BY <1>10 DEF Drops, Forget
  <2>2. \A q \in Proc : Dangling(q)' => Dangling(q) \/ sqsOf[q] = s
    BY <2>1 DEF Dangling, Queue
  <2>3. \A q \in Proc : sqsOf[q] = s => Gone(sqsOf[q])'
    BY <1>10 DEF Drops, Gone
  <2> QED BY <1>2, <1>10, <2>2, <2>3 DEF Drops
<1>11. ASSUME NEW s \in Sqs, Runs(s) PROVE DanglingMeansOver'
  BY <1>2, <1>11 DEF Runs, evVars, progVars, Dangling
<1>12. ASSUME NEW s \in Sqs, Ends(s) PROVE DanglingMeansOver'
  <2>1. /\ current = s /\ UNCHANGED <<alive, sqsOf, ev, queued>>
        /\ terminated'[s] = TRUE /\ \A r \in Sqs \ {s} : terminated'[r] = terminated[r]
    BY <1>0, <1>12 DEF Ends, progVars, evVars, CoInv, CoTypeOK
  <2> QED BY <1>0, <1>1, <2>1 DEF Gone, Dangling
<1>13. ASSUME NEW s \in Sqs, NEW p \in Proc, Takes(s, p) PROVE DanglingMeansOver'
  <2>1. /\ current = s /\ Queue(s) # {} /\ UNCHANGED <<alive, terminated, sqsOf, ev, queued>>
    BY <1>13 DEF Takes, progVars, FirstProc, Firsts
  <2> QED BY <1>0, <1>1, <2>1 DEF Gone, Dangling
<1>14. CASE Idles
  BY <1>14 DEF Idles, evVars, progVars, DanglingMeansOver, Dangling, Queue
<1> QED BY <1>3, <1>4, <1>6, <1>7, <1>8, <1>9, <1>10, <1>11, <1>12, <1>13, <1>14, StepKinds

THEOREM FlatInvariant == Spec /\ []NobodyNests => []FlatInv
<1>1. Init => FlatInv
  BY PartsAssumption, MainAssumption, NullAssumption
     DEF Init, CoInit, FlatInv, TakenIsRunning, NotBehindClock, DanglingMeansOver, Dangling
<1>2. KernelInv /\ LevelInv /\ FlatInv /\ NobodyNests /\ NobodyNests' /\ [Next]_vars => FlatInv'
  <2>1. ASSUME KernelInv, LevelInv, FlatInv, NobodyNests, NobodyNests', Next PROVE FlatInv'
    BY <2>1, TakenIsRunningStep, NotBehindClockStep, DanglingStep DEF FlatInv, LevelInv
  <2>2. CASE UNCHANGED vars
    BY <2>2 DEF vars, coVars, evVars, progVars, simVars, FlatInv,
                TakenIsRunning, NotBehindClock, DanglingMeansOver, Dangling, Queue
  <2> QED BY <2>1, <2>2
<1> QED BY <1>1, <1>2, KernelInvariant, LevelInvariant, PTL DEF Spec

\* DanglingMeansOver: remove is never called on a notice that clear( ) has
\* deleted, unless the simulation is over.
THEOREM DanglingAlwaysMeansOver == Spec /\ []NobodyNests => []DanglingMeansOver
<1>1. FlatInv => DanglingMeansOver
  BY DEF FlatInv
<1> QED BY <1>1, FlatInvariant, PTL

\* RunReturnsWhenOver: run( ) does not return to the main program before the
\* simulation has ended.
THEOREM RunAlwaysReturnsWhenOver == Spec /\ []NobodyNests => []RunReturnsWhenOver
<1>1. KernelInv /\ LevelInv /\ NobodyNests => RunReturnsWhenOver
  <2> SUFFICES ASSUME KernelInv, LevelInv, NobodyNests, current = Main
               PROVE  \A s \in Sqs : s \in alive /\ curProc[s] # NULL => terminated[s]
    BY DEF RunReturnsWhenOver
  <2>1. \A s \in Sqs : caller[s] = NULL
    BY OneScheduler
  <2> QED BY <2>1 DEF LevelInv, StartedIsRun
<1> QED BY <1>1, KernelInvariant, LevelInvariant, PTL

\* TimeIsMonotone: whatever the processes do to their notices and to those of
\* others, no scheduler takes a notice of a time that has gone by.
THEOREM TimeAlwaysMonotone == Spec /\ []NobodyNests => TimeIsMonotone
<1>1. ASSUME KernelInv, FlatInv, Next, NEW s \in Sqs, s \in alive, s \in alive'
      PROVE  clock'[s] >= clock[s]
  <2> USE <1>1
  <2>1. clock[s] \in Nat
    BY DEF KernelInv, ControlInv, KernelTypeOK, Time
  <2>2. CASE clock' = clock
    BY <2>1, <2>2
  <2>3. ASSUME NEW r \in Sqs, BeginLevel(r) PROVE clock'[s] = clock[s]
    BY <2>3 DEF BeginLevel, New, KernelInv, ControlInv, KernelTypeOK
  <2>4. ASSUME NEW r \in Sqs, NEW p \in Proc, Takes(r, p) PROVE clock'[s] >= clock[s]
    <3>1. CASE r = s
      <4>1. current = s /\ p \in Queue(s) /\ clock'[s] = ev[p] /\ ev[p] \in Nat
        BY <2>4, <3>1
           DEF Takes, FirstProc, Firsts, Queue, Time, KernelInv, ControlInv, KernelTypeOK,
               NoticesInv, NoticesTypeOK
      <4>2. ~terminated[s]
        BY <4>1 DEF KernelInv, CoInv, CurrentIsLeaf
      <4>3. clock[s] <= ev[p]
        BY <4>1, <4>2 DEF FlatInv, NotBehindClock
      <4> QED BY <2>1, <4>1, <4>3
    <3>2. CASE r # s
      BY <2>1, <2>4, <3>2 DEF Takes, KernelInv, ControlInv, KernelTypeOK
    <3> QED BY <3>1, <3>2
  <2>5. CASE \E p \in Proc : NewProcess(p) \/ TakesOff(p) \/ GivesUp(p)
    BY <2>2, <2>5 DEF NewProcess, TakesOff, GivesUp, simVars
  <2>6. CASE Idles \/ Stay
    BY <2>2, <2>6 DEF Idles, Stay, simVars
  <2>7. CASE \E r \in Sqs : Ends(r) \/ Drops(r) \/ Runs(r)
    BY <2>2, <2>7 DEF Ends, Drops, Runs, simVars
  <2> QED BY <2>1, <2>3, <2>4, <2>5, <2>6, <2>7, StepKinds DEF PutsAt, PutsNear
<1>2. KernelInv /\ FlatInv /\ [Next]_vars =>
        [\A s \in Sqs : s \in alive /\ s \in alive' => clock'[s] >= clock[s]]_vars
  BY <1>1
<1> QED BY <1>2, KernelInvariant, FlatInvariant, PTL DEF Spec, TimeIsMonotone

\* NoticeTakenOnce: _processed counts every notice once.
THEOREM NoticesAlwaysTakenOnce == Spec /\ []NobodyNests => NoticeTakenOnce
<1>1. ASSUME KernelInv, FlatInv, NEW s \in Sqs, current = s, NEW p \in dispatched
      PROVE  FALSE
  BY <1>1, PartsAssumption DEF KernelInv, NoticesInv, NoticesTypeOK, FlatInv, TakenIsRunning
<1>2. KernelInv /\ FlatInv =>
        [\A s \in Sqs, p \in Proc :
           current = s /\ p \in dispatched' /\ curProc'[s] = p /\ Queue(s) # {}
             => p \notin dispatched]_vars
  BY <1>1
<1> QED BY <1>2, KernelInvariant, FlatInvariant, PTL DEF NoticeTakenOnce

\* ControlToOwnScheduler: a process that gives up control gives it to the
\* sequencing set it is bound to.
THEOREM ControlAlwaysToOwnScheduler == Spec /\ []NobodyNests => ControlToOwnScheduler
<1>1. ASSUME KernelInv, NobodyNests, Next, NEW p \in Proc,
             current = p, current' # p, callee'[p] = NULL
      PROVE  current' = sqsOf[p]
  <2> USE <1>1
  <2>0. p \notin Sqs /\ \A s \in Sqs : s # NULL
    BY PartsAssumption, NullAssumption
  <2>1. CASE \E q \in Proc : GivesUp(q)
    BY <2>1, GivenToScheduler DEF GivesUp, Detach, Finish
  <2>2. ASSUME NEW s \in Sqs, Runs(s) PROVE FALSE
    BY <2>0, <2>2 DEF Runs, KernelInv, CoInv, CoTypeOK
  <2>3. CASE \E s \in Sqs : Ends(s) \/ \E q \in Proc : Takes(s, q)
    BY <2>0, <2>3 DEF Ends, Takes
  <2>4. CASE \E q \in Proc : NewProcess(q) \/ TakesOff(q)
    BY <2>4 DEF NewProcess, New, TakesOff
  <2>5. CASE \E s \in Sqs : BeginLevel(s) \/ Drops(s)
    BY <2>5 DEF BeginLevel, New, Drops
  <2>6. CASE Idles \/ Stay
    BY <2>6 DEF Idles, Stay, coVars
  <2> QED BY <2>1, <2>2, <2>3, <2>4, <2>5, <2>6, StepKinds DEF PutsAt, PutsNear
<1>2. KernelInv /\ NobodyNests /\ [Next]_vars =>
        [\A p \in Proc : current = p /\ current' # p /\ callee'[p] = NULL
                           => current' = sqsOf[p]]_vars
  BY <1>1
<1> QED BY <1>2, KernelInvariant, PTL DEF Spec, ControlToOwnScheduler

\* In a program with a single sequencing set nobody can nest: run of the level
\* that is being run is refused (coroutine.cc:267-271).
THEOREM OneLevelIsFlat ==
  ASSUME \A r, s \in Sqs : r = s
  PROVE  Spec => []NobodyNests
<1>1. Init => NobodyNests
  BY PartsAssumption DEF Init, CoInit, NobodyNests, All
<1>2. ASSUME KernelInv, NobodyNests, Next PROVE NobodyNests'
  <2> USE <1>2 DEF KernelInv, ControlInv
  <2>1. CASE callee' = callee
    BY <2>1 DEF NobodyNests
  <2>2. ASSUME NEW s \in Sqs, Runs(s) PROVE NobodyNests'
    <3>1. current \notin Proc
      BY <2>2 DEF Runs, ControlIsGiven, HasControl
    <3> QED BY <2>2, <3>1 DEF Runs, NobodyNests, CoInv, CoTypeOK
  <2>3. ASSUME NEW s \in Sqs, Ends(s) PROVE NobodyNests'
    BY <2>3, PartsAssumption DEF Ends, NobodyNests, CoInv, CoTypeOK, All
  <2>4. ASSUME NEW p \in Proc, GivesUp(p) PROVE NobodyNests'
    BY <2>1, <2>4, GivenUp DEF links
  <2>5. CASE \E p \in Proc : NewProcess(p) \/ TakesOff(p)
    BY <2>1, <2>5 DEF NewProcess, New, TakesOff, links
  <2>6. CASE \E s \in Sqs : BeginLevel(s) \/ Drops(s) \/ \E p \in Proc : Takes(s, p)
    BY <2>1, <2>6 DEF BeginLevel, New, Drops, Takes, links
  <2>7. CASE Idles \/ Stay
    BY <2>1, <2>7 DEF Idles, Stay, coVars, links
  <2> QED BY <2>2, <2>3, <2>4, <2>5, <2>6, <2>7, StepKinds DEF PutsAt, PutsNear
<1>3. KernelInv /\ NobodyNests /\ [Next]_vars => NobodyNests'
  <2>1. CASE UNCHANGED vars
    BY <2>1 DEF vars, coVars, NobodyNests
  <2> QED BY <1>2, <2>1
<1> QED BY <1>1, <1>3, KernelInvariant, PTL DEF Spec

-----------------------------------------------------------------------------
(***************************************************************************)
(* Ownership, for any number of processes, sequencing sets, levels and     *)
(* variables.  A program with handles does nothing that Process does not   *)
(* allow (HandlesImplementKernel), so all that is shown above holds of it. *)
(* On top of that, OwnInv: the notices that are forgotten are the dangling *)
(* ones, and what has been deleted has no handle.                          *)
(***************************************************************************)


HandleTypes ==
  /\ var \in [Var -> Proc \cup {NULL}]
  /\ local \in [Proc -> Proc \cup {NULL}]

\* Nobody but the processes that have a notice of a list that let it go
ForgottenDangles == forgotten = {p \in Proc : Dangling(p)}

DeletedHasNoHandle == \A p \in deleted : p \in Proc /\ p \in alive /\ ~Kept(p)

OwnInv == HandleTypes /\ ForgottenDangles /\ DeletedHasNoHandle

\* A step inserts no notice but of p, and loses none.
QuietAt(p) ==
  /\ queued' \subseteq queued \cup {p}
  /\ {q \in Proc : Dangling(q)}' = {q \in Proc : Dangling(q)}

\* A step deletes no process, and makes no process current that has no handle.
NoNewUser ==
  /\ alive \cap Proc \subseteq alive'
  /\ \A s \in Sqs \cap alive' :
       \/ curProc'[s] = NULL
       \/ curProc'[s] \in queued
       \/ s \in alive /\ curProc'[s] = curProc[s]

-----------------------------------------------------------------------------
(***************************************************************************)
(* The program with handles is a program of the kernel                     *)
(***************************************************************************)

LEMMA CallOnIsNext ==
  ASSUME NEW p, CallOn(p)
  PROVE  Next /\ p \in Proc
<1>1. CASE Activate(p) \/ Reactivate(p) \/ Cancel(p)
  BY <1>1 DEF Next, Activate, Reactivate, Cancel, Calls, Usable
<1>2. CASE \E t \in Time : ActivateAt(p, t) \/ ReactivateAt(p, t)
  BY <1>2 DEF Next, ActivateAt, ReactivateAt, Calls, Usable
<1>3. CASE \E dt \in Time : ActivateDelay(p, dt) \/ ReactivateDelay(p, dt)
  BY <1>3 DEF Next, ActivateDelay, ReactivateDelay, Calls, Usable
<1>4. CASE \E q \in Named, w \in Places : ActivateNear(p, q, w) \/ ReactivateNear(p, q, w)
  <2>1. PICK q \in Named, w \in Places : ActivateNear(p, q, w) \/ ReactivateNear(p, q, w)
    BY <1>4
  <2>2. p \in Proc /\ q \in Proc
    BY <2>1 DEF ActivateNear, ReactivateNear, Calls, Usable
  <2> QED BY <2>1, <2>2 DEF Next
<1> QED BY <1>1, <1>2, <1>3, <1>4 DEF CallOn

\* Every step of a program with handles is a step of Process, or a stutter:
\* what is proved of all programs of the kernel holds of it.
THEOREM HandlesImplementKernel == OwnSpec => Spec
<1>1. OwnInit => Init
  BY DEF OwnInit
<1>2. [OwnNext]_allVars => [Next]_vars
  <2> SUFFICES ASSUME OwnNext PROVE [Next]_vars
    BY DEF allVars
  <2>1. CASE KernelStep
    BY <2>1, CallOnIsNext DEF KernelStep, Next
  <2>2. CASE \E p \in Proc : OwnEndSimulation(p) \/ OwnReturn(p) \/ Create(p)
    BY <2>2 DEF OwnEndSimulation, OwnReturn, Create, Next
  <2>3. CASE OwnEndLevel
    BY <2>3 DEF OwnEndLevel, Next
  <2>4. CASE Rebind
    BY <2>4 DEF Rebind
  <2> QED BY <2>1, <2>2, <2>3, <2>4 DEF OwnNext
<1> QED BY <1>1, <1>2, PTL DEF OwnSpec, Spec

-----------------------------------------------------------------------------
(***************************************************************************)
(* What the steps of the kernel do with notices and users                  *)
(***************************************************************************)

LEMMA QuietSchedule ==
  ASSUME KernelInv, NEW p \in Proc, ~Dangling(p), NEW t \in Time,
         ev' = [ev EXCEPT ![p] = t], queued' = queued \cup {p}
  PROVE  QuietAt(p)
BY NoNoticeAssumption DEF QuietAt, Dangling, KernelInv, NoticesInv, NoticesTypeOK

LEMMA QuietUnschedule ==
  ASSUME KernelInv, NEW p \in Proc, ~Dangling(p), Unschedule(p)
  PROVE  QuietAt(p)
BY DEF QuietAt, Dangling, Unschedule, Forget, KernelInv, NoticesInv, NoticesTypeOK

LEMMA QuietStand ==
  ASSUME NEW p, UNCHANGED <<ev, queued>>
  PROVE  QuietAt(p)
BY DEF QuietAt, Dangling

\* Control moves, but no process comes or goes.
LEMMA SameUsers ==
  ASSUME alive' = alive, curProc' = curProc
  PROVE  NoNewUser
BY DEF NoNewUser

LEMMA AbortQuiet ==
  ASSUME NEW p, NEW why, Abort(why)
  PROVE  QuietAt(p) /\ NoNewUser
BY QuietStand, SameUsers DEF Abort, Halt, evVars, simVars

LEMMA DetachKeeps ==
  ASSUME NEW p, Detach(p) \/ Finish(p)
  PROVE  alive' = alive
BY DEF Detach, Finish, Leave, EnterLeaf, Enter, Halt, links

LEMMA StayKeeps ==
  ASSUME Stay
  PROVE  NoNewUser
BY SameUsers DEF Stay, coVars, simVars

LEMMA InsertIfIdleQuiet ==
  ASSUME KernelInv, NEW p \in Usable, NEW t \in Time, InsertIfIdle(p, t)
  PROVE  QuietAt(p) /\ NoNewUser
<1>1. p \in Proc
  BY UsableProc
<1>2. CASE ev[p] # NULL /\ Stay /\ UNCHANGED evVars
  BY <1>2, QuietStand, StayKeeps DEF evVars
<1>3. CASE Abort("insert terminated")
  BY <1>3, AbortQuiet
<1>4. CASE ev[p] = NULL /\ ScheduleAt(p, t) /\ Stay
  BY <1>1, <1>4, QuietSchedule, StayKeeps DEF ScheduleAt, Dangling
<1> QED BY <1>2, <1>3, <1>4 DEF InsertIfIdle

LEMMA ReinsertQuiet ==
  ASSUME KernelInv, NEW p \in Usable, NEW t \in Time, Reinsert(p, t)
  PROVE  QuietAt(p) /\ NoNewUser
<1>1. p \in Proc
  BY UsableProc
<1>2. CASE \E why \in ProcessOutcomes : Abort(why)
  BY <1>2, AbortQuiet
<1>3. CASE ~Dangling(p) /\ ScheduleAt(p, t) /\ Stay
  BY <1>1, <1>3, QuietSchedule, StayKeeps DEF ScheduleAt
<1> QED BY <1>2, <1>3 DEF Reinsert, ProcessOutcomes

LEMMA InsertNearQuiet ==
  ASSUME KernelInv, NEW p \in Usable, ~Dangling(p), NEW q \in Proc, NEW where,
         InsertNear(p, q, where)
  PROVE  QuietAt(p) /\ NoNewUser
<1>1. p \in Proc
  BY UsableProc
<1>2. CASE \E why \in ProcessOutcomes : Abort(why)
  BY <1>2, AbortQuiet
<1>3. CASE q \in Queue(sqsOf[p]) /\ ScheduleNear(p, q, where) /\ Stay
  <2>1. ev[q] \in Time
    BY <1>3 DEF Queue, KernelInv, NoticesInv, NoticesTypeOK
  <2> QED BY <1>1, <1>3, <2>1, QuietSchedule, StayKeeps DEF ScheduleNear
<1> QED BY <1>2, <1>3 DEF InsertNear, ProcessOutcomes

LEMMA CancelQuiet ==
  ASSUME KernelInv, NEW p \in Proc, Cancel(p)
  PROVE  QuietAt(p) /\ NoNewUser
<1>1. CASE Stay /\ UNCHANGED evVars
  BY <1>1, QuietStand, StayKeeps DEF evVars
<1>2. CASE Abort("undefined")
  BY <1>2, AbortQuiet
<1>3. CASE p \in queued /\ Unschedule(p) /\ UNCHANGED simVars /\ (UNCHANGED coVars \/ Detach(p))
  <2>1. QuietAt(p)
    BY <1>3, QuietUnschedule DEF Dangling
  <2>2. NoNewUser
    BY <1>3, DetachKeeps, SameUsers DEF simVars, coVars
  <2> QED BY <2>1, <2>2
<1> QED BY <1>1, <1>2, <1>3 DEF Cancel

\* A call on p inserts a notice of p at most.
LEMMA CallOnQuiet ==
  ASSUME KernelInv, NEW p \in Proc, CallOn(p)
  PROVE  QuietAt(p) /\ NoNewUser
<1>0. p \in Usable /\ sqsOf[p] \in Sqs
  BY UsableProc DEF CallOn, Activate, ActivateAt, ActivateDelay, ActivateNear,
        Reactivate, ReactivateAt, ReactivateDelay, ReactivateNear, Cancel, Calls
<1>1. CASE Activate(p) \/ Reactivate(p)
  BY <1>0, <1>1, NowIsTime, AbortQuiet, InsertIfIdleQuiet, ReinsertQuiet DEF Activate, Reactivate
<1>2. CASE \E t \in Time : ActivateAt(p, t) \/ ReactivateAt(p, t)
  BY <1>0, <1>2, AbortQuiet, InsertIfIdleQuiet, ReinsertQuiet DEF ActivateAt, ReactivateAt
<1>3. CASE \E dt \in Time : ActivateDelay(p, dt) \/ ReactivateDelay(p, dt)
  BY <1>0, <1>3, AbortQuiet, InsertIfIdleQuiet, ReinsertQuiet DEF ActivateDelay, ReactivateDelay
<1>4. CASE \E q \in Named, w \in Places : ActivateNear(p, q, w)
  <2>1. PICK q \in Named, w \in Places : ActivateNear(p, q, w)
    BY <1>4
  <2>2. q \in Proc
    BY <2>1 DEF ActivateNear, Usable
  <2>3. CASE ev[p] # NULL /\ Stay /\ UNCHANGED evVars
    BY <2>3, QuietStand, StayKeeps DEF evVars
  <2>4. CASE ev[p] = NULL /\ InsertNear(p, q, w)
    BY <1>0, <2>2, <2>4, InsertNearQuiet DEF Dangling
  <2> QED BY <2>1, <2>3, <2>4, AbortQuiet DEF ActivateNear
<1>5. CASE \E q \in Named, w \in Places : ReactivateNear(p, q, w)
  <2>1. PICK q \in Named, w \in Places : ReactivateNear(p, q, w)
    BY <1>5
  <2>2. q \in Proc
    BY <2>1 DEF ReactivateNear, Usable
  <2> QED BY <1>0, <2>1, <2>2, AbortQuiet, InsertNearQuiet DEF ReactivateNear
<1>6. CASE Cancel(p)
  BY <1>6, CancelQuiet
<1> QED BY <1>1, <1>2, <1>3, <1>4, <1>5, <1>6 DEF CallOn

\* hold and passivate give up control with a new notice or without one.
LEMMA SelfQuiet ==
  ASSUME KernelInv, NEW p \in Proc, Passivate(p) \/ \E dt \in Time : Hold(p, dt)
  PROVE  QuietAt(p) /\ NoNewUser
<1>1. Fault(p) = "ok" => ~Dangling(p)
  BY Zenon DEF Fault, Dangling
<1>2. CASE \E why : Abort(why)
  BY <1>2, AbortQuiet
<1>3. CASE Fault(p) = "ok" /\ Unschedule(p) /\ Detach(p) /\ UNCHANGED simVars
  BY <1>1, <1>3, QuietUnschedule, DetachKeeps, SameUsers DEF simVars
<1>4. CASE \E t \in Time : Fault(p) = "ok" /\ ScheduleAt(p, t) /\ Detach(p) /\ UNCHANGED simVars
  BY <1>1, <1>4, QuietSchedule, DetachKeeps, SameUsers DEF ScheduleAt, simVars
<1>5. CASE Passivate(p)
  BY <1>2, <1>3, <1>5 DEF Passivate
<1>6. CASE \E dt \in Time : Hold(p, dt)
  BY <1>2, <1>4, <1>6 DEF Hold
<1> QED BY <1>5, <1>6

\* sqs::main makes the process of a notice current; begin_simulation and run
\* bring in no process.
LEMMA LevelsQuiet ==
  ASSUME KernelInv, NEW p, Run \/ \E s \in Sqs : SqsStep(s) \/ BeginLevel(s)
  PROVE  QuietAt(p) /\ NoNewUser
<1>1. CASE Run
  BY <1>1, QuietStand, SameUsers DEF Run, Call, Halt, Enter, evVars, simVars
<1>2. CASE \E s \in Sqs : BeginLevel(s)
  <2>1. PICK s \in Sqs : BeginLevel(s)
    BY <1>2
  <2>2. /\ alive' = alive \cup {s} /\ s \notin alive
        /\ curProc' = [curProc EXCEPT ![s] = NULL]
    BY <2>1 DEF BeginLevel, New
  <2>3. NoNewUser
    BY <2>2 DEF NoNewUser, KernelInv, ControlInv, KernelTypeOK
  <2> QED BY <2>1, <2>3, QuietStand DEF BeginLevel, evVars
<1>3. CASE \E s \in Sqs : SqsStep(s)
  <2>1. PICK s \in Sqs : SqsStep(s)
    BY <1>3
  <2>2. CASE Finish(s) /\ UNCHANGED simVars
    BY <2>1, <2>2, DetachKeeps, QuietStand, SameUsers DEF SqsStep, simVars
  <2>3. CASE \E q \in FirstProc(s) : Resume(q) /\ curProc' = [curProc EXCEPT ![s] = q]
    <3>1. PICK q \in FirstProc(s) : Resume(q) /\ curProc' = [curProc EXCEPT ![s] = q]
      BY <2>3
    <3>2. q \in queued /\ alive' = alive
      BY <3>1 DEF FirstProc, Firsts, Queue, Resume, EnterLeaf, Enter, Halt, coVars
    <3>3. NoNewUser
      BY <3>1, <3>2 DEF NoNewUser, KernelInv, ControlInv, KernelTypeOK
    <3> QED BY <2>1, <3>3, QuietStand DEF SqsStep
  <2> QED BY <2>1, <2>2, <2>3 DEF SqsStep
<1> QED BY <1>1, <1>2, <1>3

-----------------------------------------------------------------------------
(***************************************************************************)
(* The inductive invariant                                                 *)
(***************************************************************************)

\* No variable and no local handle is bound to p.
Unnamed(p) == (\A v \in Var : var[v] # p) /\ (\A q \in Proc : local[q] # p)

\* What the program that runs can name is kept: it is bound to a variable, or
\* it has control, and then its notice is in the list.
LEMMA NamedKept ==
  ASSUME OwnInv, KernelInv, NEW p \in Named
  PROVE  p \in Proc /\ Kept(p)
<1>1. CASE \E v \in Var : var[v] = p
  BY <1>1 DEF Named, OwnInv, HandleTypes, Kept, Held
<1>2. CASE current \in Proc /\ p = local[current]
  BY <1>2 DEF Named, OwnInv, HandleTypes, Kept, Held
<1>3. CASE current \in Proc /\ p \in {current, curProc[sqsOf[current]]}
  BY <1>3 DEF KernelInv, ControlInv, ControlIsGiven, HasControl, Kept
<1> QED BY <1>1, <1>2, <1>3 DEF Named

\* Who runs is kept, by its sequencing set.
LEMMA RunningKept ==
  ASSUME KernelInv, current \in Proc
  PROVE  Held(current) /\ Kept(current)
BY DEF KernelInv, ControlInv, ControlIsGiven, HasControl, Kept, Held

\* Nothing that is kept has been deleted.
LEMMA KeptNotDeleted ==
  ASSUME OwnInv, NEW p, Kept(p)
  PROVE  p \notin deleted
BY DEF OwnInv, DeletedHasNoHandle

\* The part of every step: it binds no handle to what has been deleted, and
\* what it deletes is alive and has no handle.
LEMMA CollectInv ==
  ASSUME OwnInv, Collect, HandleTypes', ForgottenDangles',
         alive \cap Proc \subseteq alive',
         \A p \in deleted : ~Kept(p)'
  PROVE  OwnInv'
<1>1. DeletedHasNoHandle'
  BY DEF DeletedHasNoHandle, Collect, OwnInv
<1> QED BY <1>1 DEF OwnInv

\* Steps that let no notice go
LEMMA QuietInv ==
  ASSUME OwnInv, KernelInv, NEW p, p \notin deleted, QuietAt(p), NoNewUser,
         HandleTypes', \A q \in deleted : Unnamed(q)',
         UNCHANGED forgotten, Collect
  PROVE  OwnInv'
<1>1. ForgottenDangles'
  BY DEF ForgottenDangles, QuietAt, OwnInv
<1>2. ASSUME NEW q \in deleted
      PROVE  ~Kept(q)'
  <2>1. q \in Proc /\ ~Held(q) /\ q \notin queued /\ q \notin forgotten
    BY DEF OwnInv, DeletedHasNoHandle, Kept
  <2>2. \A s \in Sqs \cap alive' : curProc'[s] # q
    BY <2>1, NullAssumption, PartsAssumption DEF NoNewUser, Held
  <2>3. q \notin queued'
    BY <2>1 DEF QuietAt
  <2> QED BY <2>1, <2>2, <2>3 DEF Kept, Held, Unnamed
<1> QED BY <1>1, <1>2, CollectInv DEF NoNewUser

\* Steps that let the notices of a list go
LEMMA LetGoInv ==
  ASSUME OwnInv, KernelInv, NEW s, Forget(Queue(s)), LetGo(Queue(s)),
         UNCHANGED <<ev, curProc, var, local>>,
         alive \cap Proc \subseteq alive', alive' \subseteq alive, Collect
  PROVE  OwnInv'
<1>1. HandleTypes'
  BY DEF OwnInv, HandleTypes
<1>2. Queue(s) \subseteq queued /\ \A p \in queued : p \in Proc /\ ev[p] # NULL
  BY DEF Queue, KernelInv, NoticesInv, NoticesTypeOK
<1>3. ForgottenDangles'
  BY <1>2 DEF ForgottenDangles, Dangling, OwnInv, Forget, LetGo
<1>4. ASSUME NEW q \in deleted
      PROVE  ~Kept(q)'
  <2>1. ~Held(q) /\ q \notin queued /\ q \notin forgotten
    BY DEF OwnInv, DeletedHasNoHandle, Kept
  <2>2. ~Held(q)'
    BY <2>1 DEF Held
  <2>3. q \notin queued' /\ q \notin forgotten'
    BY <1>2, <2>1 DEF Forget, LetGo
  <2> QED BY <2>2, <2>3 DEF Kept
<1> QED BY <1>1, <1>3, <1>4, CollectInv

\* The handles stay as they are.
LEMMA SameHandles ==
  ASSUME OwnInv, UNCHANGED <<var, local>>
  PROVE  HandleTypes' /\ \A q \in deleted : Unnamed(q)'
BY DEF OwnInv, HandleTypes, DeletedHasNoHandle, Kept, Held, Unnamed

\* One handle is bound to what is not deleted, or to nothing.
LEMMA BindHandles ==
  ASSUME OwnInv, NEW p \in Proc \cup {NULL}, p \notin deleted, Bind(p)
  PROVE  HandleTypes' /\ \A q \in deleted : Unnamed(q)'
<1>1. HandleTypes'
  BY DEF OwnInv, HandleTypes, Bind
<1>2. \A q \in deleted : Unnamed(q)
  BY DEF OwnInv, DeletedHasNoHandle, Kept, Held, Unnamed
<1>3. \A q \in deleted : Unnamed(q)'
  BY <1>2 DEF OwnInv, HandleTypes, Bind, Unnamed
<1> QED BY <1>1, <1>3

\* The null pointer is not a process.
LEMMA NullNotDeleted ==
  ASSUME OwnInv
  PROVE  NULL \notin deleted
BY NullAssumption, PartsAssumption DEF OwnInv, DeletedHasNoHandle

LEMMA KernelStepInv ==
  ASSUME OwnInv, KernelInv, KernelStep
  PROVE  OwnInv'
<1>0. /\ HandleTypes' /\ \A q \in deleted : Unnamed(q)'
      /\ UNCHANGED forgotten /\ Collect
  BY SameHandles DEF KernelStep
<1>1. CASE \E p \in Named : CallOn(p)
  <2>1. PICK p \in Named : CallOn(p)
    BY <1>1
  <2>2. p \in Proc /\ p \notin deleted
    BY NamedKept, KeptNotDeleted
  <2>3. QuietAt(p) /\ NoNewUser
    BY <2>1, <2>2, CallOnQuiet
  <2> QED BY <1>0, <2>2, <2>3, QuietInv
<1>2. CASE \E p \in Proc : Passivate(p) \/ \E dt \in Time : Hold(p, dt)
  <2>1. PICK p \in Proc : Passivate(p) \/ \E dt \in Time : Hold(p, dt)
    BY <1>2
  <2>2. current = p
    BY <2>1 DEF Passivate, Hold, Self
  <2>3. p \notin deleted
    BY <2>2, RunningKept, KeptNotDeleted
  <2>4. QuietAt(p) /\ NoNewUser
    BY <2>1, SelfQuiet
  <2> QED BY <1>0, <2>3, <2>4, QuietInv
<1>3. CASE Run \/ \E s \in Sqs : SqsStep(s) \/ BeginLevel(s)
  <2>1. QuietAt(NULL) /\ NoNewUser
    BY <1>3, LevelsQuiet
  <2> QED BY <1>0, <2>1, NullNotDeleted, QuietInv
<1> QED BY <1>1, <1>2, <1>3 DEF KernelStep

LEMMA OwnEndSimulationInv ==
  ASSUME OwnInv, KernelInv, NEW p \in Proc, OwnEndSimulation(p)
  PROVE  OwnInv'
<1>1. alive' = alive
  BY DetachKeeps DEF OwnEndSimulation, EndSimulation
<1> QED BY <1>1, LetGoInv DEF OwnEndSimulation, EndSimulation, simVars

LEMMA OwnEndLevelInv ==
  ASSUME OwnInv, KernelInv, OwnEndLevel
  PROVE  OwnInv'
<1>1. Head(levels) \in Sqs
  BY DEF OwnEndLevel, EndLevel, KernelInv, ControlInv, KernelTypeOK
<1>2. CASE outcome' # "ok"
  <2>1. alive' = alive /\ UNCHANGED <<ev, queued, curProc, forgotten>>
    BY <1>2 DEF OwnEndLevel, EndLevel, Destroy, Halt, User, Running, simVars
  <2>2. QuietAt(NULL) /\ NoNewUser
    BY <2>1, QuietStand, SameUsers
  <2> QED BY <2>1, <2>2, SameHandles, NullNotDeleted, QuietInv DEF OwnEndLevel
<1>3. CASE outcome' = "ok"
  <2>1. alive \cap Proc \subseteq alive' /\ alive' \subseteq alive
    BY <1>1, <1>3, PartsAssumption DEF OwnEndLevel, EndLevel, Destroy, Halt
  <2>2. Forget(Queue(Head(levels))) /\ LetGo(Queue(Head(levels)))
    BY <1>3 DEF OwnEndLevel, EndLevel
  <2>3. UNCHANGED <<ev, curProc, var, local>> /\ Collect
    BY DEF OwnEndLevel, EndLevel, simVars
  <2> QED BY <2>1, <2>2, <2>3, LetGoInv
<1> QED BY <1>2, <1>3

LEMMA OwnReturnInv ==
  ASSUME OwnInv, KernelInv, NEW p \in Proc, OwnReturn(p)
  PROVE  OwnInv'
<1>1. p \notin deleted
  BY RunningKept, KeptNotDeleted DEF OwnReturn, Return, Self
<1>2. HandleTypes'
  BY DEF OwnInv, HandleTypes, OwnReturn
<1>3. \A q \in deleted : Unnamed(q)'
  <2>1. \A q \in deleted : Unnamed(q) /\ q # NULL
    BY NullNotDeleted DEF OwnInv, DeletedHasNoHandle, Kept, Held, Unnamed
  <2> QED BY <2>1 DEF OwnInv, HandleTypes, OwnReturn, Unnamed
<1>4. QuietAt(p) /\ NoNewUser
  <2>1. CASE Abort("undefined")
    BY <2>1, AbortQuiet
  <2>2. CASE ~Dangling(p) /\ Unschedule(p) /\ Finish(p) /\ UNCHANGED simVars
    BY <2>2, QuietUnschedule, DetachKeeps, SameUsers DEF simVars
  <2> QED BY <2>1, <2>2 DEF OwnReturn, Return
<1> QED BY <1>1, <1>2, <1>3, <1>4, QuietInv DEF OwnReturn

LEMMA CreateInv ==
  ASSUME OwnInv, KernelInv, NEW p \in Proc, Create(p)
  PROVE  OwnInv'
<1>1. p \notin deleted /\ alive' = alive \cup {p} /\ UNCHANGED <<ev, queued, curProc>>
  BY DEF Create, NewProcess, New, OwnInv, DeletedHasNoHandle, evVars, simVars
<1>2. QuietAt(p) /\ NoNewUser
  BY <1>1, PartsAssumption, QuietStand DEF NoNewUser
<1>3. HandleTypes' /\ \A q \in deleted : Unnamed(q)'
  BY <1>1, BindHandles DEF Create
<1> QED BY <1>1, <1>2, <1>3, QuietInv DEF Create

LEMMA RebindInv ==
  ASSUME OwnInv, KernelInv, Rebind
  PROVE  OwnInv'
<1>1. PICK p \in Named \cup {NULL} : Bind(p)
  BY DEF Rebind
<1>2. p \in Proc \cup {NULL} /\ p \notin deleted
  BY NamedKept, KeptNotDeleted, NullNotDeleted
<1>3. QuietAt(p) /\ NoNewUser
  BY QuietStand, SameUsers DEF Rebind, vars, coVars, evVars, simVars
<1>4. HandleTypes' /\ \A q \in deleted : Unnamed(q)'
  BY <1>1, <1>2, BindHandles
<1> QED BY <1>2, <1>3, <1>4, QuietInv DEF Rebind

-----------------------------------------------------------------------------
\* In every state that a program with handles reaches, what has been deleted
\* has no handle, and the notices that were forgotten are the dangling ones.
THEOREM OwnershipInvariant == OwnSpec => []OwnInv
<1>1. OwnInit => OwnInv
  <2> SUFFICES ASSUME OwnInit PROVE OwnInv
    OBVIOUS
  <2>1. HandleTypes /\ DeletedHasNoHandle
    BY DEF OwnInit, HandleTypes, DeletedHasNoHandle
  <2>2. ForgottenDangles
    BY DEF OwnInit, Init, ForgottenDangles, Dangling
  <2> QED BY <2>1, <2>2 DEF OwnInv
<1>2. OwnInv /\ KernelInv /\ [OwnNext]_allVars => OwnInv'
  <2> SUFFICES ASSUME OwnInv, KernelInv, [OwnNext]_allVars PROVE OwnInv'
    OBVIOUS
  <2>1. CASE KernelStep
    BY <2>1, KernelStepInv
  <2>2. CASE \E p \in Proc : OwnEndSimulation(p)
    BY <2>2, OwnEndSimulationInv
  <2>3. CASE OwnEndLevel
    BY <2>3, OwnEndLevelInv
  <2>4. CASE \E p \in Proc : OwnReturn(p)
    BY <2>4, OwnReturnInv
  <2>5. CASE \E p \in Proc : Create(p)
    BY <2>5, CreateInv
  <2>6. CASE Rebind
    BY <2>6, RebindInv
  <2>7. CASE UNCHANGED allVars
    BY <2>7 DEF allVars, ownVars, vars, coVars, evVars, simVars, OwnInv, HandleTypes,
          ForgottenDangles, DeletedHasNoHandle, Dangling, Kept, Held
  <2> QED BY <2>1, <2>2, <2>3, <2>4, <2>5, <2>6, <2>7 DEF OwnNext
<1> QED BY <1>1, <1>2, HandlesImplementKernel, KernelInvariant, PTL DEF OwnSpec

\* The variables have the types their declarations say.
THEOREM OwnershipTypeCorrect == OwnSpec => []OwnTypeOK
<1>1. OwnInv /\ TypeOK => OwnTypeOK
  BY DEF OwnInv, HandleTypes, ForgottenDangles, DeletedHasNoHandle, OwnTypeOK
<1> QED BY <1>1, OwnershipInvariant, HandlesImplementKernel, KernelTypeCorrect, PTL

\* A process that gives up its notice, and the handle in it, in the middle of
\* hold, passivate or cancel, is kept by its sequencing set
\* (process.cc:48, 99, 131), however many levels are nested.
THEOREM RunningAlwaysHeld == OwnSpec => []RunningIsHeld
<1>1. OwnInv /\ KernelInv => RunningIsHeld
  BY RunningKept, KeptNotDeleted DEF RunningIsHeld
<1> QED BY <1>1, OwnershipInvariant, HandlesImplementKernel, KernelInvariant, PTL

\* ~process never finds a notice to remove (process.cc:71-74).
THEOREM DeletedNeverHasNotice == OwnSpec => []DeletedHasNoNotice
<1>1. OwnInv => DeletedHasNoNotice
  BY DEF OwnInv, ForgottenDangles, DeletedHasNoHandle, DeletedHasNoNotice, Kept, Dangling
<1> QED BY <1>1, OwnershipInvariant, PTL

\* No handle is bound to a deleted process, nobody calls it and it does not
\* run.  (That it calls nobody needs one level: see DeletedIsOut.)
THEOREM DeletedNeverUsed ==
  OwnSpec => [](\A p \in deleted : ~Kept(p) /\ caller[p] = NULL /\ p # current)
<1>1. OwnInv /\ KernelInv => \A p \in deleted : ~Kept(p) /\ caller[p] = NULL /\ p # current
  BY RunningKept DEF OwnInv, DeletedHasNoHandle, KernelInv, ControlInv, OnlyRunCalls
<1> QED BY <1>1, OwnershipInvariant, HandlesImplementKernel, KernelInvariant, PTL

\* DeletedIsOut: as long as no process runs a level itself, nobody reaches a
\* deleted process, through a handle or through a chain of calls.
THEOREM DeletedAlwaysOut == OwnSpec /\ []NobodyNests => []DeletedIsOut
<1>1. OwnInv /\ KernelInv /\ NobodyNests => DeletedIsOut
  BY RunningKept
     DEF OwnInv, DeletedHasNoHandle, KernelInv, ControlInv, OnlyRunCalls, NobodyNests, DeletedIsOut
<1> QED BY <1>1, OwnershipInvariant, HandlesImplementKernel, KernelInvariant, PTL

=============================================================================
