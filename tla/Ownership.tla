------------------------------ MODULE Ownership ------------------------------
(***************************************************************************)
(* Who keeps a process alive: the composition of the kernel (Process) with *)
(* the handles of handle.hh.  Here a program calls only processes it has a *)
(* handle to, and a process is deleted with its last handle.  The handles  *)
(* are the variables of the program, one local variable in the body of each*)
(* process (`j' of source and server in src/test/mm1.cc), the one in every *)
(* event notice (absEvNotice::_proc), and sqs::_current.  That a count is  *)
(* the number of handles is shown in Handle; here it is the handles that   *)
(* are followed.  Handles that are members of processes are left out.      *)
(***************************************************************************)
EXTENDS Process

CONSTANT Var  \* handles that are variables of the program

VARIABLES var,       \* the process each of them is bound to
          local,     \* the local handle on the stack of each process
          forgotten, \* processes whose notice a list let go without deleting it
          deleted    \* processes that have been deleted

ownVars == <<var, local, forgotten, deleted>>
allVars == <<vars, ownVars>>

OwnTypeOK ==
  /\ TypeOK
  /\ var \in [Var -> Proc \cup {NULL}]
  /\ local \in [Proc -> Proc \cup {NULL}]
  /\ forgotten \subseteq Proc /\ deleted \subseteq Proc

OwnInit ==
  /\ Init
  /\ var = [v \in Var |-> NULL]
  /\ local = [p \in Proc |-> NULL]
  /\ forgotten = {} /\ deleted = {}

-----------------------------------------------------------------------------
\* Mutant: the sequencing set keeps a plain pointer to its current process.
HeldByProgram(p) == (\E v \in Var : var[v] = p) \/ \E q \in Proc : local[q] = p

\* A handle other than the one in its notice is bound to p.  The stack of a
\* process that is deleted is freed, but not unwound (coroutine.cc:96-102):
\* its local handle is never released.
Held(p) ==
  \/ \E v \in Var : var[v] = p
  \/ \E q \in Proc : local[q] = p
  \/ \E s \in Sqs \cap alive : curProc[s] = p

\* Mutant: a notice keeps a plain pointer to its process.
KeptByHandles(p) == Held(p) \/ p \in forgotten

\* Notices that are in a list, or were, own a handle too.
Kept(p) == Held(p) \/ p \in queued \/ p \in forgotten

\* After any step: ~process of those whose last handle has gone
Collect ==
  deleted' = deleted \cup {p \in Proc : p \in alive' /\ outcome' = "ok" /\ ~Kept(p)'}

\* What the running program has a handle to, `this' and current( ) included
Named ==
  ({var[v] : v \in Var} \cup
   IF current \in Proc THEN {current, local[current], curProc[sqsOf[current]]} ELSE {})
  \ {NULL}

-----------------------------------------------------------------------------
(***************************************************************************)
(* Steps of the kernel                                                     *)
(***************************************************************************)

\* A call on a process, through a handle.
CallOn(p) ==
  \/ Activate(p)
  \/ \E t \in Time : ActivateAt(p, t) \/ ReactivateAt(p, t)
  \/ \E dt \in Time : ActivateDelay(p, dt) \/ ReactivateDelay(p, dt)
  \/ \E q \in Named, w \in Places : ActivateNear(p, q, w) \/ ReactivateNear(p, q, w)
  \/ Reactivate(p)
  \/ Cancel(p)

\* Steps that let go of no notice but those they delete
KernelStep ==
  /\ \/ \E p \in Named : CallOn(p)
     \/ \E p \in Proc, dt \in Time : Hold(p, dt)
     \/ \E p \in Proc : Passivate(p)
     \/ \E s \in Sqs : SqsStep(s) \/ BeginLevel(s)
     \/ Run
  /\ UNCHANGED <<var, local, forgotten>>
  /\ Collect

\* Mutant: clear deletes the notices, as one would to stop the leak.
ForgetDeleted(Q) == UNCHANGED forgotten

\* sqsDll::clear and the end of the list: the notices are not deleted.
LetGo(Q) == forgotten' = forgotten \cup Q

\* process::end_simulation
OwnEndSimulation(p) ==
  /\ EndSimulation(p)
  /\ LetGo(Queue(sqsOf[p]))
  /\ UNCHANGED <<var, local>>
  /\ Collect

\* simulation::end_simulation.  _current goes with the sequencing set.
OwnEndLevel ==
  /\ EndLevel
  /\ \/ outcome' # "ok" /\ UNCHANGED forgotten
     \/ outcome' = "ok" /\ LetGo(Queue(Head(levels)))
  /\ UNCHANGED <<var, local>>
  /\ Collect

\* inner_body returns, with the end of its local variable.
OwnReturn(p) ==
  /\ Return(p)
  /\ local' = [local EXCEPT ![p] = NULL]
  /\ UNCHANGED <<var, forgotten>>
  /\ Collect

-----------------------------------------------------------------------------
(***************************************************************************)
(* Steps of the program with its handles                                   *)
(***************************************************************************)

\* A variable, or the local handle of the body that runs, is bound to p.
Bind(p) ==
  \/ \E v \in Var : var' = [var EXCEPT ![v] = p] /\ UNCHANGED local
  \/ current \in Proc /\ local' = [local EXCEPT ![current] = p] /\ UNCHANGED var

\* handle<T> h( new T ), h = new T
Create(p) == NewProcess(p) /\ Bind(p) /\ UNCHANGED forgotten /\ Collect

\* h = g, push_back( this ), setNull, the end of a scope
Rebind ==
  /\ User
  /\ \E p \in Named \cup {NULL} : Bind(p)
  /\ UNCHANGED <<vars, forgotten>>
  /\ Collect

OwnNext ==
  \/ KernelStep
  \/ \E p \in Proc : OwnEndSimulation(p)
  \/ OwnEndLevel
  \/ \E p \in Proc : OwnReturn(p)
  \/ \E p \in Proc : Create(p)
  \/ Rebind

OwnSpec == OwnInit /\ [][OwnNext]_allVars

-----------------------------------------------------------------------------
(***************************************************************************)
(* Properties                                                              *)
(***************************************************************************)

\* hold, passivate, cancel and the end of a body delete the notice of the
\* process that runs, and the handle in it, in the middle of its own code
\* (process.cc:48, 99, 131, 253): another handle keeps it, whatever the
\* program has done with its own.
RunningIsHeld == current \in Proc => Held(current) /\ current \notin deleted

\* A process is never deleted with a notice, so ~process never removes one
\* (process.cc:71-74): not the one whose deletion would delete the process
\* again, nor one that its list has let go.
DeletedHasNoNotice == \A p \in deleted : ev[p] = NULL

\* Nobody reaches a deleted process: no handle is bound to it, no chain of
\* calls goes through it (the assertions of ~coroutine), and it never runs.
\* As long as no process runs a level itself: one that waits in run( ) for an
\* inner level may be deleted by another of its own level that cancels it.
DeletedIsOut ==
  \A p \in deleted :
    /\ ~Kept(p)
    /\ caller[p] = NULL /\ callee[p] = NULL
    /\ p # current

=============================================================================
