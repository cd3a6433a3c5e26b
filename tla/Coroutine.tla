----------------------------- MODULE Coroutine -----------------------------
(***************************************************************************)
(* Coroutines after Helsgaun (src/src/coroutine.cc): each has its own      *)
(* stack, one of them runs, and control moves only by resume, call, detach *)
(* or termination.  A caller and the coroutine it called are linked by     *)
(* _callee and _caller; the program the operating system started is the    *)
(* coroutine main_component, here Main.                                    *)
(*                                                                         *)
(* A call that meets a FATAL message, a failing assertion or an endless    *)
(* loop halts the program: outcome says why, and the other variables keep  *)
(* their values, since nobody reads what an aborted program leaves.        *)
(***************************************************************************)
EXTENDS Naturals

CONSTANTS Coroutine,  \* coroutine objects of the program
          Main,       \* main_component
          NULL        \* the null pointer

ASSUME MainAssumption == Main \notin Coroutine
ASSUME NullAssumption == NULL \notin Coroutine \cup {Main}

VARIABLES alive,      \* constructed and not yet deleted
          terminated, \* _cor_terminated
          caller,     \* _caller
          callee,     \* _callee
          current,    \* _current_coroutine
          outcome     \* "ok", or what halted the program

links  == <<caller, callee>>
coVars == <<alive, terminated, caller, callee, current, outcome>>

All == Coroutine \cup {Main}

Outcomes == {"ok", "resume terminated", "resume attached",
             "call terminated", "call attached", "call operating",
             "enter self", "detach not current", "delete linked", "hang"}

Running == outcome = "ok"

CoTypeOK ==
  /\ alive \subseteq Coroutine
  /\ terminated \in [All -> BOOLEAN]
  /\ caller \in [All -> All \cup {NULL}]
  /\ callee \in [All -> All \cup {NULL}]
  /\ current \in All

CoroutineTypeOK == CoTypeOK /\ outcome \in Outcomes

CoInit ==
  /\ alive = {}
  /\ terminated = [c \in All |-> FALSE]
  /\ caller = [c \in All |-> NULL]
  /\ callee = [c \in All |-> NULL]
  /\ current = Main
  /\ outcome = "ok"

-----------------------------------------------------------------------------
(***************************************************************************)
(* Following _callee.  Reach(next, c) is c and all that lies beyond it; the*)
(* loops `while ( c->_callee ) c = c->_callee' stop at a Leaf, and do not  *)
(* stop when there is none.                                                *)
(***************************************************************************)

Closed(next, S) == \A c \in S : next[c] # NULL => next[c] \in S

Reach(next, c) ==
  {d \in All : \A S \in SUBSET All : c \in S /\ Closed(next, S) => d \in S}

Leaves(next, c) == {d \in Reach(next, c) : next[d] = NULL}

-----------------------------------------------------------------------------
Halt(why) == outcome' = why /\ UNCHANGED <<alive, links, current>>

\* coroutine::enter: swapcontext to d, which must not be where we are
Enter(d) ==
  \/ d = current /\ Halt("enter self")
  \/ d # current /\ current' = d /\ UNCHANGED <<alive, outcome>>

\* Mutant: the loop over _callee is forgotten.
EnterHead(c) == Enter(c) /\ UNCHANGED links

\* Enter the coroutine at the end of the chain that starts at c.
EnterLeaf(c) ==
  \/ Leaves(callee, c) = {} /\ Halt("hang")
  \/ \E d \in Leaves(callee, c) : Enter(d) /\ UNCHANGED links

\* coroutine::coroutine
New(c) ==
  /\ c \notin alive
  /\ alive' = alive \cup {c}
  /\ terminated' = [terminated EXCEPT ![c] = FALSE]
  /\ UNCHANGED <<links, current, outcome>>

\* Mutant: built without assertions.
DestroyUnchecked(c) ==
  /\ c \in alive \ {current}
  /\ alive' = alive \ {c}
  /\ UNCHANGED <<terminated, links, current, outcome>>

\* coroutine::~coroutine.  Nobody deletes the stack it runs on.
Destroy(c) ==
  /\ c \in alive \ {current}
  /\ UNCHANGED terminated
  /\ \/ /\ caller[c] # NULL \/ callee[c] # NULL
        /\ Halt("delete linked")
     \/ /\ caller[c] = NULL /\ callee[c] = NULL
        /\ alive' = alive \ {c}
        /\ UNCHANGED <<links, current, outcome>>

\* Mutant: no test for a terminated coroutine.
ResumeTerminated(c) ==
  /\ c # current /\ caller[c] = NULL
  /\ EnterLeaf(c)
  /\ UNCHANGED terminated

\* coroutine::resume
Resume(c) ==
  /\ UNCHANGED terminated
  /\ \/ c = current /\ UNCHANGED coVars
     \/ c # current /\ terminated[c] /\ Halt("resume terminated")
     \/ c # current /\ ~terminated[c] /\ caller[c] # NULL /\ Halt("resume attached")
     \/ c # current /\ ~terminated[c] /\ caller[c] = NULL /\ EnterLeaf(c)

\* Mutant: call enters c itself, not the end of its chain.
CallHead(c) ==
  /\ ~terminated[c] /\ caller[c] = NULL /\ c # current
  /\ Enter(c)
  /\ callee' = [callee EXCEPT ![current] = c]
  /\ caller' = [caller EXCEPT ![c] = current]
  /\ UNCHANGED terminated

\* coroutine::call.  The test for an operating coroutine comes after the
\* links are set and the loop has run.
Call(c) ==
  /\ UNCHANGED terminated
  /\ \/ terminated[c] /\ Halt("call terminated")
     \/ ~terminated[c] /\ caller[c] # NULL /\ Halt("call attached")
     \/ /\ ~terminated[c] /\ caller[c] = NULL
        /\ LET linked == [callee EXCEPT ![current] = c]
           IN \/ Leaves(linked, c) = {} /\ Halt("hang")
              \/ current \in Leaves(linked, c) /\ Halt("call operating")
              \/ \E d \in Leaves(linked, c) \ {current} :
                   /\ Enter(d)
                   /\ callee' = linked
                   /\ caller' = [caller EXCEPT ![c] = current]

\* Mutants of detach: the caller keeps its _callee; a coroutine without caller
\* goes to main_component itself.
LeaveLinked(c) ==
  /\ current = c
  /\ \/ caller[c] # NULL /\ Enter(caller[c])
     \/ caller[c] = NULL /\ \E d \in Leaves(callee, Main) : Enter(d)
  /\ caller' = [caller EXCEPT ![c] = NULL]
  /\ UNCHANGED callee

LeaveToMain(c) ==
  /\ current = c
  /\ \/ /\ caller[c] # NULL
        /\ Enter(caller[c])
        /\ callee' = [callee EXCEPT ![caller[c]] = NULL]
        /\ caller' = [caller EXCEPT ![c] = NULL]
     \/ caller[c] = NULL /\ EnterHead(Main)

\* coroutine::detach, called on c by the running coroutine: to the caller
\* of c if it has one, else to the end of the chain of main_component.
Leave(c) ==
  \/ current # c /\ Halt("detach not current")
  \/ /\ current = c
     /\ caller[c] # NULL
     /\ Enter(caller[c])
     /\ callee' = [callee EXCEPT ![caller[c]] = NULL]
     /\ caller' = [caller EXCEPT ![c] = NULL]
  \/ current = c /\ caller[c] = NULL /\ EnterLeaf(Main)

Detach(c) == Leave(c) /\ UNCHANGED terminated

\* cor_trampoline, once main has returned
Finish(c) ==
  /\ current = c
  /\ terminated' = [terminated EXCEPT ![c] = TRUE]
  /\ Leave(c)

-----------------------------------------------------------------------------
(***************************************************************************)
(* Any program: whoever runs resumes or calls a coroutine it has a pointer *)
(* to, and a coroutine other than Main detaches itself or returns from its *)
(* main.                                                                   *)
(***************************************************************************)
CoNext ==
  \/ \E c \in Coroutine : Running /\ New(c)
  \/ \E c \in Coroutine : Running /\ Destroy(c)
  \/ \E c \in Coroutine : Running /\ c \in alive /\ Resume(c)
  \/ \E c \in Coroutine : Running /\ c \in alive /\ Call(c)
  \/ \E c \in Coroutine : Running /\ c \in alive /\ current = c /\ Detach(c)
  \/ \E c \in Coroutine : Running /\ c \in alive /\ Finish(c)

CoSpec == CoInit /\ [][CoNext]_coVars

-----------------------------------------------------------------------------
(***************************************************************************)
(* Properties                                                              *)
(***************************************************************************)

\* The two pointers of a call are set and cleared together: d is the callee
\* of c exactly when c is the caller of d (call sets them, coroutine.cc:273,
\* detach clears them, coroutine.cc:288).
LinksAgree == \A c, d \in All : callee[c] = d <=> caller[d] = c

\* Every chain of calls ends: a set of coroutines closed under _callee holds
\* one that calls nobody, so the loops of resume, call and detach
\* (coroutine.cc:257, 275, 291) terminate from wherever they start.
ChainsEnd ==
  \A S \in SUBSET All :
    S # {} /\ Closed(callee, S) => \E c \in S : callee[c] = NULL

\* A coroutine that has returned from main, or was deleted, is in nobody's
\* chain: no loop over _callee can enter a dead context.
DeadIsDetached ==
  \A c \in All : terminated[c] \/ c \in Coroutine \ alive
                 => caller[c] = NULL /\ callee[c] = NULL

\* The running coroutine is alive and is the last of its chain.
CurrentIsLeaf ==
  /\ current \in alive \cup {Main}
  /\ ~terminated[current]
  /\ callee[current] = NULL

\* Whoever runs without a caller and is not Main can detach: the chain of
\* main_component ends at somebody else, so enter does not fail its
\* assertion (coroutine.cc:113).
DetachFindsAnother ==
  caller[current] = NULL /\ current # Main
    => \E d \in Leaves(callee, Main) : d # current

\* Calling a coroutine whose chain ends at the caller, itself for one, is
\* diagnosed by a FATAL message (coroutine.cc:277-280), so no call hangs.
CallOperatingDiagnosed == outcome # "hang"

=============================================================================
