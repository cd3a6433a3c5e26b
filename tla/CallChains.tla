----------------------------- MODULE CallChains -----------------------------
(***************************************************************************)
(* What coroutines promise, without pointers: the coroutines are divided   *)
(* into chains, each a sequence in which everybody called the next and     *)
(* only the last can run.  Resume transfers control between chains and     *)
(* changes none; call puts one chain on top of another; detach takes the   *)
(* last coroutine off its chain, or, when it is alone, moves to the end of *)
(* the chain of Main.                                                      *)
(***************************************************************************)
EXTENDS Sequences, SequencesExt

CONSTANTS Coroutine, Main

VARIABLES chains,   \* a set of sequences, each coroutine in one of them
          running,  \* the chain whose last coroutine has control
          finished  \* coroutines that have returned from main

vars == <<chains, running, finished>>

Init ==
  /\ chains = {<<Main>>}
  /\ running = <<Main>>
  /\ finished = {}

Create(c) ==
  /\ \A s \in chains : c \notin ToSet(s)
  /\ chains' = chains \cup {<<c>>}
  /\ finished' = finished \ {c}
  /\ UNCHANGED running

Delete(c) ==
  /\ <<c>> \in chains \ {running}
  /\ chains' = chains \ {<<c>>}
  /\ UNCHANGED <<running, finished>>

Resume(s) ==
  /\ s \in chains
  /\ Head(s) \notin finished
  /\ running' = s
  /\ UNCHANGED <<chains, finished>>

Call(s) ==
  /\ s \in chains \ {running}
  /\ Head(s) \notin finished \cup {Main}
  /\ chains' = (chains \ {s, running}) \cup {running \o s}
  /\ running' = running \o s
  /\ UNCHANGED finished

Leave ==
  \/ /\ Len(running) > 1
     /\ chains' = (chains \ {running}) \cup {Front(running), <<Last(running)>>}
     /\ running' = Front(running)
  \/ /\ Len(running) = 1
     /\ running # <<Main>>
     /\ running' \in {s \in chains : Head(s) = Main}
     /\ UNCHANGED chains

Detach == Leave /\ UNCHANGED finished

Finish == Leave /\ finished' = finished \cup {Last(running)}

Next ==
  \/ \E c \in Coroutine : Create(c) \/ Delete(c)
  \/ \E s \in chains : Resume(s) \/ Call(s)
  \/ Detach
  \/ Finish

Spec == Init /\ [][Next]_vars

=============================================================================
