------------------------------- MODULE SeqSet -------------------------------
(***************************************************************************)
(* The sequencing set that class sqs declares (src/src/sqs.hh), whatever   *)
(* data structure holds it: each process has at most one event notice, and *)
(* the notices are in a line, sorted by time, from which the scheduler     *)
(* takes the first.                                                        *)
(***************************************************************************)
EXTENDS EventOrder

CONSTANTS Proc,  \* processes
          Time,  \* event times
          NULL   \* no event notice, no process

ASSUME TimeAssumption == Time \subseteq Nat /\ NULL \notin Time

ASSUME ProcAssumption == NULL \notin Proc

VARIABLES notice, \* notice[p] is the time of p's event notice, or NULL
          before  \* the line

vars == <<notice, before>>

Scheduled == {p \in Proc : notice[p] # NULL}

TypeOK ==
  /\ notice \in [Proc -> Time \cup {NULL}]
  /\ before \subseteq Scheduled \X Scheduled

Init ==
  /\ notice = [p \in Proc |-> NULL]
  /\ before = {}

InsertAt(p, t) ==
  /\ notice[p] = NULL
  /\ notice' = [notice EXCEPT ![p] = t]
  /\ before' = PlacedAt(before, Scheduled, notice, p, t)

InsertBefore(p, q) ==
  /\ notice[p] = NULL /\ notice[q] # NULL
  /\ notice' = [notice EXCEPT ![p] = notice[q]]
  /\ before' = PlacedBefore(before, Scheduled, p, q)

InsertAfter(p, q) ==
  /\ notice[p] = NULL /\ notice[q] # NULL
  /\ notice' = [notice EXCEPT ![p] = notice[q]]
  /\ before' = PlacedAfter(before, Scheduled, p, q)

Remove(p) ==
  /\ notice[p] # NULL
  /\ notice' = [notice EXCEPT ![p] = NULL]
  /\ before' = Without(before, p)

Clear ==
  /\ notice' = [p \in Proc |-> NULL]
  /\ before' = {}

Next ==
  \/ \E p \in Proc, t \in Time : InsertAt(p, t)
  \/ \E p, q \in Proc : InsertBefore(p, q) \/ InsertAfter(p, q)
  \/ \E p \in Proc : Remove(p)
  \/ Clear

Spec == Init /\ [][Next]_vars

-----------------------------------------------------------------------------
\* The notices are in a line: of two exactly one is ahead of the other, being
\* ahead is transitive, and the line is sorted by time, also after insertions
\* next to another notice, which look at no time but that notice's own
\* (sqsDll.cc:144, sqsPrio.cc:107).
LineOfNotices == IsLine(before, Scheduled, notice)

\* What first returns (sqsDll.cc:183, sqsPrio.cc:162) is never ambiguous and
\* no other notice is earlier.
FirstIsEarliest ==
  \A p, q \in Firsts(before, Scheduled) :
    p = q /\ \A r \in Scheduled : notice[p] <= notice[r]

=============================================================================
