------------------------------- MODULE MCSqs -------------------------------
(***************************************************************************)
(* The sequencing set and its two implementations, given the same calls:   *)
(* SeqSet itself, the list of SqsDll and the map of bins of SqsPrio.  Four *)
(* processes and three times make ties of every size, an insertion in the  *)
(* middle of a tie, and bins that empty and come back.                     *)
(***************************************************************************)
EXTENDS SeqSet

VARIABLES list, bins, bins_len, bin_of

Dll  == INSTANCE SqsDll WITH sqs <- list
Prio == INSTANCE SqsPrio WITH sqs <- bins, sqs_len <- bins_len, pos_sqs <- bin_of

allVars == <<vars, list, bins, bins_len, bin_of>>

MCInit == Init /\ Dll!Init /\ Prio!Init

MCNext ==
  \/ \E p \in Proc, t \in Time : InsertAt(p, t) /\ Dll!insertAt(p, t) /\ Prio!insertAt(p, t)
  \/ \E p, q \in Proc :
       InsertBefore(p, q) /\ Dll!insert(p, q, "before") /\ Prio!insert(p, q, "before")
  \/ \E p, q \in Proc :
       InsertAfter(p, q) /\ Dll!insert(p, q, "after") /\ Prio!insert(p, q, "after")
  \/ \E p \in Proc : Remove(p) /\ Dll!remove(p) /\ Prio!remove(p)
  \/ Clear /\ Dll!clear /\ Prio!clear

MCSpec == MCInit /\ [][MCNext]_allVars

\* The list of sqsDll.cc implements the sequencing set.
DllImplementsSeqSet == Dll!ImplementsSeqSet

\* The map, the iterators and the length that sqsPrio.cc keeps agree.
PrioBooksAgree == Prio!BooksAgree

\* The map of sqsPrio.cc implements the sequencing set.
PrioImplementsSeqSet == Prio!ImplementsSeqSet

\* Whichever implementation a program chooses, the scheduler resumes the same
\* process, the one the sequencing set has first.
SameFirst ==
  /\ Firsts(before, Scheduled) = {Dll!first} \ {NULL}
  /\ Dll!first = Prio!first

=============================================================================
