------------------------------- MODULE SqsDll -------------------------------
(***************************************************************************)
(* The sequencing set as one linked list (src/src/sqsDll.cc).  An event    *)
(* notice is its process and its time; its iterator _pos is the place of   *)
(* the process in the list.                                                *)
(***************************************************************************)
EXTENDS Naturals, Sequences, SequencesExt

CONSTANTS Proc, Time, NULL

VARIABLES sqs,    \* _sqs
          notice  \* p->notice()->evTime(), or NULL

vars == <<sqs, notice>>

Positions == {"after", "before"}

\* Where the notice of q is in the list.
Pos(q) == CHOOSE i \in DOMAIN sqs : sqs[i] = q

\* find_if: the first notice that is not earlier than t, or the end.
FindFrom(t) ==
  SelectInSeq(sqs, LAMBDA q : notice[q] >= t)

\* Mutant: greater instead of greater_equal.
PlaceBehind(t) ==
  LET i == SelectInSeq(sqs, LAMBDA q : notice[q] > t) IN IF i = 0 THEN Len(sqs) + 1 ELSE i

\* The value of an iterator one past the last element is Len(sqs) + 1.
Place(t) == IF FindFrom(t) = 0 THEN Len(sqs) + 1 ELSE FindFrom(t)

Init ==
  /\ sqs = <<>>
  /\ notice = [p \in Proc |-> NULL]

insertAt(p, t) ==
  /\ notice[p] = NULL
  /\ sqs' = InsertAt(sqs, Place(t), p)
  /\ notice' = [notice EXCEPT ![p] = t]

insert(p, q, where) ==
  /\ notice[p] = NULL
  /\ notice[q] # NULL
  /\ sqs' = InsertAt(sqs, IF where = "after" THEN Pos(q) + 1 ELSE Pos(q), p)
  /\ notice' = [notice EXCEPT ![p] = notice[q]]

remove(p) ==
  /\ notice[p] # NULL
  /\ sqs' = RemoveAt(sqs, Pos(p))
  /\ notice' = [notice EXCEPT ![p] = NULL]

\* The processes of a cleared list keep pointers to their notices, which no
\* list holds; they are out of this module's sight.
clear ==
  /\ sqs' = <<>>
  /\ notice' = [p \in Proc |-> NULL]

\* Mutant: the back of the list.
firstFromBack == IF sqs = <<>> THEN NULL ELSE sqs[Len(sqs)]

first == IF sqs = <<>> THEN NULL ELSE Head(sqs)

Next ==
  \/ \E p \in Proc, t \in Time : insertAt(p, t)
  \/ \E p, q \in Proc, where \in Positions : insert(p, q, where)
  \/ \E p \in Proc : remove(p)
  \/ clear

Spec == Init /\ [][Next]_vars

-----------------------------------------------------------------------------
TypeOK ==
  /\ sqs \in Seq(Proc)
  /\ notice \in [Proc -> Time \cup {NULL}]

\* The list, read as an order.
ListOrder ==
  {e \in Proc \X Proc : \E i, j \in DOMAIN sqs : i < j /\ e = <<sqs[i], sqs[j]>>}

Abstract == INSTANCE SeqSet WITH before <- ListOrder

\* The list implements the sequencing set, operation by operation: what
\* insertAt does to the list is what InsertAt does to the line, and not, for
\* instance, what an insertion after some notice does.
ImplementsSeqSet ==
  /\ Abstract!Init
  /\ [][/\ Abstract!Next
        /\ \A p \in Proc, t \in Time : insertAt(p, t) => Abstract!InsertAt(p, t)
        /\ \A p, q \in Proc : /\ insert(p, q, "before") => Abstract!InsertBefore(p, q)
                              /\ insert(p, q, "after") => Abstract!InsertAfter(p, q)
        /\ \A p \in Proc : remove(p) => Abstract!Remove(p)
        /\ clear => Abstract!Clear]_vars

=============================================================================
