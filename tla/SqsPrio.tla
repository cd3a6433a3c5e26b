------------------------------ MODULE SqsPrio ------------------------------
(***************************************************************************)
(* The sequencing set as a map from times to bins, each bin a list of the  *)
(* notices for one time (src/src/sqsPrio.cc).  A notice keeps the place it *)
(* has in its bin (_pos_bin) and the bin it is in (_pos_sqs).              *)
(***************************************************************************)
EXTENDS Naturals, Sequences, SequencesExt

CONSTANTS Proc, Time, NULL

VARIABLES sqs,     \* _sqs: a function from the times that have a bin
          sqs_len, \* _sqs_len
          notice,  \* p->notice()->evTime(), or NULL
          pos_sqs  \* the key of the bin that holds the notice of p, or NULL

vars == <<sqs, sqs_len, notice, pos_sqs>>

Positions == {"after", "before"}

Pos(q) == CHOOSE i \in DOMAIN sqs[pos_sqs[q]] : sqs[pos_sqs[q]][i] = q

\* The map with bin in the place of key t.
WithBin(t, bin) == [k \in DOMAIN sqs \cup {t} |-> IF k = t THEN bin ELSE sqs[k]]

\* The map after erase of key t.
Erased(t) == [k \in DOMAIN sqs \ {t} |-> sqs[k]]

\* What find and operator[] give: an empty bin where there is none.
BinAt(t) == IF t \in DOMAIN sqs THEN sqs[t] ELSE <<>>

Init ==
  /\ sqs = <<>>
  /\ sqs_len = 0
  /\ notice = [p \in Proc |-> NULL]
  /\ pos_sqs = [p \in Proc |-> NULL]

\* Mutant: at the end of the bin.
insertAtBack(p, t) ==
  /\ notice[p] = NULL
  /\ sqs' = WithBin(t, Append(BinAt(t), p))
  /\ sqs_len' = sqs_len + 1
  /\ notice' = [notice EXCEPT ![p] = t]
  /\ pos_sqs' = [pos_sqs EXCEPT ![p] = t]

insertAt(p, t) ==
  /\ notice[p] = NULL
  /\ sqs' = WithBin(t, <<p>> \o BinAt(t))
  /\ sqs_len' = sqs_len + 1
  /\ notice' = [notice EXCEPT ![p] = t]
  /\ pos_sqs' = [pos_sqs EXCEPT ![p] = t]

insert(p, q, where) ==
  /\ notice[p] = NULL
  /\ notice[q] # NULL
  /\ sqs' = WithBin(notice[q], InsertAt(BinAt(notice[q]),
                                        IF where = "after" THEN Pos(q) + 1 ELSE Pos(q), p))
  /\ sqs_len' = sqs_len + 1
  /\ notice' = [notice EXCEPT ![p] = notice[q]]
  /\ pos_sqs' = [pos_sqs EXCEPT ![p] = pos_sqs[q]]

\* Mutant: an empty bin stays in the map.
removeKeepingBin(p) ==
  /\ notice[p] # NULL
  /\ sqs' = WithBin(pos_sqs[p], RemoveAt(sqs[pos_sqs[p]], Pos(p)))
  /\ sqs_len' = sqs_len - 1
  /\ notice' = [notice EXCEPT ![p] = NULL]
  /\ pos_sqs' = [pos_sqs EXCEPT ![p] = NULL]

remove(p) ==
  /\ notice[p] # NULL
  /\ LET bin == RemoveAt(sqs[pos_sqs[p]], Pos(p))
     IN sqs' = IF bin = <<>> THEN Erased(pos_sqs[p]) ELSE WithBin(pos_sqs[p], bin)
  /\ sqs_len' = sqs_len - 1
  /\ notice' = [notice EXCEPT ![p] = NULL]
  /\ pos_sqs' = [pos_sqs EXCEPT ![p] = NULL]

\* As in SqsDll, the processes of a cleared map are out of sight.
clear ==
  /\ sqs' = <<>>
  /\ sqs_len' = 0
  /\ notice' = [p \in Proc |-> NULL]
  /\ pos_sqs' = [p \in Proc |-> NULL]

\* _sqs.begin( ): the bin of the least key, its list not empty.
first ==
  IF sqs_len = 0
  THEN NULL
  ELSE LET k == CHOOSE k \in DOMAIN sqs : \A l \in DOMAIN sqs : k <= l IN Head(sqs[k])

Next ==
  \/ \E p \in Proc, t \in Time : insertAt(p, t)
  \/ \E p, q \in Proc, where \in Positions : insert(p, q, where)
  \/ \E p \in Proc : remove(p)
  \/ clear

Spec == Init /\ [][Next]_vars

-----------------------------------------------------------------------------
TypeOK ==
  /\ DOMAIN sqs \subseteq Time
  /\ \A t \in DOMAIN sqs : sqs[t] \in Seq(Proc)
  /\ sqs_len \in 0 .. Cardinality(Proc)
  /\ notice \in [Proc -> Time \cup {NULL}]
  /\ pos_sqs \in [Proc -> Time \cup {NULL}]

\* The books of sqsPrio.cc agree with one another: every notice is in the bin
\* of its time, where its iterators point; _sqs_len counts the notices in all
\* the bins, so that empty( ), which asks _sqs_len, and first( ), which asks
\* the map, agree; and no bin is left empty, which first( ) asserts
\* (sqsPrio.cc:173).
BooksAgree ==
  /\ pos_sqs = notice
  /\ DOMAIN sqs = {notice[p] : p \in Proc} \ {NULL}
  /\ \A t \in DOMAIN sqs : /\ IsInjective(sqs[t])
                           /\ ToSet(sqs[t]) = {p \in Proc : notice[p] = t}
                           /\ sqs[t] # <<>>
  /\ sqs_len = Cardinality({p \in Proc : notice[p] # NULL})

\* The bins, least time first, read as one order.
BinOrder ==
  {e \in Proc \X Proc :
    \/ \E t, u \in DOMAIN sqs : t < u /\ e[1] \in ToSet(sqs[t]) /\ e[2] \in ToSet(sqs[u])
    \/ \E t \in DOMAIN sqs : \E i, j \in DOMAIN sqs[t] : i < j /\ e = <<sqs[t][i], sqs[t][j]>>}

Abstract == INSTANCE SeqSet WITH before <- BinOrder

\* The map of bins implements the sequencing set, operation by operation.
\* SqsDll implements the same one, so a simulation runs alike with either.
ImplementsSeqSet ==
  /\ Abstract!Init
  /\ [][/\ Abstract!Next
        /\ \A p \in Proc, t \in Time : insertAt(p, t) => Abstract!InsertAt(p, t)
        /\ \A p, q \in Proc : /\ insert(p, q, "before") => Abstract!InsertBefore(p, q)
                              /\ insert(p, q, "after") => Abstract!InsertAfter(p, q)
        /\ \A p \in Proc : remove(p) => Abstract!Remove(p)
        /\ clear => Abstract!Clear]_vars

=============================================================================
