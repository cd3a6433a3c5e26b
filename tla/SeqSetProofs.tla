---------------------------- MODULE SeqSetProofs ----------------------------
(***************************************************************************)
(* Proofs about SeqSet and its two implementations, for any set of         *)
(* processes and of times.  The notices are always in one line, sorted by  *)
(* time, and first( ) is unique: that is inductive with the type invariant,*)
(* and that each operation keeps the line is what the lemmas of            *)
(* EventOrderProofs say.  SqsDll and SqsPrio implement SeqSet: inserting at*)
(* a place of a list, and setting a bin, put pairs into the order that the *)
(* list or the bins spell, and these are the pairs SeqSet adds.            *)
(***************************************************************************)
EXTENDS MCSqs, EventOrderProofs, FiniteSetTheorems, SequenceTheorems,
        WellFoundedInduction

LineInv == TypeOK /\ LineOfNotices

USE TimeAssumption

\* The empty sequencing set.
LEMMA InitLine == Init => LineInv
BY DEF Init, LineInv, TypeOK, LineOfNotices, IsLine, Scheduled

\* insertAt keeps the line.
LEMMA InsertAtLine ==
  ASSUME LineInv, NEW p \in Proc, NEW t \in Time, InsertAt(p, t)
  PROVE  LineInv'
<1>1. Scheduled' = Scheduled \cup {p} /\ p \notin Scheduled
  BY DEF LineInv, TypeOK, Scheduled, InsertAt
<1>2. \A q \in Scheduled : notice[q] \in Nat /\ notice'[q] = notice[q]
  BY DEF LineInv, TypeOK, Scheduled, InsertAt
<1>3. notice'[p] = t /\ t \in Nat
  BY DEF LineInv, TypeOK, InsertAt
<1>4. Absent(before, Scheduled, p) /\ <<p, p>> \notin before
  BY <1>1 DEF LineInv, TypeOK, Absent
<1>5. LineOfNotices'
  BY <1>1, <1>2, <1>3, <1>4, PlacedAtLine DEF LineInv, LineOfNotices, InsertAt
<1>6. TypeOK'
  <2>1. before' \subseteq Scheduled' \X Scheduled'
    <3>1. before \subseteq Scheduled' \X Scheduled' /\ Scheduled \subseteq Scheduled' /\ p \in Scheduled'
      BY <1>1 DEF LineInv, TypeOK
    <3> QED BY <1>1, <3>1, PlacedWithin DEF InsertAt
  <2> QED BY <2>1 DEF TypeOK, InsertAt, LineInv
<1> QED BY <1>5, <1>6 DEF LineInv

\* insert before another process keeps the line.
LEMMA InsertBeforeLine ==
  ASSUME LineInv, NEW p \in Proc, NEW q \in Proc, InsertBefore(p, q)
  PROVE  LineInv'
<1>1. Scheduled' = Scheduled \cup {p} /\ p \notin Scheduled /\ q \in Scheduled
  BY DEF LineInv, TypeOK, Scheduled, InsertBefore
<1>2. \A r \in Scheduled : notice[r] \in Nat /\ notice'[r] = notice[r]
  BY DEF LineInv, TypeOK, Scheduled, InsertBefore
<1>3. notice'[p] = notice[q]
  BY DEF LineInv, TypeOK, InsertBefore
<1>4. Absent(before, Scheduled, p) /\ <<p, p>> \notin before
  BY <1>1 DEF LineInv, TypeOK, Absent
<1>5. LineOfNotices'
  BY <1>1, <1>2, <1>3, <1>4, PlacedBeforeLine DEF LineInv, LineOfNotices, InsertBefore
<1>6. TypeOK'
  <2>1. before' \subseteq Scheduled' \X Scheduled'
    <3>1. before \subseteq Scheduled' \X Scheduled' /\ Scheduled \subseteq Scheduled' /\ p \in Scheduled'
      BY <1>1 DEF LineInv, TypeOK
    <3> QED BY <1>1, <3>1, PlacedWithin DEF InsertBefore
  <2> QED BY <2>1 DEF TypeOK, InsertBefore, LineInv
<1> QED BY <1>5, <1>6 DEF LineInv

\* insert after another process keeps the line.
LEMMA InsertAfterLine ==
  ASSUME LineInv, NEW p \in Proc, NEW q \in Proc, InsertAfter(p, q)
  PROVE  LineInv'
<1>1. Scheduled' = Scheduled \cup {p} /\ p \notin Scheduled /\ q \in Scheduled
  BY DEF LineInv, TypeOK, Scheduled, InsertAfter
<1>2. \A r \in Scheduled : notice[r] \in Nat /\ notice'[r] = notice[r]
  BY DEF LineInv, TypeOK, Scheduled, InsertAfter
<1>3. notice'[p] = notice[q]
  BY DEF LineInv, TypeOK, InsertAfter
<1>4. Absent(before, Scheduled, p) /\ <<p, p>> \notin before
  BY <1>1 DEF LineInv, TypeOK, Absent
<1>5. LineOfNotices'
  BY <1>1, <1>2, <1>3, <1>4, PlacedAfterLine DEF LineInv, LineOfNotices, InsertAfter
<1>6. TypeOK'
  <2>1. before' \subseteq Scheduled' \X Scheduled'
    <3>1. before \subseteq Scheduled' \X Scheduled' /\ Scheduled \subseteq Scheduled' /\ p \in Scheduled'
      BY <1>1 DEF LineInv, TypeOK
    <3> QED BY <1>1, <3>1, PlacedWithin DEF InsertAfter
  <2> QED BY <2>1 DEF TypeOK, InsertAfter, LineInv
<1> QED BY <1>5, <1>6 DEF LineInv

\* remove leaves the order of the others as it was.
LEMMA RemoveLine ==
  ASSUME LineInv, NEW p \in Proc, Remove(p)
  PROVE  LineInv'
<1>1. Scheduled' = Scheduled \ {p}
  BY DEF LineInv, TypeOK, Scheduled, Remove
<1>2. \A q \in Scheduled' : notice'[q] = notice[q]
  BY <1>1 DEF LineInv, TypeOK, Scheduled, Remove
<1>3. \A q, r \in Scheduled' : <<q, r>> \in before' <=> <<q, r>> \in before
  BY <1>1 DEF Remove, Without
<1>4. LineOfNotices'
  BY <1>1, <1>2, <1>3, LineOfSame DEF LineInv, LineOfNotices
<1>5. TypeOK'
  <2>1. before' \subseteq Scheduled' \X Scheduled'
    BY <1>1 DEF Remove, Without, LineInv, TypeOK
  <2> QED BY <2>1 DEF TypeOK, Remove, LineInv
<1> QED BY <1>4, <1>5 DEF LineInv

\* Every operation keeps the line.
LEMMA StepLine == LineInv /\ [Next]_vars => LineInv'
<1> SUFFICES ASSUME LineInv, [Next]_vars PROVE LineInv'
  OBVIOUS
<1>1. CASE \E p \in Proc, t \in Time : InsertAt(p, t)
  BY <1>1, InsertAtLine
<1>2. CASE \E p, q \in Proc : InsertBefore(p, q)
  BY <1>2, InsertBeforeLine
<1>3. CASE \E p, q \in Proc : InsertAfter(p, q)
  BY <1>3, InsertAfterLine
<1>4. CASE \E p \in Proc : Remove(p)
  BY <1>4, RemoveLine
<1>5. CASE Clear
  BY <1>5, InitLine DEF Clear, LineInv, TypeOK, LineOfNotices, IsLine, Scheduled
<1>6. CASE UNCHANGED vars
  BY <1>6 DEF vars, LineInv, TypeOK, LineOfNotices, Scheduled
<1> QED BY <1>1, <1>2, <1>3, <1>4, <1>5, <1>6 DEF Next

\* The type invariant and the line, together.
THEOREM LineInvariant == Spec => []LineInv
BY InitLine, StepLine, PTL DEF Spec

\* TypeOK: a notice has a time, and only processes with a notice are in the
\* line (what remove and insert of sqsDll and sqsPrio have to arrange).
THEOREM SeqSetTypeCorrect == Spec => []TypeOK
<1>1. LineInv => TypeOK
  BY DEF LineInv
<1> QED BY <1>1, LineInvariant, PTL

\* LineOfNotices: no sequence of insertions and removals, next to another
\* notice or at a time, gets the sequencing set out of order.
THEOREM AlwaysLineOfNotices == Spec => []LineOfNotices
<1>1. LineInv => LineOfNotices
  BY DEF LineInv
<1> QED BY <1>1, LineInvariant, PTL

\* FirstIsEarliest: sqs::main is never given a notice while an earlier one
\* waits.
THEOREM AlwaysFirstIsEarliest == Spec => []FirstIsEarliest
<1>1. LineInv => FirstIsEarliest
  <2> SUFFICES ASSUME LineInv, NEW p \in Firsts(before, Scheduled), NEW q \in Firsts(before, Scheduled)
               PROVE  p = q /\ \A r \in Scheduled : notice[p] <= notice[r]
    BY DEF FirstIsEarliest
  <2>1. \A r \in Scheduled : notice[r] \in Nat
    BY DEF LineInv, TypeOK, Scheduled
  <2> QED BY <2>1, FirstOfLine DEF LineInv, LineOfNotices
<1> QED BY <1>1, LineInvariant, PTL

-----------------------------------------------------------------------------
(***************************************************************************)
(* Sequences with an element more or less                                  *)
(***************************************************************************)

With(s, k, e) == SubSeq(s, 1, k - 1) \o <<e>> \o SubSeq(s, k, Len(s))

WithoutAt(s, k) == SubSeq(s, 1, k - 1) \o SubSeq(s, k + 1, Len(s))

\* What an insertion before place k of a list does.
LEMMA WithProperties ==
  ASSUME NEW S, NEW s \in Seq(S), NEW k \in 1 .. Len(s) + 1, NEW e \in S
  PROVE  /\ With(s, k, e) \in Seq(S)
         /\ Len(With(s, k, e)) = Len(s) + 1
         /\ \A i \in 1 .. Len(s) + 1 :
              With(s, k, e)[i] = IF i < k THEN s[i] ELSE IF i = k THEN e ELSE s[i - 1]
<1> DEFINE a == SubSeq(s, 1, k - 1)
           b == SubSeq(s, k, Len(s))
<1>1. Len(s) \in Nat /\ \A i \in 1 .. Len(s) : s[i] \in S
  BY LenProperties, ElementOfSeq
<1>2. a \in Seq(S) /\ Len(a) = k - 1 /\ \A i \in 1 .. k - 1 : a[i] = s[i]
  BY <1>1, SubSeqProperties
<1>3. /\ b \in Seq(S) /\ Len(b) = Len(s) - k + 1
      /\ \A i \in 1 .. Len(s) - k + 1 : b[i] = s[k + i - 1]
  BY <1>1, SubSeqProperties
<1> HIDE DEF a, b
<1>4. <<e>> \in Seq(S) /\ Len(<<e>>) = 1 /\ <<e>>[1] = e
  OBVIOUS
<1> DEFINE c == a \o <<e>>
<1>5. c \in Seq(S) /\ Len(c) = k /\ \A i \in 1 .. k : c[i] = IF i < k THEN s[i] ELSE e
  BY <1>1, <1>2, <1>4, ConcatProperties
<1> HIDE DEF c
<1> DEFINE w == c \o b
<1>6. /\ w \in Seq(S) /\ Len(w) = Len(c) + Len(b)
      /\ \A i \in 1 .. Len(c) + Len(b) : w[i] = IF i <= Len(c) THEN c[i] ELSE b[i - Len(c)]
  BY <1>3, <1>5, ConcatProperties
<1>7. With(s, k, e) = w
  BY DEF With, a, b, c
<1> HIDE DEF w
<1>8. ASSUME NEW i \in 1 .. Len(s) + 1
      PROVE  w[i] = IF i < k THEN s[i] ELSE IF i = k THEN e ELSE s[i - 1]
  <2>1. CASE i <= k
    BY <1>1, <1>3, <1>5, <1>6, <2>1
  <2>2. CASE i > k
    <3>1. w[i] = b[i - k] /\ i - k \in 1 .. Len(s) - k + 1
      BY <1>1, <1>3, <1>5, <1>6, <2>2
    <3>2. k + (i - k) - 1 = i - 1
      BY <1>1
    <3> QED BY <1>1, <1>3, <2>2, <3>1, <3>2
  <2> QED BY <1>1, <2>1, <2>2
<1> QED BY <1>1, <1>3, <1>5, <1>6, <1>7, <1>8

\* What an erase of place k of a list does.
LEMMA WithoutAtProperties ==
  ASSUME NEW S, NEW s \in Seq(S), NEW k \in 1 .. Len(s)
  PROVE  /\ WithoutAt(s, k) \in Seq(S)
         /\ Len(WithoutAt(s, k)) = Len(s) - 1
         /\ \A i \in 1 .. Len(s) - 1 : WithoutAt(s, k)[i] = IF i < k THEN s[i] ELSE s[i + 1]
<1> DEFINE a == SubSeq(s, 1, k - 1)
           b == SubSeq(s, k + 1, Len(s))
<1>1. Len(s) \in Nat /\ \A i \in 1 .. Len(s) : s[i] \in S
  BY LenProperties, ElementOfSeq
<1>2. a \in Seq(S) /\ Len(a) = k - 1 /\ \A i \in 1 .. k - 1 : a[i] = s[i]
  BY <1>1, SubSeqProperties
<1>3. /\ b \in Seq(S) /\ Len(b) = Len(s) - k
      /\ \A i \in 1 .. Len(s) - k : b[i] = s[k + i]
  BY <1>1, SubSeqProperties
<1> HIDE DEF a, b
<1> DEFINE w == a \o b
<1>4. /\ w \in Seq(S) /\ Len(w) = Len(a) + Len(b)
      /\ \A i \in 1 .. Len(a) + Len(b) : w[i] = IF i <= Len(a) THEN a[i] ELSE b[i - Len(a)]
  BY <1>2, <1>3, ConcatProperties
<1>5. WithoutAt(s, k) = w
  BY DEF WithoutAt, a, b
<1> HIDE DEF w
<1>6. k \in Nat /\ Len(a) + Len(b) = Len(s) - 1
  BY <1>1, <1>2, <1>3
<1>7. ASSUME NEW i \in 1 .. Len(s) - 1
      PROVE  w[i] = IF i < k THEN s[i] ELSE s[i + 1]
  <2>1. w[i] = IF i <= k - 1 THEN a[i] ELSE b[i - (k - 1)]
    BY <1>2, <1>4, <1>6
  <2>2. CASE i < k
    BY <1>1, <1>2, <1>6, <2>1, <2>2
  <2>3. CASE i >= k
    <3>1. i - (k - 1) \in 1 .. Len(s) - k /\ ~(i <= k - 1) /\ ~(i < k)
      BY <1>1, <1>6, <2>3
    <3>2. k + (i - (k - 1)) = i + 1
      BY <1>1, <1>6
    <3> QED BY <1>3, <2>1, <3>1, <3>2
  <2> QED BY <1>1, <1>6, <2>2, <2>3
<1> QED BY <1>4, <1>5, <1>6, <1>7

\* The list s holds the processes Q, each once.
Lists(s, Q) ==
  /\ s \in Seq(Proc)
  /\ \A i, j \in 1 .. Len(s) : s[i] = s[j] => i = j
  /\ \A x : x \in Q <=> \E i \in 1 .. Len(s) : s[i] = x

\* Who is ahead of whom in a list.
OrderIn(s) == {e \in Proc \X Proc : \E i, j \in DOMAIN s : i < j /\ e = <<s[i], s[j]>>}

\* A relation between processes is known by its pairs.
Relates(R) == R \subseteq Proc \X Proc

SamePairs(R, S) == \A a, b : <<a, b>> \in R <=> <<a, b>> \in S

LEMMA SameRelation ==
  ASSUME NEW R, Relates(R), NEW S, Relates(S), SamePairs(R, S)
  PROVE  R = S
<1>1. \A e \in Proc \X Proc : \E a, b \in Proc : e = <<a, b>>
  OBVIOUS
<1> QED BY <1>1 DEF Relates, SamePairs

LEMMA PairsInOrder ==
  ASSUME NEW s \in Seq(Proc), NEW a, NEW b
  PROVE  <<a, b>> \in OrderIn(s) <=> \E i, j \in 1 .. Len(s) : i < j /\ s[i] = a /\ s[j] = b
<1>1. DOMAIN s = 1 .. Len(s) /\ \A i \in 1 .. Len(s) : s[i] \in Proc
  BY LenProperties, ElementOfSeq
<1>2. ASSUME <<a, b>> \in OrderIn(s)
      PROVE  \E i, j \in 1 .. Len(s) : i < j /\ s[i] = a /\ s[j] = b
  <2>1. PICK i \in 1 .. Len(s), j \in 1 .. Len(s) : i < j /\ <<a, b>> = <<s[i], s[j]>>
    BY <1>1, <1>2 DEF OrderIn
  <2> QED BY <2>1
<1>3. ASSUME NEW i \in 1 .. Len(s), NEW j \in 1 .. Len(s), i < j, s[i] = a, s[j] = b
      PROVE  <<a, b>> \in OrderIn(s)
  BY <1>1, <1>3 DEF OrderIn
<1> QED BY <1>2, <1>3

\* In the order R, p is at place k among the elements of s.
Between(R, s, k, p) ==
  \A a, b : <<a, b>> \in R <=>
    \/ <<a, b>> \in OrderIn(s)
    \/ b = p /\ \E i \in 1 .. Len(s) : i < k /\ s[i] = a
    \/ a = p /\ \E i \in 1 .. Len(s) : i >= k /\ s[i] = b

\* Where the elements of a list are after an insertion.
LEMMA WithLists ==
  ASSUME NEW s, NEW Q, Lists(s, Q), NEW p \in Proc, p \notin Q, NEW k \in 1 .. Len(s) + 1
  PROVE  /\ Lists(With(s, k, p), Q \cup {p})
         /\ Between(OrderIn(With(s, k, p)), s, k, p)
<1> DEFINE w == With(s, k, p)
<1>1. s \in Seq(Proc) /\ Len(s) \in Nat
  BY LenProperties DEF Lists
<1>2. /\ w \in Seq(Proc) /\ Len(w) = Len(s) + 1
      /\ \A i \in 1 .. Len(s) + 1 :
           w[i] = IF i < k THEN s[i] ELSE IF i = k THEN p ELSE s[i - 1]
  BY <1>1, WithProperties
<1> HIDE DEF w
<1>3. \A i \in 1 .. Len(s) : i < k => i \in 1 .. Len(w) /\ w[i] = s[i]
  BY <1>1, <1>2
<1>4. \A i \in 1 .. Len(s) : i >= k => i + 1 \in 1 .. Len(w) /\ w[i + 1] = s[i]
  <2> SUFFICES ASSUME NEW i \in 1 .. Len(s), i >= k
               PROVE  i + 1 \in 1 .. Len(w) /\ w[i + 1] = s[i]
    OBVIOUS
  <2>1. i + 1 \in 1 .. Len(w) /\ ~(i + 1 < k) /\ i + 1 # k /\ i + 1 - 1 = i
    BY <1>1, <1>2
  <2> QED BY <1>2, <2>1
<1>5. k \in 1 .. Len(w) /\ w[k] = p
  BY <1>1, <1>2
<1>6. \A j \in 1 .. Len(w) : \/ j = k
                             \/ j < k /\ j \in 1 .. Len(s)
                             \/ j > k /\ j - 1 \in 1 .. Len(s) /\ j - 1 >= k /\ w[j] = s[j - 1]
  BY <1>1, <1>2
<1>7. \A i \in 1 .. Len(s) : s[i] # p
  BY DEF Lists
<1>8. ASSUME NEW i \in 1 .. Len(w), NEW j \in 1 .. Len(w), w[i] = w[j] PROVE i = j
  <2>1. i \in Int /\ j \in Int /\ k \in Int
    BY <1>1, <1>2
  <2>2. CASE i = k \/ j = k
    BY <1>3, <1>5, <1>6, <1>7, <1>8, <2>2
  <2>3. CASE i < k /\ j < k
    BY <1>3, <1>6, <1>8, <2>1, <2>3 DEF Lists
  <2>4. CASE i > k /\ j > k
    <3>1. i - 1 = j - 1
      BY <1>6, <1>8, <2>1, <2>4 DEF Lists
    <3> QED BY <2>1, <3>1
  <2>5. ASSUME NEW m \in 1 .. Len(w), NEW n \in 1 .. Len(w), m < k, n > k, w[m] = w[n]
        PROVE  FALSE
    <3>1. m \in 1 .. Len(s) /\ n - 1 \in 1 .. Len(s) /\ s[m] = s[n - 1]
      BY <1>3, <1>5, <1>6, <2>1, <2>5
    <3>2. m = n - 1
      BY <3>1 DEF Lists
    <3> QED BY <1>6, <2>1, <2>5, <3>2
  <2> QED BY <1>8, <2>1, <2>2, <2>3, <2>4, <2>5
<1>9. ASSUME NEW x PROVE x \in Q \cup {p} <=> \E i \in 1 .. Len(w) : w[i] = x
  <2>1. ASSUME x \in Q PROVE \E i \in 1 .. Len(w) : w[i] = x
    <3>1. PICK i \in 1 .. Len(s) : s[i] = x
      BY <2>1 DEF Lists
    <3>2. i < k \/ i >= k
      BY <1>1
    <3> QED BY <1>3, <1>4, <3>1, <3>2
  <2>2. ASSUME NEW i \in 1 .. Len(w), w[i] = x PROVE x \in Q \cup {p}
    BY <1>3, <1>5, <1>6, <2>2 DEF Lists
  <2> QED BY <1>5, <2>1, <2>2
<1>10. ASSUME NEW a, NEW b, <<a, b>> \in OrderIn(w)
       PROVE  \/ <<a, b>> \in OrderIn(s)
              \/ b = p /\ \E i \in 1 .. Len(s) : i < k /\ s[i] = a
              \/ a = p /\ \E i \in 1 .. Len(s) : i >= k /\ s[i] = b
  <2>1. PICK i \in 1 .. Len(w), j \in 1 .. Len(w) : i < j /\ w[i] = a /\ w[j] = b
    BY <1>2, <1>10, PairsInOrder
  <2>2. i \in Int /\ j \in Int /\ k \in Int
    BY <1>1, <1>2
  <2>3. CASE i = k
    BY <1>5, <1>6, <2>1, <2>2, <2>3
  <2>4. CASE j = k
    BY <1>3, <1>5, <1>6, <2>1, <2>2, <2>4
  <2>5. CASE i # k /\ j # k
    <3>1. PICK m \in 1 .. Len(s) : s[m] = a /\ m = IF i < k THEN i ELSE i - 1
      BY <1>3, <1>6, <2>1, <2>2, <2>5
    <3>2. PICK n \in 1 .. Len(s) : s[n] = b /\ n = IF j < k THEN j ELSE j - 1
      BY <1>3, <1>6, <2>1, <2>2, <2>5
    <3>3. m < n
      BY <2>1, <2>2, <2>5, <3>1, <3>2
    <3> QED BY <1>1, <3>1, <3>2, <3>3, PairsInOrder
  <2> QED BY <2>3, <2>4, <2>5
<1>11. ASSUME NEW a, NEW b, <<a, b>> \in OrderIn(s) PROVE <<a, b>> \in OrderIn(w)
  <2>1. PICK i \in 1 .. Len(s), j \in 1 .. Len(s) : i < j /\ s[i] = a /\ s[j] = b
    BY <1>1, <1>11, PairsInOrder
  <2>2. PICK m \in 1 .. Len(w) : w[m] = a /\ m = IF i < k THEN i ELSE i + 1
    BY <1>1, <1>3, <1>4, <2>1
  <2>3. PICK n \in 1 .. Len(w) : w[n] = b /\ n = IF j < k THEN j ELSE j + 1
    BY <1>1, <1>3, <1>4, <2>1
  <2>4. m < n
    BY <1>1, <2>1, <2>2, <2>3
  <2> QED BY <1>2, <2>2, <2>3, <2>4, PairsInOrder
<1>12. ASSUME NEW i \in 1 .. Len(s), i < k PROVE <<s[i], p>> \in OrderIn(w)
  BY <1>2, <1>3, <1>5, <1>12, PairsInOrder
<1>13. ASSUME NEW i \in 1 .. Len(s), i >= k PROVE <<p, s[i]>> \in OrderIn(w)
  <2>1. k < i + 1
    BY <1>1, <1>13
  <2> QED BY <1>2, <1>4, <1>5, <1>13, <2>1, PairsInOrder
<1>14. Lists(w, Q \cup {p})
  BY <1>2, <1>8, <1>9 DEF Lists
<1>15. Between(OrderIn(w), s, k, p)
  BY <1>10, <1>11, <1>12, <1>13 DEF Between
<1> QED BY <1>14, <1>15 DEF w

\* Where the elements of a list are after an erase.
LEMMA WithoutLists ==
  ASSUME NEW s, NEW Q, Lists(s, Q), NEW k \in 1 .. Len(s)
  PROVE  /\ Lists(WithoutAt(s, k), Q \ {s[k]})
         /\ \A a, b : <<a, b>> \in OrderIn(WithoutAt(s, k)) <=>
              <<a, b>> \in OrderIn(s) /\ a # s[k] /\ b # s[k]
<1> DEFINE w == WithoutAt(s, k)
<1>1. s \in Seq(Proc) /\ Len(s) \in Nat /\ k \in Int
  BY LenProperties DEF Lists
<1>2. /\ w \in Seq(Proc) /\ Len(w) = Len(s) - 1
      /\ \A i \in 1 .. Len(s) - 1 : w[i] = IF i < k THEN s[i] ELSE s[i + 1]
  BY <1>1, WithoutAtProperties
<1> HIDE DEF w
<1>3. \A i \in 1 .. Len(w) :
        \E m \in 1 .. Len(s) : s[m] = w[i] /\ m # k /\ m = IF i < k THEN i ELSE i + 1
  BY <1>1, <1>2
<1>4. ASSUME NEW m \in 1 .. Len(s), m # k
      PROVE  \E i \in 1 .. Len(w) : w[i] = s[m] /\ i = IF m < k THEN m ELSE m - 1
  <2>1. CASE m < k
    BY <1>1, <1>2, <2>1
  <2>2. CASE m > k
    <3>1. m - 1 \in 1 .. Len(w) /\ ~(m - 1 < k) /\ m - 1 + 1 = m /\ ~(m < k)
      BY <1>1, <1>2, <2>2
    <3> QED BY <1>2, <3>1
  <2> QED BY <1>1, <1>4, <2>1, <2>2
<1>5. \A m \in 1 .. Len(s) : s[m] = s[k] <=> m = k
  BY DEF Lists
<1>6. ASSUME NEW i \in 1 .. Len(w), NEW j \in 1 .. Len(w), w[i] = w[j] PROVE i = j
  <2>1. PICK m \in 1 .. Len(s) : s[m] = w[i] /\ m # k /\ m = IF i < k THEN i ELSE i + 1
    BY <1>3
  <2>2. PICK n \in 1 .. Len(s) : s[n] = w[j] /\ n # k /\ n = IF j < k THEN j ELSE j + 1
    BY <1>3
  <2>3. m = n
    BY <1>6, <2>1, <2>2 DEF Lists
  <2> QED BY <1>1, <2>1, <2>2, <2>3
<1>7. ASSUME NEW x PROVE x \in Q \ {s[k]} <=> \E i \in 1 .. Len(w) : w[i] = x
  <2>1. ASSUME x \in Q \ {s[k]} PROVE \E i \in 1 .. Len(w) : w[i] = x
    <3>1. PICK m \in 1 .. Len(s) : s[m] = x
      BY <2>1 DEF Lists
    <3> QED BY <1>4, <2>1, <3>1
  <2>2. ASSUME NEW i \in 1 .. Len(w), w[i] = x PROVE x \in Q \ {s[k]}
    BY <1>3, <1>5, <2>2 DEF Lists
  <2> QED BY <2>1, <2>2
<1>8. ASSUME NEW a, NEW b, <<a, b>> \in OrderIn(w)
      PROVE  <<a, b>> \in OrderIn(s) /\ a # s[k] /\ b # s[k]
  <2>1. PICK i \in 1 .. Len(w), j \in 1 .. Len(w) : i < j /\ w[i] = a /\ w[j] = b
    BY <1>2, <1>8, PairsInOrder
  <2>2. PICK m \in 1 .. Len(s) : s[m] = a /\ m # k /\ m = IF i < k THEN i ELSE i + 1
    BY <1>3, <2>1
  <2>3. PICK n \in 1 .. Len(s) : s[n] = b /\ n # k /\ n = IF j < k THEN j ELSE j + 1
    BY <1>3, <2>1
  <2>4. m < n
    BY <1>1, <2>1, <2>2, <2>3
  <2> QED BY <1>1, <1>5, <2>2, <2>3, <2>4, PairsInOrder
<1>9. ASSUME NEW a, NEW b, <<a, b>> \in OrderIn(s), a # s[k], b # s[k]
      PROVE  <<a, b>> \in OrderIn(w)
  <2>1. PICK m \in 1 .. Len(s), n \in 1 .. Len(s) : m < n /\ s[m] = a /\ s[n] = b
    BY <1>1, <1>9, PairsInOrder
  <2>2. PICK i \in 1 .. Len(w) : w[i] = a /\ i = IF m < k THEN m ELSE m - 1
    BY <1>4, <1>9, <2>1
  <2>3. PICK j \in 1 .. Len(w) : w[j] = b /\ j = IF n < k THEN n ELSE n - 1
    BY <1>4, <1>9, <2>1
  <2>4. m # k /\ n # k
    BY <1>9, <2>1
  <2>5. i < j
    BY <1>1, <2>1, <2>2, <2>3, <2>4
  <2> QED BY <1>2, <2>2, <2>3, <2>5, PairsInOrder
<1>10. Lists(w, Q \ {s[k]})
  BY <1>2, <1>6, <1>7 DEF Lists
<1> QED BY <1>8, <1>9, <1>10 DEF w

-----------------------------------------------------------------------------
(***************************************************************************)
(* The list of sqsDll.cc                                                   *)
(***************************************************************************)

\* The list holds the scheduled processes, each once, sorted by time.
ListInv ==
  /\ notice \in [Proc -> Time \cup {NULL}]
  /\ Lists(list, Scheduled)
  /\ \A i, j \in 1 .. Len(list) : i < j => notice[list[i]] <= notice[list[j]]

LEMMA ListLen ==
  ASSUME ListInv
  PROVE  /\ list \in Seq(Proc) /\ Len(list) \in Nat /\ DOMAIN list = 1 .. Len(list)
         /\ \A i \in 1 .. Len(list) : list[i] \in Scheduled /\ notice[list[i]] \in Nat
         /\ Dll!ListOrder = OrderIn(list)
<1>1. list \in Seq(Proc) /\ Len(list) \in Nat /\ DOMAIN list = 1 .. Len(list)
  BY LenProperties DEF ListInv, Lists
<1>2. \A i \in 1 .. Len(list) : list[i] \in Scheduled
  BY DEF ListInv, Lists
<1>3. \A q \in Scheduled : notice[q] \in Nat
  BY DEF ListInv, Scheduled
<1> QED BY <1>1, <1>2, <1>3 DEF Dll!ListOrder, OrderIn

\* A notice for time u can be put before place k of the list.
Fits(k, u) ==
  /\ k \in 1 .. Len(list) + 1
  /\ \A i \in 1 .. Len(list) : i < k => notice[list[i]] <= u
  /\ \A i \in 1 .. Len(list) : i >= k => u <= notice[list[i]]

\* The notice of p, for time u, is put there.
PutIn(p, k, u) ==
  notice[p] = NULL /\ list' = With(list, k, p) /\ notice' = [notice EXCEPT ![p] = u]

\* A process put into the list where its time allows.
LEMMA ListGrows ==
  ASSUME ListInv, NEW p \in Proc, NEW u \in Time, NEW k, Fits(k, u), PutIn(p, k, u)
  PROVE  /\ ListInv'
         /\ Dll!ListOrder' \subseteq Proc \X Proc
         /\ Between(Dll!ListOrder', list, k, p)
<1>1. p \notin Scheduled /\ Scheduled' = Scheduled \cup {p}
  BY DEF Scheduled, ListInv, PutIn
<1>2. /\ Lists(list', Scheduled')
      /\ Between(OrderIn(list'), list, k, p)
  <2>1. Lists(list, Scheduled)
    BY DEF ListInv
  <2>2. k \in 1 .. Len(list) + 1
    BY DEF Fits
  <2>3. /\ Lists(With(list, k, p), Scheduled \cup {p})
        /\ Between(OrderIn(With(list, k, p)), list, k, p)
    BY <1>1, <2>1, <2>2, WithLists
  <2>4. list' = With(list, k, p)
    BY DEF PutIn
  <2> QED BY <1>1, <2>3, <2>4
<1>3. notice' \in [Proc -> Time \cup {NULL}] /\ notice'[p] = u
      /\ \A q \in Scheduled : notice'[q] = notice[q]
  BY <1>1 DEF ListInv, Scheduled, PutIn
<1>4. list' \in Seq(Proc)
  BY <1>2 DEF Lists
<1>5. ASSUME NEW i \in 1 .. Len(list'), NEW j \in 1 .. Len(list'), i < j
      PROVE  notice'[list'[i]] <= notice'[list'[j]]
  <2>1. <<list'[i], list'[j]>> \in OrderIn(list')
    BY <1>4, <1>5, PairsInOrder
  <2>2. CASE <<list'[i], list'[j]>> \in OrderIn(list)
    <3>1. PICK m \in 1 .. Len(list), n \in 1 .. Len(list) :
                 m < n /\ list[m] = list'[i] /\ list[n] = list'[j]
      BY <2>2, ListLen, PairsInOrder
    <3> QED BY <1>3, <3>1, ListLen DEF ListInv
  <2>3. CASE list'[j] = p /\ \E m \in 1 .. Len(list) : m < k /\ list[m] = list'[i]
    BY <1>3, <2>3, ListLen DEF Fits
  <2>4. CASE list'[i] = p /\ \E m \in 1 .. Len(list) : m >= k /\ list[m] = list'[j]
    BY <1>3, <2>4, ListLen DEF Fits
  <2> QED BY <1>2, <2>1, <2>2, <2>3, <2>4 DEF Between
<1>6. ListInv'
  BY <1>2, <1>3, <1>5 DEF ListInv
<1>7. Dll!ListOrder' = OrderIn(list') /\ Dll!ListOrder' \subseteq Proc \X Proc
  BY DEF Dll!ListOrder, OrderIn
<1> QED BY <1>2, <1>6, <1>7, ListLen

\* A set of numbers has a least one.
LEMMA LeastOfNumbers ==
  ASSUME NEW T \in SUBSET Nat, T # {}
  PROVE  \E n \in T : \A m \in T : n <= m
<1> DEFINE R == {ss \in Nat \X Nat : ss[1] < ss[2]}
<1>1. IsWellFoundedOn(R, Nat)
  BY NatLessThanWellFounded DEF OpToRel
<1>2. \E n \in T : \A m \in T : ~(<<m, n>> \in R)
  BY <1>1, WFMin, Zenon
<1>3. PICK n \in T : \A m \in T : ~(<<m, n>> \in R)
  BY <1>2
<1>4. ASSUME NEW m \in T PROVE n <= m
  <2>1. n \in Nat /\ m \in Nat /\ <<m, n>> \in Nat \X Nat
    OBVIOUS
  <2>2. ~(<<m, n>>[1] < <<m, n>>[2])
    BY <1>3, <2>1
  <2> QED BY <2>1, <2>2
<1> QED BY <1>4

\* find_if stops between the earlier notices and the others.
LEMMA PlaceFound ==
  ASSUME ListInv, NEW t \in Time
  PROVE  /\ Dll!Place(t) \in 1 .. Len(list) + 1
         /\ \A i \in 1 .. Len(list) : i < Dll!Place(t) <=> notice[list[i]] < t
<1> DEFINE I == {i \in 1 .. Len(list) : notice[list[i]] >= t}
<1>1. t \in Nat /\ Len(list) \in Nat /\ \A i \in 1 .. Len(list) : notice[list[i]] \in Nat
  BY ListLen
<1>2. CASE I = {}
  <2>1. Dll!FindFrom(t) = 0
    BY <1>2 DEF Dll!FindFrom, Dll!SelectInSeq
  <2>2. Dll!Place(t) = Len(list) + 1
    BY <2>1 DEF Dll!Place
  <2>3. \A i \in 1 .. Len(list) : notice[list[i]] < t
    BY <1>1, <1>2
  <2> QED BY <1>1, <2>2, <2>3
<1>3. CASE I # {}
  <2>1. I \in SUBSET Nat
    OBVIOUS
  <2>2. \E n \in I : \A m \in I : n <= m
    <3> HIDE DEF I
    <3> QED BY <1>3, <2>1, LeastOfNumbers
  <2> DEFINE n == CHOOSE n \in I : \A m \in I : n <= m
  <2>3. n \in I /\ \A m \in I : n <= m
    <3> HIDE DEF I
    <3> QED BY <2>2
  <2>4. Dll!FindFrom(t) = n
    BY <1>3 DEF Dll!FindFrom, Dll!SelectInSeq, Dll!Min
  <2>5. Dll!Place(t) = n
    BY <2>3, <2>4 DEF Dll!Place
  <2> HIDE DEF n
  <2>6. ASSUME NEW i \in 1 .. Len(list) PROVE i < n <=> notice[list[i]] < t
    <3>1. CASE i < n
      BY <1>1, <2>3, <3>1
    <3>2. CASE i = n
      BY <1>1, <2>3, <3>2
    <3>3. CASE i > n
      <4>1. notice[list[n]] <= notice[list[i]]
        BY <2>3, <3>3 DEF ListInv
      <4> QED BY <1>1, <2>3, <3>3, <4>1
    <3> QED BY <2>3, <3>1, <3>2, <3>3
  <2> QED BY <2>3, <2>5, <2>6
<1> QED BY <1>2, <1>3

\* Where a process is in the list.
LEMMA PosFound ==
  ASSUME ListInv, NEW q \in Scheduled
  PROVE  /\ Dll!Pos(q) \in 1 .. Len(list) /\ list[Dll!Pos(q)] = q
         /\ \A i \in 1 .. Len(list) : i < Dll!Pos(q) <=> <<list[i], q>> \in Dll!ListOrder
         /\ \A i \in 1 .. Len(list) : i > Dll!Pos(q) <=> <<q, list[i]>> \in Dll!ListOrder
         /\ \A i \in 1 .. Len(list) : i = Dll!Pos(q) <=> list[i] = q
<1>1. \E i \in 1 .. Len(list) : list[i] = q
  BY DEF ListInv, Lists
<1>2. Dll!Pos(q) \in 1 .. Len(list) /\ list[Dll!Pos(q)] = q
  BY <1>1, ListLen DEF Dll!Pos
<1>3. \A i, j \in 1 .. Len(list) : list[i] = list[j] => i = j
  BY DEF ListInv, Lists
<1>4. \A i, j \in 1 .. Len(list) : <<list[i], list[j]>> \in Dll!ListOrder <=> i < j
  <2> SUFFICES ASSUME NEW i \in 1 .. Len(list), NEW j \in 1 .. Len(list)
               PROVE  <<list[i], list[j]>> \in Dll!ListOrder <=> i < j
    OBVIOUS
  <2>1. <<list[i], list[j]>> \in Dll!ListOrder <=>
          \E m, n \in 1 .. Len(list) : m < n /\ list[m] = list[i] /\ list[n] = list[j]
    BY ListLen, PairsInOrder
  <2> QED BY <1>3, <2>1
<1> QED BY <1>2, <1>3, <1>4

LEMMA ListIsWithin == ASSUME ListInv PROVE Dll!ListOrder \subseteq Scheduled \X Scheduled
<1>1. Dll!ListOrder \subseteq Proc \X Proc
  BY DEF Dll!ListOrder
<1>2. ASSUME NEW a \in Proc, NEW b \in Proc, <<a, b>> \in Dll!ListOrder
      PROVE  a \in Scheduled /\ b \in Scheduled
  BY <1>2, ListLen, PairsInOrder
<1> QED BY <1>1, <1>2

\* insertAt of the list is insertAt of the sequencing set.
LEMMA ListInsertAt ==
  ASSUME ListInv, NEW p \in Proc, NEW t \in Time, Dll!insertAt(p, t)
  PROVE  /\ ListInv'
         /\ Dll!ListOrder' = PlacedAt(Dll!ListOrder, Scheduled, notice, p, t)
<1> DEFINE k == Dll!Place(t)
<1>1. k \in 1 .. Len(list) + 1 /\ \A i \in 1 .. Len(list) : i < k <=> notice[list[i]] < t
  BY PlaceFound
<1>2. PutIn(p, k, t)
  BY DEF PutIn, Dll!insertAt, Dll!InsertAt, With
<1> HIDE DEF k
<1>3. /\ t \in Nat /\ Len(list) \in Nat
      /\ \A i \in 1 .. Len(list) : list[i] \in Scheduled /\ notice[list[i]] \in Nat
  BY ListLen
<1>4. /\ \A i \in 1 .. Len(list) : i < k => notice[list[i]] <= t
      /\ \A i \in 1 .. Len(list) : i >= k <=> notice[list[i]] >= t
  BY <1>1, <1>3
<1>5. /\ ListInv'
      /\ Dll!ListOrder' \subseteq Proc \X Proc
      /\ Between(Dll!ListOrder', list, k, p)
  <2>1. \A i \in 1 .. Len(list) : i >= k => t <= notice[list[i]]
    BY <1>3, <1>4
  <2>2. Fits(k, t)
    BY <1>1, <1>4, <2>1 DEF Fits
  <2> QED BY <1>2, <2>2, ListGrows
<1>6. \A a : (\E i \in 1 .. Len(list) : i < k /\ list[i] = a) <=> a \in {x \in Scheduled : notice[x] < t}
  BY <1>1 DEF ListInv, Lists
<1>7. \A b : (\E i \in 1 .. Len(list) : i >= k /\ list[i] = b) <=> b \in {x \in Scheduled : notice[x] >= t}
  BY <1>4 DEF ListInv, Lists
<1> DEFINE after == PlacedAt(Dll!ListOrder, Scheduled, notice, p, t)
<1>8. \A a, b : <<a, b>> \in after <=> \/ <<a, b>> \in Dll!ListOrder
                                       \/ b = p /\ a \in {x \in Scheduled : notice[x] < t}
                                       \/ a = p /\ b \in {x \in Scheduled : notice[x] >= t}
  BY DEF PlacedAt
<1>9. after \subseteq Proc \X Proc
  BY ListIsWithin, PlacedWithin DEF Scheduled
<1> HIDE DEF after
<1>10. ASSUME NEW a, NEW b PROVE <<a, b>> \in Dll!ListOrder' <=> <<a, b>> \in after
  <2>1. Dll!ListOrder = OrderIn(list)
    BY ListLen
  <2>2. <<a, b>> \in Dll!ListOrder' <=>
          \/ <<a, b>> \in Dll!ListOrder
          \/ b = p /\ \E i \in 1 .. Len(list) : i < k /\ list[i] = a
          \/ a = p /\ \E i \in 1 .. Len(list) : i >= k /\ list[i] = b
    BY <1>5, <2>1 DEF Between
  <2>3. <<a, b>> \in Dll!ListOrder' <=> \/ <<a, b>> \in Dll!ListOrder
                                        \/ b = p /\ a \in {x \in Scheduled : notice[x] < t}
                                        \/ a = p /\ b \in {x \in Scheduled : notice[x] >= t}
    BY <1>6, <1>7, <2>2, Zenon
  <2> QED BY <1>8, <2>3
<1>11. Dll!ListOrder' = after
  <2>1. Relates(Dll!ListOrder') /\ Relates(after)
    BY <1>5, <1>9 DEF Relates
  <2>2. SamePairs(Dll!ListOrder', after)
    BY <1>10 DEF SamePairs
  <2> QED BY <2>1, <2>2, SameRelation
<1> QED BY <1>5, <1>11 DEF after

\* insert before a process of the list is insert before a process of the sequencing set.
LEMMA ListInsertBefore ==
  ASSUME ListInv, NEW p \in Proc, NEW q \in Proc, Dll!insert(p, q, "before")
  PROVE  /\ ListInv'
         /\ Dll!ListOrder' = PlacedBefore(Dll!ListOrder, Scheduled, p, q)
<1> DEFINE k == Dll!Pos(q)
           A == {x \in Scheduled : <<x, q>> \in Dll!ListOrder}
           B == {x \in Scheduled : x = q \/ <<q, x>> \in Dll!ListOrder}
<1>1. q \in Scheduled /\ notice[q] \in Time /\ notice[p] = NULL
  BY DEF Dll!insert, Scheduled, ListInv
<1>2. /\ Dll!Pos(q) \in 1 .. Len(list) /\ list[Dll!Pos(q)] = q /\ Len(list) \in Nat
      /\ \A i \in 1 .. Len(list) : i < Dll!Pos(q) <=> <<list[i], q>> \in Dll!ListOrder
      /\ \A i \in 1 .. Len(list) : i > Dll!Pos(q) <=> <<q, list[i]>> \in Dll!ListOrder
      /\ \A i \in 1 .. Len(list) : i = Dll!Pos(q) <=> list[i] = q
  BY <1>1, PosFound, ListLen
<1>3. PutIn(p, k, notice[q])
  BY DEF PutIn, Dll!insert, Dll!InsertAt, With
<1>4. /\ k \in 1 .. Len(list) + 1
      /\ \A i \in 1 .. Len(list) : i < k <=> <<list[i], q>> \in Dll!ListOrder
      /\ \A i \in 1 .. Len(list) : i >= k <=> list[i] = q \/ <<q, list[i]>> \in Dll!ListOrder
  BY <1>2
<1>sorted. \A i, j \in 1 .. Len(list) : i < j => notice[list[i]] <= notice[list[j]]
  BY DEF ListInv
<1>5. Fits(k, notice[q])
  <2>1. ASSUME NEW i \in 1 .. Len(list), i < k PROVE notice[list[i]] <= notice[q]
    <3>1. i < Dll!Pos(q) \/ i = Dll!Pos(q)
      BY <1>2, <2>1
    <3>2. notice[list[i]] <= notice[list[Dll!Pos(q)]] \/ i = Dll!Pos(q)
      BY <1>2, <1>sorted, <3>1
    <3>3. notice[q] \in Nat
      BY <1>1
    <3> QED BY <1>2, <3>2, <3>3
  <2>2. ASSUME NEW i \in 1 .. Len(list), i >= k PROVE notice[q] <= notice[list[i]]
    <3>1. i > Dll!Pos(q) \/ i = Dll!Pos(q)
      BY <1>2, <2>2
    <3>2. notice[list[Dll!Pos(q)]] <= notice[list[i]] \/ i = Dll!Pos(q)
      BY <1>2, <1>sorted, <3>1
    <3>3. notice[q] \in Nat
      BY <1>1
    <3> QED BY <1>2, <3>2, <3>3
  <2> QED BY <1>4, <2>1, <2>2 DEF Fits
<1> HIDE DEF k
<1>6. /\ ListInv'
      /\ Dll!ListOrder' \subseteq Proc \X Proc
      /\ Between(Dll!ListOrder', list, k, p)
  BY <1>1, <1>3, <1>5, ListGrows
<1>7. \A a : (\E i \in 1 .. Len(list) : i < k /\ list[i] = a) <=> a \in A
  BY <1>4 DEF ListInv, Lists
<1>8. \A b : (\E i \in 1 .. Len(list) : i >= k /\ list[i] = b) <=> b \in B
  BY <1>4 DEF ListInv, Lists
<1> DEFINE after == PlacedBefore(Dll!ListOrder, Scheduled, p, q)
<1>9. \A a, b : <<a, b>> \in after <=> <<a, b>> \in Dll!ListOrder \/ (b = p /\ a \in A) \/ (a = p /\ b \in B)
  BY DEF PlacedBefore
<1>10. after \subseteq Proc \X Proc
  BY ListIsWithin, PlacedWithin DEF Scheduled
<1> HIDE DEF after, A, B
<1>11. ASSUME NEW a, NEW b PROVE <<a, b>> \in Dll!ListOrder' <=> <<a, b>> \in after
  <2>1. Dll!ListOrder = OrderIn(list)
    BY ListLen
  <2>2. <<a, b>> \in Dll!ListOrder' <=>
          \/ <<a, b>> \in Dll!ListOrder
          \/ b = p /\ \E i \in 1 .. Len(list) : i < k /\ list[i] = a
          \/ a = p /\ \E i \in 1 .. Len(list) : i >= k /\ list[i] = b
    BY <1>6, <2>1 DEF Between
  <2>3. <<a, b>> \in Dll!ListOrder' <=> <<a, b>> \in Dll!ListOrder \/ (b = p /\ a \in A) \/ (a = p /\ b \in B)
    BY <1>7, <1>8, <2>2, Zenon
  <2> QED BY <1>9, <2>3
<1>12. Dll!ListOrder' = after
  <2>1. Relates(Dll!ListOrder') /\ Relates(after)
    BY <1>6, <1>10 DEF Relates
  <2>2. SamePairs(Dll!ListOrder', after)
    BY <1>11 DEF SamePairs
  <2> QED BY <2>1, <2>2, SameRelation
<1> QED BY <1>6, <1>12 DEF after

\* insert after a process of the list is insert after a process of the sequencing set.
LEMMA ListInsertAfter ==
  ASSUME ListInv, NEW p \in Proc, NEW q \in Proc, Dll!insert(p, q, "after")
  PROVE  /\ ListInv'
         /\ Dll!ListOrder' = PlacedAfter(Dll!ListOrder, Scheduled, p, q)
<1> DEFINE k == Dll!Pos(q) + 1
           A == {x \in Scheduled : x = q \/ <<x, q>> \in Dll!ListOrder}
           B == {x \in Scheduled : <<q, x>> \in Dll!ListOrder}
<1>1. q \in Scheduled /\ notice[q] \in Time /\ notice[p] = NULL
  BY DEF Dll!insert, Scheduled, ListInv
<1>2. /\ Dll!Pos(q) \in 1 .. Len(list) /\ list[Dll!Pos(q)] = q /\ Len(list) \in Nat
      /\ \A i \in 1 .. Len(list) : i < Dll!Pos(q) <=> <<list[i], q>> \in Dll!ListOrder
      /\ \A i \in 1 .. Len(list) : i > Dll!Pos(q) <=> <<q, list[i]>> \in Dll!ListOrder
      /\ \A i \in 1 .. Len(list) : i = Dll!Pos(q) <=> list[i] = q
  BY <1>1, PosFound, ListLen
<1>3. PutIn(p, k, notice[q])
  BY DEF PutIn, Dll!insert, Dll!InsertAt, With
<1>4. /\ k \in 1 .. Len(list) + 1
      /\ \A i \in 1 .. Len(list) : i < k <=> list[i] = q \/ <<list[i], q>> \in Dll!ListOrder
      /\ \A i \in 1 .. Len(list) : i >= k <=> <<q, list[i]>> \in Dll!ListOrder
  BY <1>2
<1>sorted. \A i, j \in 1 .. Len(list) : i < j => notice[list[i]] <= notice[list[j]]
  BY DEF ListInv
<1>5. Fits(k, notice[q])
  <2>1. ASSUME NEW i \in 1 .. Len(list), i < k PROVE notice[list[i]] <= notice[q]
    <3>1. i < Dll!Pos(q) \/ i = Dll!Pos(q)
      BY <1>2, <2>1
    <3>2. notice[list[i]] <= notice[list[Dll!Pos(q)]] \/ i = Dll!Pos(q)
      BY <1>2, <1>sorted, <3>1
    <3>3. notice[q] \in Nat
      BY <1>1
    <3> QED BY <1>2, <3>2, <3>3
  <2>2. ASSUME NEW i \in 1 .. Len(list), i >= k PROVE notice[q] <= notice[list[i]]
    <3>1. i > Dll!Pos(q) \/ i = Dll!Pos(q)
      BY <1>2, <2>2
    <3>2. notice[list[Dll!Pos(q)]] <= notice[list[i]] \/ i = Dll!Pos(q)
      BY <1>2, <1>sorted, <3>1
    <3>3. notice[q] \in Nat
      BY <1>1
    <3> QED BY <1>2, <3>2, <3>3
  <2> QED BY <1>4, <2>1, <2>2 DEF Fits
<1> HIDE DEF k
<1>6. /\ ListInv'
      /\ Dll!ListOrder' \subseteq Proc \X Proc
      /\ Between(Dll!ListOrder', list, k, p)
  BY <1>1, <1>3, <1>5, ListGrows
<1>7. \A a : (\E i \in 1 .. Len(list) : i < k /\ list[i] = a) <=> a \in A
  BY <1>4 DEF ListInv, Lists
<1>8. \A b : (\E i \in 1 .. Len(list) : i >= k /\ list[i] = b) <=> b \in B
  BY <1>4 DEF ListInv, Lists
<1> DEFINE after == PlacedAfter(Dll!ListOrder, Scheduled, p, q)
<1>9. \A a, b : <<a, b>> \in after <=> <<a, b>> \in Dll!ListOrder \/ (b = p /\ a \in A) \/ (a = p /\ b \in B)
  BY DEF PlacedAfter
<1>10. after \subseteq Proc \X Proc
  BY ListIsWithin, PlacedWithin DEF Scheduled
<1> HIDE DEF after, A, B
<1>11. ASSUME NEW a, NEW b PROVE <<a, b>> \in Dll!ListOrder' <=> <<a, b>> \in after
  <2>1. Dll!ListOrder = OrderIn(list)
    BY ListLen
  <2>2. <<a, b>> \in Dll!ListOrder' <=>
          \/ <<a, b>> \in Dll!ListOrder
          \/ b = p /\ \E i \in 1 .. Len(list) : i < k /\ list[i] = a
          \/ a = p /\ \E i \in 1 .. Len(list) : i >= k /\ list[i] = b
    BY <1>6, <2>1 DEF Between
  <2>3. <<a, b>> \in Dll!ListOrder' <=> <<a, b>> \in Dll!ListOrder \/ (b = p /\ a \in A) \/ (a = p /\ b \in B)
    BY <1>7, <1>8, <2>2, Zenon
  <2> QED BY <1>9, <2>3
<1>12. Dll!ListOrder' = after
  <2>1. Relates(Dll!ListOrder') /\ Relates(after)
    BY <1>6, <1>10 DEF Relates
  <2>2. SamePairs(Dll!ListOrder', after)
    BY <1>11 DEF SamePairs
  <2> QED BY <2>1, <2>2, SameRelation
<1> QED BY <1>6, <1>12 DEF after

\* remove of the list is remove of the sequencing set.
LEMMA ListRemove ==
  ASSUME ListInv, NEW p \in Proc, Dll!remove(p)
  PROVE  ListInv' /\ Dll!ListOrder' = Without(Dll!ListOrder, p)
<1> DEFINE k == Dll!Pos(p)
<1>1. p \in Scheduled /\ Scheduled' = Scheduled \ {p}
  BY DEF Dll!remove, Scheduled, ListInv
<1>2. k \in 1 .. Len(list) /\ list[k] = p
  BY <1>1, PosFound
<1>3. list' = WithoutAt(list, k) /\ notice' = [notice EXCEPT ![p] = NULL]
  BY DEF Dll!remove, Dll!RemoveAt, WithoutAt
<1> HIDE DEF k
<1>4. /\ Lists(list', Scheduled')
      /\ \A a, b : <<a, b>> \in OrderIn(list') <=> <<a, b>> \in OrderIn(list) /\ a # p /\ b # p
  <2>1. Lists(list, Scheduled)
    BY DEF ListInv
  <2>2. /\ Lists(WithoutAt(list, k), Scheduled \ {p})
        /\ \A a, b : <<a, b>> \in OrderIn(WithoutAt(list, k)) <=>
             <<a, b>> \in OrderIn(list) /\ a # p /\ b # p
    BY <1>2, <2>1, WithoutLists
  <2> QED BY <1>1, <1>3, <2>2
<1>5. Dll!ListOrder' = OrderIn(list') /\ Dll!ListOrder' \subseteq Proc \X Proc /\ Dll!ListOrder = OrderIn(list)
  BY DEF Dll!ListOrder, OrderIn
<1>6. ASSUME NEW i \in 1 .. Len(list'), NEW j \in 1 .. Len(list'), i < j
      PROVE  notice'[list'[i]] <= notice'[list'[j]]
  <2>1. <<list'[i], list'[j]>> \in OrderIn(list')
    BY <1>4, <1>6, PairsInOrder DEF Lists
  <2>2. PICK m \in 1 .. Len(list), n \in 1 .. Len(list) :
               m < n /\ list[m] = list'[i] /\ list[n] = list'[j]
    BY <1>4, <2>1, ListLen, PairsInOrder
  <2>3. list'[i] \in Scheduled' /\ list'[j] \in Scheduled'
    BY <1>4 DEF Lists
  <2>4. \A q \in Scheduled' : notice'[q] = notice[q]
    BY <1>1, <1>3 DEF ListInv, Scheduled
  <2> QED BY <2>2, <2>3, <2>4 DEF ListInv
<1>7. ListInv'
  <2>1. notice' \in [Proc -> Time \cup {NULL}]
    BY <1>3 DEF ListInv
  <2> QED BY <1>4, <1>6, <2>1 DEF ListInv
<1> DEFINE after == Without(Dll!ListOrder, p)
<1>8. after \in SUBSET (Proc \X Proc)
  BY DEF Without, Dll!ListOrder
<1>9. \A a, b : <<a, b>> \in after <=> <<a, b>> \in Dll!ListOrder /\ a # p /\ b # p
  BY DEF Without
<1> HIDE DEF after
<1>10. Dll!ListOrder' = after
  <2>1. SamePairs(Dll!ListOrder', after)
    BY <1>4, <1>5, <1>9 DEF SamePairs
  <2>2. Relates(Dll!ListOrder') /\ Relates(after)
    BY <1>5, <1>8 DEF Relates
  <2> QED BY <2>1, <2>2, SameRelation
<1> QED BY <1>7, <1>10 DEF after

\* An empty list is an empty sequencing set.
LEMMA ListEmpty ==
  ASSUME list = <<>>, notice = [p \in Proc |-> NULL]
  PROVE  ListInv /\ Dll!ListOrder = {}
<1>1. Scheduled = {} /\ Len(list) = 0 /\ DOMAIN list = {} /\ list \in Seq(Proc)
  BY DEF Scheduled
<1> QED BY <1>1 DEF ListInv, Lists, Dll!ListOrder

\* Every step of the list is one of the sequencing set, and keeps ListInv.
LEMMA ListStep ==
  ASSUME ListInv, Dll!Next
  PROVE  /\ ListInv'
         /\ Dll!Abstract!Next
         /\ \A p \in Proc, t \in Time : Dll!insertAt(p, t) => Dll!Abstract!InsertAt(p, t)
         /\ \A p, q \in Proc : /\ Dll!insert(p, q, "before") => Dll!Abstract!InsertBefore(p, q)
                               /\ Dll!insert(p, q, "after") => Dll!Abstract!InsertAfter(p, q)
         /\ \A p \in Proc : Dll!remove(p) => Dll!Abstract!Remove(p)
         /\ Dll!clear => Dll!Abstract!Clear
<1>1. Dll!Abstract!Scheduled = Scheduled
  BY DEF Dll!Abstract!Scheduled, Scheduled
<1>2. ASSUME NEW p \in Proc, NEW t \in Time, Dll!insertAt(p, t)
      PROVE  ListInv' /\ Dll!Abstract!InsertAt(p, t)
  BY <1>1, <1>2, ListInsertAt DEF Dll!insertAt, Dll!Abstract!InsertAt, Dll!Abstract!PlacedAt, PlacedAt
<1>3. ASSUME NEW p \in Proc, NEW q \in Proc, Dll!insert(p, q, "before")
      PROVE  ListInv' /\ Dll!Abstract!InsertBefore(p, q)
  BY <1>1, <1>3, ListInsertBefore
     DEF Dll!insert, Dll!Abstract!InsertBefore, Dll!Abstract!PlacedBefore, PlacedBefore
<1>4. ASSUME NEW p \in Proc, NEW q \in Proc, Dll!insert(p, q, "after")
      PROVE  ListInv' /\ Dll!Abstract!InsertAfter(p, q)
  BY <1>1, <1>4, ListInsertAfter
     DEF Dll!insert, Dll!Abstract!InsertAfter, Dll!Abstract!PlacedAfter, PlacedAfter
<1>5. ASSUME NEW p \in Proc, Dll!remove(p)
      PROVE  ListInv' /\ Dll!Abstract!Remove(p)
  BY <1>5, ListRemove DEF Dll!remove, Dll!Abstract!Remove, Dll!Abstract!Without, Without
<1>6. ASSUME Dll!clear PROVE ListInv' /\ Dll!Abstract!Clear
  <2>1. Scheduled' = {} /\ Len(list') = 0 /\ DOMAIN list' = {} /\ list' \in Seq(Proc)
    BY <1>6 DEF Scheduled, Dll!clear
  <2>2. Dll!ListOrder' = {}
    BY <2>1 DEF Dll!ListOrder
  <2>3. ListInv'
    BY <1>6, <2>1 DEF ListInv, Lists, Dll!clear
  <2> QED BY <1>6, <2>2, <2>3 DEF Dll!clear, Dll!Abstract!Clear
<1>7. ListInv' /\ Dll!Abstract!Next
  <2>1. CASE \E p \in Proc, t \in Time : Dll!insertAt(p, t)
    BY <2>1, <1>2 DEF Dll!Abstract!Next
  <2>2. CASE \E p, q \in Proc : Dll!insert(p, q, "before")
    BY <2>2, <1>3 DEF Dll!Abstract!Next
  <2>3. CASE \E p, q \in Proc : Dll!insert(p, q, "after")
    BY <2>3, <1>4 DEF Dll!Abstract!Next
  <2>4. CASE \E p \in Proc : Dll!remove(p)
    BY <2>4, <1>5 DEF Dll!Abstract!Next
  <2>5. CASE Dll!clear
    BY <2>5, <1>6 DEF Dll!Abstract!Next
  <2> QED BY <2>1, <2>2, <2>3, <2>4, <2>5 DEF Dll!Next, Dll!Positions
<1> QED BY <1>2, <1>3, <1>4, <1>5, <1>6, <1>7

LEMMA ListStarts == Dll!Init => ListInv
BY ListEmpty DEF Dll!Init

LEMMA ListInvariant == Dll!Spec => []ListInv
<1>1. ListInv /\ [Dll!Next]_Dll!vars => ListInv'
  <2>1. ASSUME ListInv, UNCHANGED Dll!vars PROVE ListInv'
    BY <2>1 DEF Dll!vars, ListInv, Scheduled
  <2> QED BY <2>1, ListStep
<1> QED BY ListStarts, <1>1, PTL DEF Dll!Spec

\* DllImplementsSeqSet: whatever processes and times there are, each function
\* of sqsDll.cc does to the list what class sqs promises of it.
THEOREM ListImplementsSeqSet == Dll!Spec => DllImplementsSeqSet
<1>1. Dll!Init => Dll!Abstract!Init
  BY ListEmpty DEF Dll!Init, Dll!Abstract!Init
<1> DEFINE Refines ==
      /\ Dll!Abstract!Next
      /\ \A p \in Proc, t \in Time : Dll!insertAt(p, t) => Dll!Abstract!InsertAt(p, t)
      /\ \A p, q \in Proc : /\ Dll!insert(p, q, "before") => Dll!Abstract!InsertBefore(p, q)
                            /\ Dll!insert(p, q, "after") => Dll!Abstract!InsertAfter(p, q)
      /\ \A p \in Proc : Dll!remove(p) => Dll!Abstract!Remove(p)
      /\ Dll!clear => Dll!Abstract!Clear
<1>2. ListInv /\ [Dll!Next]_Dll!vars => [Refines]_Dll!vars
  BY ListStep
<1>3. Dll!Spec => Dll!Abstract!Init /\ [][Refines]_Dll!vars
  <2> HIDE DEF Refines
  <2> QED BY <1>1, <1>2, ListInvariant, PTL DEF Dll!Spec
<1> QED BY <1>3 DEF DllImplementsSeqSet, Dll!ImplementsSeqSet

-----------------------------------------------------------------------------
(***************************************************************************)
(* The map of bins of sqsPrio.cc                                           *)
(***************************************************************************)

NoticesAt(t) == {p \in Proc : notice[p] = t}

\* Each bin holds the processes scheduled for its time, and only times with
\* one have a bin.
BinInv ==
  /\ notice \in [Proc -> Time \cup {NULL}]
  /\ bin_of = notice
  /\ DOMAIN bins \subseteq Time
  /\ \A t \in DOMAIN bins : Lists(bins[t], NoticesAt(t)) /\ bins[t] # <<>>
  /\ \A t \in Time : NoticesAt(t) # {} => t \in DOMAIN bins
  /\ IsFiniteSet(Scheduled)
  /\ bins_len = Cardinality(Scheduled)

\* The order of the bins: by time, and within a bin by place.
TiedInBin(a, b) ==
  \E t \in Time : notice[a] = t /\ notice[b] = t /\ <<a, b>> \in OrderIn(Prio!BinAt(t))

BinsRead ==
  \A a, b : <<a, b>> \in Prio!BinOrder <=>
    a \in Scheduled /\ b \in Scheduled /\ (notice[a] < notice[b] \/ TiedInBin(a, b))

LEMMA AnyBin ==
  ASSUME BinInv, NEW t \in Time
  PROVE  Lists(Prio!BinAt(t), NoticesAt(t))
<1>1. CASE t \in DOMAIN bins
  BY <1>1 DEF BinInv, Prio!BinAt
<1>2. CASE t \notin DOMAIN bins
  <2>1. NoticesAt(t) = {}
    BY <1>2 DEF BinInv
  <2>2. Prio!BinAt(t) = <<>>
    BY <1>2 DEF Prio!BinAt
  <2> QED BY <2>1, <2>2 DEF Lists
<1> QED BY <1>1, <1>2

LEMMA BinTimes ==
  ASSUME BinInv
  PROVE  /\ \A q \in Scheduled : notice[q] \in Time /\ notice[q] \in Nat /\ notice[q] \in DOMAIN bins
         /\ \A t \in DOMAIN bins : t \in Nat /\ t # NULL
         /\ \A t \in Time : NoticesAt(t) \subseteq Scheduled
<1>1. \A q \in Scheduled : notice[q] \in Time /\ q \in NoticesAt(notice[q])
  BY DEF BinInv, Scheduled, NoticesAt
<1>2. \A t \in Time : t \in Nat /\ t # NULL
  OBVIOUS
<1>3. \A t \in Time : NoticesAt(t) \subseteq Scheduled
  BY <1>2 DEF NoticesAt, Scheduled
<1> QED BY <1>1, <1>2, <1>3 DEF BinInv

LEMMA BinsReadRight == BinInv => BinsRead
<1> SUFFICES ASSUME BinInv, NEW a, NEW b
             PROVE  <<a, b>> \in Prio!BinOrder <=>
                      /\ a \in Scheduled /\ b \in Scheduled
                      /\ \/ notice[a] < notice[b]
                         \/ TiedInBin(a, b)
  BY DEF BinsRead
<1>1. \A t \in DOMAIN bins : /\ Lists(bins[t], NoticesAt(t))
                             /\ bins[t] \in Seq(Proc) /\ DOMAIN bins[t] = 1 .. Len(bins[t])
  BY LenProperties DEF BinInv, Lists
<1>2. \A t \in DOMAIN bins : Prio!ToSet(bins[t]) = NoticesAt(t)
  BY <1>1 DEF Prio!ToSet, Lists
<1>3. \A t \in DOMAIN bins : Prio!BinAt(t) = bins[t]
  BY DEF Prio!BinAt
<1>4. \A t \in DOMAIN bins : <<a, b>> \in OrderIn(bins[t]) => a \in NoticesAt(t) /\ b \in NoticesAt(t)
  BY <1>1, PairsInOrder DEF Lists
<1>5. ASSUME <<a, b>> \in Prio!BinOrder
      PROVE  /\ a \in Scheduled /\ b \in Scheduled
             /\ \/ notice[a] < notice[b]
                \/ TiedInBin(a, b)
  <2>1. CASE \E t, u \in DOMAIN bins : t < u /\ a \in Prio!ToSet(bins[t]) /\ b \in Prio!ToSet(bins[u])
    BY <1>2, <2>1, BinTimes DEF NoticesAt, BinInv
  <2>2. CASE \E t \in DOMAIN bins : \E i, j \in DOMAIN bins[t] : i < j /\ <<a, b>> = <<bins[t][i], bins[t][j]>>
    <3>1. PICK t \in DOMAIN bins : \E i, j \in DOMAIN bins[t] : i < j /\ <<a, b>> = <<bins[t][i], bins[t][j]>>
      BY <2>2
    <3>2. <<a, b>> \in OrderIn(bins[t])
      BY <1>1, <3>1, PairsInOrder
    <3> QED BY <1>3, <1>4, <3>2, BinTimes DEF NoticesAt, BinInv, TiedInBin
  <2> QED BY <1>5, <2>1, <2>2 DEF Prio!BinOrder
<1>6. ASSUME a \in Scheduled, b \in Scheduled, notice[a] < notice[b]
      PROVE  <<a, b>> \in Prio!BinOrder
  <2>1. /\ a \in Proc /\ b \in Proc
        /\ notice[a] \in DOMAIN bins /\ a \in Prio!ToSet(bins[notice[a]])
        /\ notice[b] \in DOMAIN bins /\ b \in Prio!ToSet(bins[notice[b]])
    BY <1>2, <1>6, BinTimes DEF NoticesAt, Scheduled
  <2> QED BY <1>6, <2>1 DEF Prio!BinOrder
<1>7. ASSUME a \in Scheduled, b \in Scheduled, NEW t \in Time, notice[a] = t, notice[b] = t,
             <<a, b>> \in OrderIn(Prio!BinAt(t))
      PROVE  <<a, b>> \in Prio!BinOrder
  <2>1. a \in Proc /\ b \in Proc /\ t \in DOMAIN bins /\ <<a, b>> \in OrderIn(bins[t])
    BY <1>3, <1>7, BinTimes DEF Scheduled
  <2> QED BY <2>1 DEF Prio!BinOrder, OrderIn
<1> QED BY <1>5, <1>6, <1>7 DEF TiedInBin

\* The bin for time t becomes bin, or goes when that is empty.
SetsBin(t, bin) ==
  /\ DOMAIN bins' = IF bin = <<>> THEN DOMAIN bins \ {t} ELSE DOMAIN bins \cup {t}
  /\ bin # <<>> => bins'[t] = bin
  /\ \A u \in DOMAIN bins \ {t} : bins'[u] = bins[u]

LEMMA WithBinSets ==
  ASSUME NEW t, NEW bin, bin # <<>>, bins' = Prio!WithBin(t, bin)
  PROVE  SetsBin(t, bin)
BY DEF Prio!WithBin, SetsBin

LEMMA ErasedSets ==
  ASSUME NEW t, bins' = Prio!Erased(t)
  PROVE  SetsBin(t, <<>>)
BY DEF Prio!Erased, SetsBin

\* What is in the bins when one is set.
LEMMA BinSet ==
  ASSUME BinInv, NEW t \in Time, NEW bin, SetsBin(t, bin),
         notice' \in [Proc -> Time \cup {NULL}], bin_of' = notice',
         \A u \in Time \ {t} : NoticesAt(u)' = NoticesAt(u),
         Lists(bin, NoticesAt(t)'),
         IsFiniteSet(Scheduled'), bins_len' = Cardinality(Scheduled')
  PROVE  /\ BinInv'
         /\ Prio!BinAt(t)' = bin
         /\ \A u \in Time \ {t} : Prio!BinAt(u)' = Prio!BinAt(u)
<1>1. bin = <<>> <=> NoticesAt(t)' = {}
  <2>1. bin \in Seq(Proc) /\ (bin = <<>> <=> Len(bin) = 0) /\ Len(bin) \in Nat
    BY EmptySeq DEF Lists
  <2>2. CASE bin = <<>>
    BY <2>1, <2>2 DEF Lists
  <2>3. CASE bin # <<>>
    <3>1. 1 \in 1 .. Len(bin)
      BY <2>1, <2>3
    <3>2. bin[1] \in NoticesAt(t)'
      BY <3>1 DEF Lists
    <3> QED BY <2>3, <3>2
  <2> QED BY <2>2, <2>3
<1>2. DOMAIN bins' \subseteq Time
  BY DEF BinInv, SetsBin
<1>3. ASSUME NEW u \in DOMAIN bins'
      PROVE  Lists(bins'[u], NoticesAt(u)') /\ bins'[u] # <<>>
  <2>1. CASE u = t
    <3>1. bin # <<>> /\ bins'[u] = bin
      BY <1>3, <2>1 DEF SetsBin
    <3> QED BY <2>1, <3>1
  <2>2. CASE u # t
    <3>1. u \in DOMAIN bins /\ bins'[u] = bins[u] /\ u \in Time
      BY <1>2, <1>3, <2>2 DEF SetsBin
    <3> QED BY <2>2, <3>1 DEF BinInv
  <2> QED BY <2>1, <2>2
<1>4. ASSUME NEW u \in Time, NoticesAt(u)' # {} PROVE u \in DOMAIN bins'
  <2>1. CASE u = t
    BY <1>1, <1>4, <2>1 DEF SetsBin
  <2>2. CASE u # t
    BY <1>4, <2>2 DEF SetsBin, BinInv
  <2> QED BY <2>1, <2>2
<1>5. BinInv'
  BY <1>2, <1>3, <1>4 DEF BinInv
<1>6. Prio!BinAt(t)' = bin
  BY DEF SetsBin, Prio!BinAt
<1>7. \A u \in Time \ {t} : Prio!BinAt(u)' = Prio!BinAt(u)
  BY DEF SetsBin, Prio!BinAt
<1> QED BY <1>5, <1>6, <1>7

\* The notice of p, for time u, is put before place k of its bin.
PutInBin(p, k, u) ==
  /\ notice[p] = NULL
  /\ bins' = Prio!WithBin(u, With(Prio!BinAt(u), k, p))
  /\ bins_len' = bins_len + 1
  /\ notice' = [notice EXCEPT ![p] = u]
  /\ bin_of' = [bin_of EXCEPT ![p] = u]

\* In the order R, p is at place k of the bin of u.
BetweenBins(R, p, k, u) ==
  \A a, b : <<a, b>> \in R <=>
    \/ <<a, b>> \in Prio!BinOrder
    \/ /\ b = p /\ a \in Scheduled
       /\ notice[a] < u \/ \E i \in 1 .. Len(Prio!BinAt(u)) : i < k /\ Prio!BinAt(u)[i] = a
    \/ /\ a = p /\ b \in Scheduled
       /\ u < notice[b] \/ \E i \in 1 .. Len(Prio!BinAt(u)) : i >= k /\ Prio!BinAt(u)[i] = b

LEMMA BinGrows ==
  ASSUME BinInv, NEW p \in Proc, NEW u \in Time, NEW k \in 1 .. Len(Prio!BinAt(u)) + 1,
         PutInBin(p, k, u)
  PROVE  /\ BinInv'
         /\ Relates(Prio!BinOrder')
         /\ BetweenBins(Prio!BinOrder', p, k, u)
<1> DEFINE s   == Prio!BinAt(u)
           bin == With(s, k, p)
<1>1. p \notin Scheduled /\ Scheduled' = Scheduled \cup {p} /\ u # NULL
  BY DEF Scheduled, BinInv, PutInBin
<1>2. /\ notice' \in [Proc -> Time \cup {NULL}] /\ notice'[p] = u
      /\ \A q \in Proc \ {p} : notice'[q] = notice[q]
      /\ bin_of' = notice'
  BY DEF BinInv, PutInBin
<1>3. \A t \in Time \ {u} : NoticesAt(t)' = NoticesAt(t)
  BY <1>2 DEF NoticesAt, PutInBin
<1>4. p \notin NoticesAt(u) /\ NoticesAt(u)' = NoticesAt(u) \cup {p}
  BY <1>2 DEF NoticesAt, PutInBin
<1>5. Lists(s, NoticesAt(u))
  BY AnyBin
<1>6. Lists(bin, NoticesAt(u)') /\ Between(OrderIn(bin), s, k, p)
  BY <1>4, <1>5, WithLists
<1>7. bin # <<>>
  <2>1. \E i \in 1 .. Len(bin) : bin[i] = p
    BY <1>4, <1>6 DEF Lists
  <2> HIDE DEF bin
  <2> QED BY <2>1
<1>8. SetsBin(u, bin)
  BY <1>7, WithBinSets DEF PutInBin
<1>9. IsFiniteSet(Scheduled') /\ bins_len' = Cardinality(Scheduled')
  BY <1>1, FS_AddElement DEF BinInv, PutInBin
<1> HIDE DEF bin
<1>10. /\ BinInv'
       /\ Prio!BinAt(u)' = bin
       /\ \A t \in Time \ {u} : Prio!BinAt(t)' = Prio!BinAt(t)
  BY <1>2, <1>3, <1>6, <1>8, <1>9, BinSet
<1>11. BinsRead /\ BinsRead'
  BY <1>10, BinsReadRight, PTL
<1>12. \A t \in Time : t \in Nat
  OBVIOUS
<1>13. \A q \in Scheduled : notice[q] \in Time /\ notice'[q] = notice[q]
  BY <1>1, <1>2, BinTimes DEF Scheduled
<1>14. BetweenBins(Prio!BinOrder', p, k, u)
  <2> SUFFICES ASSUME NEW a, NEW b
               PROVE  <<a, b>> \in Prio!BinOrder' <=>
                        \/ <<a, b>> \in Prio!BinOrder
                        \/ /\ b = p /\ a \in Scheduled
                           /\ notice[a] < u \/ \E i \in 1 .. Len(s) : i < k /\ s[i] = a
                        \/ /\ a = p /\ b \in Scheduled
                           /\ u < notice[b] \/ \E i \in 1 .. Len(s) : i >= k /\ s[i] = b
    BY DEF BetweenBins
  <2>1. <<a, b>> \in Prio!BinOrder' <=>
          /\ a \in Scheduled' /\ b \in Scheduled'
          /\ \/ notice'[a] < notice'[b]
             \/ TiedInBin(a, b)'
    BY <1>11 DEF BinsRead
  <2>2. <<a, b>> \in Prio!BinOrder <=>
          /\ a \in Scheduled /\ b \in Scheduled
          /\ \/ notice[a] < notice[b]
             \/ TiedInBin(a, b)
    BY <1>11 DEF BinsRead
  <2>3. <<a, b>> \in OrderIn(bin) <=>
          \/ <<a, b>> \in OrderIn(s)
          \/ b = p /\ \E i \in 1 .. Len(s) : i < k /\ s[i] = a
          \/ a = p /\ \E i \in 1 .. Len(s) : i >= k /\ s[i] = b
    BY <1>6 DEF Between
  <2>4. s \in Seq(Proc) /\ \A i \in 1 .. Len(s) : s[i] \in Scheduled /\ s[i] # p /\ notice[s[i]] = u
    BY <1>1, <1>5, BinTimes DEF Lists, NoticesAt
  <2>5. <<a, b>> \in OrderIn(s) => a # p /\ b # p
    BY <2>4, PairsInOrder
  <2> HIDE DEF s
  <2>6. CASE a # p /\ b # p
    <3>1. a \in Scheduled' <=> a \in Scheduled
      BY <1>1, <2>6
    <3>2. b \in Scheduled' <=> b \in Scheduled
      BY <1>1, <2>6
    <3>3. \A t \in Time : <<a, b>> \in OrderIn(Prio!BinAt(t)') <=> <<a, b>> \in OrderIn(Prio!BinAt(t))
      BY <1>10, <2>3, <2>6 DEF s
    <3>4. a \in Scheduled /\ b \in Scheduled => (TiedInBin(a, b)' <=> TiedInBin(a, b))
      BY <1>13, <3>3 DEF TiedInBin
    <3> QED BY <1>13, <2>1, <2>2, <2>6, <3>1, <3>2, <3>4
  <2>7. CASE a = p /\ b # p
    <3>1. a \in Scheduled' /\ (b \in Scheduled' <=> b \in Scheduled) /\ a \notin Scheduled
      BY <1>1, <2>7
    <3>2. <<a, b>> \in OrderIn(bin) <=> \E i \in 1 .. Len(s) : i >= k /\ s[i] = b
      BY <2>3, <2>5, <2>7
    <3>3. b \in Scheduled => (TiedInBin(a, b)'
                               <=> notice[b] = u /\ <<a, b>> \in OrderIn(bin))
      BY <1>2, <1>10, <1>13, <2>7 DEF TiedInBin
    <3> QED BY <1>2, <1>13, <2>1, <2>2, <2>4, <2>7, <3>1, <3>2, <3>3
  <2>8. CASE a # p /\ b = p
    <3>1. b \in Scheduled' /\ (a \in Scheduled' <=> a \in Scheduled) /\ b \notin Scheduled
      BY <1>1, <2>8
    <3>2. <<a, b>> \in OrderIn(bin) <=> \E i \in 1 .. Len(s) : i < k /\ s[i] = a
      BY <2>3, <2>5, <2>8
    <3>3. a \in Scheduled => (TiedInBin(a, b)'
                               <=> notice[a] = u /\ <<a, b>> \in OrderIn(bin))
      BY <1>2, <1>10, <1>13, <2>8 DEF TiedInBin
    <3> QED BY <1>2, <1>13, <2>1, <2>2, <2>4, <2>8, <3>1, <3>2, <3>3
  <2>9. CASE a = p /\ b = p
    <3>1. <<a, b>> \notin OrderIn(bin)
      BY <2>3, <2>4, <2>5, <2>9
    <3>2. ~(notice'[a] < notice'[b])
      BY <1>2, <1>12, <2>9
    <3>3. ~TiedInBin(a, b)'
      BY <1>2, <1>10, <2>9, <3>1 DEF TiedInBin
    <3> QED BY <1>1, <2>1, <2>2, <2>4, <2>9, <3>2, <3>3
  <2> QED BY <2>6, <2>7, <2>8, <2>9 DEF s
<1> QED BY <1>10, <1>14 DEF Relates, Prio!BinOrder

\* Where a process is in its bin.
LEMMA BinPosFound ==
  ASSUME BinInv, NEW q \in Scheduled, NEW u, u = notice[q]
  PROVE  /\ u \in Time /\ u \in Nat /\ u \in DOMAIN bins /\ bins[u] = Prio!BinAt(u) /\ bin_of[q] = u
         /\ Lists(Prio!BinAt(u), NoticesAt(u)) /\ Len(Prio!BinAt(u)) \in Nat
         /\ Prio!Pos(q) \in 1 .. Len(Prio!BinAt(u)) /\ Prio!BinAt(u)[Prio!Pos(q)] = q
         /\ \A i \in 1 .. Len(Prio!BinAt(u)) :
              /\ i < Prio!Pos(q) <=> <<Prio!BinAt(u)[i], q>> \in OrderIn(Prio!BinAt(u))
              /\ i > Prio!Pos(q) <=> <<q, Prio!BinAt(u)[i]>> \in OrderIn(Prio!BinAt(u))
              /\ i = Prio!Pos(q) <=> Prio!BinAt(u)[i] = q
<1> DEFINE s == Prio!BinAt(u)
<1>1. u \in Time /\ u \in Nat /\ u \in DOMAIN bins /\ bins[u] = s /\ bin_of[q] = u
  BY BinTimes DEF BinInv, Prio!BinAt
<1>2. Lists(s, NoticesAt(u))
  BY <1>1, AnyBin
<1>3. s \in Seq(Proc) /\ Len(s) \in Nat /\ DOMAIN s = 1 .. Len(s)
  BY <1>2, LenProperties DEF Lists
<1>4. \E i \in 1 .. Len(s) : s[i] = q
  BY <1>2 DEF Lists, NoticesAt, Scheduled
<1>5. Prio!Pos(q) = CHOOSE i \in DOMAIN s : s[i] = q
  BY <1>1 DEF Prio!Pos
<1> HIDE DEF s
<1>6. Prio!Pos(q) \in 1 .. Len(s) /\ s[Prio!Pos(q)] = q
  BY <1>3, <1>4, <1>5
<1>7. \A i, j \in 1 .. Len(s) : s[i] = s[j] => i = j
  BY <1>2 DEF Lists
<1>8. ASSUME NEW i \in 1 .. Len(s), NEW j \in 1 .. Len(s)
      PROVE  <<s[i], s[j]>> \in OrderIn(s) <=> i < j
  <2>1. <<s[i], s[j]>> \in OrderIn(s) <=>
          \E m, n \in 1 .. Len(s) : m < n /\ s[m] = s[i] /\ s[n] = s[j]
    BY <1>3, PairsInOrder
  <2> QED BY <1>7, <2>1
<1> QED BY <1>1, <1>2, <1>3, <1>6, <1>7, <1>8 DEF s

\* Who is ahead of q, and who behind.
LEMMA AheadInBins ==
  ASSUME BinInv, NEW q \in Scheduled, NEW u, u = notice[q], NEW x \in Scheduled
  PROVE  /\ <<x, q>> \in Prio!BinOrder <=>
              notice[x] < u \/ <<x, q>> \in OrderIn(Prio!BinAt(u))
         /\ <<q, x>> \in Prio!BinOrder <=>
              u < notice[x] \/ <<q, x>> \in OrderIn(Prio!BinAt(u))
         /\ <<x, q>> \in OrderIn(Prio!BinAt(u)) => notice[x] = u
         /\ <<q, x>> \in OrderIn(Prio!BinAt(u)) => notice[x] = u
<1>1. BinsRead
  BY BinsReadRight
<1>2. u \in Time /\ Lists(Prio!BinAt(u), NoticesAt(u))
  BY BinPosFound
<1>3. /\ <<x, q>> \in OrderIn(Prio!BinAt(u)) => notice[x] = u
      /\ <<q, x>> \in OrderIn(Prio!BinAt(u)) => notice[x] = u
  BY <1>2, PairsInOrder DEF Lists, NoticesAt
<1>4. /\ TiedInBin(x, q) <=> <<x, q>> \in OrderIn(Prio!BinAt(u))
      /\ TiedInBin(q, x) <=> <<q, x>> \in OrderIn(Prio!BinAt(u))
  BY <1>2, <1>3 DEF TiedInBin
<1> QED BY <1>1, <1>3, <1>4 DEF BinsRead

LEMMA BinsAreWithin == ASSUME BinInv PROVE Prio!BinOrder \subseteq Scheduled \X Scheduled
<1>1. BinsRead
  BY BinsReadRight
<1>2. Prio!BinOrder \subseteq Proc \X Proc
  BY DEF Prio!BinOrder
<1> QED BY <1>1, <1>2 DEF BinsRead

LEMMA OneMore == ASSUME NEW s \in Seq(Proc), NEW p \in Proc PROVE <<p>> \o s = With(s, 1, p)
<1>1. SubSeq(s, 1, 1 - 1) = <<>>
  BY SubSeqEmpty
<1>2. SubSeq(s, 1, Len(s)) = s
  BY SubSeqFull
<1>3. <<>> \o <<p>> = <<p>>
  BY ConcatEmptySeq
<1> QED BY <1>1, <1>2, <1>3 DEF With

\* insertAt of the bins is insertAt of the sequencing set.
LEMMA BinInsertAt ==
  ASSUME BinInv, NEW p \in Proc, NEW t \in Time, Prio!insertAt(p, t)
  PROVE  BinInv' /\ Prio!BinOrder' = PlacedAt(Prio!BinOrder, Scheduled, notice, p, t)
<1> DEFINE u == t
           s == Prio!BinAt(u)
           k == 1
           A == {x \in Scheduled : notice[x] < t}
           B == {x \in Scheduled : notice[x] >= t}
           after == PlacedAt(Prio!BinOrder, Scheduled, notice, p, t)
<1>1. /\ u \in Time /\ u \in Nat /\ Lists(s, NoticesAt(u)) /\ s \in Seq(Proc) /\ Len(s) \in Nat
      /\ \A q \in Scheduled : notice[q] \in Nat
  BY AnyBin, BinTimes, LenProperties DEF Lists
<1>2. u \in Time /\ k \in 1 .. Len(s) + 1
  BY <1>1
<1>3. PutInBin(p, k, u)
  BY <1>1, OneMore DEF PutInBin, Prio!insertAt
<1>5. \A a : a \in A <=> a \in Scheduled /\ (notice[a] < u \/ \E i \in 1 .. Len(s) : i < k /\ s[i] = a)
  <2> SUFFICES ASSUME NEW a PROVE a \in A <=> a \in Scheduled /\ (notice[a] < u \/ \E i \in 1 .. Len(s) : i < k /\ s[i] = a)
    OBVIOUS
  <2>1. ~\E i \in 1 .. Len(s) : i < k /\ s[i] = a
    BY <1>1
  <2> QED BY <2>1
<1>6. \A b : b \in B <=> b \in Scheduled /\ (u < notice[b] \/ \E i \in 1 .. Len(s) : i >= k /\ s[i] = b)
  <2> SUFFICES ASSUME NEW b \in Scheduled
               PROVE  notice[b] >= u <=> (u < notice[b] \/ \E i \in 1 .. Len(s) : i >= k /\ s[i] = b)
    OBVIOUS
  <2>1. (\E i \in 1 .. Len(s) : i >= k /\ s[i] = b) <=> b \in NoticesAt(u)
    BY <1>1 DEF Lists
  <2>2. b \in NoticesAt(u) <=> notice[b] = u
    BY DEF NoticesAt, Scheduled
  <2> QED BY <1>1, <2>1, <2>2
<1>4. BinInv' /\ Relates(Prio!BinOrder') /\ BetweenBins(Prio!BinOrder', p, k, u)
  <2> HIDE DEF k, u
  <2> QED BY <1>2, <1>3, BinGrows DEF s
<1>7. \A a, b : <<a, b>> \in after <=> <<a, b>> \in Prio!BinOrder \/ (b = p /\ a \in A) \/ (a = p /\ b \in B)
  BY DEF PlacedAt
<1>8. Relates(after)
  BY BinsAreWithin, PlacedWithin DEF Scheduled, Relates
<1> HIDE DEF after, A, B, k, u
<1>9. ASSUME NEW a, NEW b PROVE <<a, b>> \in Prio!BinOrder' <=> <<a, b>> \in after
  <2>1. <<a, b>> \in Prio!BinOrder' <=>
          \/ <<a, b>> \in Prio!BinOrder
          \/ b = p /\ a \in Scheduled /\ (notice[a] < u \/ \E i \in 1 .. Len(s) : i < k /\ s[i] = a)
          \/ a = p /\ b \in Scheduled /\ (u < notice[b] \/ \E i \in 1 .. Len(s) : i >= k /\ s[i] = b)
    BY <1>4 DEF BetweenBins
  <2> HIDE DEF s
  <2>2. <<a, b>> \in Prio!BinOrder' <=>
          <<a, b>> \in Prio!BinOrder \/ (b = p /\ a \in A) \/ (a = p /\ b \in B)
    BY <1>5, <1>6, <2>1, Zenon
  <2> QED BY <1>7, <2>2
<1>10. Prio!BinOrder' = after
  <2>1. SamePairs(Prio!BinOrder', after)
    BY <1>9 DEF SamePairs
  <2> QED BY <1>4, <1>8, <2>1, SameRelation
<1> QED BY <1>4, <1>10 DEF after

\* insert before a process of the bins is insert before a process of the sequencing set.
LEMMA BinInsertBefore ==
  ASSUME BinInv, NEW p \in Proc, NEW q \in Proc, Prio!insert(p, q, "before")
  PROVE  BinInv' /\ Prio!BinOrder' = PlacedBefore(Prio!BinOrder, Scheduled, p, q)
<1> DEFINE u == notice[q]
           s == Prio!BinAt(u)
           k == Prio!Pos(q)
           A == {x \in Scheduled : <<x, q>> \in Prio!BinOrder}
           B == {x \in Scheduled : x = q \/ <<q, x>> \in Prio!BinOrder}
           after == PlacedBefore(Prio!BinOrder, Scheduled, p, q)
<1>1. /\ q \in Scheduled /\ notice[p] = NULL
      /\ u \in Time /\ u \in Nat /\ bin_of[q] = u /\ Lists(s, NoticesAt(u)) /\ Len(s) \in Nat
      /\ Prio!Pos(q) \in 1 .. Len(s) /\ s[Prio!Pos(q)] = q
      /\ \A i \in 1 .. Len(s) : /\ i < Prio!Pos(q) <=> <<s[i], q>> \in OrderIn(s)
                                /\ i > Prio!Pos(q) <=> <<q, s[i]>> \in OrderIn(s)
                                /\ i = Prio!Pos(q) <=> s[i] = q
  <2>1. q \in Scheduled /\ notice[p] = NULL
    BY DEF Prio!insert, Scheduled
  <2> QED BY <2>1, BinPosFound
<1>2. u \in Time /\ k \in 1 .. Len(s) + 1
  BY <1>1
<1>3. PutInBin(p, k, u)
  BY <1>1 DEF PutInBin, Prio!insert, Prio!InsertAt, With
<1>pos. /\ \A i \in 1 .. Len(s) : i < k <=> <<s[i], q>> \in OrderIn(s)
        /\ \A i \in 1 .. Len(s) : i >= k <=> s[i] = q \/ <<q, s[i]>> \in OrderIn(s)
  <2>1. Prio!Pos(q) \in Nat
    BY <1>1
  <2>2. /\ \A i \in 1 .. Len(s) : i < k <=> i < Prio!Pos(q)
        /\ \A i \in 1 .. Len(s) : i >= k <=> (i = Prio!Pos(q) \/ i > Prio!Pos(q))
    <3> HIDE DEF s
    <3> QED BY <1>1, <2>1
  <2> HIDE DEF s, u, k
  <2> QED BY <1>1, <2>2
<1>5. \A a : a \in A <=> a \in Scheduled /\ (notice[a] < u \/ \E i \in 1 .. Len(s) : i < k /\ s[i] = a)
  <2> SUFFICES ASSUME NEW a \in Scheduled
               PROVE  (<<a, q>> \in Prio!BinOrder) <=> (notice[a] < u \/ \E i \in 1 .. Len(s) : i < k /\ s[i] = a)
    OBVIOUS
  <2>1. /\ <<a, q>> \in Prio!BinOrder <=> (notice[a] < u \/ <<a, q>> \in OrderIn(s))
        /\ <<a, q>> \in OrderIn(s) => notice[a] = u
    BY <1>1, AheadInBins
  <2>2. notice[a] = u => \E i \in 1 .. Len(s) : s[i] = a
    BY <1>1 DEF Lists, NoticesAt, Scheduled
  <2>3. (\E i \in 1 .. Len(s) : i < k /\ s[i] = a) <=> (<<a, q>> \in OrderIn(s))
    <3> HIDE DEF s, u, k
    <3>1. \A i \in 1 .. Len(s) : s[i] = a => (i < k <=> <<a, q>> \in OrderIn(s))
      BY <1>pos
    <3>2. <<a, q>> \in OrderIn(s) => \E i \in 1 .. Len(s) : s[i] = a
      BY <1>1, <2>1, <2>2 DEF u
    <3> QED BY <3>1, <3>2
  <2> QED BY <2>1, <2>3
<1>6. \A b : b \in B <=> b \in Scheduled /\ (u < notice[b] \/ \E i \in 1 .. Len(s) : i >= k /\ s[i] = b)
  <2> SUFFICES ASSUME NEW b \in Scheduled
               PROVE  (b = q \/ <<q, b>> \in Prio!BinOrder) <=> (u < notice[b] \/ \E i \in 1 .. Len(s) : i >= k /\ s[i] = b)
    OBVIOUS
  <2>1. /\ <<q, b>> \in Prio!BinOrder <=> (u < notice[b] \/ <<q, b>> \in OrderIn(s))
        /\ <<q, b>> \in OrderIn(s) => notice[b] = u
    BY <1>1, AheadInBins
  <2>2. notice[b] = u => \E i \in 1 .. Len(s) : s[i] = b
    BY <1>1 DEF Lists, NoticesAt, Scheduled
  <2>3. (\E i \in 1 .. Len(s) : i >= k /\ s[i] = b) <=> (b = q \/ <<q, b>> \in OrderIn(s))
    <3> HIDE DEF s, u, k
    <3>1. \A i \in 1 .. Len(s) : s[i] = b => (i >= k <=> b = q \/ <<q, b>> \in OrderIn(s))
      BY <1>pos
    <3>2. b = q \/ <<q, b>> \in OrderIn(s) => \E i \in 1 .. Len(s) : s[i] = b
      BY <1>1, <2>1, <2>2 DEF u
    <3> QED BY <3>1, <3>2
  <2> QED BY <2>1, <2>3
<1>4. BinInv' /\ Relates(Prio!BinOrder') /\ BetweenBins(Prio!BinOrder', p, k, u)
  <2> HIDE DEF k, u
  <2> QED BY <1>2, <1>3, BinGrows DEF s
<1>7. \A a, b : <<a, b>> \in after <=> <<a, b>> \in Prio!BinOrder \/ (b = p /\ a \in A) \/ (a = p /\ b \in B)
  BY DEF PlacedBefore
<1>8. Relates(after)
  BY BinsAreWithin, PlacedWithin DEF Scheduled, Relates
<1> HIDE DEF after, A, B, k, u
<1>9. ASSUME NEW a, NEW b PROVE <<a, b>> \in Prio!BinOrder' <=> <<a, b>> \in after
  <2>1. <<a, b>> \in Prio!BinOrder' <=>
          \/ <<a, b>> \in Prio!BinOrder
          \/ b = p /\ a \in Scheduled /\ (notice[a] < u \/ \E i \in 1 .. Len(s) : i < k /\ s[i] = a)
          \/ a = p /\ b \in Scheduled /\ (u < notice[b] \/ \E i \in 1 .. Len(s) : i >= k /\ s[i] = b)
    BY <1>4 DEF BetweenBins
  <2> HIDE DEF s
  <2>2. <<a, b>> \in Prio!BinOrder' <=>
          <<a, b>> \in Prio!BinOrder \/ (b = p /\ a \in A) \/ (a = p /\ b \in B)
    BY <1>5, <1>6, <2>1, Zenon
  <2> QED BY <1>7, <2>2
<1>10. Prio!BinOrder' = after
  <2>1. SamePairs(Prio!BinOrder', after)
    BY <1>9 DEF SamePairs
  <2> QED BY <1>4, <1>8, <2>1, SameRelation
<1> QED BY <1>4, <1>10 DEF after

\* insert after a process of the bins is insert after a process of the sequencing set.
LEMMA BinInsertAfter ==
  ASSUME BinInv, NEW p \in Proc, NEW q \in Proc, Prio!insert(p, q, "after")
  PROVE  BinInv' /\ Prio!BinOrder' = PlacedAfter(Prio!BinOrder, Scheduled, p, q)
<1> DEFINE u == notice[q]
           s == Prio!BinAt(u)
           k == Prio!Pos(q) + 1
           A == {x \in Scheduled : x = q \/ <<x, q>> \in Prio!BinOrder}
           B == {x \in Scheduled : <<q, x>> \in Prio!BinOrder}
           after == PlacedAfter(Prio!BinOrder, Scheduled, p, q)
<1>1. /\ q \in Scheduled /\ notice[p] = NULL
      /\ u \in Time /\ u \in Nat /\ bin_of[q] = u /\ Lists(s, NoticesAt(u)) /\ Len(s) \in Nat
      /\ Prio!Pos(q) \in 1 .. Len(s) /\ s[Prio!Pos(q)] = q
      /\ \A i \in 1 .. Len(s) : /\ i < Prio!Pos(q) <=> <<s[i], q>> \in OrderIn(s)
                                /\ i > Prio!Pos(q) <=> <<q, s[i]>> \in OrderIn(s)
                                /\ i = Prio!Pos(q) <=> s[i] = q
  <2>1. q \in Scheduled /\ notice[p] = NULL
    BY DEF Prio!insert, Scheduled
  <2> QED BY <2>1, BinPosFound
<1>2. u \in Time /\ k \in 1 .. Len(s) + 1
  BY <1>1
<1>3. PutInBin(p, k, u)
  BY <1>1 DEF PutInBin, Prio!insert, Prio!InsertAt, With
<1>pos. /\ \A i \in 1 .. Len(s) : i < k <=> s[i] = q \/ <<s[i], q>> \in OrderIn(s)
        /\ \A i \in 1 .. Len(s) : i >= k <=> <<q, s[i]>> \in OrderIn(s)
  <2>1. Prio!Pos(q) \in Nat
    BY <1>1
  <2>2. /\ \A i \in 1 .. Len(s) : i < k <=> (i = Prio!Pos(q) \/ i < Prio!Pos(q))
        /\ \A i \in 1 .. Len(s) : i >= k <=> i > Prio!Pos(q)
    <3> HIDE DEF s
    <3> QED BY <1>1, <2>1
  <2> HIDE DEF s, u, k
  <2> QED BY <1>1, <2>2
<1>5. \A a : a \in A <=> a \in Scheduled /\ (notice[a] < u \/ \E i \in 1 .. Len(s) : i < k /\ s[i] = a)
  <2> SUFFICES ASSUME NEW a \in Scheduled
               PROVE  (a = q \/ <<a, q>> \in Prio!BinOrder) <=> (notice[a] < u \/ \E i \in 1 .. Len(s) : i < k /\ s[i] = a)
    OBVIOUS
  <2>1. /\ <<a, q>> \in Prio!BinOrder <=> (notice[a] < u \/ <<a, q>> \in OrderIn(s))
        /\ <<a, q>> \in OrderIn(s) => notice[a] = u
    BY <1>1, AheadInBins
  <2>2. notice[a] = u => \E i \in 1 .. Len(s) : s[i] = a
    BY <1>1 DEF Lists, NoticesAt, Scheduled
  <2>3. (\E i \in 1 .. Len(s) : i < k /\ s[i] = a) <=> (a = q \/ <<a, q>> \in OrderIn(s))
    <3> HIDE DEF s, u, k
    <3>1. \A i \in 1 .. Len(s) : s[i] = a => (i < k <=> a = q \/ <<a, q>> \in OrderIn(s))
      BY <1>pos
    <3>2. a = q \/ <<a, q>> \in OrderIn(s) => \E i \in 1 .. Len(s) : s[i] = a
      BY <1>1, <2>1, <2>2 DEF u
    <3> QED BY <3>1, <3>2
  <2> QED BY <2>1, <2>3
<1>6. \A b : b \in B <=> b \in Scheduled /\ (u < notice[b] \/ \E i \in 1 .. Len(s) : i >= k /\ s[i] = b)
  <2> SUFFICES ASSUME NEW b \in Scheduled
               PROVE  (<<q, b>> \in Prio!BinOrder) <=> (u < notice[b] \/ \E i \in 1 .. Len(s) : i >= k /\ s[i] = b)
    OBVIOUS
  <2>1. /\ <<q, b>> \in Prio!BinOrder <=> (u < notice[b] \/ <<q, b>> \in OrderIn(s))
        /\ <<q, b>> \in OrderIn(s) => notice[b] = u
    BY <1>1, AheadInBins
  <2>2. notice[b] = u => \E i \in 1 .. Len(s) : s[i] = b
    BY <1>1 DEF Lists, NoticesAt, Scheduled
  <2>3. (\E i \in 1 .. Len(s) : i >= k /\ s[i] = b) <=> (<<q, b>> \in OrderIn(s))
    <3> HIDE DEF s, u, k
    <3>1. \A i \in 1 .. Len(s) : s[i] = b => (i >= k <=> <<q, b>> \in OrderIn(s))
      BY <1>pos
    <3>2. <<q, b>> \in OrderIn(s) => \E i \in 1 .. Len(s) : s[i] = b
      BY <1>1, <2>1, <2>2 DEF u
    <3> QED BY <3>1, <3>2
  <2> QED BY <2>1, <2>3
<1>4. BinInv' /\ Relates(Prio!BinOrder') /\ BetweenBins(Prio!BinOrder', p, k, u)
  <2> HIDE DEF k, u
  <2> QED BY <1>2, <1>3, BinGrows DEF s
<1>7. \A a, b : <<a, b>> \in after <=> <<a, b>> \in Prio!BinOrder \/ (b = p /\ a \in A) \/ (a = p /\ b \in B)
  BY DEF PlacedAfter
<1>8. Relates(after)
  BY BinsAreWithin, PlacedWithin DEF Scheduled, Relates
<1> HIDE DEF after, A, B, k, u
<1>9. ASSUME NEW a, NEW b PROVE <<a, b>> \in Prio!BinOrder' <=> <<a, b>> \in after
  <2>1. <<a, b>> \in Prio!BinOrder' <=>
          \/ <<a, b>> \in Prio!BinOrder
          \/ b = p /\ a \in Scheduled /\ (notice[a] < u \/ \E i \in 1 .. Len(s) : i < k /\ s[i] = a)
          \/ a = p /\ b \in Scheduled /\ (u < notice[b] \/ \E i \in 1 .. Len(s) : i >= k /\ s[i] = b)
    BY <1>4 DEF BetweenBins
  <2> HIDE DEF s
  <2>2. <<a, b>> \in Prio!BinOrder' <=>
          <<a, b>> \in Prio!BinOrder \/ (b = p /\ a \in A) \/ (a = p /\ b \in B)
    BY <1>5, <1>6, <2>1, Zenon
  <2> QED BY <1>7, <2>2
<1>10. Prio!BinOrder' = after
  <2>1. SamePairs(Prio!BinOrder', after)
    BY <1>9 DEF SamePairs
  <2> QED BY <1>4, <1>8, <2>1, SameRelation
<1> QED BY <1>4, <1>10 DEF after

\* remove of the bins is remove of the sequencing set.
LEMMA BinRemove ==
  ASSUME BinInv, NEW p \in Proc, Prio!remove(p)
  PROVE  BinInv' /\ Prio!BinOrder' = Without(Prio!BinOrder, p)
<1>1. p \in Scheduled /\ Scheduled' = Scheduled \ {p}
  BY DEF Prio!remove, Scheduled, BinInv
<1>u. PICK u : u = notice[p]
  OBVIOUS
<1> DEFINE s   == Prio!BinAt(u)
           k   == Prio!Pos(p)
           bin == WithoutAt(s, k)
           after == Without(Prio!BinOrder, p)
<1>2. /\ u \in Time /\ u # NULL /\ u \in DOMAIN bins /\ bins[u] = s /\ bin_of[p] = u
      /\ Lists(s, NoticesAt(u)) /\ k \in 1 .. Len(s) /\ s[k] = p
  BY <1>1, <1>u, BinPosFound
<1>3. /\ notice' \in [Proc -> Time \cup {NULL}] /\ bin_of' = notice'
      /\ notice'[p] = NULL /\ \A q \in Proc \ {p} : notice'[q] = notice[q]
  BY DEF BinInv, Prio!remove
<1>4. NoticesAt(u)' = NoticesAt(u) \ {p}
  BY <1>2, <1>3 DEF NoticesAt
<1>5. \A t \in Time \ {u} : NoticesAt(t)' = NoticesAt(t)
  <2> SUFFICES ASSUME NEW t \in Time, t # u PROVE NoticesAt(t)' = NoticesAt(t)
    OBVIOUS
  <2>1. t # NULL
    OBVIOUS
  <2> QED BY <1>u, <1>3, <2>1 DEF NoticesAt
<1>6. /\ Lists(bin, NoticesAt(u)')
      /\ \A a, b : <<a, b>> \in OrderIn(bin) <=> <<a, b>> \in OrderIn(s) /\ a # p /\ b # p
  <2> HIDE DEF s, k
  <2>1. /\ Lists(WithoutAt(s, k), NoticesAt(u) \ {s[k]})
        /\ \A a, b : <<a, b>> \in OrderIn(WithoutAt(s, k)) <=> <<a, b>> \in OrderIn(s) /\ a # s[k] /\ b # s[k]
    BY <1>2, WithoutLists
  <2> QED BY <1>2, <1>4, <2>1
<1>7. SetsBin(u, bin)
  <2>1. bins' = IF bin = <<>> THEN Prio!Erased(u) ELSE Prio!WithBin(u, bin)
    BY <1>2 DEF Prio!remove, Prio!RemoveAt, WithoutAt
  <2> HIDE DEF bin
  <2> QED BY <2>1, WithBinSets, ErasedSets
<1>8. IsFiniteSet(Scheduled') /\ bins_len' = Cardinality(Scheduled')
  BY <1>1, FS_RemoveElement DEF BinInv, Prio!remove
<1>9. /\ BinInv'
      /\ Prio!BinAt(u)' = bin
      /\ \A t \in Time \ {u} : Prio!BinAt(t)' = Prio!BinAt(t)
  <2> HIDE DEF bin
  <2> QED BY <1>2, <1>3, <1>5, <1>6, <1>7, <1>8, BinSet
<1>10. BinsRead /\ BinsRead'
  BY <1>9, BinsReadRight, PTL
<1>11. \A a, b : <<a, b>> \in after <=> <<a, b>> \in Prio!BinOrder /\ a # p /\ b # p
  BY DEF Without
<1>12. after \subseteq Proc \X Proc
  BY DEF Without, Prio!BinOrder
<1> HIDE DEF after, bin
<1>13. ASSUME NEW a, NEW b PROVE <<a, b>> \in Prio!BinOrder' <=> <<a, b>> \in after
  <2>1. <<a, b>> \in Prio!BinOrder' <=>
          a \in Scheduled' /\ b \in Scheduled' /\ (notice'[a] < notice'[b] \/ TiedInBin(a, b)')
    BY <1>10 DEF BinsRead
  <2>2. <<a, b>> \in Prio!BinOrder <=>
          a \in Scheduled /\ b \in Scheduled /\ (notice[a] < notice[b] \/ TiedInBin(a, b))
    BY <1>10 DEF BinsRead
  <2>3. CASE a = p \/ b = p
    BY <1>1, <1>11, <2>1, <2>3
  <2>4. CASE a # p /\ b # p
    <3>1. /\ a \in Scheduled' <=> a \in Scheduled
          /\ b \in Scheduled' <=> b \in Scheduled
      BY <1>1, <2>4
    <3>2. \A t \in Time : <<a, b>> \in OrderIn(Prio!BinAt(t)') <=> <<a, b>> \in OrderIn(Prio!BinAt(t))
      BY <1>6, <1>9, <2>4
    <3>3. a \in Scheduled /\ b \in Scheduled => notice'[a] = notice[a] /\ notice'[b] = notice[b]
      BY <1>3, <2>4 DEF Scheduled
    <3>4. a \in Scheduled /\ b \in Scheduled => (TiedInBin(a, b)' <=> TiedInBin(a, b))
      BY <3>2, <3>3 DEF TiedInBin
    <3> QED BY <1>11, <2>1, <2>2, <2>4, <3>1, <3>3, <3>4
  <2> QED BY <2>3, <2>4
<1>14. Prio!BinOrder' = after
  <2>1. Relates(Prio!BinOrder') /\ Relates(after)
    BY <1>12 DEF Relates, Prio!BinOrder
  <2>2. SamePairs(Prio!BinOrder', after)
    BY <1>13 DEF SamePairs
  <2> QED BY <2>1, <2>2, SameRelation
<1> QED BY <1>9, <1>14 DEF after

\* No bins are an empty sequencing set.
NoBins ==
  /\ bins = <<>>
  /\ bins_len = 0
  /\ notice = [p \in Proc |-> NULL]
  /\ bin_of = [p \in Proc |-> NULL]

LEMMA BinsEmpty == NoBins => BinInv /\ Prio!BinOrder = {}
<1> SUFFICES ASSUME NoBins PROVE BinInv /\ Prio!BinOrder = {}
  OBVIOUS
<1>1. Scheduled = {} /\ DOMAIN bins = {}
  BY DEF Scheduled, NoBins
<1>2. \A t \in Time : NoticesAt(t) = {}
  BY DEF NoticesAt, NoBins
<1>3. IsFiniteSet(Scheduled) /\ Cardinality(Scheduled) = 0
  BY <1>1, FS_EmptySet
<1> QED BY <1>1, <1>2, <1>3 DEF BinInv, Prio!BinOrder, NoBins

\* Every step of the bins is one of the sequencing set, and keeps BinInv.
LEMMA BinStep ==
  ASSUME BinInv, Prio!Next
  PROVE  /\ BinInv'
         /\ Prio!Abstract!Next
         /\ \A p \in Proc, t \in Time : Prio!insertAt(p, t) => Prio!Abstract!InsertAt(p, t)
         /\ \A p, q \in Proc : /\ Prio!insert(p, q, "before") => Prio!Abstract!InsertBefore(p, q)
                               /\ Prio!insert(p, q, "after") => Prio!Abstract!InsertAfter(p, q)
         /\ \A p \in Proc : Prio!remove(p) => Prio!Abstract!Remove(p)
         /\ Prio!clear => Prio!Abstract!Clear
<1>1. Prio!Abstract!Scheduled = Scheduled
  BY DEF Prio!Abstract!Scheduled, Scheduled
<1>2. ASSUME NEW p \in Proc, NEW t \in Time, Prio!insertAt(p, t)
      PROVE  BinInv' /\ Prio!Abstract!InsertAt(p, t)
  BY <1>1, <1>2, BinInsertAt DEF Prio!insertAt, Prio!Abstract!InsertAt, Prio!Abstract!PlacedAt, PlacedAt
<1>3. ASSUME NEW p \in Proc, NEW q \in Proc, Prio!insert(p, q, "before")
      PROVE  BinInv' /\ Prio!Abstract!InsertBefore(p, q)
  BY <1>1, <1>3, BinInsertBefore
     DEF Prio!insert, Prio!Abstract!InsertBefore, Prio!Abstract!PlacedBefore, PlacedBefore
<1>4. ASSUME NEW p \in Proc, NEW q \in Proc, Prio!insert(p, q, "after")
      PROVE  BinInv' /\ Prio!Abstract!InsertAfter(p, q)
  BY <1>1, <1>4, BinInsertAfter
     DEF Prio!insert, Prio!Abstract!InsertAfter, Prio!Abstract!PlacedAfter, PlacedAfter
<1>5. ASSUME NEW p \in Proc, Prio!remove(p)
      PROVE  BinInv' /\ Prio!Abstract!Remove(p)
  BY <1>5, BinRemove DEF Prio!remove, Prio!Abstract!Remove, Prio!Abstract!Without, Without
<1>6. ASSUME Prio!clear PROVE BinInv' /\ Prio!Abstract!Clear
  <2>1. NoBins'
    BY <1>6 DEF NoBins, Prio!clear
  <2>2. BinInv'
    BY <2>1, BinsEmpty, PTL
  <2>3. Prio!BinOrder' = {}
    BY <2>1 DEF Prio!BinOrder, NoBins
  <2> QED BY <1>6, <2>2, <2>3 DEF Prio!clear, Prio!Abstract!Clear
<1>7. BinInv' /\ Prio!Abstract!Next
  <2>1. CASE \E p \in Proc, t \in Time : Prio!insertAt(p, t)
    BY <2>1, <1>2 DEF Prio!Abstract!Next
  <2>2. CASE \E p, q \in Proc : Prio!insert(p, q, "before")
    BY <2>2, <1>3 DEF Prio!Abstract!Next
  <2>3. CASE \E p, q \in Proc : Prio!insert(p, q, "after")
    BY <2>3, <1>4 DEF Prio!Abstract!Next
  <2>4. CASE \E p \in Proc : Prio!remove(p)
    BY <2>4, <1>5 DEF Prio!Abstract!Next
  <2>5. CASE Prio!clear
    BY <2>5, <1>6 DEF Prio!Abstract!Next
  <2> QED BY <2>1, <2>2, <2>3, <2>4, <2>5 DEF Prio!Next, Prio!Positions
<1> QED BY <1>2, <1>3, <1>4, <1>5, <1>6, <1>7

LEMMA BinInvariant == Prio!Spec => []BinInv
<1>1. Prio!Init => BinInv
  BY BinsEmpty DEF Prio!Init, NoBins
<1>2. BinInv /\ [Prio!Next]_Prio!vars => BinInv'
  <2>1. ASSUME BinInv, UNCHANGED Prio!vars PROVE BinInv'
    BY <2>1 DEF Prio!vars, BinInv, Scheduled, NoticesAt
  <2> QED BY <2>1, BinStep
<1> QED BY <1>1, <1>2, PTL DEF Prio!Spec

\* PrioImplementsSeqSet: each function of sqsPrio.cc does to the map of bins
\* what class sqs promises of it.
THEOREM BinsImplementSeqSet == Prio!Spec => PrioImplementsSeqSet
<1>1. Prio!Init => Prio!Abstract!Init
  BY BinsEmpty DEF Prio!Init, Prio!Abstract!Init, NoBins
<1> DEFINE Refines ==
      /\ Prio!Abstract!Next
      /\ \A p \in Proc, t \in Time : Prio!insertAt(p, t) => Prio!Abstract!InsertAt(p, t)
      /\ \A p, q \in Proc : /\ Prio!insert(p, q, "before") => Prio!Abstract!InsertBefore(p, q)
                            /\ Prio!insert(p, q, "after") => Prio!Abstract!InsertAfter(p, q)
      /\ \A p \in Proc : Prio!remove(p) => Prio!Abstract!Remove(p)
      /\ Prio!clear => Prio!Abstract!Clear
<1>2. BinInv /\ [Prio!Next]_Prio!vars => [Refines]_Prio!vars
  BY BinStep
<1>3. Prio!Spec => Prio!Abstract!Init /\ [][Refines]_Prio!vars
  <2> HIDE DEF Refines
  <2> QED BY <1>1, <1>2, BinInvariant, PTL DEF Prio!Spec
<1> QED BY <1>3 DEF PrioImplementsSeqSet, Prio!ImplementsSeqSet

\* PrioBooksAgree: the map, the iterators in the notices and _sqs_len never
\* part, so empty( ) and first( ) agree (sqsPrio.cc:162-177).
THEOREM PrioBooksAlwaysAgree == Prio!Spec => []PrioBooksAgree
<1>1. BinInv => PrioBooksAgree
  <2> SUFFICES ASSUME BinInv PROVE PrioBooksAgree
    OBVIOUS
  <2>1. ASSUME NEW t \in DOMAIN bins
        PROVE  /\ Prio!IsInjective(bins[t])
               /\ Prio!ToSet(bins[t]) = {p \in Proc : notice[p] = t}
               /\ bins[t] # <<>>
               /\ t \in {notice[p] : p \in Proc} \ {NULL}
    <3>1. Lists(bins[t], NoticesAt(t)) /\ bins[t] # <<>> /\ t # NULL
      BY BinTimes DEF BinInv
    <3>2. bins[t] \in Seq(Proc) /\ Len(bins[t]) \in Nat \ {0} /\ DOMAIN bins[t] = 1 .. Len(bins[t])
      BY <3>1, LenProperties, EmptySeq DEF Lists
    <3>3. bins[t][1] \in NoticesAt(t)
      BY <3>1, <3>2 DEF Lists
    <3> QED BY <3>1, <3>2, <3>3 DEF Lists, NoticesAt, Prio!IsInjective, Prio!ToSet
  <2>2. ASSUME NEW p \in Proc, notice[p] # NULL PROVE notice[p] \in DOMAIN bins
    BY <2>2, BinTimes DEF Scheduled
  <2>3. DOMAIN bins = {notice[p] : p \in Proc} \ {NULL}
    BY <2>1, <2>2
  <2>4. bin_of = notice /\ bins_len = Cardinality({p \in Proc : notice[p] # NULL})
    BY DEF BinInv, Scheduled
  <2>5. \A S : Prio!Cardinality(S) = Cardinality(S)
    BY DEF Prio!Cardinality, Cardinality
  <2> QED BY <2>1, <2>3, <2>4, <2>5, Zenon DEF PrioBooksAgree, Prio!BooksAgree
<1> QED BY <1>1, BinInvariant, PTL

-----------------------------------------------------------------------------
(***************************************************************************)
(* The two implementations, given the same calls                           *)
(***************************************************************************)

\* Both hold the same order, the one class sqs promises.
BothInv ==
  /\ ListInv /\ BinInv
  /\ before = Dll!ListOrder
  /\ before = Prio!BinOrder

\* Whatever both are given, they stay alike.
LEMMA BothStep ==
  ASSUME BothInv, MCNext
  PROVE  BothInv'
<1>1. CASE \E p \in Proc, t \in Time : InsertAt(p, t) /\ Dll!insertAt(p, t) /\ Prio!insertAt(p, t)
  BY <1>1, ListInsertAt, BinInsertAt DEF BothInv, InsertAt
<1>2. CASE \E p, q \in Proc :
             InsertBefore(p, q) /\ Dll!insert(p, q, "before") /\ Prio!insert(p, q, "before")
  BY <1>2, ListInsertBefore, BinInsertBefore DEF BothInv, InsertBefore
<1>3. CASE \E p, q \in Proc :
             InsertAfter(p, q) /\ Dll!insert(p, q, "after") /\ Prio!insert(p, q, "after")
  BY <1>3, ListInsertAfter, BinInsertAfter DEF BothInv, InsertAfter
<1>4. CASE \E p \in Proc : Remove(p) /\ Dll!remove(p) /\ Prio!remove(p)
  BY <1>4, ListRemove, BinRemove DEF BothInv, Remove
<1>5. CASE Clear /\ Dll!clear /\ Prio!clear
  <2>1. Dll!Init' /\ NoBins' /\ before' = {}
    BY <1>5 DEF Clear, Dll!clear, Dll!Init, Prio!clear, NoBins
  <2>2. ListInv'
    BY <2>1, ListStarts, PTL
  <2>3. BinInv'
    BY <2>1, BinsEmpty, PTL
  <2>4. Dll!ListOrder' = {} /\ Prio!BinOrder' = {}
    BY <2>1 DEF Dll!ListOrder, Prio!BinOrder, Dll!Init, NoBins
  <2> QED BY <2>1, <2>2, <2>3, <2>4 DEF BothInv
<1> QED BY <1>1, <1>2, <1>3, <1>4, <1>5 DEF MCNext

LEMMA BothInvariant == MCSpec => []BothInv
<1>1. MCInit => BothInv
  <2> SUFFICES ASSUME MCInit PROVE BothInv
    OBVIOUS
  <2>1. NoBins /\ list = <<>> /\ notice = [p \in Proc |-> NULL] /\ before = {}
    BY DEF MCInit, Init, Dll!Init, Prio!Init, NoBins
  <2> QED BY <2>1, ListEmpty, BinsEmpty DEF BothInv
<1>2. BothInv /\ [MCNext]_allVars => BothInv'
  <2>1. ASSUME BothInv, UNCHANGED allVars PROVE BothInv'
    BY <2>1 DEF allVars, vars, BothInv, ListInv, BinInv, Scheduled, NoticesAt, Dll!ListOrder, Prio!BinOrder
  <2> QED BY <2>1, BothStep
<1> QED BY <1>1, <1>2, PTL DEF MCSpec

\* The line of the list is a line, so only one process is first in it.
LEMMA OneFirst ==
  ASSUME ListInv, NEW p \in Firsts(Dll!ListOrder, Scheduled)
  PROVE  Firsts(Dll!ListOrder, Scheduled) = {p}
<1> SUFFICES ASSUME NEW q \in Firsts(Dll!ListOrder, Scheduled), q # p
             PROVE  FALSE
  OBVIOUS
<1>1. /\ p \in Scheduled /\ q \in Scheduled
      /\ <<p, q>> \in Dll!ListOrder /\ <<q, p>> \in Dll!ListOrder
  BY DEF Firsts
<1>2. Dll!Pos(q) \in 1 .. Len(list) /\ list[Dll!Pos(q)] = q /\ Len(list) \in Nat
  BY <1>1, PosFound, ListLen
<1>3. Dll!Pos(q) < Dll!Pos(p) /\ Dll!Pos(q) > Dll!Pos(p)
  BY <1>1, <1>2, PosFound
<1> QED BY <1>1, <1>2, <1>3, PosFound

\* SameFirst: whichever data structure a program chooses, sqs::main resumes
\* the same process next.
THEOREM AlwaysSameFirst == MCSpec => []SameFirst
<1>1. BothInv => SameFirst
  <2> SUFFICES ASSUME BothInv PROVE SameFirst
    OBVIOUS
  <2>1. ListInv /\ BinInv /\ before = Dll!ListOrder /\ before = Prio!BinOrder
    BY DEF BothInv
  <2>2. CASE Scheduled = {}
    <3>1. list = <<>>
      <4>1. ~\E i \in 1 .. Len(list) : TRUE
        BY <2>1, <2>2, ListLen
      <4>2. Len(list) = 0
        BY <2>1, <4>1, ListLen
      <4> QED BY <2>1, <4>2, ListLen, EmptySeq
    <3>2. bins_len = 0
      BY <2>1, <2>2, FS_EmptySet DEF BinInv
    <3> QED BY <2>2, <3>1, <3>2 DEF SameFirst, Firsts, Dll!first, Prio!first
  <2>3. CASE Scheduled # {}
    <3>1. list # <<>> /\ Len(list) \in Nat \ {0} /\ 1 \in 1 .. Len(list)
      <4>1. PICK q \in Scheduled : TRUE
        BY <2>3
      <4>2. Dll!Pos(q) \in 1 .. Len(list)
        BY <2>1, PosFound
      <4>3. Len(list) \in Nat \ {0}
        BY <2>1, <4>2, ListLen
      <4> QED BY <4>3
    <3>2. list[1] \in Scheduled /\ Dll!first = list[1]
      BY <2>1, <3>1, ListLen DEF Dll!first
    <3>3. ASSUME NEW q \in Scheduled \ {list[1]} PROVE <<list[1], q>> \in Dll!ListOrder
      <4>1. Dll!Pos(q) \in 1 .. Len(list) /\ list[Dll!Pos(q)] = q
        BY <2>1, PosFound
      <4>2. 1 < Dll!Pos(q)
        BY <3>1, <4>1
      <4> QED BY <2>1, <3>1, <4>1, <4>2, PosFound
    <3>4. list[1] \in Firsts(Dll!ListOrder, Scheduled)
      BY <3>2, <3>3 DEF Firsts
    <3>5. Firsts(before, Scheduled) = {Dll!first} \ {NULL}
      <4>1. Dll!first # NULL
        BY <3>2, ProcAssumption DEF Scheduled
      <4>2. Firsts(before, Scheduled) = {list[1]}
        BY <2>1, <3>4, OneFirst
      <4> QED BY <3>2, <4>1, <4>2
    <3>6. Prio!first \in Firsts(Prio!BinOrder, Scheduled)
      <4>1. bins_len # 0
        BY <2>1, <2>3, FS_EmptySet DEF BinInv
      <4>2. DOMAIN bins \in SUBSET Nat /\ DOMAIN bins # {}
        BY <2>1, <2>3, BinTimes
      <4>3. \E k \in DOMAIN bins : \A l \in DOMAIN bins : k <= l
        BY <4>2, LeastOfNumbers
      <4>4. PICK k \in DOMAIN bins : /\ \A l \in DOMAIN bins : k <= l
                                     /\ Prio!first = Head(bins[k])
        BY <4>1, <4>3 DEF Prio!first
      <4>5. Lists(bins[k], NoticesAt(k)) /\ bins[k] # <<>> /\ bins[k] = Prio!BinAt(k)
        BY <2>1 DEF BinInv, Prio!BinAt
      <4>6. bins[k] \in Seq(Proc) /\ Len(bins[k]) \in Nat \ {0} /\ 1 \in 1 .. Len(bins[k])
        BY <4>5, LenProperties, EmptySeq DEF Lists
      <4> DEFINE f == bins[k][1]
      <4>7. Prio!first = f
        BY <4>4, <4>6
      <4>8. f \in Scheduled /\ notice[f] = k /\ k \in Time
        BY <2>1, <4>5, <4>6, BinTimes DEF Lists, NoticesAt, BinInv
      <4>9. ASSUME NEW q \in Scheduled \ {f} PROVE <<f, q>> \in Prio!BinOrder
        <5>1. notice[q] \in DOMAIN bins /\ notice[q] \in Nat /\ k <= notice[q] /\ k \in Nat
          BY <2>1, <4>4, BinTimes
        <5>2. CASE k < notice[q]
          BY <2>1, <4>8, <5>2, AheadInBins
        <5>3. CASE notice[q] = k
          <6>1. PICK i \in 1 .. Len(bins[k]) : bins[k][i] = q
            BY <4>5, <5>3 DEF Lists, NoticesAt, Scheduled
          <6>2. 1 < i
            BY <4>6, <6>1
          <6>3. <<f, q>> \in OrderIn(Prio!BinAt(k))
            BY <4>5, <4>6, <6>1, <6>2, PairsInOrder
          <6> QED BY <2>1, <4>8, <6>3, AheadInBins
        <5> QED BY <5>1, <5>2, <5>3
      <4> QED BY <4>7, <4>8, <4>9 DEF Firsts
    <3>7. Prio!first = Dll!first
      BY <2>1, <3>2, <3>4, <3>6, OneFirst
    <3> QED BY <3>5, <3>7 DEF SameFirst
  <2> QED BY <2>2, <2>3
<1> QED BY <1>1, BothInvariant, PTL

=============================================================================
