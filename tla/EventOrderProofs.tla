-------------------------- MODULE EventOrderProofs --------------------------
(***************************************************************************)
(* What the operators of EventOrder do to a line of notices.  The lemmas   *)
(* speak of the notices Q of one sequencing set; before may hold pairs of  *)
(* others, which the operators leave alone.                                *)
(***************************************************************************)
EXTENDS EventOrder, TLAPS

\* p stands nowhere among Q.
Absent(before, Q, p) == \A q \in Q : <<p, q>> \notin before /\ <<q, p>> \notin before

\* A line does not depend on pairs and times of others.
LEMMA LineOfSame ==
  ASSUME NEW before, NEW Q, NEW time, NEW after, NEW time2, NEW R,
         IsLine(before, Q, time), R \subseteq Q,
         \A p, q \in R : <<p, q>> \in after <=> <<p, q>> \in before,
         \A q \in R : time2[q] = time[q]
  PROVE  IsLine(after, R, time2)
BY DEF IsLine

\* The operations bring nobody into the order but p.
LEMMA PlacedWithin ==
  ASSUME NEW R, NEW before, before \subseteq R \X R, NEW Q, Q \subseteq R, NEW time,
         NEW p \in R, NEW q \in R, NEW t
  PROVE  /\ PlacedAt(before, Q, time, p, t) \subseteq R \X R
         /\ PlacedBefore(before, Q, p, q) \subseteq R \X R
         /\ PlacedAfter(before, Q, p, q) \subseteq R \X R
<1>1. \A x \in Q : <<x, p>> \in R \X R /\ <<p, x>> \in R \X R
  OBVIOUS
<1>2. PlacedAt(before, Q, time, p, t) \subseteq R \X R
  <2> SUFFICES ASSUME NEW e \in PlacedAt(before, Q, time, p, t) PROVE e \in R \X R
    OBVIOUS
  <2> QED BY <1>1 DEF PlacedAt
<1>3. PlacedBefore(before, Q, p, q) \subseteq R \X R
  <2> SUFFICES ASSUME NEW e \in PlacedBefore(before, Q, p, q) PROVE e \in R \X R
    OBVIOUS
  <2> QED BY <1>1 DEF PlacedBefore
<1>4. PlacedAfter(before, Q, p, q) \subseteq R \X R
  <2> SUFFICES ASSUME NEW e \in PlacedAfter(before, Q, p, q) PROVE e \in R \X R
    OBVIOUS
  <2> QED BY <1>1 DEF PlacedAfter
<1> QED BY <1>2, <1>3, <1>4

\* insertAt keeps the line: a line sorted by time is split in two by a time.
LEMMA PlacedAtLine ==
  ASSUME NEW before, NEW Q, NEW time, NEW time2, NEW p, NEW t \in Nat,
         IsLine(before, Q, time), p \notin Q, Absent(before, Q, p), <<p, p>> \notin before,
         \A q \in Q : time[q] \in Nat /\ time2[q] = time[q], time2[p] = t
  PROVE  IsLine(PlacedAt(before, Q, time, p, t), Q \cup {p}, time2)
<1> DEFINE after == PlacedAt(before, Q, time, p, t)
<1>1. \A q, r \in Q : <<q, r>> \in after <=> <<q, r>> \in before
  BY DEF PlacedAt
<1>2. \A q \in Q : <<q, p>> \in after <=> time[q] < t
  BY DEF PlacedAt, Absent
<1>3. \A q \in Q : <<p, q>> \in after <=> time[q] >= t
  BY DEF PlacedAt, Absent
<1>4. <<p, p>> \notin after
  BY DEF PlacedAt
<1> HIDE DEF after
<1>times. \A q \in Q : time[q] \in Nat /\ time2[q] = time[q] /\ (time[q] < t <=> ~(time[q] >= t))
  OBVIOUS
<1>5. ASSUME NEW a \in Q \cup {p}, NEW b \in Q \cup {p}, a # b
      PROVE  <<a, b>> \in after <=> <<b, a>> \notin after
  <2>1. CASE a = p
    BY <2>1, <1>2, <1>3, <1>5, <1>times
  <2>2. CASE b = p
    BY <2>2, <1>2, <1>3, <1>5, <1>times
  <2>3. CASE a # p /\ b # p
    BY <2>3, <1>1, <1>5 DEF IsLine
  <2> QED BY <2>1, <2>2, <2>3
<1>6. \A a \in Q \cup {p} : <<a, a>> \notin after
  BY <1>1, <1>4 DEF IsLine
<1>7. ASSUME NEW a \in Q \cup {p}, NEW b \in Q \cup {p}, <<a, b>> \in after
      PROVE  time2[a] <= time2[b]
  <2>1. CASE a = p
    BY <2>1, <1>3, <1>4, <1>7
  <2>2. CASE b = p
    BY <2>2, <1>2, <1>4, <1>7
  <2>3. CASE a # p /\ b # p
    BY <2>3, <1>1, <1>7 DEF IsLine
  <2> QED BY <2>1, <2>2, <2>3
<1>8. ASSUME NEW a \in Q \cup {p}, NEW b \in Q \cup {p}, NEW c \in Q \cup {p},
             <<a, b>> \in after, <<b, c>> \in after
      PROVE  <<a, c>> \in after
  <2>1. CASE a = p
    BY <2>1, <1>1, <1>2, <1>3, <1>4, <1>8 DEF IsLine
  <2>2. CASE b = p
    <3> SUFFICES ASSUME a # p, c # p PROVE <<a, c>> \in after
      BY <2>2, <1>4, <1>8
    <3>1. time[a] < t /\ time[c] >= t
      BY <2>2, <1>2, <1>3, <1>8
    <3>2. a # c /\ <<c, a>> \notin before
      BY <3>1 DEF IsLine
    <3> QED BY <3>2, <1>1 DEF IsLine
  <2>3. CASE c = p
    BY <2>3, <1>1, <1>2, <1>3, <1>4, <1>8 DEF IsLine
  <2>4. CASE a # p /\ b # p /\ c # p
    BY <2>4, <1>1, <1>8 DEF IsLine
  <2> QED BY <2>1, <2>2, <2>3, <2>4
<1> QED BY <1>5, <1>6, <1>7, <1>8 DEF IsLine, after

\* insert before q keeps the line: p takes q's time, and whoever was behind q
\* is behind p.
LEMMA PlacedBeforeLine ==
  ASSUME NEW before, NEW Q, NEW time, NEW time2, NEW p, NEW q \in Q,
         IsLine(before, Q, time), p \notin Q, Absent(before, Q, p), <<p, p>> \notin before,
         \A r \in Q : time[r] \in Nat /\ time2[r] = time[r], time2[p] = time[q]
  PROVE  IsLine(PlacedBefore(before, Q, p, q), Q \cup {p}, time2)
<1> DEFINE after == PlacedBefore(before, Q, p, q)
<1>1. \A r, u \in Q : <<r, u>> \in after <=> <<r, u>> \in before
  BY DEF PlacedBefore
<1>2. \A r \in Q : <<r, p>> \in after <=> <<r, q>> \in before
  BY DEF PlacedBefore, Absent
<1>3. \A r \in Q : <<p, r>> \in after <=> r = q \/ <<q, r>> \in before
  BY DEF PlacedBefore, Absent
<1>4. <<p, p>> \notin after
  BY DEF PlacedBefore
<1> HIDE DEF after
<1>5. \A a, b \in Q \cup {p} : a # b => (<<a, b>> \in after <=> <<b, a>> \notin after)
  BY <1>1, <1>2, <1>3 DEF IsLine
<1>6. \A a \in Q \cup {p} : <<a, a>> \notin after
  BY <1>1, <1>4 DEF IsLine
<1>times. \A r \in Q : time[r] <= time[r]
  OBVIOUS
<1>7. ASSUME NEW a \in Q \cup {p}, NEW b \in Q \cup {p}, <<a, b>> \in after
      PROVE  time2[a] <= time2[b]
  <2>1. CASE a = p
    BY <2>1, <1>3, <1>4, <1>7, <1>times DEF IsLine
  <2>2. CASE b = p
    BY <2>2, <1>2, <1>4, <1>7, <1>times DEF IsLine
  <2>3. CASE a # p /\ b # p
    BY <2>3, <1>1, <1>7 DEF IsLine
  <2> QED BY <2>1, <2>2, <2>3
<1>8. ASSUME NEW a \in Q \cup {p}, NEW b \in Q \cup {p}, NEW c \in Q \cup {p},
             <<a, b>> \in after, <<b, c>> \in after
      PROVE  <<a, c>> \in after
  BY <1>1, <1>2, <1>3, <1>4, <1>8 DEF IsLine
<1> QED BY <1>5, <1>6, <1>7, <1>8 DEF IsLine, after

\* insert after q keeps the line.
LEMMA PlacedAfterLine ==
  ASSUME NEW before, NEW Q, NEW time, NEW time2, NEW p, NEW q \in Q,
         IsLine(before, Q, time), p \notin Q, Absent(before, Q, p), <<p, p>> \notin before,
         \A r \in Q : time[r] \in Nat /\ time2[r] = time[r], time2[p] = time[q]
  PROVE  IsLine(PlacedAfter(before, Q, p, q), Q \cup {p}, time2)
<1> DEFINE after == PlacedAfter(before, Q, p, q)
<1>1. \A r, u \in Q : <<r, u>> \in after <=> <<r, u>> \in before
  BY DEF PlacedAfter
<1>2. \A r \in Q : <<r, p>> \in after <=> r = q \/ <<r, q>> \in before
  BY DEF PlacedAfter, Absent
<1>3. \A r \in Q : <<p, r>> \in after <=> <<q, r>> \in before
  BY DEF PlacedAfter, Absent
<1>4. <<p, p>> \notin after
  BY DEF PlacedAfter
<1> HIDE DEF after
<1>5. \A a, b \in Q \cup {p} : a # b => (<<a, b>> \in after <=> <<b, a>> \notin after)
  BY <1>1, <1>2, <1>3 DEF IsLine
<1>6. \A a \in Q \cup {p} : <<a, a>> \notin after
  BY <1>1, <1>4 DEF IsLine
<1>times. \A r \in Q : time[r] <= time[r]
  OBVIOUS
<1>7. ASSUME NEW a \in Q \cup {p}, NEW b \in Q \cup {p}, <<a, b>> \in after
      PROVE  time2[a] <= time2[b]
  <2>1. CASE a = p
    BY <2>1, <1>3, <1>4, <1>7, <1>times DEF IsLine
  <2>2. CASE b = p
    BY <2>2, <1>2, <1>4, <1>7, <1>times DEF IsLine
  <2>3. CASE a # p /\ b # p
    BY <2>3, <1>1, <1>7 DEF IsLine
  <2> QED BY <2>1, <2>2, <2>3
<1>8. ASSUME NEW a \in Q \cup {p}, NEW b \in Q \cup {p}, NEW c \in Q \cup {p},
             <<a, b>> \in after, <<b, c>> \in after
      PROVE  <<a, c>> \in after
  BY <1>1, <1>2, <1>3, <1>4, <1>8 DEF IsLine
<1> QED BY <1>5, <1>6, <1>7, <1>8 DEF IsLine, after

\* In a line at most one notice is first, and none is earlier.
LEMMA FirstOfLine ==
  ASSUME NEW before, NEW Q, NEW time, IsLine(before, Q, time),
         \A q \in Q : time[q] \in Nat,
         NEW p \in Firsts(before, Q), NEW q \in Firsts(before, Q)
  PROVE  p = q /\ \A r \in Q : time[p] <= time[r]
<1>1. p = q
  BY DEF Firsts, IsLine
<1>2. ASSUME NEW r \in Q PROVE time[p] <= time[r]
  <2>1. CASE r = p
    BY <2>1
  <2>2. CASE r # p
    BY <2>2, <1>2 DEF Firsts, IsLine
  <2> QED BY <2>1, <2>2
<1> QED BY <1>1, <1>2

=============================================================================
