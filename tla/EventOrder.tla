----------------------------- MODULE EventOrder -----------------------------
(***************************************************************************)
(* The order of a sequencing set, as a relation: before holds <<p, q>> when*)
(* the event notice of p is ahead of that of q.  Each operator says what an*)
(* operation of class sqs does to the order of the notices Q, of which q is*)
(* scheduled for time[q].                                                  *)
(***************************************************************************)
EXTENDS Naturals

\* Mutants: behind what is scheduled for t; neither before nor behind it.
PlacedBehindTies(before, Q, time, p, t) ==
  before \cup {<<q, p>> : q \in {x \in Q : time[x] <= t}}
         \cup {<<p, q>> : q \in {x \in Q : time[x] > t}}

PlacedBesideTies(before, Q, time, p, t) ==
  before \cup {<<q, p>> : q \in {x \in Q : time[x] < t}}
         \cup {<<p, q>> : q \in {x \in Q : time[x] > t}}

\* insertAt: behind what is scheduled earlier than t, ahead of what is
\* scheduled for t or later.
PlacedAt(before, Q, time, p, t) ==
  before \cup {<<q, p>> : q \in {x \in Q : time[x] < t}}
         \cup {<<p, q>> : q \in {x \in Q : time[x] >= t}}

\* insert with pos_before and pos_after: next to q.
PlacedBefore(before, Q, p, q) ==
  before \cup {<<r, p>> : r \in {x \in Q : <<x, q>> \in before}}
         \cup {<<p, r>> : r \in {x \in Q : x = q \/ <<q, x>> \in before}}

PlacedAfter(before, Q, p, q) ==
  before \cup {<<r, p>> : r \in {x \in Q : x = q \/ <<x, q>> \in before}}
         \cup {<<p, r>> : r \in {x \in Q : <<q, x>> \in before}}

\* remove
Without(before, p) == {e \in before : e[1] # p /\ e[2] # p}

\* first: whoever is ahead of all others
Firsts(before, Q) == {p \in Q : \A q \in Q \ {p} : <<p, q>> \in before}

\* The notices Q are in one line, sorted by time: of two exactly one is ahead
\* of the other, being ahead is transitive, and nobody is ahead of an earlier
\* notice.
IsLine(before, Q, time) ==
  /\ \A p, q \in Q : p # q => (<<p, q>> \in before <=> <<q, p>> \notin before)
  /\ \A p \in Q : <<p, p>> \notin before
  /\ \A p, q, r \in Q : <<p, q>> \in before /\ <<q, r>> \in before => <<p, r>> \in before
  /\ \A p, q \in Q : <<p, q>> \in before => time[p] <= time[q]

=============================================================================
