---------------------------- MODULE Replications ----------------------------
(***************************************************************************)
(* Statistics that keep their observations by replication: the mean of     *)
(* replications (src/src/repmean.cc) and batch means (bmeans.cc and        *)
(* bmeans2.cc), with the removal of the transient (trremoval.hh) that they *)
(* rest on, and the two graphs of the initialization bias (welch.cc,       *)
(* jain.cc).  A replication ends with reset.  The model follows which      *)
(* observations a result is computed from, not their values: the i-th      *)
(* observation of replication r is <<r, i>>.  A program has one of these   *)
(* statistics, and ends when it has a result or when an assertion or an    *)
(* exception stops it.                                                     *)
(***************************************************************************)
EXTENDS Integers, Sequences, FiniteSets, Functions

CONSTANTS Limit,      \* bound: replications a program begins, observations in each
          WarmUp,     \* trremoval_const::_l
          Part, Whole,\* trremoval_frac::_f is Part / Whole
          HalfWindow, \* welch::_wsize
          BatchSize,  \* bmeans::_bsize
          Batches,    \* bmeans2: the number of batches, 200,
          Rebatches,  \* and after rebatching, 40
          NULL        \* what is read outside a vector

Statistics == {"repmean", "bmeans", "bmeans2", "welch", "jain"}
Graphic == {"welch", "jain"}

ASSUME ReplicationsAssumption ==
  /\ Limit \in [Statistics -> Nat \X Nat]
  /\ WarmUp \in Nat /\ HalfWindow \in Nat
  /\ BatchSize \in Nat \ {0}
  /\ Batches \in Nat /\ Rebatches \in Nat /\ Rebatches < Batches
  /\ Whole \in Nat /\ Part \in 1 .. Whole - 1
  /\ NULL \notin Nat \X Nat

VARIABLES stat,       \* class of the statistic
          removal,    \* class of its _t, of repmean and bmeans
          lens,       \* history: the number of observations of each replication
          ob,         \* welch::_ob, jain::_ob
          kept,       \* trremoval::_ob
          numUpdates, \* numUpdates of trremoval
          numResets,  \* numResets of the statistic
          means,      \* repmean::_m_all: the observations behind each mean
          outcome,    \* "ok" while the program runs, else how it ended
          shown       \* result: the observations behind each number of it

removed == <<kept, numUpdates>>
kinds == <<stat, removal>>
vars == <<kinds, lens, ob, removed, numResets, means, outcome, shown>>

Observations == (Nat \ {0}) \X (Nat \ {0})

TypeOK ==
  /\ stat \in Statistics
  /\ removal \in {"const", "frac", "none"}
  /\ lens \in Seq(Nat)
  /\ ob \in Seq(Seq(Observations))
  /\ kept \in Seq(Observations)
  /\ numUpdates \in Nat /\ numResets \in Nat
  /\ means \in Seq(SUBSET Observations)
  /\ outcome \in {"ok", "result", "assertion", "window", "exception"}
  /\ shown \in Seq(SUBSET Observations)

Init ==
  /\ stat \in Statistics
  /\ removal \in IF stat \in Graphic THEN {"none"} ELSE {"const", "frac"}
  /\ lens = <<0>>
  /\ ob = <<<<>>>>
  /\ kept = <<>> /\ numUpdates = 0 /\ numResets = 0
  /\ means = <<>>
  /\ outcome = "ok" /\ shown = <<>>

-----------------------------------------------------------------------------
Current == Len(lens)
Latest == <<Current, lens[Current] + 1>>
Count == lens' = [lens EXCEPT ![Current] = @ + 1]

\* What follows the first n members of s.
Without(n, s) == SubSeq(s, n + 1, Len(s))

\* trremoval::value
Remaining ==
  IF removal = "frac" THEN Without((Len(kept) * Part) \div Whole, kept) ELSE kept
ValueThrows == removal = "frac" /\ Len(kept) <= 1

Running(s) == outcome = "ok" /\ stat \in s
MayUpdate(s) == Running(s) /\ lens[Current] < Limit[stat][2]
MayReset(s) == Running(s) /\ Current < Limit[stat][1]
Halt(how) == outcome' = how /\ UNCHANGED shown

\* welch::update, jain::update
GraphUpdate ==
  /\ MayUpdate(Graphic)
  /\ Count
  /\ ob' = [ob EXCEPT ![Len(ob)] = Append(@, Latest)]
  /\ UNCHANGED <<kinds, removed, numResets, means, outcome, shown>>

\* repmean::update, bmeans::update, bmeans2::update
RemovalUpdate ==
  /\ MayUpdate(Statistics \ Graphic)
  /\ Count
  /\ numUpdates' = numUpdates + 1
  /\ kept' = IF removal = "const" /\ numUpdates' <= WarmUp THEN kept
                                                           ELSE Append(kept, Latest)
  /\ UNCHANGED <<kinds, ob, numResets, means, outcome, shown>>

\* welch::reset, jain::reset
GraphReset ==
  /\ MayReset(Graphic)
  /\ ob' = Append(ob, <<>>)
  /\ numResets' = numResets + 1
  /\ lens' = Append(lens, 0)
  /\ UNCHANGED <<kinds, removed, means, outcome, shown>>

\* Mutant: the warm-up of later replications is not removed.
RemovalResetKeepsCount == kept' = <<>> /\ UNCHANGED numUpdates

\* trremoval_const::reset, trremoval_frac::reset
RemovalReset == kept' = <<>> /\ numUpdates' = 0

\* bmeans::reset, bmeans2::reset
BmeansReset ==
  /\ MayReset({"bmeans", "bmeans2"})
  /\ RemovalReset
  /\ numResets' = numResets + 1
  /\ lens' = Append(lens, 0)
  /\ UNCHANGED <<kinds, ob, means, outcome, shown>>

\* repmean::reset adds the mean of the replication, unless the removal throws
\* or leaves nothing.
RepmeanReset ==
  /\ MayReset({"repmean"})
  /\ \/ ValueThrows /\ Halt("exception") /\ UNCHANGED <<lens, removed, numResets, means>>
     \/ /\ ~ValueThrows /\ Remaining = <<>>
        /\ RemovalReset
        /\ Halt("assertion")
        /\ UNCHANGED <<lens, numResets, means>>
     \/ /\ ~ValueThrows /\ Remaining # <<>>
        /\ RemovalReset
        /\ means' = Append(means, Range(Remaining))
        /\ numResets' = numResets + 1
        /\ lens' = Append(lens, 0)
        /\ UNCHANGED <<outcome, shown>>
  /\ UNCHANGED <<kinds, ob>>

-----------------------------------------------------------------------------
\* The member i of a vector, counted from 0.
At(s, i) == IF i \in 0 .. Len(s) - 1 THEN s[i + 1] ELSE NULL

Result(r) ==
  /\ outcome' = "result" /\ shown' = r
  /\ UNCHANGED <<kinds, lens, ob, removed, numResets, means>>
Fail(how) ==
  /\ Halt(how)
  /\ UNCHANGED <<kinds, lens, ob, removed, numResets, means>>

\* The value of repmean: the mean needs one replication, its variance two.
RepmeanValue ==
  /\ Running({"repmean"})
  /\ IF Len(means) < 2 THEN Fail("exception") ELSE Result(means)

\* Mutant: a batch begins with the last observation of the one before it.
BatchShared(i) == i * BatchSize - (IF i > 0 THEN 1 ELSE 0) .. (i + 1) * BatchSize - 1

\* The observations that bmeans adds up for the batch i.
Batch(i) == i * BatchSize .. (i + 1) * BatchSize - 1

\* bmeans::value
BmeansValue ==
  /\ Running({"bmeans"})
  /\ LET k == Len(Remaining) \div BatchSize
     IN  IF ValueThrows \/ k <= 2
         THEN Fail("exception")
         ELSE Result([i \in 1 .. k |-> {At(Remaining, j) : j \in Batch(i - 1)}])

\* The first n of what is left, and the piece of it of b from the place p on
Piece(p, b) == {At(Remaining, j) : j \in p .. p + b - 1}

\* bmeans2::value.  The two tests for independence depend on the values; they
\* are all that the new batch means are computed for.  The loop that adds up
\* the squares uses the index of the loop before it, which is at its end, and
\* reads, behind the new batch means, what was there: one of the first ones.
Bmeans2Value ==
  /\ Running({"bmeans2"})
  /\ LET b == Len(Remaining) \div Batches
     IN  \/ Fail("exception")
         \/ /\ ~ValueThrows /\ Len(Remaining) > 4 * Batches
            /\ Result(<<Piece(0, Batches * b), Piece(Rebatches * b, b)>>)

\* Mutant: the loop ends before the last replication.
MinSizeOfFirst ==
  CHOOSE n \in {Len(ob[r]) : r \in 1 .. numResets - 1} :
    \A r \in 1 .. numResets - 1 : n <= Len(ob[r])

\* The length of the shortest of the first numResets replications
MinSize ==
  CHOOSE n \in {Len(ob[r]) : r \in 1 .. numResets} :
    \A r \in 1 .. numResets : n <= Len(ob[r])

\* The mean over the replications of the observations at these places
Across(places) == {At(ob[r], i) : r \in 1 .. numResets, i \in places}

\* Mutant: the window misses its last place.
WindowShort(j) == LET w == IF j < HalfWindow THEN j ELSE HalfWindow IN j - w .. j + w - 1

\* The places that welch smooths the point j with
Window(j) == LET w == IF j < HalfWindow THEN j ELSE HalfWindow IN j - w .. j + w

\* welch::report, with the assertions about the size and those in the loop
WelchReport ==
  /\ Running({"welch"})
  /\ IF numResets < 5 THEN Fail("assertion")
     ELSE IF HalfWindow > MinSize \div 4 \/ MinSize <= HalfWindow THEN Fail("assertion")
     ELSE IF \E j \in 0 .. MinSize - HalfWindow - 1 : ~(Window(j) \subseteq 0 .. MinSize - 1)
          THEN Fail("window")
     ELSE Result([p \in 1 .. MinSize - HalfWindow |-> Across(Window(p - 1))])

\* jain::report.  The loop over the truncated means leaves out the last.
JainReport ==
  /\ Running({"jain"})
  /\ IF numResets < 5 THEN Fail("assertion")
     ELSE Result([p \in 1 .. MinSize |->
            IF p < MinSize THEN Across(p - 1 .. MinSize - 1) ELSE {}])

Update == GraphUpdate \/ RemovalUpdate
Reset == GraphReset \/ BmeansReset \/ RepmeanReset
Report == RepmeanValue \/ BmeansValue \/ Bmeans2Value \/ WelchReport \/ JainReport

Next == Update \/ Reset \/ Report

Spec == Init /\ [][Next]_vars

-----------------------------------------------------------------------------
\* The number of observations the removal takes from a replication of n.
Dropped(n) == IF removal = "const" THEN WarmUp ELSE (n * Part) \div Whole

\* What is left of the replication r.
Left(r) == {r} \X (Dropped(lens[r]) + 1 .. lens[r])

\* repmean has one mean for each replication that was ended, and it is the
\* mean of that replication's own observations, without the transient, which
\* is removed anew from each replication.
MeansOfReplications ==
  stat = "repmean" =>
    /\ Len(means) = Len(lens) - 1
    /\ \A r \in 1 .. Len(means) : means[r] = Left(r) /\ means[r] # {}

\* The batches of bmeans are of one size, have nothing in common, and are the
\* first observations of what is left of the current replication, but for
\* less than a batch at its end.  The mean of bmeans2 is that of the largest
\* first part of it that can be cut in equal batches.
BatchesPartition ==
  LET left == lens[Current] - Dropped(lens[Current])
      First(n) == {Current} \X (Dropped(lens[Current]) + 1 .. Dropped(lens[Current]) + n)
  IN
  /\ stat = "bmeans" /\ outcome = "result" =>
       LET n == Len(shown) * BatchSize
       IN  /\ UNION Range(shown) = First(n)
           /\ \A i \in 1 .. Len(shown) : Cardinality(shown[i]) = BatchSize
           /\ n <= left /\ left < n + BatchSize
  /\ stat = "bmeans2" /\ outcome = "result" =>
       \E b \in 1 .. left :
         /\ shown[1] = First(Batches * b)
         /\ Batches * b <= left /\ left < Batches * (b + 1)

\* The last of the truncated means of jain::report, which its loop does not
\* reach (jain.cc:97): it is plotted as the 0 it was initialized with.
NotComputed(p) == stat = "jain" /\ p = Len(shown)

\* The point p of a graph is the mean of the p-th observations of all ended
\* replications, and perhaps of others, the same of each.  Every replication
\* has them: no vector is read beyond its end.  The exception is the last
\* point of jain, which is computed from nothing.
GraphsReadFinished ==
  stat \in Graphic /\ outcome = "result" =>
    \A p \in 1 .. Len(shown) :
      IF NotComputed(p) THEN shown[p] = {}
      ELSE \E places \in SUBSET (1 .. lens[1]) :
             /\ p \in places
             /\ shown[p] = (1 .. Current - 1) \X places
             /\ \A r \in 1 .. Current - 1 : places \subseteq 1 .. lens[r]

\* The windows of Welch's method have their point in the middle, and the
\* assertions about them never fail.
WindowsCentred ==
  /\ outcome # "window"
  /\ stat = "welch" /\ outcome = "result" =>
       \A p \in 1 .. Len(shown) :
         /\ <<1, p>> \in shown[p]
         /\ \A d \in 1 .. p : <<1, p - d>> \in shown[p] <=> <<1, p + d>> \in shown[p]

=============================================================================
