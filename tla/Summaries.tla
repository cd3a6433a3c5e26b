------------------------------ MODULE Summaries ------------------------------
(***************************************************************************)
(* The variables that keep a summary of their observations instead of the  *)
(* observations: counter (src/src/counter.cc), histogram (histogram.cc) and*)
(* accum, the integral over time of a value that is known when it changes  *)
(* (accum.cc).  Observations are integers; times too.                      *)
(***************************************************************************)
EXTENDS Integers, Sequences, FiniteSets, Functions

CONSTANTS Values,     \* what is observed
          Low, High,  \* histogram::_a and _b
          NBins,      \* the nbins of the constructor, histogram::_nbins less two
          LastTime,   \* bound on the times of accum
          MaxSeen     \* bound on the observations between two resets

ASSUME SummariesAssumption ==
  /\ Values \subseteq Int
  /\ Low \in Int /\ High \in Int /\ Low < High
  /\ NBins \in Nat \ {0}
  /\ LastTime \in Nat /\ MaxSeen \in Nat

VARIABLES summary,    \* class of the variable
          seen,       \* history: its observations since the last reset
          count,      \* _numUpdates
          min, max,   \* _min, _max of counter and histogram
          bins,       \* histogram::_values
          total,      \* accum::_sum
          lastUpdate, \* accum::_lastUpdate
          lastVal     \* accum::_lastVal

extremes == <<min, max>>
integral == <<total, lastUpdate, lastVal>>
summaryVars == <<summary, seen, count, extremes, bins, integral>>

Bins == 0 .. NBins + 1
NoValue == -1

SummaryInit ==
  /\ summary \in {"counter", "histogram", "accum"}
  /\ seen = <<>> /\ count = 0
  /\ min = NoValue /\ max = NoValue
  /\ bins = [i \in Bins |-> 0]
  /\ total = 0 /\ lastUpdate = 0 /\ lastVal = 0

\* Mutant: the time and the value of the last update survive the reset.
ResetKeepsLast ==
  /\ seen' = <<>> /\ count' = 0 /\ total' = 0
  /\ UNCHANGED <<summary, extremes, bins, lastUpdate, lastVal>>

\* reset, of any of the classes
SummaryReset ==
  /\ seen' = <<>> /\ count' = 0
  /\ min' = NoValue /\ max' = NoValue
  /\ bins' = [i \in Bins |-> 0]
  /\ total' = 0 /\ lastUpdate' = 0 /\ lastVal' = 0
  /\ UNCHANGED summary

-----------------------------------------------------------------------------
Observe(o) ==
  /\ Len(seen) < MaxSeen
  /\ seen' = Append(seen, o)
  /\ count' = count + 1
  /\ UNCHANGED summary

\* Mutant: no test for a first observation.
ExtendOnly(v) ==
  /\ min' = IF v < min THEN v ELSE min
  /\ max' = IF v > max THEN v ELSE max

\* The two tests that counter::update and histogram::update share.
Extend(v) ==
  /\ min' = IF min = NoValue \/ v < min THEN v ELSE min
  /\ max' = IF max = NoValue \/ v > max THEN v ELSE max

CounterUpdate(v) ==
  /\ summary = "counter"
  /\ Observe(v) /\ Extend(v)
  /\ UNCHANGED <<bins, integral>>

\* Mutant: the bin for what is too low is taken for the first one.
BinFromZero(v) ==
  IF v < Low THEN {0} ELSE IF v > High THEN {NBins + 1} ELSE {((v - Low) * NBins) \div (High - Low)}

\* The bin of v.  The quotient of v - _a by _width may be rounded down when it
\* should be a whole number, since _width is rounded.
BinsOf(v) ==
  IF v < Low THEN {0}
  ELSE IF v > High THEN {NBins + 1}
  ELSE LET scaled == (v - Low) * NBins
           q      == scaled \div (High - Low)
       IN  {1 + q} \cup (IF scaled = q * (High - Low) /\ q > 0 THEN {q} ELSE {})

HistogramUpdate(v) ==
  /\ summary = "histogram"
  /\ Observe(v) /\ Extend(v)
  /\ \E i \in BinsOf(v) : bins' = [bins EXCEPT ![i] = @ + 1]
  /\ UNCHANGED integral

\* accum::update, by a program that does not go back in time (the assertion).
AccumUpdate(v, t) ==
  /\ summary = "accum" /\ t >= lastUpdate
  /\ Observe(<<v, t>>)
  /\ total' = total + lastVal * (t - lastUpdate)
  /\ lastUpdate' = t /\ lastVal' = v
  /\ UNCHANGED <<bins, extremes>>

SummaryNext ==
  \/ \E v \in Values : CounterUpdate(v) \/ HistogramUpdate(v)
  \/ \E v \in Values, t \in 0 .. LastTime : AccumUpdate(v, t)
  \/ SummaryReset

SummarySpec == SummaryInit /\ [][SummaryNext]_summaryVars

-----------------------------------------------------------------------------
\* The rows that histogram::report prints: it stops when all observations are
\* in the rows before.
Rows == {i \in Bins : SumFunctionOnSet(bins, 0 .. i - 1) < count}

\* The cumulative percentage of a row, as a number of observations
Cumulative(i) == SumFunctionOnSet(bins, 0 .. i)

\* An observation that is less than, or not more than, the low bound that is
\* printed for the row i + 1
Below(v, i) == (v - Low) * NBins < (High - Low) * i
UpTo(v, i)  == (v - Low) * NBins <= (High - Low) * i

-----------------------------------------------------------------------------
Least(S) == CHOOSE v \in S : \A w \in S : v <= w
Greatest(S) == CHOOSE v \in S : \A w \in S : v >= w

\* -1 stands for no value yet, but may be observed (counter.cc:44-47,
\* histogram.cc:63-66).  The extremes that are reported are those of the
\* observations, unless the true extreme is -1 itself.
ExtremesRight ==
  summary # "accum" /\ seen # <<>> =>
    /\ Least(Range(seen)) # NoValue => min = Least(Range(seen))
    /\ Greatest(Range(seen)) # NoValue => max = Greatest(Range(seen))

\* The cumulative column of a histogram counts the observations below the low
\* bound of the next row, and of those on that bound, which rounding may put
\* on either side, some; what the report leaves out is empty.
CumulativeRight ==
  summary = "histogram" =>
    /\ \A i \in Rows \ {NBins + 1} :
         /\ Cardinality({n \in DOMAIN seen : Below(seen[n], i)}) <= Cumulative(i)
         /\ Cumulative(i) <= Cardinality({n \in DOMAIN seen : UpTo(seen[n], i)})
    /\ SumFunctionOnSet(bins, Rows) = Len(seen)

\* The value in force at the time t: of the last observation not later.
InForce(t) ==
  LET known == {n \in DOMAIN seen : seen[n][2] <= t}
  IN  IF known = {} THEN 0 ELSE seen[Greatest(known)][1]

\* The sum of an accum is the integral over time of the value in force, up to
\* the last observation; after a reset, from the first (accum.cc:46-48).
SumIsIntegral ==
  summary = "accum" =>
    total = SumFunction([t \in 1 .. lastUpdate |-> InForce(t - 1)])

=============================================================================
