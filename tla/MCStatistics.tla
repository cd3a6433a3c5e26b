---------------------------- MODULE MCStatistics ----------------------------
(***************************************************************************)
(* A program with one statistic, of any class: it is either one that keeps *)
(* its observations (Replications) or a summary of them (Summaries).       *)
(***************************************************************************)
EXTENDS Replications, Summaries

Limits == [s \in Statistics |-> IF s \in Graphic THEN <<6, 5>>
                                 ELSE IF s = "bmeans2" THEN <<2, 13>> ELSE <<3, 8>>]
Observed == -2 .. 5

VARIABLE keeps \* the program's statistic keeps its observations

AnyInit ==
  /\ Init /\ SummaryInit
  /\ \/ keeps = TRUE /\ summary = "counter"
     \/ keeps = FALSE /\ stat = "repmean" /\ removal = "const"

AnyNext ==
  /\ UNCHANGED keeps
  /\ \/ keeps /\ Next /\ UNCHANGED summaryVars
     \/ ~keeps /\ SummaryNext /\ UNCHANGED vars

AnySpec == AnyInit /\ [][AnyNext]_<<vars, summaryVars, keeps>>
=============================================================================
