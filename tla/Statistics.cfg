CONSTANTS
  Limit <- Limits
  WarmUp = 1
  Part = 1
  Whole = 3
  HalfWindow = 1
  BatchSize = 2
  Batches = 2
  Rebatches = 1
  Values <- Observed
  Low = 0
  High = 4
  NBins = 2
  LastTime = 3
  MaxSeen = 4
  NULL = NULL
SPECIFICATION AnySpec
INVARIANTS
  MeansOfReplications
  BatchesPartition
  GraphsReadFinished
  WindowsCentred
  ExtremesRight
  CumulativeRight
  SumIsIntegral
\* A program ends with its first result, with a failure, or at the bound.
CHECK_DEADLOCK FALSE
