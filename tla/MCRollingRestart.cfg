\* Up to two pods at the start, every one of which can be replaced, and two
\* disturbances.
CONSTANTS
  Pods = {p1, p2, p3, p4}
  None = None
  MaxReplicas = 2
  MaxLosses = 2
SPECIFICATION FairRollSpec
INVARIANTS RollIsSafe ReportIsComplete
PROPERTY RollEnds
CHECK_DEADLOCK FALSE
