\* Two pods of two containers, names never reused.
CONSTANTS
  Pods = {p1, p2}
  Containers = {c1, c2}
  Tasks = {t1, t2, t3, t4}
  None = None
  MaxChanges = 4
  MaxLosses = 1
  MaxEvents = 3
SPECIFICATION FairSpec
INVARIANTS BookkeepingOK TailsMatchPods
PROPERTY TailsEnd
CHECK_DEADLOCK FALSE
