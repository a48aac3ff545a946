\* tail_lines = 1: how much of the backlog is handed over?
CONSTANTS
  Texts = {"a", "b"}
  Instants <- MCInstants
  Since = 0
  TailLines = 1
  Capacity = 1
  MaxOpenFailures = 2
  MaxLines = 3
  MaxRestarts = 0
  MaxFaults = 1
SPECIFICATION Spec
INVARIANT TailRespected
CHECK_DEADLOCK FALSE
