\* One tail with a `since` in the middle of the log: three lines, one restart,
\* two faults.
CONSTANTS
  Texts = {"a", "b"}
  Instants <- MCThreeInstants
  Since = 2
  TailLines <- MCNone
  Capacity = 1
  MaxOpenFailures = 2
  MaxLines = 3
  MaxRestarts = 1
  MaxFaults = 2
SPECIFICATION FairSpec
INVARIANTS TypeOK DeliveryInv
PROPERTIES EventuallySent ExactlyOnce
CHECK_DEADLOCK FALSE
