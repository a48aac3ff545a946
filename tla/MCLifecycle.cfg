\* One write by somebody else, two messages.
CONSTANTS
  MaxBacklog = 2
  MaxOthers = 1
  MaxItems = 3
SPECIFICATION FairSpec
INVARIANTS TypeOK ReportsAreHonest
PROPERTIES NoMissedPause RecycleRestores
CHECK_DEADLOCK FALSE
