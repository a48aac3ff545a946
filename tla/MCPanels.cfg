\* Each panel through six events: two sizes of screen, a flow taller than its
\* box and a table longer than its own, shards and a cycle, a log window that
\* overflows, and cards on every rung of the ladder.
SPECIFICATION Spec
CONSTANTS
  None = None
  Views <- MCViews
  Areas <- MCAreas
  Split <- MCSplit
  Columns <- MCColumns
  Timings = TRUE
  MouseRows = {10, 11, 15}
  MaxEvents = 6
  MaxSplit = 8
  Kinds = {"detail", "workloads", "logs", "monovertex"}
  Lists <- MCLists
  CAPACITY = 3
  LineColumns = {30, 90}
  MonoVertices <- MCMonoVertices
INVARIANTS PanelsTypeOK ShownInView DrawingsAreWhole
PROPERTIES NoUnwinding StaysPut
CHECK_DEADLOCK FALSE
