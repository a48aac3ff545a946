\* A terminal of 80 columns: three cards are made to fill the room exactly.
SPECIFICATION Spec
CONSTANTS
  None = None
  Views <- MCViews
  Areas <- MCNarrow
  Split <- MCSplit
  Columns <- MCColumns
  Timings = FALSE
  MouseRows = {2, 10}
  MaxEvents = 4
  MaxSplit = 8
  Kinds = {"detail"}
  Lists <- MCLists
  CAPACITY = 3
  LineColumns = {30}
  MonoVertices <- MCMonoVertices
INVARIANT SelectionDrawn
CHECK_DEADLOCK FALSE
