\* Four keys and a tick.  The request channel never fills, so that the two tasks
\* never wait for each other; the reply channel does.
CONSTANTS
  Pipelines = {p1, p2}
  MonoVertices = {m1, m2}
  None = None
  RequestCap = 10
  ReplyCap = 3
  MaxKeys = 4
  MaxTicks = 1
  MaxLines = 1
SPECIFICATION FairSpec
INVARIANTS TypeOK TailFollowsPanel
PROPERTIES ViewsStayTrue Settles
CHECK_DEADLOCK FALSE
