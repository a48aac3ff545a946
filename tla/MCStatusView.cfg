\* A window of one tick and two ticks of time: views before and after a held
\* answer ages, while the pipeline gains vertices.  Two messages exceed Most.
CONSTANTS
  Vertices <- MCVertices
  Prefix <- MCPrefix
  Links <- MCLinks
  Parts <- MCParts
  Reports <- MCReports
  Most = 1
  None = None
  Ttl = 1
  MaxTime = 2
SPECIFICATION FairStatusSpec
INVARIANTS TypesOK MetricsAreHonest BuffersInPlace NumbersAreHonest
PROPERTY ViewComes
CHECK_DEADLOCK FALSE
