\* One command of every kind over pipelines called p in one, two or no
\* namespace and a MonoVertex of the same name, sound or odd.  Two writes of
\* others can fall between any two calls: enough to change or delete what a
\* command has read, or to make its name ambiguous and unique again.
CONSTANTS
  None = None
  Invalid = Invalid
  Shape <- MCShape
  CommandLines <- MCCommandLines
  Objects <- MCObjects
  Pipelines0 <- MCPipelines0
  MonoVertices0 <- MCMonoVertices0
  IsbServices <- MCIsbServices
  Pods <- MCPods
  ObjectName <- MCObjectName
  DefaultNs = "n1"
  MaxCommands = 1
  MaxOthers = 2
SPECIFICATION Spec
INVARIANTS CommandsTypeOK AnswersAreHonest
PROPERTIES ChangesOnlyItsTarget AppliesKeepWhatIsFixed AbsentStays
CHECK_DEADLOCK FALSE
