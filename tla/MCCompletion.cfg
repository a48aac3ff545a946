\* Two shells press Tab twice in all: one may find the file the other is just
\* emptying or has left torn.  Time passes as far as a cached name needs to
\* grow old, and the wall clock may be set back by one.
CONSTANTS
  None = None
  Torn = Torn
  Shells = {s1, s2}
  CommandLines <- MCCommandLines
  Fixtures <- MCFixtures
  Worlds <- MCWorlds
  World0 <- MCWorld0
  Descriptors = {"stderr"}
  Ttl = 1
  LiveTimeout = 1
  MaxTime = 3
  MaxSetBack = 1
  MaxTabs = 2
  MaxChanges = 1
SPECIFICATION Spec
INVARIANTS CompletionTypeOK NamesAreHonest TerminalIsKept
PROPERTIES TabsAnswer
CHECK_DEADLOCK FALSE
