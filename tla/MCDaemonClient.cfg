\* Two questions at once; pods that are rescheduled or hang.
CONSTANTS
  Pods = {p1, p2}
  Callers = {c1, c2}
  NoPod = NoPod
  Retries = 1
  MaxChanges = 3
  MaxTimeouts = 1
SPECIFICATION FairClientSpec
INVARIANT QuestionsOK
PROPERTIES FindsRescheduled QuestionsEnd
CHECK_DEADLOCK FALSE
