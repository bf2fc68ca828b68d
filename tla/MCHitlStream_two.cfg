\* Two tasks, with a session in common, one each or none; the server never stops.
SPECIFICATION Spec
CONSTANTS
  Tasks = {r1, r2}
  Sessions = {s1}
  NoSession = NoSession
  Nothing = Nothing
  Ticks = 2
  MaxQuestions = 1
  MaxQueue = 1
INVARIANTS TypeOK AsksOwnQuestion EntriesAreAsked
CHECK_DEADLOCK FALSE
PROPERTIES EndShowsLedger AwaitedAnswerIsUsed TasksEnd
