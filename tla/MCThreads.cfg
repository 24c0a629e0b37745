SPECIFICATION ThreadsSpec
CHECK_DEADLOCK FALSE
CONSTANTS
  Workers = {w1, w2}
  Base = {w1}
  MaxLimit = 2
  AddStep = 1
  Tasks = {t1}
  Events = {e1}
  MaxRemovals = 1
  NoWorker = NoWorker
  Watchable = {c1, l1}
  Listeners = {l1}
  Visitors = {v1}
  MaxSet = 1
  MaxCalls = 2
INVARIANTS
  ExitIsClean
  EventsSafe
  PolledIsReferenced
  HandlerOwns
PROPERTIES
  TasksSettle
  ForeachIsAnswered
