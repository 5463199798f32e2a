CONSTANTS
  MAX_THREADS = 4
  Boot <- BootPriorities
  Priorities = {10}
  Lock = {boardSem}
  Signal = {}
  Wrap = 4
  Durations = {1, 2}
  MaxIds = 5
  MaxDepth = 1
  Calls = {"acquire", "release", "yield", "sleep", "switchable", "add", "kill"}
  NULL = NULL
SPECIFICATION Spec
INVARIANTS TypeOK BlockedBeforeTaking ListsMatchFlags CurrentOffListOnlyLeaving SomeThreadRunnable
PROPERTIES YieldPicksBest TicksReachAll
