CONSTANTS
  MAX_THREADS = 3
  Boot <- BootPriorities
  Priorities = {}
  Lock = {boardSem}
  Signal = {inviteSem}
  Wrap = 4
  Durations = {1}
  MaxIds = 3
  MaxDepth = 1
  Calls = {"acquire", "release", "sleep", "section"}
  NULL = NULL
SPECIFICATION FairSpec
PROPERTY UnblockedRuns
