CONSTANTS
  MAX_THREADS = 3
  Boot <- BootPriorities
  Priorities = {}
  Lock = {boardSem}
  Signal = {}
  Wrap = 256
  Durations = {}
  MaxIds = 3
  MaxDepth = 1
  Calls = {"acquire", "release"}
  NULL = NULL
SPECIFICATION Spec
INVARIANT MutualExclusion
