SPECIFICATION FairRemoteSpec
CONSTANTS
  User = {a, b}
  Code = {c1, c2}
  CPU = CPU
  LOCAL_PLAY = LOCAL_PLAY
  NONE = NONE
  EMPTY = EMPTY
  MaxMoves = 3
  MaxFaults = 1
INVARIANTS BoardsOK InStep VerdictsRight
PROPERTIES OpponentArrives NewsArrives MatchPlayed
CHECK_DEADLOCK FALSE
