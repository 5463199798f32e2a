SPECIFICATION MCSpec
CONSTANTS
  User = {a,b,c}
  Code = {c1, c2}
  CPU = CPU
  LOCAL_PLAY = LOCAL_PLAY
  NONE = NONE
  EMPTY = EMPTY
  MaxRequests = 4
INVARIANT TypeOK TurnMatchesCount WinnerHasMoved InviteNamesOwnGame
SYMMETRY Symmetry
CHECK_DEADLOCK FALSE
