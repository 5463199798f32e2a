CONSTANTS
  Cell <- CorridorCell
  Moves <- CorridorMoves
  Openings <- CorridorOpenings
  MaxMoves = 2
  LocalGames = {TRUE, FALSE}
  MaxFlags = 1
  MaxMissed = 1
  NONE = NONE
SPECIFICATION Spec
INVARIANTS FlagsAreReal HandsAreReal TurnsAgree
PROPERTIES FollowedThrough
