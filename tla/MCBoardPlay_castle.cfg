CONSTANTS
  Cell <- CastleCell
  Moves <- CastleMoves
  Openings <- CastleOpenings
  MaxMoves = 1
  LocalGames = {FALSE}
  MaxFlags = 2
  MaxMissed = 0
  NONE = NONE
SPECIFICATION Spec
INVARIANTS TypeOK SubmittableIsMade NothingInHandWaiting
PROPERTIES FollowedThrough
