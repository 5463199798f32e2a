CONSTANTS
  Cell <- PromotionCell
  Moves <- PromotionMoves
  Openings <- PromotionOpenings
  MaxMoves = 2
  LocalGames = {FALSE}
  MaxFlags = 2
  MaxMissed = 0
  NONE = NONE
SPECIFICATION Spec
INVARIANT SubmittableIsMade
