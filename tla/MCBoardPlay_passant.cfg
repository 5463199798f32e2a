CONSTANTS
  Cell <- PassantCell
  Moves <- PassantMoves
  Openings <- PassantOpenings
  MaxMoves = 2
  LocalGames = {FALSE}
  MaxFlags = 2
  MaxMissed = 0
  NONE = NONE
SPECIFICATION Spec
INVARIANTS SubmittableIsMade NothingInHandWaiting
