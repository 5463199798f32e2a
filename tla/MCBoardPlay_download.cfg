CONSTANTS
  Cell <- CorridorCell
  Moves <- CorridorMoves
  Openings <- CorridorOpenings
  MaxMoves = 1
  LocalGames = {FALSE}
  MaxFlags = 1
  MaxMissed = 0
  NONE = NONE
SPECIFICATION FairSpec
PROPERTIES DownloadEnds
