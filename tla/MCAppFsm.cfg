SPECIFICATION FairSpec
INVARIANTS TypeOK NothingPilesUp OneRequestAtATime OpponentHasJoined QuestionNamesInvite LocalFlagTrue
PROPERTIES WaitEnds NoGameListens
