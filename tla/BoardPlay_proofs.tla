-------------------------- MODULE BoardPlay_proofs --------------------------
(***************************************************************************)
(* The types of the variables, and that the flagged squares say something  *)
(* real, for any squares, moves, bounds and players.  First what each      *)
(* handler of the board does to its members, then one lemma per step.      *)
(***************************************************************************)
EXTENDS BoardPlay, TLAPS

\* The three groups of members that are reset together leave the flags alone.
LEMMA ResetTypes ==
  ASSUME NEW b \in BoardRecord
  PROVE  /\ EmptyHanded(b) \in BoardRecord /\ NoSpecialMove(b) \in BoardRecord
         /\ NoPromotion(b) \in BoardRecord
         /\ EmptyHanded(b).invalidLifts = b.invalidLifts
         /\ EmptyHanded(b).invalidPlacements = b.invalidPlacements
         /\ NoSpecialMove(b).invalidLifts = b.invalidLifts
         /\ NoSpecialMove(b).invalidPlacements = b.invalidPlacements
         /\ NoPromotion(b).invalidLifts = b.invalidLifts
         /\ NoPromotion(b).invalidPlacements = b.invalidPlacements
  <1>1. EmptyHanded(b) \in BoardRecord BY DEF EmptyHanded, BoardRecord
  <1>2. NoSpecialMove(b) \in BoardRecord BY DEF NoSpecialMove, BoardRecord
  <1>3. NoPromotion(b) \in BoardRecord BY DEF NoPromotion, BoardRecord
  <1> QED BY <1>1, <1>2, <1>3 DEF EmptyHanded, NoSpecialMove, NoPromotion, BoardRecord

\* So does the end of a remote move.
LEMMA CompleteTypes ==
  ASSUME NEW b \in BoardRecord
  PROVE  /\ CompleteRemoteMoveFollowthrough(b) \in BoardRecord
         /\ CompleteRemoteMoveFollowthrough(b).invalidLifts = b.invalidLifts
         /\ CompleteRemoteMoveFollowthrough(b).invalidPlacements = b.invalidPlacements
  <1> DEFINE d == NoPromotion(NoSpecialMove(EmptyHanded(b)))
  <1>1. /\ d \in BoardRecord
        /\ d.invalidLifts = b.invalidLifts /\ d.invalidPlacements = b.invalidPlacements
    BY ResetTypes
  <1>2. CompleteRemoteMoveFollowthrough(b) =
          [d EXCEPT !.fsm = IF b.inCheckmate THEN "LOST_GAME" ELSE "AWAITING_LOCAL_MOVE"]
    BY DEF CompleteRemoteMoveFollowthrough
  <1> HIDE DEF d
  <1> QED BY <1>1, <1>2 DEF BoardRecord, BoardState

\* What a lift or a placement that clears no flag may do to the flags: raise the
\* one of the square concerned.
Changes(c, place) ==
  /\ board' \in BoardRecord
  /\ IF place
       THEN /\ board'.invalidLifts = board.invalidLifts
            /\ board'.invalidPlacements \in
                 {board.invalidPlacements, board.invalidPlacements \cup {c}}
       ELSE /\ board'.invalidPlacements = board.invalidPlacements
            /\ board'.invalidLifts \in
                 {board.invalidLifts, board.invalidLifts \cup {c}}

\* LiftPiece and PlacePiece, branch by branch.
LEMMA LiftPieceTypes ==
  ASSUME board \in BoardRecord, NEW c \in Cell, c \notin board.invalidPlacements,
         \/ CanMakeLocalMove /\ LiftOnLocalMove(c)
         \/ CanFollowthroughRemoteMove /\ LiftInFollowthrough(c)
         \/ FlagLift(c)
  PROVE  Changes(c, FALSE)
  <1>1. ASSUME FlagLift(c) PROVE Changes(c, FALSE)
    BY <1>1 DEF FlagLift, Changes, BoardRecord
  <1>2. ASSUME LiftWhileCastling(c) PROVE Changes(c, FALSE)
    <2>1. ASSUME board' = [board EXCEPT !.liftedCastle = TRUE] PROVE Changes(c, FALSE)
      BY <2>1 DEF Changes, BoardRecord
    <2>2. ASSUME board' = [board EXCEPT !.placedCastle = FALSE] PROVE Changes(c, FALSE)
      BY <2>2 DEF Changes, BoardRecord
    <2> QED BY <1>1, <1>2, <2>1, <2>2 DEF LiftWhileCastling
  <1>3. ASSUME LiftToPromote(c) PROVE Changes(c, FALSE)
    BY <1>1, <1>3 DEF LiftToPromote, Changes, BoardRecord
  <1>4. ASSUME LiftToMove(c) PROVE Changes(c, FALSE)
    BY <1>1, <1>4 DEF LiftToMove, Changes, BoardRecord
  <1>5. ASSUME LiftToAttack(c) PROVE Changes(c, FALSE)
    BY <1>1, <1>5 DEF LiftToAttack, Changes, BoardRecord
  <1>6. ASSUME LiftPlaced PROVE Changes(c, FALSE)
    BY <1>6 DEF LiftPlaced, Changes, BoardRecord
  <1>7. ASSUME LiftOnLocalMove(c) PROVE Changes(c, FALSE)
    <2>1. ASSUME board' = [board EXCEPT !.liftedEnPassant = TRUE] PROVE Changes(c, FALSE)
      BY <2>1 DEF Changes, BoardRecord
    <2> QED BY <1>2, <1>3, <1>4, <1>5, <1>6, <1>7, <2>1 DEF LiftOnLocalMove
  <1>8. ASSUME LiftInFollowthrough(c) PROVE Changes(c, FALSE)
    <2>1. ASSUME \/ board' = [board EXCEPT !.liftedPiece = c]
                 \/ board' = [board EXCEPT !.attackedPiece = c]
                 \/ UNCHANGED board
          PROVE  Changes(c, FALSE)
      BY <2>1 DEF Changes, BoardRecord
    <2>2. ASSUME board' = CompleteRemoteMoveFollowthrough(board) PROVE Changes(c, FALSE)
      BY <2>2, CompleteTypes DEF Changes
    <2> QED BY <1>1, <1>2, <1>3, <1>8, <2>1, <2>2 DEF LiftInFollowthrough
  <1> QED BY <1>1, <1>7, <1>8

LEMMA PlacePieceTypes ==
  ASSUME board \in BoardRecord, NEW c \in Cell, c \notin board.invalidLifts,
         \/ CanMakeLocalMove /\ board.liftedPiece # NONE /\ PlaceOnLocalMove(c)
         \/ CanFollowthroughRemoteMove /\ PlaceInFollowthrough(c)
         \/ FlagPlacement(c)
  PROVE  Changes(c, TRUE)
  <1>1. ASSUME FlagPlacement(c) PROVE Changes(c, TRUE)
    BY <1>1 DEF FlagPlacement, Changes, BoardRecord
  <1>2. ASSUME PlaceWhileCastling(c) PROVE Changes(c, TRUE)
    <2>1. ASSUME board' = [board EXCEPT !.placedCastle = TRUE] PROVE Changes(c, TRUE)
      BY <2>1 DEF Changes, BoardRecord
    <2>2. ASSUME board' = [board EXCEPT !.liftedCastle = FALSE] PROVE Changes(c, TRUE)
      BY <2>2 DEF Changes, BoardRecord
    <2> QED BY <1>1, <1>2, <2>1, <2>2 DEF PlaceWhileCastling
  <1>3. ASSUME PlaceWhileEnPassant(c) PROVE Changes(c, TRUE)
    <2>1. ASSUME board' = [board EXCEPT !.liftedEnPassant = FALSE] PROVE Changes(c, TRUE)
      BY <2>1 DEF Changes, BoardRecord
    <2> QED BY <1>1, <1>3, <2>1 DEF PlaceWhileEnPassant
  <1>4. ASSUME PlaceToPromote(c) PROVE Changes(c, TRUE)
    <2>1. ASSUME board' = [board EXCEPT !.placedPromotion = TRUE] PROVE Changes(c, TRUE)
      BY <2>1 DEF Changes, BoardRecord
    <2> QED BY <1>1, <1>4, <2>1 DEF PlaceToPromote
  <1>5. ASSUME PutBack PROVE Changes(c, TRUE)
    BY <1>5 DEF PutBack, Changes, BoardRecord
  <1>6. ASSUME PlaceToMove(c) PROVE Changes(c, TRUE)
    <2>1. CASE PlaceLegally(c)
      <3>1. PICK m \in GetLegalMove(board.liftedPiece, c), pawn \in TargetOf(board.lastRemoteMove) :
              board' = [board EXCEPT
                !.placedPiece = c,
                !.currentRookCastleMove = m.rook,
                !.enPassantCapture = IF m.moveType = "EN_PASSANT" THEN pawn ELSE NONE,
                !.isPerformingPromotion = (m.moveType = "PROMOTION")]
        BY <2>1 DEF PlaceLegally
      <3>2. m \in Move
        BY DEF GetLegalMove, GetLegalMoves, BoardRecord
      <3>3. pawn \in Cell \cup {NONE}
        BY DEF TargetOf, BoardRecord, Move, NoPreviousMove
      <3>4. m.rook \in CastleMove \cup {NONE} BY <3>2 DEF Move
      <3> DEFINE captured == IF m.moveType = "EN_PASSANT" THEN pawn ELSE NONE
                 promotes == m.moveType = "PROMOTION"
      <3>5. captured \in Cell \cup {NONE} /\ promotes \in BOOLEAN BY <3>3
      <3>6. board' = [board EXCEPT !.placedPiece = c, !.currentRookCastleMove = m.rook,
                        !.enPassantCapture = captured, !.isPerformingPromotion = promotes]
        BY <3>1
      <3> HIDE DEF captured, promotes
      <3> QED BY <3>4, <3>5, <3>6 DEF Changes, BoardRecord
    <2> QED BY <1>1, <1>6, <2>1 DEF PlaceToMove
  <1>7. ASSUME PlaceOnLocalMove(c) PROVE Changes(c, TRUE)
    BY <1>2, <1>3, <1>4, <1>5, <1>6, <1>7 DEF PlaceOnLocalMove
  <1>8. ASSUME board' = CompleteRemoteMoveFollowthrough(board) PROVE Changes(c, TRUE)
    BY <1>8, CompleteTypes DEF Changes
  <1>9. ASSUME PlaceOnTarget(c) PROVE Changes(c, TRUE)
    <2>1. CASE board' = CompleteRemoteMoveFollowthrough(board) BY <1>8, <2>1
    <2>2. CASE board' = [board EXCEPT !.placedPiece = c,
                           !.isPerformingPromotion =
                               @ \/ board.lastRemoteMove.moveType = "PROMOTION"]
      <3> DEFINE promotes == board.isPerformingPromotion \/ board.lastRemoteMove.moveType = "PROMOTION"
      <3>1. promotes \in BOOLEAN OBVIOUS
      <3>2. board' = [board EXCEPT !.placedPiece = c, !.isPerformingPromotion = promotes]
        BY <2>2
      <3> HIDE DEF promotes
      <3> QED BY <3>1, <3>2 DEF Changes, BoardRecord
    <2> QED BY <1>9, <2>1, <2>2 DEF PlaceOnTarget
  <1>10. ASSUME PlaceAtTarget(c) PROVE Changes(c, TRUE)
    <2>1. ASSUME board' = [board EXCEPT !.attackedPiece = NONE] PROVE Changes(c, TRUE)
      BY <2>1 DEF Changes, BoardRecord
    <2> QED BY <1>1, <1>8, <1>9, <1>10, <2>1 DEF PlaceAtTarget
  <1>11. ASSUME PlaceInFollowthrough(c) PROVE Changes(c, TRUE)
    <2>1. ASSUME board' = [board EXCEPT !.liftedCastle = FALSE] \/ UNCHANGED board
          PROVE  Changes(c, TRUE)
      BY <2>1 DEF Changes, BoardRecord
    <2> QED BY <1>1, <1>5, <1>8, <1>10, <1>11, <2>1 DEF PlaceInFollowthrough
  <1> QED BY <1>1, <1>7, <1>11
-----------------------------------------------------------------------------
\* What the server answers is a game, and the moves of one.
LEMMA NewGameType ==
  \A men \in Openings, first \in Side, local \in LocalGames : NewGame(men, first, local) \in Game
  BY OpeningsAssumption, LocalGamesAssumption, MaxMovesAssumption DEF NewGame, Game, Side, Status

LEMMA LegalMovesType == ASSUME NEW g \in Game PROVE LegalMoves(g) \in SUBSET Move
  BY MovesAssumption DEF LegalMoves, Game

LEMMA AfterMoveType ==
  ASSUME NEW g \in Game, NEW m \in Move, NEW mate \in BOOLEAN, g.movecount < MaxMoves
  PROVE  AfterMove(g, m, mate) \in Game
  <1> DEFINE rooks == IF m.rook = NONE THEN [from |-> {}, to |-> {}]
                      ELSE [from |-> {m.rook.from}, to |-> {m.rook.to}]
             men == [side \in Side |->
                       IF side = g.turn
                         THEN (g.men[side] \ ({m.from} \cup rooks.from)) \cup {m.to} \cup rooks.to
                         ELSE g.men[side] \ {m.to, m.pawn}]
             status == IF ~mate THEN "ongoing" ELSE IF g.turn = "local" THEN "won" ELSE "lost"
  <1>1. AfterMove(g, m, mate) =
          [men |-> men, turn |-> Other(g.turn), lastmove |-> m,
           movecount |-> g.movecount + 1, status |-> status, local |-> g.local]
    BY DEF AfterMove
  <1>2. rooks.to \subseteq Cell BY DEF Move, CastleMove
  <1>3. men \in [Side -> SUBSET Cell]
    <2>1. m.to \in Cell BY DEF Move
    <2>2. g.men \in [Side -> SUBSET Cell] BY DEF Game
    <2> HIDE DEF rooks
    <2> QED BY <1>2, <2>1, <2>2
  <1>4. g.movecount + 1 \in 0..MaxMoves BY MaxMovesAssumption DEF Game
  <1>5. Other(g.turn) \in Side /\ status \in Status BY DEF Other, Side, Status
  <1> HIDE DEF men, status
  <1> QED BY <1>1, <1>3, <1>4, <1>5 DEF Game

\* What a download leaves of the board, whatever the answer.
LEMMA ResetType ==
  ASSUME board \in BoardRecord
  PROVE  /\ ResetByDownload \in BoardRecord
         /\ ResetByDownload.invalidLifts = {} /\ ResetByDownload.invalidPlacements = {}
  <1> DEFINE d == NoSpecialMove(EmptyHanded(board))
  <1>1. d \in BoardRecord BY ResetTypes
  <1>2. ResetByDownload = [d EXCEPT !.invalidLifts = {}, !.invalidPlacements = {},
            !.lastRemoteMove = NONE, !.lastLocalMove = NONE, !.inCheckmate = FALSE]
    BY DEF ResetByDownload
  <1> HIDE DEF d
  <1> QED BY <1>1, <1>2 DEF BoardRecord

LEMMA BeginType ==
  ASSUME NEW b \in BoardRecord, NEW m \in Move \cup {NoPreviousMove}, NEW pawn \in Cell \cup {NONE}
  PROVE  /\ BeginFollowthrough(b, m, pawn) \in BoardRecord
         /\ BeginFollowthrough(b, m, pawn).invalidLifts = b.invalidLifts
         /\ BeginFollowthrough(b, m, pawn).invalidPlacements = b.invalidPlacements
  <1> DEFINE captured == IF m.moveType = "EN_PASSANT" THEN pawn ELSE NONE
             promotion == IF m.moveType = "PROMOTION" THEN "QUEEN" ELSE b.promotionType
  <1>1. captured \in Cell \cup {NONE} OBVIOUS
  <1>2. promotion \in {"NONE", "QUEEN"} BY DEF BoardRecord
  <1>5. "AWAITING_REMOTE_MOVE_FOLLOWTHROUGH" \in BoardState BY DEF BoardState
  <1>3. m.rook \in CastleMove \cup {NONE} BY DEF Move, NoPreviousMove
  <1>4. BeginFollowthrough(b, m, pawn) =
          [b EXCEPT !.fsm = "AWAITING_REMOTE_MOVE_FOLLOWTHROUGH",
                    !.currentRookCastleMove = m.rook, !.enPassantCapture = captured,
                    !.promotionType = promotion]
    BY DEF BeginFollowthrough
  <1> DEFINE rook == m.rook
  <1> HIDE DEF captured, promotion, rook
  <1>6. rook \in CastleMove \cup {NONE} BY <1>3 DEF rook
  <1>7. BeginFollowthrough(b, m, pawn) =
          [b EXCEPT !.fsm = "AWAITING_REMOTE_MOVE_FOLLOWTHROUGH",
                    !.currentRookCastleMove = rook, !.enPassantCapture = captured,
                    !.promotionType = promotion]
    BY <1>4 DEF rook
  <1> DEFINE b1 == [b EXCEPT !.fsm = "AWAITING_REMOTE_MOVE_FOLLOWTHROUGH",
                             !.currentRookCastleMove = rook]
  <1>8. /\ b1 \in BoardRecord
        /\ b1.invalidLifts = b.invalidLifts /\ b1.invalidPlacements = b.invalidPlacements
    BY <1>5, <1>6 DEF BoardRecord
  <1>9. BeginFollowthrough(b, m, pawn) =
          [b1 EXCEPT !.enPassantCapture = captured, !.promotionType = promotion]
    BY <1>7 DEF BoardRecord
  <1> HIDE DEF b1
  <1> QED BY <1>1, <1>2, <1>8, <1>9 DEF BoardRecord

LEMMA DownloadTypes ==
  ASSUME board \in BoardRecord, game \in Game, NEW d \in {Downloaded, DownloadedLost, DownloadedWon, ResetByDownload}
  PROVE  d \in BoardRecord /\ d.invalidLifts = {} /\ d.invalidPlacements = {}
  <1> DEFINE b == ResetByDownload
             last == game.lastmove
  <1>1. b \in BoardRecord /\ b.invalidLifts = {} /\ b.invalidPlacements = {} BY ResetType
  <1>2. last \in Move \cup {NONE} BY DEF Game
  <1>3. /\ Downloaded \in BoardRecord
        /\ Downloaded.invalidLifts = {} /\ Downloaded.invalidPlacements = {}
    <2>1. CASE Downloaded = [b EXCEPT !.lastLocalMove = last, !.fsm = "AWAITING_REMOTE_MOVE_NOTICE"]
      <3> HIDE DEF b, last
      <3> QED BY <1>1, <1>2, <2>1 DEF BoardRecord, BoardState
    <2>2. CASE Downloaded = [b EXCEPT !.fsm = "AWAITING_LOCAL_MOVE"]
      <3> HIDE DEF b
      <3> QED BY <1>1, <2>2 DEF BoardRecord, BoardState
    <2>3. CASE Downloaded = [b EXCEPT !.lastRemoteMove = last, !.fsm = "AWAITING_LOCAL_MOVE"]
      <3> HIDE DEF b, last
      <3> QED BY <1>1, <1>2, <2>3 DEF BoardRecord, BoardState
    <2>4. CASE last # NONE /\ Downloaded = [BeginFollowthrough(b, last, last.pawn) EXCEPT !.lastRemoteMove = last]
      <3> DEFINE f == BeginFollowthrough(b, last, last.pawn)
      <3>1. last \in Move /\ last.pawn \in Cell \cup {NONE} BY <1>2, <2>4 DEF Move
      <3>2. f \in BoardRecord /\ f.invalidLifts = {} /\ f.invalidPlacements = {}
        BY <1>1, <3>1, BeginType
      <3>3. Downloaded = [f EXCEPT !.lastRemoteMove = last] BY <2>4
      <3> HIDE DEF f, last
      <3> QED BY <1>2, <3>2, <3>3 DEF BoardRecord
    <2> QED BY <2>1, <2>2, <2>3, <2>4 DEF Downloaded
  <1>4. /\ DownloadedLost \in BoardRecord
        /\ DownloadedLost.invalidLifts = {} /\ DownloadedLost.invalidPlacements = {}
    <2>1. PICK fsm \in BoardState :
            \/ DownloadedLost = [Downloaded EXCEPT !.fsm = fsm]
            \/ DownloadedLost = [Downloaded EXCEPT !.inCheckmate = TRUE, !.fsm = fsm]
      <3> DEFINE fsm == IF LocalPlay THEN "LOCAL_BLACK_WIN"
                        ELSE IF Downloaded.fsm = "AWAITING_LOCAL_MOVE" THEN "LOST_GAME"
                        ELSE Downloaded.fsm
      <3>1. fsm \in BoardState BY <1>3 DEF BoardRecord, BoardState
      <3> QED BY <3>1 DEF DownloadedLost
    <2>2. CASE DownloadedLost = [Downloaded EXCEPT !.fsm = fsm]
      BY <1>3, <2>2 DEF BoardRecord
    <2>3. CASE DownloadedLost = [Downloaded EXCEPT !.inCheckmate = TRUE, !.fsm = fsm]
      BY <1>3, <2>3 DEF BoardRecord
    <2> QED BY <2>1, <2>2, <2>3
  <1>5. /\ DownloadedWon \in BoardRecord
        /\ DownloadedWon.invalidLifts = {} /\ DownloadedWon.invalidPlacements = {}
    BY <1>1 DEF DownloadedWon, BoardRecord, BoardState
  <1> QED BY <1>1, <1>3, <1>4, <1>5
-----------------------------------------------------------------------------
\* What every operation of the control thread but a download keeps.
KeepsFlags ==
  /\ board' \in BoardRecord
  /\ board'.invalidLifts = board.invalidLifts
  /\ board'.invalidPlacements = board.invalidPlacements

\* The operations of the control thread.
LEMMA LocalMoveType ==
  ASSUME board \in BoardRecord, IsPotentialLocalMoveValid
  PROVE  LocalMove \in Move
  <1> DEFINE type == IF board.isPerformingPromotion THEN "PROMOTION" ELSE "NORMAL"
  <1>1. board.liftedPiece \in Cell /\ board.placedPiece \in Cell
    BY DEF IsPotentialLocalMoveValid, HandsFull, BoardRecord
  <1>2. type \in MoveType BY DEF MoveType
  <1> HIDE DEF type
  <1>3. LocalMove = [from |-> board.liftedPiece, to |-> board.placedPiece,
                     isAttackingMove |-> FALSE, moveType |-> type, rook |-> NONE, pawn |-> NONE]
    BY DEF LocalMove, type
  <1> QED BY <1>1, <1>2, <1>3 DEF Move

LEMMA SubmitKeepsFlags ==
  ASSUME board \in BoardRecord, NEW isLocalGame, SubmitCurrentLocalMove(isLocalGame)
  PROVE  KeepsFlags
  <1> DEFINE d == NoPromotion(NoSpecialMove(EmptyHanded(board)))
             ours == IF isLocalGame THEN NONE ELSE LocalMove
             theirs == IF isLocalGame THEN LocalMove ELSE NONE
             fsm == IF isLocalGame THEN d.fsm ELSE "AWAITING_REMOTE_MOVE_NOTICE"
  <1>1. /\ d \in BoardRecord
        /\ d.invalidLifts = board.invalidLifts /\ d.invalidPlacements = board.invalidPlacements
    BY ResetTypes
  <1>2. LocalMove \in Move BY LocalMoveType DEF SubmitCurrentLocalMove
  <1>3. ours \in Move \cup {NONE} /\ theirs \in Move \cup {NONE} BY <1>2
  <1>4. fsm \in BoardState BY <1>1 DEF BoardRecord, BoardState
  <1>5. board' = [d EXCEPT !.lastLocalMove = ours, !.lastRemoteMove = theirs, !.fsm = fsm]
    BY DEF SubmitCurrentLocalMove
  <1> HIDE DEF d, ours, theirs, fsm
  <1> QED BY <1>1, <1>3, <1>4, <1>5 DEF BoardRecord, KeepsFlags

LEMMA ReceiveKeepsFlags ==
  ASSUME board \in BoardRecord, NEW m \in Move \cup {NoPreviousMove}, ReceiveRemoteMove(m)
  PROVE  KeepsFlags
  <1>1. PICK pawn \in TargetOf(board.lastLocalMove) :
          board' = [BeginFollowthrough(NoPromotion(NoSpecialMove(board)), m, pawn) EXCEPT
                      !.lastRemoteMove = m, !.lastLocalMove = NONE]
    BY DEF ReceiveRemoteMove
  <1> DEFINE b == NoPromotion(NoSpecialMove(board))
             f == BeginFollowthrough(b, m, pawn)
  <1>2. /\ b \in BoardRecord
        /\ b.invalidLifts = board.invalidLifts /\ b.invalidPlacements = board.invalidPlacements
    BY ResetTypes
  <1>3. pawn \in Cell \cup {NONE} BY DEF TargetOf, BoardRecord, Move
  <1>4. /\ f \in BoardRecord
        /\ f.invalidLifts = board.invalidLifts /\ f.invalidPlacements = board.invalidPlacements
    <2> HIDE DEF b
    <2> QED BY <1>2, <1>3, BeginType DEF f
  <1>5. board' = [f EXCEPT !.lastRemoteMove = m, !.lastLocalMove = NONE] BY <1>1
  <1> HIDE DEF b, f
  <1> QED BY <1>4, <1>5 DEF BoardRecord, KeepsFlags

LEMMA OthersKeepFlags ==
  ASSUME board \in BoardRecord,
         \/ SetPromotionType \/ SetUpcomingCheckmate \/ WinGame \/ LoseGame \/ GoToIdle
         \/ WinLocal(localPlayerTurn)
         \/ legalReply' \in SUBSET Move /\ UpdateLegalMoves(legalReply')
         \/ UNCHANGED board
  PROVE  KeepsFlags
  <1>1. CASE SetPromotionType BY <1>1 DEF SetPromotionType, BoardRecord, KeepsFlags
  <1>2. CASE SetUpcomingCheckmate BY <1>2 DEF SetUpcomingCheckmate, BoardRecord, KeepsFlags
  <1>3. ASSUME NEW fsm \in BoardState, board' = [board EXCEPT !.fsm = fsm] PROVE KeepsFlags
    BY <1>3 DEF BoardRecord, KeepsFlags
  <1>4. CASE WinGame \/ LoseGame \/ GoToIdle
    BY <1>3, <1>4 DEF WinGame, LoseGame, GoToIdle, BoardState
  <1>5. CASE WinLocal(localPlayerTurn)
    <2> DEFINE fsm == IF localPlayerTurn = "local" THEN "LOCAL_WHITE_WIN" ELSE "LOCAL_BLACK_WIN"
    <2>1. fsm \in BoardState BY DEF BoardState
    <2>2. board' = [board EXCEPT !.fsm = fsm] BY <1>5 DEF WinLocal
    <2> HIDE DEF fsm
    <2> QED BY <1>3, <2>1, <2>2
  <1>6. CASE legalReply' \in SUBSET Move /\ UpdateLegalMoves(legalReply')
    BY <1>6 DEF UpdateLegalMoves, BoardRecord, KeepsFlags
  <1>7. CASE UNCHANGED board BY <1>7 DEF KeepsFlags
  <1> QED BY <1>1, <1>2, <1>4, <1>5, <1>6, <1>7
-----------------------------------------------------------------------------
\* The inductive invariant: past the menus the server has a game for the board.
GameKnown == pc # "nogame" => game \in Game
IInv == TypeOK /\ GameKnown /\ FlagsAreReal

LEMMA InitIInv == Init => IInv
  <1> SUFFICES ASSUME Init PROVE IInv OBVIOUS
  <1>0. sensed \in SUBSET Cell
    <2>1. PICK men \in Openings : sensed = men["local"] \cup men["remote"] BY DEF Init
    <2>2. men \in [Side -> SUBSET Cell] BY OpeningsAssumption
    <2> QED BY <2>1, <2>2 DEF Side
  <1>1. SwitchedOn \in BoardRecord
    BY DEF SwitchedOn, BoardRecord, BoardState
  <1>2. SwitchedOn.invalidLifts = {} /\ SwitchedOn.invalidPlacements = {}
    BY DEF SwitchedOn
  <1>3. TypeOK BY <1>0, <1>1, MaxMovesAssumption DEF Init, TypeOK, Positions, Side
  <1>4. FlagsAreReal BY <1>2 DEF Init, FlagsAreReal
  <1> QED BY <1>3, <1>4 DEF IInv, Init, GameKnown

\* A step that leaves the sensors and the flags as they are.
LEMMA SameFlags ==
  ASSUME FlagsAreReal, KeepsFlags, UNCHANGED playVars
  PROVE  FlagsAreReal'
  BY DEF FlagsAreReal, KeepsFlags, playVars, Unsettled

\* A change that has been detected is unsettled until it has been reported.
LEMMA DetectIInv == ASSUME IInv, NEW c \in Cell, Detect(c) PROVE IInv'
  <1>1. TypeOK'
    <2>1. event' \in Change BY DEF Detect, Change
    <2>2. sensed' \subseteq Cell BY DEF IInv, TypeOK, Detect, Toggled
    <2> QED BY <2>1, <2>2 DEF IInv, TypeOK, Detect, controlVars
  <1>2. FlagsAreReal'
    <2>1. event' # NONE /\ event'.cell = c
      <3>1. event' \in Change /\ event'.cell = c BY DEF Detect, Change
      <3> QED BY <3>1, NoneIsNoChange
    <2>2. Unsettled = overtaken /\ Unsettled' = overtaken \cup {c}
      BY <2>1 DEF Detect, Unsettled
    <2> QED BY <2>2 DEF IInv, FlagsAreReal, Detect, Toggled
  <1> QED BY <1>1, <1>2 DEF IInv, GameKnown, Detect, controlVars

\* A lift clears the flag of the square or raises the other one, and so does a
\* placement.
LEMMA LiftIInv ==
  ASSUME board \in BoardRecord, NEW c \in Cell, LiftPiece(c)
  PROVE  \/ /\ board' \in BoardRecord /\ c \in board.invalidPlacements
            /\ board'.invalidPlacements = board.invalidPlacements \ {c}
            /\ board'.invalidLifts = board.invalidLifts
         \/ c \notin board.invalidPlacements /\ Changes(c, FALSE)
  <1>1. CASE c \in board.invalidPlacements
             /\ board' = [board EXCEPT !.invalidPlacements = @ \ {c}]
    BY <1>1 DEF BoardRecord
  <1>2. CASE c \notin board.invalidPlacements
             /\ \/ CanMakeLocalMove /\ LiftOnLocalMove(c)
                \/ CanFollowthroughRemoteMove /\ LiftInFollowthrough(c)
                \/ FlagLift(c)
    BY <1>2, LiftPieceTypes
  <1> QED BY <1>1, <1>2 DEF LiftPiece

LEMMA PlaceIInv ==
  ASSUME board \in BoardRecord, NEW c \in Cell, PlacePiece(c)
  PROVE  \/ /\ board' \in BoardRecord /\ c \in board.invalidLifts
            /\ board'.invalidLifts = board.invalidLifts \ {c}
            /\ board'.invalidPlacements = board.invalidPlacements
         \/ c \notin board.invalidLifts /\ Changes(c, TRUE)
  <1>1. CASE c \in board.invalidLifts
             /\ board' = [board EXCEPT !.invalidLifts = @ \ {c}]
    BY <1>1 DEF BoardRecord
  <1>2. CASE c \notin board.invalidLifts
             /\ \/ CanMakeLocalMove /\ board.liftedPiece # NONE /\ PlaceOnLocalMove(c)
                \/ CanFollowthroughRemoteMove /\ PlaceInFollowthrough(c)
                \/ FlagPlacement(c)
    BY <1>2, PlacePieceTypes
  <1> QED BY <1>1, <1>2 DEF PlacePiece

LEMMA PropagateIInv == ASSUME IInv, Propagate PROVE IInv'
  <1> DEFINE c == event.cell
  <1>1. event \in Change /\ c \in Cell /\ event.placed \in BOOLEAN /\ board \in BoardRecord
    BY DEF IInv, TypeOK, Propagate, Change
  <1>2. /\ IF event.placed THEN PlacePiece(c) ELSE LiftPiece(c)
        /\ event' = NONE /\ sensed' = sensed
        /\ overtaken' = IF event.placed = (c \in sensed) THEN overtaken ELSE overtaken \cup {c}
    BY DEF Propagate
  <1>3. Unsettled = overtaken \cup {c} /\ Unsettled' = overtaken'
    BY <1>2 DEF Propagate, Unsettled
  <1>4. /\ board.invalidLifts \cap sensed \subseteq overtaken \cup {c}
        /\ board.invalidPlacements \ sensed \subseteq overtaken \cup {c}
    BY <1>3 DEF IInv, FlagsAreReal
  <1>5. board' \in BoardRecord /\ FlagsAreReal'
    <2>1. CASE event.placed
      <3>1. \/ /\ board' \in BoardRecord
               /\ board'.invalidLifts = board.invalidLifts \ {c}
               /\ board'.invalidPlacements = board.invalidPlacements
            \/ c \notin board.invalidLifts /\ Changes(c, TRUE)
        BY <1>1, <1>2, <2>1, PlaceIInv
      <3>2. /\ board' \in BoardRecord
            /\ board'.invalidLifts \subseteq board.invalidLifts \ {c}
            /\ board'.invalidPlacements \subseteq board.invalidPlacements \cup {c}
        BY <3>1 DEF Changes
      <3>3. c \in sensed \/ c \in overtaken' BY <1>2, <2>1
      <3>4. overtaken \subseteq overtaken' BY <1>2
      <3> HIDE DEF c
      <3> QED BY <1>2, <1>3, <1>4, <3>2, <3>3, <3>4 DEF FlagsAreReal
    <2>2. CASE ~event.placed
      <3>1. \/ /\ board' \in BoardRecord
               /\ board'.invalidPlacements = board.invalidPlacements \ {c}
               /\ board'.invalidLifts = board.invalidLifts
            \/ c \notin board.invalidPlacements /\ Changes(c, FALSE)
        BY <1>1, <1>2, <2>2, LiftIInv
      <3>2. /\ board' \in BoardRecord
            /\ board'.invalidLifts \subseteq board.invalidLifts \cup {c}
            /\ board'.invalidPlacements \subseteq board.invalidPlacements \ {c}
        BY <3>1 DEF Changes
      <3>3. c \notin sensed \/ c \in overtaken' BY <1>1, <1>2, <2>2
      <3>4. overtaken \subseteq overtaken' BY <1>2
      <3> HIDE DEF c
      <3> QED BY <1>2, <1>3, <1>4, <3>2, <3>3, <3>4 DEF FlagsAreReal
    <2> QED BY <1>1, <2>1, <2>2
  <1>6. TypeOK'
    <2>1. overtaken' \subseteq Cell BY <1>1, <1>2 DEF IInv, TypeOK
    <2> QED BY <1>2, <1>5, <2>1 DEF IInv, TypeOK, Propagate, controlVars
  <1> QED BY <1>5, <1>6 DEF IInv, GameKnown, Propagate, controlVars

\* The end of a download leaves no flag, and measures the squares again.
LEMMA FinishIInv ==
  ASSUME IInv, NEW b \in BoardRecord, b.invalidLifts = {}, b.invalidPlacements = {},
         NEW turns \in SUBSET Side, game \in Game, FinishDownload(b, turns)
  PROVE  IInv'
  <1>1. PICK changed \in SUBSET Cell : sensed' = (sensed \ changed) \cup (changed \ sensed)
    BY DEF FinishDownload, MeasureInitialMagnetValues
  <1>2. sensed' \subseteq Cell BY <1>1 DEF IInv, TypeOK
  <1>3. localPlayerTurn' \in Side BY DEF FinishDownload, IInv, TypeOK
  <1>4. pc' \in Positions BY DEF FinishDownload, Positions
  <1>5. TypeOK'
    BY <1>2, <1>3, <1>4, MaxMovesAssumption DEF FinishDownload, IInv, TypeOK
  <1>6. FlagsAreReal' BY DEF FinishDownload, FlagsAreReal
  <1> QED BY <1>5, <1>6 DEF IInv, GameKnown, FinishDownload

LEMMA DownloadIInv ==
  ASSUME IInv, UpdateFromServer \/ UpdateFails \/ UpdateAfterSensors
  PROVE  IInv'
  <1>1. game \in Game /\ board \in BoardRecord
    BY DEF IInv, TypeOK, GameKnown, UpdateFromServer, UpdateFails, UpdateAfterSensors
  <1>3. ASSUME NEW d \in {Downloaded, DownloadedLost, DownloadedWon, ResetByDownload},
               NEW turns \in SUBSET Side, FinishDownload(d, turns)
        PROVE  IInv'
    BY <1>1, <1>3, DownloadTypes, FinishIInv
  <1>4. ASSUME FinishWithTurn PROVE IInv'
    <2>1. {game.turn} \in SUBSET Side BY <1>1 DEF Game
    <2> QED BY <1>3, <1>4, <2>1 DEF FinishWithTurn
  <1>5. CASE /\ pc' = "reading"
             /\ UNCHANGED <<board, playVars, game, localPlayerTurn, sent, submitted, legalReply>>
    <2>1. KeepsFlags BY <1>1, <1>5 DEF KeepsFlags
    <2>2. FlagsAreReal' BY <1>5, <2>1, SameFlags DEF IInv
    <2>3. TypeOK' BY <1>5 DEF IInv, TypeOK, playVars, Positions
    <2> QED BY <1>1, <1>5, <2>2, <2>3 DEF IInv, GameKnown
  <1> QED BY <1>3, <1>4, <1>5 DEF UpdateFromServer, UpdateFails, UpdateAfterSensors
-----------------------------------------------------------------------------
\* The other steps leave the sensors and the flags alone: what is left is the
\* type of the variables they change.
LEMMA OtherIInv ==
  ASSUME IInv, KeepsFlags, UNCHANGED playVars,
         pc' \in Positions, game' \in Game \cup {NONE}, localPlayerTurn' \in Side,
         sent' \in Move \cup {NONE}, submitted' \in 0..MaxMoves,
         legalReply' \in (SUBSET Move) \cup {NONE}, GameKnown'
  PROVE  IInv'
  <1>1. FlagsAreReal' BY SameFlags DEF IInv
  <1>2. TypeOK' BY DEF IInv, TypeOK, KeepsFlags, playVars
  <1> QED BY <1>1, <1>2 DEF IInv

LEMMA ControlIInv == ASSUME IInv, Control PROVE IInv'
  <1> USE DEF IInv, GameKnown
  <1>0. /\ board \in BoardRecord /\ game \in Game \cup {NONE} /\ pc \in Positions
        /\ localPlayerTurn \in Side /\ sent \in Move \cup {NONE}
        /\ submitted \in 0..MaxMoves /\ legalReply \in (SUBSET Move) \cup {NONE}
    BY DEF TypeOK
  <1>k. UNCHANGED board => KeepsFlags BY <1>0, OthersKeepFlags
  <1>1. CASE StartGame
    <2>1. game' \in Game BY <1>1, NewGameType DEF StartGame
    <2>2. pc' \in Positions BY <1>1 DEF StartGame, Positions
    <2> QED BY <1>0, <1>k, <1>1, <2>1, <2>2, OtherIInv DEF StartGame
  <1>2. CASE DownloadCurrentGame
    BY <1>0, <1>k, <1>2, OtherIInv DEF DownloadCurrentGame, Positions
  <1>3. CASE UpdateFromServer \/ UpdateFails \/ UpdateAfterSensors
    BY <1>3, DownloadIInv
  <1>4. CASE LegalMovesArrive
    <2>1. game \in Game BY <1>0, <1>4 DEF LegalMovesArrive
    <2>2. legalReply' \in SUBSET Move
      BY <1>0, <1>4, <2>1, LegalMovesType DEF LegalMovesArrive
    <2>3. KeepsFlags BY <1>0, <1>4, <2>2, OthersKeepFlags DEF LegalMovesArrive
    <2> QED BY <1>0, <1>4, <2>2, <2>3, OtherIInv DEF LegalMovesArrive, Positions
  <1>5. CASE ChoosePromotion
    <2>1. KeepsFlags BY <1>0, <1>5, OthersKeepFlags DEF ChoosePromotion
    <2> QED BY <1>0, <1>5, <2>1, OtherIInv DEF ChoosePromotion, controlVars
  <1>6. CASE SubmitMove
    <2>1. KeepsFlags BY <1>0, <1>6, SubmitKeepsFlags DEF SubmitMove
    <2>2. sent' \in Move
      BY <1>0, <1>6, LocalMoveType DEF SubmitMove, SubmitCurrentLocalMove
    <2>3. game \in Game BY <1>0, <1>6 DEF SubmitMove
    <2>4. submitted' \in 0..MaxMoves
      BY <1>6, <2>3, MaxMovesAssumption DEF SubmitMove, Game
    <2> QED BY <1>0, <1>6, <2>1, <2>2, <2>3, <2>4, OtherIInv DEF SubmitMove, Positions
  <1>7. CASE MakeMove
    <2>1. KeepsFlags BY <1>k, <1>7 DEF MakeMove
    <2>2. game \in Game BY <1>0, <1>7 DEF MakeMove
    <2>3. game' \in Game
      <3>1. ASSUME NEW m \in LegalMoves(game), NEW mate \in BOOLEAN,
                   game.movecount < MaxMoves, game' = AfterMove(game, m, mate)
            PROVE  game' \in Game
        BY <2>2, <3>1, LegalMovesType, AfterMoveType
      <3> QED BY <1>7, <2>2, <3>1 DEF MakeMove
    <2> QED BY <1>0, <1>7, <2>1, <2>3, OtherIInv DEF MakeMove, Positions
  <1>8. CASE AfterLocalMove
    <2>1. KeepsFlags BY <1>0, <1>8, OthersKeepFlags DEF AfterLocalMove
    <2> QED BY <1>0, <1>8, <2>1, OtherIInv DEF AfterLocalMove, Positions, Other, Side
  <1>9. CASE AwaitTurn
    <2>1. game \in Game BY <1>0, <1>9 DEF AwaitTurn
    <2> DEFINE m == IF game.lastmove = NONE THEN NoPreviousMove ELSE game.lastmove
    <2>2. m \in Move \cup {NoPreviousMove} BY <2>1 DEF Game
    <2>3. ReceiveRemoteMove(m) => KeepsFlags
      <3> HIDE DEF m
      <3> QED BY <1>0, <2>2, ReceiveKeepsFlags
    <2>4. KeepsFlags BY <1>0, <1>9, <2>3, OthersKeepFlags DEF AwaitTurn
    <2>5. pc' \in Positions BY <1>0, <1>9 DEF AwaitTurn, Positions
    <2> QED BY <1>0, <1>9, <2>1, <2>4, <2>5, OtherIInv DEF AwaitTurn
  <1>10. CASE NoteCheckmate
    <2>1. KeepsFlags BY <1>0, <1>10, OthersKeepFlags DEF NoteCheckmate
    <2> QED BY <1>0, <1>10, <2>1, OtherIInv DEF NoteCheckmate, Positions
  <1>11. CASE Resign
    <2>1. KeepsFlags BY <1>0, <1>11, OthersKeepFlags DEF Resign
    <2>2. game \in Game BY <1>0, <1>11 DEF Resign
    <2>3. game' \in Game BY <1>11, <2>2 DEF Resign, Game, Status
    <2> QED BY <1>0, <1>11, <2>1, <2>3, OtherIInv DEF Resign, controlVars
  <1>12. CASE Continue
    <2>1. KeepsFlags BY <1>0, <1>12, OthersKeepFlags DEF Continue
    <2> QED BY <1>0, <1>12, <2>1, OtherIInv DEF Continue, Positions
  <1> QED BY <1>1, <1>2, <1>3, <1>4, <1>5, <1>6, <1>7, <1>8, <1>9, <1>10, <1>11, <1>12
          DEF Control

LEMMA OpponentIInv == ASSUME IInv, OpponentMoves PROVE IInv'
  <1> USE DEF IInv, GameKnown
  <1>1. game \in Game /\ board \in BoardRecord BY DEF TypeOK, OpponentMoves
  <1>2. game' \in Game
    <2>1. ASSUME NEW m \in LegalMoves(game), NEW mate \in BOOLEAN,
                 game.movecount < MaxMoves, game' = AfterMove(game, m, mate)
          PROVE  game' \in Game
      BY <1>1, <2>1, LegalMovesType, AfterMoveType
    <2>2. CASE game' = [game EXCEPT !.status = "resigned"]
      BY <1>1, <2>2 DEF Game, Status
    <2> QED BY <2>1, <2>2 DEF OpponentMoves
  <1>3. KeepsFlags BY <1>1 DEF KeepsFlags, OpponentMoves
  <1> QED BY <1>2, <1>3, OtherIInv DEF TypeOK, OpponentMoves, controlVars

\* After the switch is used no square is flagged.
LEMMA PowerCycleIInv == ASSUME IInv, PowerCycle PROVE IInv'
  <1>2. /\ SwitchedOn \in BoardRecord
        /\ SwitchedOn.invalidLifts = {}
        /\ SwitchedOn.invalidPlacements = {}
    BY DEF SwitchedOn, BoardRecord, BoardState
  <1>3. board' = SwitchedOn /\ sensed' = sensed BY DEF PowerCycle
  <1>4. FlagsAreReal' BY <1>2, <1>3 DEF FlagsAreReal
  <1>5. TypeOK'
    BY <1>2, <1>3, MaxMovesAssumption DEF PowerCycle, IInv, TypeOK, Positions, Side
  <1> QED BY <1>4, <1>5 DEF PowerCycle, IInv, GameKnown, TypeOK

LEMMA StutterIInv == ASSUME IInv, UNCHANGED vars PROVE IInv'
  <1>1. TypeOK' BY DEF IInv, TypeOK, vars, playVars, controlVars
  <1>2. FlagsAreReal'
    BY DEF IInv, FlagsAreReal, Unsettled, vars, playVars, controlVars
  <1> QED BY <1>1, <1>2 DEF IInv, GameKnown, vars, playVars, controlVars

LEMMA StepIInv == IInv /\ [Next]_vars => IInv'
  BY DetectIInv, PropagateIInv, ControlIInv, OpponentIInv, PowerCycleIInv, StutterIInv
     DEF Next, Sensors

LEMMA AlwaysIInv == Spec => []IInv
  BY InitIInv, StepIInv, PTL DEF Spec
-----------------------------------------------------------------------------
(***************************************************************************)
(* Whatever the squares, the moves and the player, every variable keeps its*)
(* type: the members of class Board through every handler of lifts and     *)
(* placements, every download and every answer of the server, and a game   *)
(* is known whenever the control thread is past the menus.                 *)
(***************************************************************************)
THEOREM TypeCorrect == Spec => []TypeOK
  <1>1. IInv => TypeOK BY DEF IInv
  <1> QED BY <1>1, AlwaysIInv, PTL

(***************************************************************************)
(* Whatever the squares, the moves and the player, a square flagged for a  *)
(* piece to be put back is empty and one flagged for a piece to be taken   *)
(* away has a piece on it, but for squares whose change has not been       *)
(* reported, or was reported after a download had measured the square again*)
(* (LiftPiece, PlacePiece and UpdateFromServer of ChessBoard.cpp).         *)
(***************************************************************************)
THEOREM FlagsAlwaysReal == Spec => []FlagsAreReal
  <1>1. IInv => FlagsAreReal BY DEF IInv
  <1> QED BY <1>1, AlwaysIInv, PTL
=============================================================================
