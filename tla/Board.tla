------------------------------- MODULE Board -------------------------------
(***************************************************************************)
(* The chessboard (class Board, ChessBoard.cpp): what it makes of pieces   *)
(* that are lifted off and placed on its squares.  A piece is a magnet:    *)
(* the board sees that a square is empty or taken, never which piece it is.*)
(* Every operation holds boardSem from its beginning to its end and is one *)
(* step, but for UpdateFromServer, which BoardPlay takes apart.            *)
(***************************************************************************)
EXTENDS ChessGame

VARIABLE board        \* the members of class Board

BoardState == {"AWAITING_LOCAL_MOVE", "AWAITING_REMOTE_MOVE_NOTICE",
               "AWAITING_REMOTE_MOVE_FOLLOWTHROUGH", "WON_GAME", "LOST_GAME",
               "LOCAL_WHITE_WIN", "LOCAL_BLACK_WIN", "NO_GAME"}

\* What the Move constructor makes of the server's "No previous move".
NoPreviousMove ==
  [from |-> NONE, to |-> NONE, isAttackingMove |-> FALSE, moveType |-> "NORMAL",
   rook |-> NONE, pawn |-> NONE]

BoardRecord ==
  [fsm : BoardState,
   liftedPiece : Cell \cup {NONE}, placedPiece : Cell \cup {NONE},
   attackedPiece : Cell \cup {NONE},
   currentRookCastleMove : CastleMove \cup {NONE},
   liftedCastle : BOOLEAN, placedCastle : BOOLEAN,
   enPassantCapture : Cell \cup {NONE}, liftedEnPassant : BOOLEAN,
   isPerformingPromotion : BOOLEAN, promotionType : {"NONE", "QUEEN"},
   liftedPromotion : BOOLEAN, placedPromotion : BOOLEAN,
   invalidLifts : SUBSET Cell, invalidPlacements : SUBSET Cell,
   lastRemoteMove : Move \cup {NONE, NoPreviousMove}, lastLocalMove : Move \cup {NONE},
   inCheckmate : BOOLEAN, allLegalMoves : SUBSET Move]

\* A board that has just been switched on: the MagneticSensors constructor has
\* measured the squares already, so that the pieces on them are no change.
SwitchedOn ==
  [fsm |-> "NO_GAME",
   liftedPiece |-> NONE, placedPiece |-> NONE, attackedPiece |-> NONE,
   currentRookCastleMove |-> NONE, liftedCastle |-> FALSE, placedCastle |-> FALSE,
   enPassantCapture |-> NONE, liftedEnPassant |-> FALSE,
   isPerformingPromotion |-> FALSE, promotionType |-> "NONE",
   liftedPromotion |-> FALSE, placedPromotion |-> FALSE,
   invalidLifts |-> {}, invalidPlacements |-> {},
   lastRemoteMove |-> NONE, lastLocalMove |-> NONE,
   inCheckmate |-> FALSE, allLegalMoves |-> {}]
-----------------------------------------------------------------------------
CanMakeLocalMove == board.fsm = "AWAITING_LOCAL_MOVE"
CanFollowthroughRemoteMove == board.fsm = "AWAITING_REMOTE_MOVE_FOLLOWTHROUGH"
CanReceiveRemoteMove == board.fsm = "AWAITING_REMOTE_MOVE_NOTICE"

Castling == board.currentRookCastleMove # NONE
EnPassant == board.enPassantCapture # NONE
HandsFull == board.liftedPiece # NONE /\ board.placedPiece # NONE

GetLegalMoves(from) == {m \in board.allLegalMoves : m.from = from}
GetLegalMove(from, to) == {m \in GetLegalMoves(from) : m.to = to}

\* The "to" of an optional move; an empty one holds whatever was there before.
TargetOf(m) == IF m = NONE THEN Cell ELSE {m.to}

\* What the operations that begin or end a move reset.
EmptyHanded(b) == [b EXCEPT !.liftedPiece = NONE, !.placedPiece = NONE]
\* Mutants: the members of a castle, or those of a capture in passing, are kept.
NoSpecialMoveButCastle(b) ==
  [b EXCEPT !.attackedPiece = NONE, !.currentRookCastleMove = NONE,
            !.enPassantCapture = NONE, !.liftedEnPassant = FALSE]
NoSpecialMoveButPassant(b) ==
  [b EXCEPT !.attackedPiece = NONE,
            !.currentRookCastleMove = NONE, !.liftedCastle = FALSE, !.placedCastle = FALSE,
            !.enPassantCapture = NONE]
NoSpecialMove(b) ==
  [b EXCEPT !.attackedPiece = NONE,
            !.currentRookCastleMove = NONE, !.liftedCastle = FALSE, !.placedCastle = FALSE,
            !.enPassantCapture = NONE, !.liftedEnPassant = FALSE]
NoPromotion(b) ==
  [b EXCEPT !.isPerformingPromotion = FALSE, !.promotionType = "NONE",
            !.liftedPromotion = FALSE, !.placedPromotion = FALSE]

CompleteRemoteMoveFollowthrough(b) ==
  [NoPromotion(NoSpecialMove(EmptyHanded(b))) EXCEPT
     !.fsm = IF b.inCheckmate THEN "LOST_GAME" ELSE "AWAITING_LOCAL_MOVE"]

FlagLift(c) == board' = [board EXCEPT !.invalidLifts = @ \cup {c}]
FlagPlacement(c) == board' = [board EXCEPT !.invalidPlacements = @ \cup {c}]

\* A piece goes back to the square it was taken from; the mutant takes no note.
PutBackUnnoticed == UNCHANGED board
PutBack == board' = [board EXCEPT !.liftedPiece = NONE]
-----------------------------------------------------------------------------
(***************************************************************************)
(* LiftPiece.                                                              *)
(***************************************************************************)
\* The mutant of LiftWhileCastling forgets that the rook is taken up again.
LiftWhileCastlingOnce(c) ==
  \/ c = board.currentRookCastleMove.from
     /\ board' = [board EXCEPT !.liftedCastle = TRUE]
  \/ c = board.currentRookCastleMove.to /\ UNCHANGED board
  \/ c \notin {board.currentRookCastleMove.from, board.currentRookCastleMove.to}
     /\ FlagLift(c)
LiftWhileCastling(c) ==
  \/ c = board.currentRookCastleMove.from
     /\ board' = [board EXCEPT !.liftedCastle = TRUE]
  \/ c = board.currentRookCastleMove.to
     /\ board' = [board EXCEPT !.placedCastle = FALSE]
  \/ c \notin {board.currentRookCastleMove.from, board.currentRookCastleMove.to}
     /\ FlagLift(c)

LiftToPromote(c) ==
  \/ c = board.placedPiece /\ board' = [board EXCEPT !.liftedPromotion = TRUE]
  \/ c # board.placedPiece /\ FlagLift(c)

LiftToMove(c) ==
  \/ GetLegalMoves(c) # {} /\ board' = [board EXCEPT !.liftedPiece = c]
  \/ GetLegalMoves(c) = {} /\ FlagLift(c)

LiftToAttack(c) ==
  LET attacks == {m \in GetLegalMove(board.liftedPiece, c) : m.isAttackingMove}
  IN  \/ attacks # {} /\ board' = [board EXCEPT !.attackedPiece = c]
      \/ attacks = {} /\ FlagLift(c)

\* Taking up again the piece that was put on the square it was to move to; the
\* mutant cancels the special move only.
LiftPlacedHalf ==
  board' = [board EXCEPT !.currentRookCastleMove = NONE, !.enPassantCapture = NONE]
LiftPlaced ==
  board' = [board EXCEPT !.placedPiece = NONE,
                         !.currentRookCastleMove = NONE, !.enPassantCapture = NONE]

LiftOnLocalMove(c) ==
  LET placed == c = board.placedPiece /\ ~board.isPerformingPromotion
      captured == EnPassant /\ c = board.enPassantCapture
  IN  \/ placed /\ LiftPlaced
      \/ /\ ~placed
         /\ \/ board.liftedPiece = NONE /\ LiftToMove(c)
            \/ /\ board.liftedPiece # NONE
               /\ \/ Castling /\ LiftWhileCastling(c)
                  \/ /\ ~Castling /\ captured
                     /\ board' = [board EXCEPT !.liftedEnPassant = TRUE]
                  \/ /\ ~Castling /\ ~captured
                     /\ \/ board.isPerformingPromotion /\ LiftToPromote(c)
                        \/ ~board.isPerformingPromotion /\ LiftToAttack(c)

LiftInFollowthrough(c) ==
  LET m == board.lastRemoteMove
      attacks == c = m.to /\ m.isAttackingMove /\ ~board.isPerformingPromotion
  IN  \/ c = m.from /\ board' = [board EXCEPT !.liftedPiece = c]
      \/ c # m.from /\ attacks /\ board' = [board EXCEPT !.attackedPiece = c]
      \/ c # m.from /\ ~attacks /\ ~HandsFull /\ FlagLift(c)
      \/ /\ c # m.from /\ ~attacks /\ HandsFull
         /\ \/ Castling /\ LiftWhileCastling(c)
            \/ /\ ~Castling /\ EnPassant /\ c = board.enPassantCapture
               /\ board' = CompleteRemoteMoveFollowthrough(board)
            \/ ~Castling /\ EnPassant /\ c # board.enPassantCapture /\ FlagLift(c)
            \/ /\ ~Castling /\ ~EnPassant
               /\ IF board.isPerformingPromotion THEN LiftToPromote(c) ELSE UNCHANGED board

LiftPiece(c) ==
  \/ /\ c \in board.invalidPlacements
     /\ board' = [board EXCEPT !.invalidPlacements = @ \ {c}]
  \/ /\ c \notin board.invalidPlacements
     /\ \/ CanMakeLocalMove /\ LiftOnLocalMove(c)
        \/ CanFollowthroughRemoteMove /\ LiftInFollowthrough(c)
        \/ ~CanMakeLocalMove /\ ~CanFollowthroughRemoteMove /\ FlagLift(c)
-----------------------------------------------------------------------------
(***************************************************************************)
(* PlacePiece.                                                             *)
(***************************************************************************)
PlaceLegally(c) ==
  \E m \in GetLegalMove(board.liftedPiece, c), pawn \in TargetOf(board.lastRemoteMove) :
    board' = [board EXCEPT
      !.placedPiece = c,
      !.currentRookCastleMove = m.rook,
      !.enPassantCapture = IF m.moveType = "EN_PASSANT" THEN pawn ELSE NONE,
      !.isPerformingPromotion = (m.moveType = "PROMOTION")]

PlaceToMove(c) ==
  \/ PlaceLegally(c)
  \/ GetLegalMove(board.liftedPiece, c) = {} /\ FlagPlacement(c)

PlaceWhileCastling(c) ==
  LET rook == board.currentRookCastleMove
  IN  \/ board.liftedCastle /\ c = rook.to
         /\ board' = [board EXCEPT !.placedCastle = TRUE]
      \/ board.liftedCastle /\ c = rook.from
         /\ board' = [board EXCEPT !.liftedCastle = FALSE]
      \/ (board.liftedCastle => c \notin {rook.from, rook.to}) /\ FlagPlacement(c)

\* Mutant of PlaceWhileEnPassant: the captured pawn comes back unnoticed.
PlaceWhileEnPassantOnce(c) ==
  \/ board.liftedEnPassant /\ c = board.enPassantCapture /\ UNCHANGED board
  \/ (board.liftedEnPassant => c # board.enPassantCapture) /\ FlagPlacement(c)

PlaceWhileEnPassant(c) ==
  \/ /\ board.liftedEnPassant /\ c = board.enPassantCapture
     /\ board' = [board EXCEPT !.liftedEnPassant = FALSE]
  \/ (board.liftedEnPassant => c # board.enPassantCapture) /\ FlagPlacement(c)

PlaceToPromote(c) ==
  \/ /\ board.liftedPromotion /\ c = board.placedPiece
     /\ board' = [board EXCEPT !.placedPromotion = TRUE]
  \/ (board.liftedPromotion => c # board.placedPiece) /\ FlagPlacement(c)

PlaceOnLocalMove(c) ==
  \/ c = board.liftedPiece /\ PutBack
  \/ /\ c # board.liftedPiece
     /\ \/ ~Castling /\ ~EnPassant /\ ~board.isPerformingPromotion /\ PlaceToMove(c)
        \/ Castling /\ PlaceWhileCastling(c)
        \/ ~Castling /\ EnPassant /\ PlaceWhileEnPassant(c)
        \/ ~Castling /\ ~EnPassant /\ board.isPerformingPromotion /\ PlaceToPromote(c)

\* The moved piece is put on its target: that is all, unless the move has a
\* second part.
PlaceOnTarget(c) ==
  LET special == Castling \/ EnPassant \/ board.lastRemoteMove.moveType = "PROMOTION"
  IN  board' = IF special
                 THEN [board EXCEPT !.placedPiece = c,
                         !.isPerformingPromotion =
                             @ \/ board.lastRemoteMove.moveType = "PROMOTION"]
                 ELSE CompleteRemoteMoveFollowthrough(board)

PlaceAtTarget(c) ==
  LET m == board.lastRemoteMove
      promotes == HandsFull /\ board.isPerformingPromotion
      cleared == m.isAttackingMove => board.attackedPiece # NONE
  IN  \/ /\ promotes /\ board.liftedPromotion
         /\ board' = CompleteRemoteMoveFollowthrough(board)
      \/ promotes /\ ~board.liftedPromotion /\ FlagPlacement(c)
      \/ ~promotes /\ board.liftedPiece # NONE /\ cleared /\ PlaceOnTarget(c)
      \/ /\ ~promotes /\ board.liftedPiece = NONE /\ cleared /\ m.isAttackingMove
         /\ board' = [board EXCEPT !.attackedPiece = NONE]
      \/ /\ ~promotes /\ (~cleared \/ (board.liftedPiece = NONE /\ ~m.isAttackingMove))
         /\ FlagPlacement(c)

PlaceInFollowthrough(c) ==
  LET m == board.lastRemoteMove
      rook == board.currentRookCastleMove
  IN  \/ c = m.to /\ PlaceAtTarget(c)
      \/ c = m.from /\ PutBack
      \/ c \notin {m.from, m.to} /\ ~HandsFull /\ FlagPlacement(c)
      \/ c \notin {m.from, m.to} /\ HandsFull /\ ~Castling /\ UNCHANGED board
      \/ /\ c \notin {m.from, m.to} /\ HandsFull /\ Castling
         /\ \/ c = rook.to /\ board' = CompleteRemoteMoveFollowthrough(board)
            \/ c = rook.from /\ board' = [board EXCEPT !.liftedCastle = FALSE]
            \/ c \notin {rook.from, rook.to} /\ FlagPlacement(c)

PlacePiece(c) ==
  \/ /\ c \in board.invalidLifts
     /\ board' = [board EXCEPT !.invalidLifts = @ \ {c}]
  \/ /\ c \notin board.invalidLifts
     /\ \/ CanMakeLocalMove /\ board.liftedPiece # NONE /\ PlaceOnLocalMove(c)
        \/ CanFollowthroughRemoteMove /\ PlaceInFollowthrough(c)
        \/ /\ ~CanFollowthroughRemoteMove /\ (CanMakeLocalMove => board.liftedPiece = NONE)
           /\ FlagPlacement(c)
-----------------------------------------------------------------------------
(***************************************************************************)
(* The operations of the control thread.                                   *)
(***************************************************************************)
MustSelectPromotion == board.isPerformingPromotion /\ board.promotionType = "NONE"

PromotionInProgress ==
  /\ board.isPerformingPromotion /\ board.promotionType # "NONE"
  /\ ~(board.liftedPromotion /\ board.placedPromotion)

SetPromotionType == board' = [board EXCEPT !.promotionType = "QUEEN"]

IsPotentialLocalMoveValid ==
  /\ CanMakeLocalMove
  /\ board.invalidLifts = {} /\ board.invalidPlacements = {}
  /\ HandsFull
  /\ Castling => board.liftedCastle /\ board.placedCastle
  /\ EnPassant => board.liftedEnPassant
  /\ board.isPerformingPromotion =>
       board.promotionType # "NONE" /\ board.liftedPromotion /\ board.placedPromotion

\* The move the control thread gets: where from and where to, and whether the
\* pawn is promoted; it does not say what else the move does.
LocalMove ==
  [from |-> board.liftedPiece, to |-> board.placedPiece, isAttackingMove |-> FALSE,
   moveType |-> IF board.isPerformingPromotion THEN "PROMOTION" ELSE "NORMAL",
   rook |-> NONE, pawn |-> NONE]

\* Mutant of SubmitCurrentLocalMove: t_LocalMoveSubmitted is forgotten.
SubmitWithoutWaiting(isLocalGame) ==
  /\ IsPotentialLocalMoveValid
  /\ board' = [NoPromotion(NoSpecialMove(EmptyHanded(board))) EXCEPT
                 !.lastLocalMove = IF isLocalGame THEN NONE ELSE LocalMove,
                 !.lastRemoteMove = IF isLocalGame THEN LocalMove ELSE NONE]

SubmitCurrentLocalMove(isLocalGame) ==
  /\ IsPotentialLocalMoveValid
  /\ board' = [NoPromotion(NoSpecialMove(EmptyHanded(board))) EXCEPT
                 !.lastLocalMove = IF isLocalGame THEN NONE ELSE LocalMove,
                 !.lastRemoteMove = IF isLocalGame THEN LocalMove ELSE NONE,
                 !.fsm = IF isLocalGame THEN @ ELSE "AWAITING_REMOTE_MOVE_NOTICE"]

\* Starting a remote move: its rook, its captured pawn, its promotion.  The
\* mutant of BeginFollowthrough takes the king's move for the rook's.
BeginWithoutRook(b, m, pawn) ==
  [b EXCEPT !.fsm = "AWAITING_REMOTE_MOVE_FOLLOWTHROUGH",
            !.currentRookCastleMove = IF m.rook = NONE THEN NONE ELSE m]
BeginFollowthrough(b, m, pawn) ==
  [b EXCEPT !.fsm = "AWAITING_REMOTE_MOVE_FOLLOWTHROUGH",
            !.currentRookCastleMove = m.rook,
            !.enPassantCapture = IF m.moveType = "EN_PASSANT" THEN pawn ELSE NONE,
            !.promotionType = IF m.moveType = "PROMOTION" THEN "QUEEN" ELSE @]

ReceiveRemoteMove(m) ==
  /\ CanReceiveRemoteMove
  /\ \E pawn \in TargetOf(board.lastLocalMove) :
       board' = [BeginFollowthrough(NoPromotion(NoSpecialMove(board)), m, pawn) EXCEPT
                   !.lastRemoteMove = m, !.lastLocalMove = NONE]

SetUpcomingCheckmate == board' = [board EXCEPT !.inCheckmate = TRUE]

WinGame == board' = [board EXCEPT !.fsm = "WON_GAME"]
LoseGame == board' = [board EXCEPT !.fsm = "LOST_GAME"]
WinLocal(winner) ==
  board' = [board EXCEPT
              !.fsm = IF winner = "local" THEN "LOCAL_WHITE_WIN" ELSE "LOCAL_BLACK_WIN"]
GoToIdle == board' = [board EXCEPT !.fsm = "NO_GAME"]

UpdateLegalMoves(reply) == board' = [board EXCEPT !.allLegalMoves = reply]
=============================================================================
