------------------------- MODULE BoardHands_proofs -------------------------
(***************************************************************************)
(* The pieces in the player's hands and on their new squares, whose turn it*)
(* is, and when a remote move has been followed, for any squares, moves,   *)
(* bounds, lost requests and restarts: HandsAreReal, NothingInHandWaiting, *)
(* TurnsAgree and FollowedThrough of BoardPlay; and, for a player who does *)
(* not hurry and a server that answers, SubmittableIsMade.  First what the *)
(* operations of the board do to the members concerned.                    *)
(***************************************************************************)
EXTENDS BoardPlay_proofs

Making == CanMakeLocalMove \/ CanFollowthroughRemoteMove

\* The members the two handlers decide by are as they were.
SameState == board'.fsm = board.fsm /\ board'.lastRemoteMove = board.lastRemoteMove
SamePlaced ==
  /\ board'.placedPiece = board.placedPiece
  /\ board'.isPerformingPromotion = board.isPerformingPromotion
SameSpecial ==
  /\ board'.currentRookCastleMove = board.currentRookCastleMove
  /\ board'.enPassantCapture = board.enPassantCapture
SameHands == SameState /\ SamePlaced /\ board'.liftedPiece = board.liftedPiece

\* Nothing is in hand and nothing is noted of a special move.
AtRest(b) ==
  /\ b.liftedPiece = NONE /\ b.placedPiece = NONE /\ b.attackedPiece = NONE
  /\ b.currentRookCastleMove = NONE /\ ~b.liftedCastle /\ ~b.placedCastle
  /\ b.enPassantCapture = NONE /\ ~b.liftedEnPassant

\* The end of a remote move: the board is at rest, and the player goes on or has lost.
Completed ==
  /\ board'.fsm \in {"AWAITING_LOCAL_MOVE", "LOST_GAME"} /\ AtRest(board')
  /\ board'.fsm = "AWAITING_LOCAL_MOVE" => ~board.inCheckmate
  /\ board'.lastRemoteMove = board.lastRemoteMove
  /\ board'.inCheckmate = board.inCheckmate /\ board'.allLegalMoves = board.allLegalMoves

LEMMA ResetEffect ==
  ASSUME NEW b \in BoardRecord,
         NEW d \in {EmptyHanded(b), NoSpecialMove(b), NoPromotion(b)}
  PROVE  /\ d.lastRemoteMove = b.lastRemoteMove /\ d.fsm = b.fsm
         /\ d.inCheckmate = b.inCheckmate /\ d.allLegalMoves = b.allLegalMoves
         /\ d \in {NoSpecialMove(b), NoPromotion(b)} =>
              d.liftedPiece = b.liftedPiece /\ d.placedPiece = b.placedPiece
  BY DEF EmptyHanded, NoSpecialMove, NoPromotion, BoardRecord

LEMMA RestEffect ==
  ASSUME NEW b \in BoardRecord
  PROVE  /\ AtRest(NoSpecialMove(EmptyHanded(b)))
         /\ AtRest(b) => AtRest(NoPromotion(b))
  <1> DEFINE e == EmptyHanded(b)
  <1>1. e \in BoardRecord /\ e.liftedPiece = NONE /\ e.placedPiece = NONE
    BY ResetTypes DEF EmptyHanded, BoardRecord
  <1>2. AtRest(NoSpecialMove(e))
    <2> HIDE DEF e
    <2> QED BY <1>1 DEF NoSpecialMove, AtRest, BoardRecord
  <1>3. AtRest(b) => AtRest(NoPromotion(b)) BY DEF NoPromotion, AtRest, BoardRecord
  <1> QED BY <1>2, <1>3

\* What the end of a move, local or remote, resets.
LEMMA ClearedEffect ==
  ASSUME board \in BoardRecord
  PROVE  LET p == NoPromotion(NoSpecialMove(EmptyHanded(board)))
         IN  /\ p \in BoardRecord /\ AtRest(p)
             /\ p.lastRemoteMove = board.lastRemoteMove /\ p.fsm = board.fsm
             /\ p.inCheckmate = board.inCheckmate /\ p.allLegalMoves = board.allLegalMoves
  <1> DEFINE e == EmptyHanded(board)
             s == NoSpecialMove(e)
  <1>1. /\ e \in BoardRecord
        /\ e.lastRemoteMove = board.lastRemoteMove /\ e.fsm = board.fsm
        /\ e.inCheckmate = board.inCheckmate /\ e.allLegalMoves = board.allLegalMoves
    BY ResetTypes, ResetEffect
  <1>2. /\ s \in BoardRecord /\ AtRest(s)
        /\ s.lastRemoteMove = board.lastRemoteMove /\ s.fsm = board.fsm
        /\ s.inCheckmate = board.inCheckmate /\ s.allLegalMoves = board.allLegalMoves
    <2>1. AtRest(s) BY RestEffect
    <2> HIDE DEF e
    <2> QED BY <1>1, <2>1, ResetTypes, ResetEffect
  <1> HIDE DEF s
  <1>3. LET p == NoPromotion(s)
        IN  /\ p \in BoardRecord /\ AtRest(p)
            /\ p.lastRemoteMove = board.lastRemoteMove /\ p.fsm = board.fsm
            /\ p.inCheckmate = board.inCheckmate /\ p.allLegalMoves = board.allLegalMoves
    BY <1>2, ResetTypes, ResetEffect, RestEffect
  <1> QED BY <1>3 DEF s

LEMMA CompleteEffect ==
  ASSUME board \in BoardRecord, board' = CompleteRemoteMoveFollowthrough(board)
  PROVE  Completed
  <1> DEFINE p == NoPromotion(NoSpecialMove(EmptyHanded(board)))
             fsm == IF board.inCheckmate THEN "LOST_GAME" ELSE "AWAITING_LOCAL_MOVE"
  <1>1. /\ p \in BoardRecord /\ AtRest(p)
        /\ p.lastRemoteMove = board.lastRemoteMove
        /\ p.inCheckmate = board.inCheckmate /\ p.allLegalMoves = board.allLegalMoves
    BY ClearedEffect
  <1>2. board' = [p EXCEPT !.fsm = fsm]
    BY DEF CompleteRemoteMoveFollowthrough
  <1>3. /\ fsm \in {"AWAITING_LOCAL_MOVE", "LOST_GAME"}
        /\ fsm = "AWAITING_LOCAL_MOVE" => ~board.inCheckmate
    OBVIOUS
  <1> HIDE DEF p, fsm
  <1> QED BY <1>1, <1>2, <1>3 DEF Completed, AtRest, BoardRecord
-----------------------------------------------------------------------------
\* LiftPiece and PlacePiece: what each does to the piece in hand, the piece put
\* down and the state of the board.
LEMMA FlagEffect ==
  ASSUME board \in BoardRecord, NEW c \in Cell,
         \/ FlagLift(c) \/ FlagPlacement(c)
         \/ board' = [board EXCEPT !.invalidPlacements = @ \ {c}]
         \/ board' = [board EXCEPT !.invalidLifts = @ \ {c}]
         \/ \E b \in BOOLEAN : \/ board' = [board EXCEPT !.liftedCastle = b]
                               \/ board' = [board EXCEPT !.placedCastle = b]
                               \/ board' = [board EXCEPT !.liftedEnPassant = b]
                               \/ board' = [board EXCEPT !.liftedPromotion = b]
                               \/ board' = [board EXCEPT !.placedPromotion = b]
         \/ \E a \in Cell \cup {NONE} : board' = [board EXCEPT !.attackedPiece = a]
         \/ UNCHANGED board
  PROVE  SameHands
  <1>1. CASE FlagLift(c) \/ FlagPlacement(c)
    BY <1>1 DEF FlagLift, FlagPlacement, SameHands, SameState, SamePlaced, BoardRecord
  <1>2. CASE \/ board' = [board EXCEPT !.invalidPlacements = @ \ {c}]
             \/ board' = [board EXCEPT !.invalidLifts = @ \ {c}]
    BY <1>2 DEF SameHands, SameState, SamePlaced, BoardRecord
  <1>3. ASSUME NEW b \in BOOLEAN,
               \/ board' = [board EXCEPT !.liftedCastle = b]
               \/ board' = [board EXCEPT !.placedCastle = b]
               \/ board' = [board EXCEPT !.liftedEnPassant = b]
               \/ board' = [board EXCEPT !.liftedPromotion = b]
               \/ board' = [board EXCEPT !.placedPromotion = b]
        PROVE  SameHands
    BY <1>3 DEF SameHands, SameState, SamePlaced, BoardRecord
  <1>4. ASSUME NEW a \in Cell \cup {NONE}, board' = [board EXCEPT !.attackedPiece = a]
        PROVE  SameHands
    BY <1>4 DEF SameHands, SameState, SamePlaced, BoardRecord
  <1>5. CASE UNCHANGED board
    BY <1>5 DEF SameHands, SameState, SamePlaced
  <1> QED BY <1>1, <1>2, <1>3, <1>4, <1>5

LEMMA LiftLocalEffect ==
  ASSUME board \in BoardRecord, NEW c \in Cell, LiftOnLocalMove(c)
  PROVE  /\ SameState /\ board'.isPerformingPromotion = board.isPerformingPromotion
         /\ \/ board'.liftedPiece = board.liftedPiece
            \/ board'.liftedPiece = c /\ board'.invalidLifts = board.invalidLifts
         /\ board'.placedPiece \in {board.placedPiece, NONE}
         /\ c = board.placedPiece /\ ~board.isPerformingPromotion => board'.placedPiece = NONE
  <1>1. CASE LiftPlaced
    BY <1>1 DEF LiftPlaced, SameState, BoardRecord
  <1>2. CASE ~(c = board.placedPiece /\ ~board.isPerformingPromotion) /\ LiftToMove(c)
    <2>1. CASE board' = [board EXCEPT !.liftedPiece = c]
      BY <1>2, <2>1 DEF SameState, BoardRecord
    <2>2. CASE FlagLift(c)
      BY <1>2, <2>2, FlagEffect DEF SameHands, SamePlaced
    <2> QED BY <1>2, <2>1, <2>2 DEF LiftToMove
  <1>3. CASE ~(c = board.placedPiece /\ ~board.isPerformingPromotion)
             /\ (LiftWhileCastling(c) \/ LiftToPromote(c) \/ LiftToAttack(c)
                 \/ board' = [board EXCEPT !.liftedEnPassant = TRUE])
    <2>1. SameHands
      BY <1>3, FlagEffect DEF LiftWhileCastling, LiftToPromote, LiftToAttack
    <2> QED BY <1>3, <2>1 DEF SameHands, SamePlaced
  <1> QED BY <1>1, <1>2, <1>3 DEF LiftOnLocalMove

LEMMA LiftFollowEffect ==
  ASSUME board \in BoardRecord, NEW c \in Cell, LiftInFollowthrough(c)
  PROVE  \/ Completed
         \/ /\ SameState /\ SamePlaced
            /\ \/ board'.liftedPiece = board.liftedPiece
               \/ /\ c = board.lastRemoteMove.from /\ board'.liftedPiece = c
                  /\ board'.invalidLifts = board.invalidLifts
  <1>1. CASE c = board.lastRemoteMove.from /\ board' = [board EXCEPT !.liftedPiece = c]
    BY <1>1 DEF SameState, SamePlaced, BoardRecord
  <1>2. CASE board' = CompleteRemoteMoveFollowthrough(board)
    BY <1>2, CompleteEffect
  <1>3. CASE \/ board' = [board EXCEPT !.attackedPiece = c]
             \/ FlagLift(c) \/ LiftWhileCastling(c) \/ LiftToPromote(c) \/ UNCHANGED board
    <2>1. SameHands
      BY <1>3, FlagEffect DEF LiftWhileCastling, LiftToPromote
    <2> QED BY <2>1 DEF SameHands
  <1> QED BY <1>1, <1>2, <1>3 DEF LiftInFollowthrough

LEMMA PlaceLocalEffect ==
  ASSUME board \in BoardRecord, NEW c \in Cell, PlaceOnLocalMove(c)
  PROVE  /\ SameState
         /\ board'.liftedPiece = IF c = board.liftedPiece THEN NONE ELSE board.liftedPiece
         /\ \/ SamePlaced
            \/ /\ ~board.isPerformingPromotion /\ board'.placedPiece = c
               /\ board'.invalidPlacements = board.invalidPlacements
  <1>1. CASE c = board.liftedPiece /\ PutBack
    BY <1>1 DEF PutBack, SameState, SamePlaced, BoardRecord
  <1>2. CASE c # board.liftedPiece /\ ~board.isPerformingPromotion /\ PlaceLegally(c)
    <2>1. PICK m \in GetLegalMove(board.liftedPiece, c), pawn \in TargetOf(board.lastRemoteMove) :
            board' = [board EXCEPT
              !.placedPiece = c,
              !.currentRookCastleMove = m.rook,
              !.enPassantCapture = IF m.moveType = "EN_PASSANT" THEN pawn ELSE NONE,
              !.isPerformingPromotion = (m.moveType = "PROMOTION")]
      BY <1>2 DEF PlaceLegally
    <2> DEFINE rook == m.rook
               captured == IF m.moveType = "EN_PASSANT" THEN pawn ELSE NONE
               promotes == m.moveType = "PROMOTION"
    <2>2. board' = [board EXCEPT !.placedPiece = c, !.currentRookCastleMove = rook,
                      !.enPassantCapture = captured, !.isPerformingPromotion = promotes]
      BY <2>1
    <2> HIDE DEF rook, captured, promotes
    <2> QED BY <1>2, <2>2 DEF SameState, BoardRecord
  <1>3. CASE c # board.liftedPiece
             /\ (FlagPlacement(c) \/ PlaceWhileCastling(c) \/ PlaceWhileEnPassant(c)
                 \/ PlaceToPromote(c))
    <2>1. SameHands
      BY <1>3, FlagEffect DEF PlaceWhileCastling, PlaceWhileEnPassant, PlaceToPromote
    <2> QED BY <1>3, <2>1 DEF SameHands
  <1> QED BY <1>1, <1>2, <1>3 DEF PlaceOnLocalMove, PlaceToMove

LEMMA PlaceFollowEffect ==
  ASSUME board \in BoardRecord, NEW c \in Cell, PlaceInFollowthrough(c)
  PROVE  \/ Completed
         \/ /\ SameState
            /\ board'.liftedPiece \in {board.liftedPiece, NONE}
            /\ c = board.lastRemoteMove.from /\ c # board.lastRemoteMove.to
                 => board'.liftedPiece = NONE
  <1>1. CASE c = board.lastRemoteMove.from /\ PutBack
    BY <1>1 DEF PutBack, SameState, BoardRecord
  <1>2. CASE board' = CompleteRemoteMoveFollowthrough(board)
    BY <1>2, CompleteEffect
  <1>3. CASE c = board.lastRemoteMove.to
             /\ board' = [board EXCEPT !.placedPiece = c,
                           !.isPerformingPromotion =
                               @ \/ board.lastRemoteMove.moveType = "PROMOTION"]
    <2> DEFINE promotes == board.isPerformingPromotion \/ board.lastRemoteMove.moveType = "PROMOTION"
    <2>1. board' = [board EXCEPT !.placedPiece = c, !.isPerformingPromotion = promotes]
      BY <1>3
    <2> HIDE DEF promotes
    <2> QED BY <1>3, <2>1 DEF SameState, BoardRecord
  <1>4. CASE /\ ~(c = board.lastRemoteMove.from /\ c # board.lastRemoteMove.to)
             /\ \/ FlagPlacement(c) \/ UNCHANGED board
                \/ board' = [board EXCEPT !.liftedCastle = FALSE]
                \/ board' = [board EXCEPT !.attackedPiece = NONE]
    <2>1. SameHands
      BY <1>4, FlagEffect
    <2> QED BY <1>4, <2>1 DEF SameHands
  <1>5. CASE c = board.lastRemoteMove.to /\ PlaceAtTarget(c)
    BY <1>2, <1>3, <1>4, <1>5 DEF PlaceAtTarget, PlaceOnTarget
  <1> QED BY <1>1, <1>2, <1>4, <1>5 DEF PlaceInFollowthrough

\* Both together, whatever the state of the board.
LEMMA LiftEffect ==
  ASSUME board \in BoardRecord, NEW c \in Cell, LiftPiece(c)
  PROVE  \/ CanFollowthroughRemoteMove /\ Completed
         \/ /\ SameState
            /\ \/ board'.liftedPiece = board.liftedPiece
               \/ /\ board'.liftedPiece = c /\ board'.invalidLifts = board.invalidLifts
                  /\ CanFollowthroughRemoteMove => c = board.lastRemoteMove.from
            /\ CanMakeLocalMove =>
                 /\ board'.isPerformingPromotion = board.isPerformingPromotion
                 /\ board'.placedPiece \in {board.placedPiece, NONE}
                 /\ /\ c = board.placedPiece /\ ~board.isPerformingPromotion
                    /\ c \notin board.invalidPlacements
                    => board'.placedPiece = NONE
  <1>1. CASE \/ c \in board.invalidPlacements
                /\ board' = [board EXCEPT !.invalidPlacements = @ \ {c}]
             \/ ~CanMakeLocalMove /\ ~CanFollowthroughRemoteMove /\ FlagLift(c)
    <2>1. SameHands BY <1>1, FlagEffect
    <2> QED BY <1>1, <2>1 DEF SameHands, SamePlaced
  <1>2. CASE CanMakeLocalMove /\ LiftOnLocalMove(c)
    BY <1>2, LiftLocalEffect DEF CanMakeLocalMove, CanFollowthroughRemoteMove
  <1>3. CASE CanFollowthroughRemoteMove /\ LiftInFollowthrough(c)
    BY <1>3, LiftFollowEffect DEF CanMakeLocalMove, CanFollowthroughRemoteMove
  <1> QED BY <1>1, <1>2, <1>3 DEF LiftPiece

LEMMA PlaceEffect ==
  ASSUME board \in BoardRecord, NEW c \in Cell, PlacePiece(c)
  PROVE  \/ CanFollowthroughRemoteMove /\ Completed
         \/ /\ SameState
            /\ board'.liftedPiece \in {board.liftedPiece, NONE}
            /\ /\ c = board.liftedPiece /\ c \notin board.invalidLifts
               /\ \/ CanMakeLocalMove
                  \/ /\ CanFollowthroughRemoteMove
                     /\ c = board.lastRemoteMove.from /\ c # board.lastRemoteMove.to
               => board'.liftedPiece = NONE
            /\ CanMakeLocalMove =>
                 \/ SamePlaced
                 \/ /\ ~board.isPerformingPromotion /\ board'.placedPiece = c
                    /\ board'.invalidPlacements = board.invalidPlacements
  <1>0. NONE \notin Cell BY NoneAssumption
  <1>1. CASE c \in board.invalidLifts
             /\ board' = [board EXCEPT !.invalidLifts = @ \ {c}]
    <2>1. SameHands BY <1>1, FlagEffect
    <2> QED BY <1>1, <2>1 DEF SameHands
  <1>2. CASE ~CanFollowthroughRemoteMove /\ (CanMakeLocalMove => board.liftedPiece = NONE)
             /\ FlagPlacement(c)
    <2>1. SameHands BY <1>2, FlagEffect
    <2> QED BY <1>0, <1>2, <2>1 DEF SameHands
  <1>3. CASE CanMakeLocalMove /\ PlaceOnLocalMove(c)
    BY <1>3, PlaceLocalEffect DEF CanMakeLocalMove, CanFollowthroughRemoteMove
  <1>4. CASE CanFollowthroughRemoteMove /\ PlaceInFollowthrough(c)
    BY <1>4, PlaceFollowEffect DEF CanMakeLocalMove, CanFollowthroughRemoteMove
  <1> QED BY <1>1, <1>2, <1>3, <1>4 DEF PlacePiece

\* While the board waits for the opponent only the flags change.
LEMMA WaitingEffect ==
  ASSUME board \in BoardRecord, NothingInHandWaiting, NEW c \in Cell,
         LiftPiece(c) \/ PlacePiece(c)
  PROVE  NothingInHandWaiting'
  <1>1. CASE CanReceiveRemoteMove
    <2>1. ~CanMakeLocalMove /\ ~CanFollowthroughRemoteMove
      BY <1>1 DEF CanReceiveRemoteMove, CanMakeLocalMove, CanFollowthroughRemoteMove
    <2>2. \/ board' = [board EXCEPT !.invalidPlacements = @ \ {c}]
          \/ board' = [board EXCEPT !.invalidLifts = @ \ {c}]
          \/ board' = [board EXCEPT !.invalidPlacements = @ \cup {c}]
          \/ board' = [board EXCEPT !.invalidLifts = @ \cup {c}]
      BY <2>1 DEF LiftPiece, PlacePiece, FlagLift, FlagPlacement
    <2> QED
      BY <1>1, <2>2 DEF NothingInHandWaiting, CanReceiveRemoteMove, Castling, EnPassant, BoardRecord
  <1>2. CASE ~CanReceiveRemoteMove
    <2>1. ~CanReceiveRemoteMove'
      BY <1>2, LiftEffect, PlaceEffect DEF Completed, SameState, CanReceiveRemoteMove
    <2> QED BY <2>1 DEF NothingInHandWaiting
  <1> QED BY <1>1, <1>2
-----------------------------------------------------------------------------
\* The inductive invariant.  The piece in hand is neither flagged nor reported
\* as lifted once more, and the one put down neither flagged nor reported as
\* placed once more, unless a download has overtaken the report; a remote move
\* leads from one square to another; the menus are left in no other state than
\* NO_GAME, and a move is sent while the board waits for the opponent.
Pending(c, placed) == event # NONE /\ event.cell = c /\ event.placed = placed

HandSettled ==
  Making => /\ board.liftedPiece \in board.invalidLifts => board.liftedPiece \in overtaken
            /\ Pending(board.liftedPiece, FALSE) => board.liftedPiece \in overtaken

PlacedSettled ==
  CanMakeLocalMove /\ ~board.isPerformingPromotion /\ board.placedPiece # NONE =>
    /\ board.placedPiece \in board.invalidPlacements => board.placedPiece \in overtaken
    /\ Pending(board.placedPiece, TRUE) => board.placedPiece \in overtaken

EventSettled ==
  \A c \in Cell : /\ Pending(c, TRUE) /\ c \in board.invalidPlacements => c \in overtaken
                  /\ Pending(c, FALSE) /\ c \in board.invalidLifts => c \in overtaken

Goes(m) ==
  \/ m = NoPreviousMove
  \/ /\ m \in Move /\ m.from # m.to
     /\ m.rook # NONE => ~m.isAttackingMove /\ m.to \notin {m.rook.from, m.rook.to}
     /\ m.moveType = "EN_PASSANT" => ~m.isAttackingMove
FollowsMove ==
  CanFollowthroughRemoteMove =>
    Goes(board.lastRemoteMove) /\ board.liftedPiece \in {NONE, board.lastRemoteMove.from}

HandsInv ==
  HandsAreReal /\ NothingInHandWaiting /\ HandSettled /\ PlacedSettled /\ EventSettled
  /\ FollowsMove

GameMoves ==
  game # NONE =>
    /\ game.lastmove # NONE => Goes(game.lastmove)
    /\ ~LocalPlay /\ game.status = "lost" => game.turn = "local"

Menus == pc \in {"nogame", "download", "downloading", "reading"} => board.fsm = "NO_GAME"
Sending == pc = "sending" /\ ~LocalPlay => CanReceiveRemoteMove

TurnsInv == GameMoves /\ Menus /\ Sending /\ TurnsAgree

PlayInv == IInv /\ HandsInv /\ TurnsInv
-----------------------------------------------------------------------------
\* The steps of the sensor thread and HandsInv.
LEMMA DetectHands ==
  ASSUME IInv, HandsInv, NEW c \in Cell, Detect(c)
  PROVE  HandsInv'
  <1> USE DEF HandsInv, IInv
  <1>1. board' = board /\ overtaken' = overtaken /\ event = NONE BY DEF Detect
  <1>2. event' \in Change /\ event' = [cell |-> c, placed |-> c \notin sensed]
    BY DEF Detect, Change
  <1>3. event' # NONE BY <1>2, NoneIsNoChange
  <1>4. event'.cell = c /\ event'.placed = (c \notin sensed) BY <1>2
  <1>5. Unsettled = overtaken /\ Unsettled' = overtaken \cup {c}
    BY <1>1, <1>3, <1>4 DEF Unsettled
  <1>6. sensed' = Toggled(sensed, c) BY DEF Detect
  <1>7. \A d : /\ Pending(d, TRUE)' <=> d = c /\ c \notin sensed
               /\ Pending(d, FALSE)' <=> d = c /\ c \in sensed
    BY <1>3, <1>4 DEF Pending
  <1>8. Making' = Making /\ CanMakeLocalMove' = CanMakeLocalMove
    BY <1>1 DEF Making, CanMakeLocalMove, CanFollowthroughRemoteMove
  <1>a. HandsAreReal'
    BY <1>1, <1>5, <1>6, <1>8
    DEF HandsAreReal, Making, CanMakeLocalMove, CanFollowthroughRemoteMove, Toggled
  <1>b. NothingInHandWaiting'
    BY <1>1 DEF NothingInHandWaiting, CanReceiveRemoteMove, Castling, EnPassant
  <1>c. HandSettled'
    BY <1>1, <1>5, <1>7, <1>8 DEF HandSettled, HandsAreReal, Making
  <1>d. PlacedSettled'
    BY <1>1, <1>5, <1>7, <1>8 DEF PlacedSettled, HandsAreReal
  <1>e. EventSettled'
    BY <1>1, <1>5, <1>7 DEF EventSettled, FlagsAreReal
  <1>f. FollowsMove' BY <1>1 DEF FollowsMove, CanFollowthroughRemoteMove
  <1> QED BY <1>a, <1>b, <1>c, <1>d, <1>e, <1>f

\* The end of a remote move leaves nothing in hand.
LEMMA CompletedHands ==
  ASSUME board' \in BoardRecord, sensed' \subseteq Cell, event' = NONE, Completed
  PROVE  HandsInv'
  <1>1. /\ CanFollowthroughRemoteMove' = FALSE /\ CanReceiveRemoteMove' = FALSE
        /\ board'.liftedPiece = NONE /\ board'.placedPiece = NONE
    BY DEF Completed, AtRest, CanFollowthroughRemoteMove, CanReceiveRemoteMove
  <1>2. NONE \notin sensed' /\ NONE \notin board'.invalidLifts
    BY NoneAssumption DEF BoardRecord
  <1> QED BY <1>1, <1>2 DEF HandsInv, HandsAreReal, NothingInHandWaiting, HandSettled,
             PlacedSettled, EventSettled, FollowsMove, Pending

LEMMA SameMaking ==
  ASSUME SameState
  PROVE  /\ CanMakeLocalMove' = CanMakeLocalMove /\ CanReceiveRemoteMove' = CanReceiveRemoteMove
         /\ CanFollowthroughRemoteMove' = CanFollowthroughRemoteMove /\ Making' = Making
  BY DEF SameState, CanMakeLocalMove, CanFollowthroughRemoteMove, CanReceiveRemoteMove, Making

LEMMA LiftHands ==
  ASSUME IInv, HandsInv, Propagate, ~event.placed
  PROVE  HandsInv'
  <1> USE DEF HandsInv, IInv
  <1> DEFINE c == event.cell
  <1>1. /\ c \in Cell /\ board \in BoardRecord /\ LiftPiece(c)
        /\ event' = NONE /\ sensed' = sensed /\ sensed \subseteq Cell
        /\ Pending(c, FALSE)
    BY DEF TypeOK, Propagate, Change, Pending
  <1>2. /\ overtaken \subseteq overtaken' /\ (c \in sensed => c \in overtaken')
        /\ Unsettled = overtaken \cup {c} /\ Unsettled' = overtaken'
    BY <1>1 DEF Propagate, Unsettled, TypeOK, Change
  <1> HIDE DEF c
  <1>3. /\ board' \in BoardRecord
        /\ board'.invalidPlacements \subseteq board.invalidPlacements
        /\ board'.invalidLifts \subseteq board.invalidLifts \cup {c}
        /\ c \in board.invalidPlacements => board'.invalidLifts = board.invalidLifts
    BY <1>1, LiftIInv DEF Changes
  <1>4. \A d, placed : ~Pending(d, placed)' BY <1>1 DEF Pending
  <1>5. CASE Completed BY <1>1, <1>3, <1>5, CompletedHands
  <1>6. CASE /\ SameState
             /\ \/ board'.liftedPiece = board.liftedPiece
                \/ /\ board'.liftedPiece = c /\ board'.invalidLifts = board.invalidLifts
                   /\ CanFollowthroughRemoteMove => c = board.lastRemoteMove.from
             /\ CanMakeLocalMove =>
                  /\ board'.isPerformingPromotion = board.isPerformingPromotion
                  /\ board'.placedPiece \in {board.placedPiece, NONE}
                  /\ /\ c = board.placedPiece /\ ~board.isPerformingPromotion
                     /\ c \notin board.invalidPlacements
                     => board'.placedPiece = NONE
    <2>0. /\ CanMakeLocalMove' = CanMakeLocalMove /\ Making' = Making
          /\ CanFollowthroughRemoteMove' = CanFollowthroughRemoteMove
      BY <1>6, SameMaking
    <2>1. Making /\ board'.liftedPiece \in sensed => board'.liftedPiece \in overtaken'
      BY <1>2, <1>6 DEF HandsAreReal, Making
    <2>2. CanMakeLocalMove /\ ~board'.isPerformingPromotion /\ board'.placedPiece # NONE
            => board'.placedPiece \in sensed \cup overtaken'
      <3> SUFFICES ASSUME CanMakeLocalMove, ~board'.isPerformingPromotion,
                          board'.placedPiece # NONE
                   PROVE  board'.placedPiece \in sensed \cup overtaken'
        OBVIOUS
      <3>1. board'.placedPiece = board.placedPiece /\ ~board.isPerformingPromotion BY <1>6
      <3>2. board.placedPiece \in sensed \cup overtaken \cup {c}
        BY <1>2, <3>1 DEF HandsAreReal
      <3>3. CASE board.placedPiece = c
        <4>1. c \in board.invalidPlacements BY <1>6, <3>1, <3>3
        <4> QED BY <1>2, <3>1, <3>3, <4>1 DEF PlacedSettled
      <3> QED BY <1>2, <3>1, <3>2, <3>3
    <2>3. HandsAreReal' BY <1>1, <1>2, <2>0, <2>1, <2>2 DEF HandsAreReal, Making
    <2>4. HandSettled'
      <3>1. Making /\ board'.liftedPiece \in board'.invalidLifts => board'.liftedPiece \in overtaken
        BY <1>1, <1>3, <1>6 DEF HandSettled, EventSettled
      <3> QED BY <1>2, <1>4, <2>0, <3>1 DEF HandSettled
    <2>5. PlacedSettled' BY <1>2, <1>3, <1>4, <1>6, <2>0 DEF PlacedSettled
    <2>6. EventSettled' BY <1>4 DEF EventSettled
    <2>7. FollowsMove' BY <1>6, <2>0 DEF FollowsMove, SameState
    <2>8. NothingInHandWaiting' BY <1>1, WaitingEffect
    <2> QED BY <2>3, <2>4, <2>5, <2>6, <2>7, <2>8
  <1> QED BY <1>1, <1>5, <1>6, LiftEffect

LEMMA PlaceHands ==
  ASSUME IInv, HandsInv, Propagate, event.placed
  PROVE  HandsInv'
  <1> USE DEF HandsInv, IInv
  <1> DEFINE c == event.cell
  <1>1. /\ c \in Cell /\ board \in BoardRecord /\ PlacePiece(c)
        /\ event' = NONE /\ sensed' = sensed /\ sensed \subseteq Cell
        /\ Pending(c, TRUE)
    BY DEF TypeOK, Propagate, Change, Pending
  <1>2. /\ overtaken \subseteq overtaken' /\ (c \in sensed \/ c \in overtaken')
        /\ Unsettled = overtaken \cup {c} /\ Unsettled' = overtaken'
    BY <1>1 DEF Propagate, Unsettled, TypeOK, Change
  <1> HIDE DEF c
  <1>3. /\ board' \in BoardRecord
        /\ board'.invalidLifts \subseteq board.invalidLifts
        /\ board'.invalidPlacements \subseteq board.invalidPlacements \cup {c}
    BY <1>1, PlaceIInv DEF Changes
  <1>4. \A d, placed : ~Pending(d, placed)' BY <1>1 DEF Pending
  <1>5. CASE Completed BY <1>1, <1>3, <1>5, CompletedHands
  <1>6. CASE /\ SameState
             /\ board'.liftedPiece \in {board.liftedPiece, NONE}
             /\ /\ c = board.liftedPiece /\ c \notin board.invalidLifts
                /\ \/ CanMakeLocalMove
                   \/ /\ CanFollowthroughRemoteMove
                      /\ c = board.lastRemoteMove.from /\ c # board.lastRemoteMove.to
                => board'.liftedPiece = NONE
             /\ CanMakeLocalMove =>
                  \/ SamePlaced
                  \/ /\ ~board.isPerformingPromotion /\ board'.placedPiece = c
                     /\ board'.invalidPlacements = board.invalidPlacements
    <2>0. /\ CanMakeLocalMove' = CanMakeLocalMove /\ Making' = Making
          /\ CanFollowthroughRemoteMove' = CanFollowthroughRemoteMove
      BY <1>6, SameMaking
    <2>n. NONE \notin sensed /\ NONE \notin board'.invalidLifts
      BY <1>1, <1>3, NoneAssumption DEF BoardRecord
    <2>1. Making /\ board'.liftedPiece \in sensed => board'.liftedPiece \in overtaken'
      <3> SUFFICES ASSUME Making, board'.liftedPiece \in sensed
                   PROVE  board'.liftedPiece \in overtaken'
        OBVIOUS
      <3>1. board'.liftedPiece = board.liftedPiece BY <1>6, <2>n
      <3>2. board.liftedPiece \in overtaken \cup {c} BY <1>2, <3>1 DEF HandsAreReal, Making
      <3>3. CASE board.liftedPiece = c
        <4>1. CASE CanFollowthroughRemoteMove
          <5>1. c # NONE BY <1>1, NoneAssumption
          <5>2. c = board.lastRemoteMove.from /\ board.lastRemoteMove # NoPreviousMove
            BY <3>3, <4>1, <5>1 DEF FollowsMove, NoPreviousMove
          <5>3. c # board.lastRemoteMove.to BY <4>1, <5>2 DEF FollowsMove, Goes
          <5>4. c \in board.invalidLifts BY <1>6, <3>1, <3>3, <4>1, <5>1, <5>2, <5>3
          <5> QED BY <1>2, <3>1, <3>3, <5>4 DEF HandSettled
        <4>2. CASE CanMakeLocalMove
          <5>1. c # NONE BY <1>1, NoneAssumption
          <5>2. c \in board.invalidLifts BY <1>6, <3>1, <3>3, <4>2, <5>1
          <5> QED BY <1>2, <3>1, <3>3, <5>2 DEF HandSettled
        <4> QED BY <4>1, <4>2 DEF Making
      <3> QED BY <1>2, <3>1, <3>2, <3>3
    <2>2. CanMakeLocalMove /\ ~board'.isPerformingPromotion /\ board'.placedPiece # NONE
            => board'.placedPiece \in sensed \cup overtaken'
      BY <1>2, <1>6 DEF HandsAreReal, SamePlaced
    <2>3. HandsAreReal' BY <1>1, <1>2, <2>0, <2>1, <2>2 DEF HandsAreReal, Making
    <2>4. HandSettled' BY <1>2, <1>3, <1>4, <1>6, <2>0, <2>n DEF HandSettled
    <2>5. PlacedSettled'
      <3>1. CanMakeLocalMove /\ ~board'.isPerformingPromotion /\ board'.placedPiece # NONE
              /\ board'.placedPiece \in board'.invalidPlacements
            => board'.placedPiece \in overtaken
        BY <1>1, <1>3, <1>6 DEF PlacedSettled, EventSettled, SamePlaced
      <3> QED BY <1>2, <1>4, <2>0, <3>1 DEF PlacedSettled
    <2>6. EventSettled' BY <1>4 DEF EventSettled
    <2>7. FollowsMove' BY <1>6, <2>0 DEF FollowsMove, SameState
    <2>8. NothingInHandWaiting' BY <1>1, WaitingEffect
    <2> QED BY <2>3, <2>4, <2>5, <2>6, <2>7, <2>8
  <1> QED BY <1>1, <1>5, <1>6, PlaceEffect
-----------------------------------------------------------------------------
\* What the operations of the control thread make of the board.
LEMMA SubmitEffect ==
  ASSUME board \in BoardRecord, NEW isLocalGame, SubmitCurrentLocalMove(isLocalGame)
  PROVE  /\ AtRest(board')
         /\ board'.fsm = IF isLocalGame THEN "AWAITING_LOCAL_MOVE" ELSE "AWAITING_REMOTE_MOVE_NOTICE"
         /\ board'.inCheckmate = board.inCheckmate
         /\ board'.lastRemoteMove = IF isLocalGame THEN LocalMove ELSE NONE
  <1> DEFINE d == NoPromotion(NoSpecialMove(EmptyHanded(board)))
             ours == IF isLocalGame THEN NONE ELSE LocalMove
             theirs == IF isLocalGame THEN LocalMove ELSE NONE
             fsm == IF isLocalGame THEN d.fsm ELSE "AWAITING_REMOTE_MOVE_NOTICE"
  <1>1. /\ d \in BoardRecord /\ AtRest(d)
        /\ d.fsm = board.fsm /\ d.inCheckmate = board.inCheckmate
    BY ClearedEffect
  <1>3. board' = [d EXCEPT !.lastLocalMove = ours, !.lastRemoteMove = theirs, !.fsm = fsm]
    BY DEF SubmitCurrentLocalMove
  <1>4. board.fsm = "AWAITING_LOCAL_MOVE"
    BY DEF SubmitCurrentLocalMove, IsPotentialLocalMoveValid, CanMakeLocalMove
  <1>5. fsm = IF isLocalGame THEN "AWAITING_LOCAL_MOVE" ELSE "AWAITING_REMOTE_MOVE_NOTICE"
    BY <1>1, <1>4
  <1> HIDE DEF d, ours, theirs, fsm
  <1>6. /\ AtRest(board') /\ board'.fsm = fsm
        /\ board'.inCheckmate = board.inCheckmate /\ board'.lastRemoteMove = theirs
    BY <1>1, <1>3 DEF AtRest, BoardRecord
  <1> QED BY <1>5, <1>6 DEF theirs

\* A remote move begins with its own castle or capture in passing, and with what
\* the board had in hand.
Begun(b, m) ==
  /\ b.currentRookCastleMove = m.rook
  /\ b.enPassantCapture # NONE => m.moveType = "EN_PASSANT"

LEMMA BeginEffect ==
  ASSUME NEW b \in BoardRecord, NEW m \in Move \cup {NoPreviousMove}, NEW pawn
  PROVE  /\ BeginFollowthrough(b, m, pawn).fsm = "AWAITING_REMOTE_MOVE_FOLLOWTHROUGH"
         /\ BeginFollowthrough(b, m, pawn).liftedPiece = b.liftedPiece
         /\ BeginFollowthrough(b, m, pawn).placedPiece = b.placedPiece
         /\ Begun(BeginFollowthrough(b, m, pawn), m)
  <1> DEFINE rook == m.rook
             captured == IF m.moveType = "EN_PASSANT" THEN pawn ELSE NONE
             promotion == IF m.moveType = "PROMOTION" THEN "QUEEN" ELSE b.promotionType
  <1>1. BeginFollowthrough(b, m, pawn) =
          [b EXCEPT !.fsm = "AWAITING_REMOTE_MOVE_FOLLOWTHROUGH",
                    !.currentRookCastleMove = rook, !.enPassantCapture = captured,
                    !.promotionType = promotion]
    BY DEF BeginFollowthrough
  <1>2. captured # NONE => m.moveType = "EN_PASSANT" OBVIOUS
  <1> HIDE DEF captured, promotion
  <1> QED BY <1>1, <1>2 DEF BoardRecord, Begun

LEMMA ReceiveEffect ==
  ASSUME board \in BoardRecord, NEW m \in Move \cup {NoPreviousMove}, ReceiveRemoteMove(m)
  PROVE  /\ board'.fsm = "AWAITING_REMOTE_MOVE_FOLLOWTHROUGH" /\ board'.lastRemoteMove = m
         /\ board'.liftedPiece = board.liftedPiece /\ board'.placedPiece = board.placedPiece
         /\ Begun(board', m)
  <1>1. PICK pawn \in TargetOf(board.lastLocalMove) :
          board' = [BeginFollowthrough(NoPromotion(NoSpecialMove(board)), m, pawn) EXCEPT
                      !.lastRemoteMove = m, !.lastLocalMove = NONE]
    BY DEF ReceiveRemoteMove
  <1> DEFINE s == NoSpecialMove(board)
             b == NoPromotion(s)
             f == BeginFollowthrough(b, m, pawn)
  <1>2. /\ s \in BoardRecord
        /\ s.liftedPiece = board.liftedPiece /\ s.placedPiece = board.placedPiece
    BY ResetTypes, ResetEffect
  <1>3. /\ b \in BoardRecord
        /\ b.liftedPiece = board.liftedPiece /\ b.placedPiece = board.placedPiece
    <2> HIDE DEF s
    <2> QED BY <1>2, ResetTypes, ResetEffect
  <1>4. pawn \in Cell \cup {NONE} BY DEF TargetOf, BoardRecord, Move
  <1>5. /\ f \in BoardRecord /\ f.fsm = "AWAITING_REMOTE_MOVE_FOLLOWTHROUGH"
        /\ f.liftedPiece = board.liftedPiece /\ f.placedPiece = board.placedPiece
        /\ Begun(f, m)
    <2> HIDE DEF b
    <2> QED BY <1>3, <1>4, BeginEffect, BeginType
  <1>6. board' = [f EXCEPT !.lastRemoteMove = m, !.lastLocalMove = NONE] BY <1>1
  <1> HIDE DEF f
  <1> QED BY <1>5, <1>6 DEF BoardRecord, Begun

\* What a download leaves in hand, and when it lets the player move.
Fresh(d) ==
  /\ d.liftedPiece = NONE /\ d.placedPiece = NONE
  /\ d.fsm \in {"AWAITING_LOCAL_MOVE", "AWAITING_REMOTE_MOVE_NOTICE"} => AtRest(d)
  /\ d.fsm = "AWAITING_LOCAL_MOVE" => ~d.inCheckmate
  /\ d.fsm = "AWAITING_REMOTE_MOVE_FOLLOWTHROUGH" =>
       Goes(d.lastRemoteMove) /\ Begun(d, d.lastRemoteMove)
  /\ d.fsm \in {"AWAITING_LOCAL_MOVE", "AWAITING_REMOTE_MOVE_FOLLOWTHROUGH"} =>
       d.lastRemoteMove = game.lastmove /\ (LocalPlay \/ game.turn = "local")

LEMMA DownloadedEffect ==
  ASSUME board \in BoardRecord, game \in Game, GameMoves, board.fsm = "NO_GAME",
         NEW d \in {Downloaded, DownloadedLost, DownloadedWon, ResetByDownload}
  PROVE  Fresh(d)
  <1> DEFINE b == ResetByDownload
             last == game.lastmove
  <1>1. /\ b \in BoardRecord /\ AtRest(b) /\ b.fsm = "NO_GAME" /\ b.lastRemoteMove = NONE
        /\ b.liftedPiece = NONE /\ b.placedPiece = NONE /\ ~b.inCheckmate
    <2> DEFINE s == NoSpecialMove(EmptyHanded(board))
    <2>1. s \in BoardRecord /\ AtRest(s) BY ResetTypes, RestEffect
    <2>2. s.fsm = "NO_GAME"
      <3> DEFINE e == EmptyHanded(board)
      <3>1. e \in BoardRecord /\ e.fsm = "NO_GAME" BY ResetTypes, ResetEffect
      <3>2. NoSpecialMove(e).fsm = "NO_GAME"
        <4> HIDE DEF e
        <4> QED BY <3>1, ResetEffect
      <3> QED BY <3>2
    <2>3. b = [s EXCEPT !.invalidLifts = {}, !.invalidPlacements = {},
                 !.lastRemoteMove = NONE, !.lastLocalMove = NONE, !.inCheckmate = FALSE]
      BY DEF ResetByDownload
    <2>4. b \in BoardRecord BY ResetType
    <2> HIDE DEF s, b
    <2> QED BY <2>1, <2>2, <2>3, <2>4 DEF AtRest, BoardRecord
  <1>2. last \in Move \cup {NONE} /\ (last # NONE => Goes(last))
    <2>1. game # NONE BY NoneIsNoGame
    <2> QED BY <2>1 DEF Game, GameMoves
  <1>3. Downloaded \in BoardRecord /\ Fresh(Downloaded)
    <2>1. Downloaded \in BoardRecord BY DownloadTypes
    <2>2. CASE Downloaded = [b EXCEPT !.lastLocalMove = last, !.fsm = "AWAITING_REMOTE_MOVE_NOTICE"]
      <3> HIDE DEF b, last
      <3> QED BY <1>1, <2>1, <2>2 DEF Fresh, AtRest, BoardRecord
    <2>3. CASE /\ game.turn = "local" \/ LocalPlay
               /\ last = NONE
               /\ Downloaded = [b EXCEPT !.fsm = "AWAITING_LOCAL_MOVE"]
      <3>1. /\ Downloaded.fsm = "AWAITING_LOCAL_MOVE" /\ Downloaded.lastRemoteMove = last
            /\ Downloaded.liftedPiece = NONE /\ Downloaded.placedPiece = NONE
            /\ AtRest(Downloaded) /\ ~Downloaded.inCheckmate
        <4> HIDE DEF b, last
        <4> QED BY <1>1, <2>3 DEF AtRest, BoardRecord
      <3> QED BY <2>1, <2>3, <3>1 DEF Fresh
    <2>4. CASE /\ game.turn = "local" \/ LocalPlay
               /\ Downloaded = [b EXCEPT !.lastRemoteMove = last, !.fsm = "AWAITING_LOCAL_MOVE"]
      <3>1. /\ Downloaded.fsm = "AWAITING_LOCAL_MOVE" /\ Downloaded.lastRemoteMove = last
            /\ Downloaded.liftedPiece = NONE /\ Downloaded.placedPiece = NONE
            /\ AtRest(Downloaded) /\ ~Downloaded.inCheckmate
        <4> HIDE DEF b, last
        <4> QED BY <1>1, <2>4 DEF AtRest, BoardRecord
      <3> QED BY <2>1, <2>4, <3>1 DEF Fresh
    <2>5. CASE /\ game.turn = "local" \/ LocalPlay
               /\ last # NONE
               /\ Downloaded = [BeginFollowthrough(b, last, last.pawn) EXCEPT !.lastRemoteMove = last]
      <3> DEFINE f == BeginFollowthrough(b, last, last.pawn)
      <3>1. last \in Move /\ last.pawn \in Cell \cup {NONE} BY <1>2, <2>5 DEF Move
      <3>2. /\ f \in BoardRecord /\ f.fsm = "AWAITING_REMOTE_MOVE_FOLLOWTHROUGH"
            /\ f.liftedPiece = NONE /\ f.placedPiece = NONE /\ Begun(f, last)
        <4> HIDE DEF b, last
        <4> QED BY <1>1, <3>1, BeginType, BeginEffect DEF f
      <3>3. /\ Downloaded.fsm = "AWAITING_REMOTE_MOVE_FOLLOWTHROUGH"
            /\ Downloaded.lastRemoteMove = last
            /\ Downloaded.liftedPiece = NONE /\ Downloaded.placedPiece = NONE
            /\ Begun(Downloaded, last)
        <4> HIDE DEF f, last
        <4> QED BY <2>5, <3>2 DEF BoardRecord, Begun, f
      <3> QED BY <1>2, <2>1, <2>5, <3>3 DEF Fresh
    <2> QED BY <2>1, <2>2, <2>3, <2>4, <2>5 DEF Downloaded
  <1>4. Fresh(DownloadedLost)
    <2>1. CASE LocalPlay
      BY <1>3, <2>1 DEF DownloadedLost, Fresh, AtRest, BoardRecord
    <2>2. CASE ~LocalPlay
      <3> DEFINE fsm == IF Downloaded.fsm = "AWAITING_LOCAL_MOVE" THEN "LOST_GAME" ELSE Downloaded.fsm
      <3>1. DownloadedLost = [Downloaded EXCEPT !.inCheckmate = TRUE, !.fsm = fsm]
        BY <1>3, <2>2 DEF DownloadedLost, BoardRecord
      <3>2. /\ fsm \in {"LOST_GAME", Downloaded.fsm} /\ fsm # "AWAITING_LOCAL_MOVE"
            /\ Downloaded.fsm = "AWAITING_REMOTE_MOVE_FOLLOWTHROUGH" => fsm = Downloaded.fsm
        OBVIOUS
      <3> HIDE DEF fsm
      <3> QED BY <1>3, <3>1, <3>2 DEF Fresh, AtRest, Begun, BoardRecord
    <2> QED BY <2>1, <2>2
  <1>5. Fresh(DownloadedWon)
    <2> HIDE DEF b
    <2> QED BY <1>1 DEF DownloadedWon, Fresh, AtRest, b, BoardRecord
  <1>6. Fresh(b) BY <1>1 DEF Fresh
  <1> QED BY <1>3, <1>4, <1>5, <1>6
-----------------------------------------------------------------------------
\* The steps of the control thread and HandsInv: a step that leaves the sensors
\* and the flags as they are keeps what is in hand or empties it.
LEMMA QuietHands ==
  ASSUME IInv, HandsInv, UNCHANGED playVars, board' \in BoardRecord,
         \/ board'.liftedPiece = NONE /\ board'.placedPiece = NONE
         \/ /\ SameHands
            /\ board'.invalidLifts = board.invalidLifts
            /\ board'.invalidPlacements = board.invalidPlacements
         \/ ~Making',
         board'.invalidLifts \subseteq board.invalidLifts,
         board'.invalidPlacements \subseteq board.invalidPlacements,
         FollowsMove', NothingInHandWaiting'
  PROVE  HandsInv'
  <1> USE DEF HandsInv, IInv
  <1>1. /\ event' = event /\ sensed' = sensed /\ overtaken' = overtaken /\ Unsettled' = Unsettled
        /\ event \in Change \cup {NONE} /\ sensed \subseteq Cell
    BY DEF playVars, Unsettled, TypeOK
  <1>2. \A c, placed : Pending(c, placed)' = Pending(c, placed) BY <1>1 DEF Pending
  <1>3. /\ NONE \notin sensed /\ NONE \notin board'.invalidLifts
        /\ \A placed : ~Pending(NONE, placed)
    BY <1>1, NoneAssumption DEF BoardRecord, Pending, Change
  <1>4. EventSettled' BY <1>1, <1>2 DEF EventSettled
  <1>5. CASE board'.liftedPiece = NONE /\ board'.placedPiece = NONE
    <2>1. HandsAreReal' BY <1>1, <1>3, <1>5 DEF HandsAreReal
    <2>2. HandSettled' BY <1>1, <1>2, <1>3, <1>5 DEF HandSettled
    <2>3. PlacedSettled' BY <1>5 DEF PlacedSettled
    <2> QED BY <1>4, <2>1, <2>2, <2>3
  <1>6. CASE SameHands
    <2>0. CanMakeLocalMove' = CanMakeLocalMove /\ Making' = Making
          /\ CanFollowthroughRemoteMove' = CanFollowthroughRemoteMove
      BY <1>6, SameMaking DEF SameHands
    <2>1. HandsAreReal' BY <1>1, <1>6, <2>0 DEF HandsAreReal, SameHands, SamePlaced
    <2>2. HandSettled' BY <1>1, <1>2, <1>6, <2>0 DEF HandSettled, SameHands
    <2>3. PlacedSettled' BY <1>1, <1>2, <1>6, <2>0 DEF PlacedSettled, SameHands, SamePlaced
    <2> QED BY <1>4, <2>1, <2>2, <2>3
  <1>7. CASE ~Making'
    BY <1>4, <1>7 DEF HandsAreReal, HandSettled, PlacedSettled, Making
  <1> QED BY <1>5, <1>6, <1>7

\* The operations that change neither the hands nor the special move, or leave
\* the states in which moves are made.
LEMMA OthersHands ==
  ASSUME IInv, HandsInv, UNCHANGED playVars,
         \/ SetPromotionType \/ SetUpcomingCheckmate \/ WinGame \/ LoseGame \/ GoToIdle
         \/ WinLocal(localPlayerTurn)
         \/ legalReply' \in SUBSET Move /\ UpdateLegalMoves(legalReply')
         \/ UNCHANGED board
  PROVE  /\ HandsInv'
         /\ \/ SameState /\ SameSpecial /\ board'.placedPiece = board.placedPiece
            \/ ~Making' /\ ~CanReceiveRemoteMove'
  <1> USE DEF HandsInv, IInv
  <1>0. board \in BoardRecord /\ KeepsFlags BY OthersKeepFlags DEF TypeOK
  <1>1. CASE \/ SetPromotionType \/ SetUpcomingCheckmate
             \/ legalReply' \in SUBSET Move /\ UpdateLegalMoves(legalReply')
             \/ UNCHANGED board
    <2>1. /\ SameHands
          /\ board'.attackedPiece = board.attackedPiece
          /\ board'.currentRookCastleMove = board.currentRookCastleMove
          /\ board'.liftedCastle = board.liftedCastle /\ board'.placedCastle = board.placedCastle
          /\ board'.enPassantCapture = board.enPassantCapture
          /\ board'.liftedEnPassant = board.liftedEnPassant
      <3>1. CASE SetPromotionType
        BY <1>0, <3>1 DEF SetPromotionType, SameHands, SameState, SamePlaced, BoardRecord
      <3>2. CASE SetUpcomingCheckmate
        BY <1>0, <3>2 DEF SetUpcomingCheckmate, SameHands, SameState, SamePlaced, BoardRecord
      <3>3. CASE legalReply' \in SUBSET Move /\ UpdateLegalMoves(legalReply')
        BY <1>0, <3>3 DEF UpdateLegalMoves, SameHands, SameState, SamePlaced, BoardRecord
      <3>4. CASE UNCHANGED board BY <3>4 DEF SameHands, SameState, SamePlaced
      <3> QED BY <1>1, <3>1, <3>2, <3>3, <3>4
    <2>2. FollowsMove'
      BY <2>1 DEF FollowsMove, SameHands, SameState, CanFollowthroughRemoteMove
    <2>3. NothingInHandWaiting'
      BY <2>1 DEF NothingInHandWaiting, SameHands, SameState, SamePlaced, CanReceiveRemoteMove,
         Castling, EnPassant
    <2>4. HandsInv' BY <1>0, <2>1, <2>2, <2>3, QuietHands DEF KeepsFlags
    <2> QED BY <2>1, <2>4 DEF SameHands, SamePlaced, SameSpecial
  <1>2. CASE WinGame \/ LoseGame \/ GoToIdle \/ WinLocal(localPlayerTurn)
    <2>1. board'.fsm \in {"WON_GAME", "LOST_GAME", "NO_GAME", "LOCAL_WHITE_WIN", "LOCAL_BLACK_WIN"}
      BY <1>0, <1>2 DEF WinGame, LoseGame, GoToIdle, WinLocal, BoardRecord
    <2>2. ~Making' /\ ~CanFollowthroughRemoteMove' /\ ~CanReceiveRemoteMove'
      BY <2>1 DEF Making, CanMakeLocalMove, CanFollowthroughRemoteMove, CanReceiveRemoteMove
    <2>3. FollowsMove' /\ NothingInHandWaiting' BY <2>2 DEF FollowsMove, NothingInHandWaiting
    <2>4. HandsInv' BY <1>0, <2>2, <2>3, QuietHands DEF KeepsFlags
    <2> QED BY <2>2, <2>4
  <1> QED BY <1>1, <1>2

LEMMA RestingHands ==
  ASSUME IInv, HandsInv, UNCHANGED playVars, KeepsFlags, AtRest(board'), ~CanFollowthroughRemoteMove'
  PROVE  HandsInv'
  <1>1. NothingInHandWaiting'
    BY DEF NothingInHandWaiting, AtRest, Castling, EnPassant
  <1>2. FollowsMove' BY DEF FollowsMove
  <1> QED BY <1>1, <1>2, QuietHands DEF KeepsFlags, AtRest

\* The end of a download leaves no flag: HandsInv looks at nothing it measured.
LEMMA FinishHands ==
  ASSUME IInv, NEW d \in BoardRecord, d.invalidLifts = {}, d.invalidPlacements = {},
         Fresh(d), NEW turns, FinishDownload(d, turns)
  PROVE  HandsInv'
  <1>1. board' = d /\ event' = event /\ overtaken' = {} BY DEF FinishDownload
  <1>2. PICK changed \in SUBSET Cell : sensed' = (sensed \ changed) \cup (changed \ sensed)
    BY DEF FinishDownload, MeasureInitialMagnetValues
  <1>3. NONE \notin sensed' BY <1>2, NoneAssumption DEF IInv, TypeOK
  <1>4. \A placed : ~Pending(NONE, placed)'
    BY <1>1, NoneAssumption DEF IInv, TypeOK, Pending, Change
  <1>5. /\ board'.liftedPiece = NONE /\ board'.placedPiece = NONE
        /\ board'.invalidLifts = {} /\ board'.invalidPlacements = {}
    BY <1>1 DEF Fresh
  <1>6. FollowsMove'
    BY <1>1 DEF Fresh, FollowsMove, CanFollowthroughRemoteMove
  <1>7. NothingInHandWaiting'
    BY <1>1 DEF Fresh, AtRest, NothingInHandWaiting, CanReceiveRemoteMove, Castling, EnPassant
  <1> QED BY <1>3, <1>4, <1>5, <1>6, <1>7
          DEF HandsInv, HandsAreReal, HandSettled, PlacedSettled, EventSettled
-----------------------------------------------------------------------------
\* The steps and TurnsInv.  What the server does with a move: it is the other
\* side's turn, and only the player who moved can have won.
LEMMA AfterMoveGoes ==
  ASSUME NEW g \in Game, NEW m \in LegalMoves(g), NEW mate \in BOOLEAN
  PROVE  /\ AfterMove(g, m, mate).lastmove = m /\ Goes(m)
         /\ AfterMove(g, m, mate).turn = Other(g.turn)
         /\ AfterMove(g, m, mate).local = g.local
         /\ AfterMove(g, m, mate).status = "lost" => g.turn # "local"
  <1>1. m \in Moves["local"] \cup Moves["remote"] /\ m \in Move
    BY MovesAssumption DEF LegalMoves, Game, Side
  <1> QED BY <1>1, MovesAssumption DEF AfterMove, Goes

LEMMA SensorTurns ==
  ASSUME IInv, TurnsInv, Sensors
  PROVE  TurnsInv'
  <1> USE DEF TurnsInv, IInv
  <1>1. game' = game /\ pc' = pc BY DEF Sensors, Detect, Propagate, controlVars
  <1>2. GameMoves' BY <1>1 DEF GameMoves, LocalPlay
  <1>3. SameState \/ (CanFollowthroughRemoteMove /\ Completed)
    <2>1. ASSUME NEW c \in Cell, Detect(c) PROVE SameState
      BY <2>1 DEF Detect, SameState
    <2>2. CASE Propagate
      <3>1. event.cell \in Cell /\ board \in BoardRecord BY <2>2 DEF TypeOK, Propagate, Change
      <3> QED BY <2>2, <3>1, LiftEffect, PlaceEffect DEF Propagate
    <2> QED BY <2>1, <2>2 DEF Sensors
  <1>4. CASE SameState
    <2>1. Menus' /\ Sending'
      BY <1>1, <1>4 DEF Menus, Sending, SameState, CanReceiveRemoteMove, LocalPlay
    <2>2. TurnsAgree'
      BY <1>1, <1>4, SameMaking DEF TurnsAgree, SameState, LocalPlay
    <2> QED BY <1>2, <2>1, <2>2
  <1>5. CASE CanFollowthroughRemoteMove /\ Completed
    <2>1. pc \notin {"nogame", "download", "downloading", "reading"}
          /\ ~(pc = "sending" /\ ~LocalPlay)
      BY <1>5 DEF Menus, Sending, CanFollowthroughRemoteMove, CanReceiveRemoteMove
    <2>2. Menus' /\ Sending' BY <1>1, <2>1 DEF Menus, Sending, LocalPlay
    <2>3. TurnsAgree' BY <1>1, <1>5 DEF TurnsAgree, Completed, LocalPlay
    <2> QED BY <1>2, <2>2, <2>3
  <1> QED BY <1>3, <1>4, <1>5

\* What a step of the control thread or of the opponent must show.  Only a download
\* and ReceiveRemoteMove let the player move; the rest may not change the record of
\* the game under a player who moves.
LEMMA QuietTurns ==
  ASSUME TurnsInv, GameMoves', Menus', Sending',
         \/ ~Making'
         \/ LocalPlay'
         \/ SameState /\ (game' = game \/ ~Making)
  PROVE  TurnsInv'
  <1>1. CASE ~Making' BY <1>1 DEF TurnsInv, TurnsAgree, Making
  <1>2. CASE LocalPlay' BY <1>2 DEF TurnsInv, TurnsAgree
  <1>3. CASE SameState /\ (game' = game \/ ~Making)
    <2>1. CASE ~Making BY <1>3, <1>1, <2>1, SameMaking
    <2>2. CASE game' = game
      BY <1>3, <2>2, SameMaking DEF TurnsInv, TurnsAgree, SameState, LocalPlay
    <2> QED BY <1>3, <2>1, <2>2
  <1> QED BY <1>1, <1>2, <1>3

\* A download, in three ways of ending.
LEMMA DownloadPlay ==
  ASSUME PlayInv, UpdateFromServer \/ UpdateFails \/ UpdateAfterSensors
  PROVE  HandsInv' /\ TurnsInv'
  <1> USE DEF PlayInv, TurnsInv
  <1>1. /\ game \in Game /\ board \in BoardRecord /\ board.fsm = "NO_GAME" /\ game' = game
        /\ IInv
    BY DEF IInv, TypeOK, GameKnown, Menus, UpdateFromServer, UpdateFails, UpdateAfterSensors,
           FinishDownload, FinishWithTurn
  <1>2. GameMoves' BY <1>1 DEF GameMoves, LocalPlay
  <1>3. ASSUME NEW d \in {Downloaded, DownloadedLost, DownloadedWon, ResetByDownload},
               NEW turns, FinishDownload(d, turns)
        PROVE  HandsInv' /\ TurnsInv'
    <2>1. Fresh(d) /\ d \in BoardRecord /\ d.invalidLifts = {} /\ d.invalidPlacements = {}
      BY <1>1, DownloadedEffect, DownloadTypes
    <2>2. HandsInv' BY <1>1, <1>3, <2>1, FinishHands
    <2>3. board' = d /\ pc' \in {"ingame", "legal"} BY <1>3 DEF FinishDownload
    <2>4. Menus' /\ Sending' BY <2>3 DEF Menus, Sending
    <2>5. TurnsAgree'
      BY <1>1, <2>1, <2>3 DEF Fresh, TurnsAgree, CanMakeLocalMove, CanFollowthroughRemoteMove, LocalPlay
    <2> QED BY <1>2, <2>2, <2>4, <2>5
  <1>4. ASSUME FinishWithTurn PROVE HandsInv' /\ TurnsInv'
    BY <1>3, <1>4 DEF FinishWithTurn
  <1>5. CASE /\ pc' = "reading"
             /\ UNCHANGED <<board, playVars, game, localPlayerTurn, sent, submitted, legalReply>>
    <2>1. HandsInv' BY <1>1, <1>5, OthersHands
    <2>2. Menus' /\ Sending' BY <1>1, <1>5 DEF Menus, Sending
    <2>3. SameState BY <1>5 DEF SameState
    <2> QED BY <1>1, <1>2, <2>1, <2>2, <2>3, QuietTurns
  <1> QED BY <1>3, <1>4, <1>5 DEF UpdateFromServer, UpdateFails, UpdateAfterSensors

LEMMA ControlPlay == ASSUME PlayInv, Control PROVE HandsInv' /\ TurnsInv'
  <1> USE DEF PlayInv, TurnsInv
  <1>0. /\ IInv /\ HandsInv /\ board \in BoardRecord /\ (pc # "nogame" => game \in Game)
        /\ game \in Game \cup {NONE} /\ NONE \notin Game
    BY NoneIsNoGame DEF IInv, TypeOK, GameKnown
  <1>g. game' = game => GameMoves' BY DEF GameMoves, LocalPlay
  <1>s. UNCHANGED board => SameState BY DEF SameState
  <1>1. CASE StartGame
    <2>1. HandsInv' BY <1>0, <1>1, OthersHands DEF StartGame
    <2>2. Menus' /\ Sending' BY <1>1 DEF StartGame, Menus, Sending
    <2>3. GameMoves' BY <1>1 DEF StartGame, GameMoves, NewGame
    <2>4. ~Making' BY <1>1, <2>2 DEF StartGame, Menus, Making, CanMakeLocalMove, CanFollowthroughRemoteMove
    <2> QED BY <2>1, <2>2, <2>3, <2>4, QuietTurns
  <1>2. CASE DownloadCurrentGame
    <2>1. HandsInv' BY <1>0, <1>2, OthersHands DEF DownloadCurrentGame
    <2>2. Menus' /\ Sending' BY <1>2 DEF DownloadCurrentGame, Menus, Sending
    <2> QED BY <1>2, <1>g, <1>s, <2>1, <2>2, QuietTurns DEF DownloadCurrentGame
  <1>3. CASE UpdateFromServer \/ UpdateFails \/ UpdateAfterSensors
    BY <1>3, DownloadPlay
  <1>4. CASE LegalMovesArrive
    <2>1. legalReply' \in SUBSET Move
      BY <1>0, <1>4, LegalMovesType DEF LegalMovesArrive, IInv, TypeOK
    <2>2. HandsInv' BY <1>0, <1>4, <2>1, OthersHands DEF LegalMovesArrive
    <2>3. SameState BY <1>0, <1>4 DEF LegalMovesArrive, UpdateLegalMoves, SameState, BoardRecord
    <2>4. Menus' /\ Sending' BY <1>4 DEF LegalMovesArrive, Menus, Sending
    <2> QED BY <1>4, <1>g, <2>2, <2>3, <2>4, QuietTurns DEF LegalMovesArrive
  <1>5. CASE ChoosePromotion
    <2>1. HandsInv' BY <1>0, <1>5, OthersHands DEF ChoosePromotion
    <2>2. SameState BY <1>0, <1>5 DEF ChoosePromotion, SetPromotionType, SameState, BoardRecord
    <2>3. Menus' /\ Sending' BY <1>5 DEF ChoosePromotion, Menus, Sending, controlVars
    <2> QED BY <1>5, <1>g, <2>1, <2>2, <2>3, QuietTurns DEF ChoosePromotion
  <1>6. CASE SubmitMove
    <2>1. /\ AtRest(board')
          /\ board'.fsm = IF LocalPlay THEN "AWAITING_LOCAL_MOVE" ELSE "AWAITING_REMOTE_MOVE_NOTICE"
      BY <1>0, <1>6, SubmitEffect DEF SubmitMove
    <2>2. KeepsFlags /\ UNCHANGED playVars BY <1>0, <1>6, SubmitKeepsFlags DEF SubmitMove
    <2>3. ~CanFollowthroughRemoteMove' BY <2>1 DEF CanFollowthroughRemoteMove
    <2>4. HandsInv' BY <1>0, <2>1, <2>2, <2>3, RestingHands
    <2>5. game' = game /\ LocalPlay' = LocalPlay /\ pc' = "sending"
      BY <1>6 DEF SubmitMove, LocalPlay
    <2>6. Menus' /\ Sending' BY <2>1, <2>5 DEF Menus, Sending, CanReceiveRemoteMove
    <2>7. ~Making' \/ LocalPlay'
      BY <2>1, <2>5 DEF Making, CanMakeLocalMove, CanFollowthroughRemoteMove
    <2> QED BY <1>g, <2>4, <2>5, <2>6, <2>7, QuietTurns
  <1>7. CASE MakeMove
    <2>1. HandsInv' BY <1>0, <1>7, OthersHands DEF MakeMove
    <2>2. game \in Game /\ game # NONE BY <1>0, <1>7 DEF MakeMove
    <2>3. GameMoves' /\ LocalPlay' = LocalPlay
      <3>1. ASSUME NEW m \in LegalMoves(game), NEW mate \in BOOLEAN, game' = AfterMove(game, m, mate)
            PROVE  GameMoves' /\ LocalPlay' = LocalPlay
        BY <2>2, <3>1, AfterMoveGoes DEF GameMoves, LocalPlay, Other, Game, Side
      <3> QED BY <1>7, <1>g, <3>1 DEF MakeMove, LocalPlay
    <2>4. Menus' /\ Sending' BY <1>7 DEF MakeMove, Menus, Sending
    <2>5. LocalPlay' \/ ~Making'
      BY <1>7, <2>3 DEF MakeMove, Sending, Making, CanReceiveRemoteMove, CanMakeLocalMove,
                        CanFollowthroughRemoteMove
    <2> QED BY <2>1, <2>3, <2>4, <2>5, QuietTurns
  <1>8. CASE AfterLocalMove
    <2>1. /\ HandsInv'
          /\ SameState \/ ~Making'
      BY <1>0, <1>8, OthersHands DEF AfterLocalMove, Making, CanMakeLocalMove,
         CanFollowthroughRemoteMove
    <2>2. Menus' /\ Sending' BY <1>8 DEF AfterLocalMove, Menus, Sending
    <2> QED BY <1>8, <1>g, <2>1, <2>2, QuietTurns DEF AfterLocalMove
  <1>9. CASE AwaitTurn
    <2>1. game \in Game /\ game' = game /\ game # NONE BY <1>0, <1>9 DEF AwaitTurn
    <2> DEFINE m == IF game.lastmove = NONE THEN NoPreviousMove ELSE game.lastmove
    <2>2. m \in Move \cup {NoPreviousMove} /\ Goes(m) /\ m \in {game.lastmove, NoPreviousMove}
      BY <2>1 DEF Game, GameMoves, Goes
    <2>3. ASSUME ReceiveRemoteMove(m), game.status \in {"ongoing", "lost"},
                 game.status = "ongoing" => game.turn = "local", pc' \in {"legal", "mated"}
          PROVE  HandsInv' /\ TurnsInv'
      <3>1. /\ board'.fsm = "AWAITING_REMOTE_MOVE_FOLLOWTHROUGH" /\ board'.lastRemoteMove = m
            /\ board'.liftedPiece = board.liftedPiece /\ board'.placedPiece = board.placedPiece
            /\ KeepsFlags
        <4> HIDE DEF m
        <4> QED BY <1>0, <2>2, <2>3, ReceiveEffect, ReceiveKeepsFlags
      <3>2. board.liftedPiece = NONE /\ board.placedPiece = NONE
        BY <1>9 DEF AwaitTurn, HandsInv, NothingInHandWaiting
      <3>3. FollowsMove' /\ NothingInHandWaiting'
        <4> HIDE DEF m
        <4> QED BY <2>2, <3>1, <3>2 DEF FollowsMove, NothingInHandWaiting, CanReceiveRemoteMove
      <3>4. HandsInv' BY <1>0, <1>9, <3>1, <3>2, <3>3, QuietHands DEF KeepsFlags, AwaitTurn
      <3>5. Menus' /\ Sending' BY <2>3 DEF Menus, Sending
      <3>6. LocalPlay \/ game.turn = "local" BY <2>1, <2>3 DEF GameMoves
      <3>7. TurnsAgree'
        <4> HIDE DEF m
        <4> QED BY <2>1, <2>2, <3>1, <3>6 DEF TurnsAgree, LocalPlay
      <3> QED BY <1>g, <2>1, <3>4, <3>5, <3>7
    <2>4. CASE WinGame /\ UNCHANGED pc
      <3>1. HandsInv' BY <1>0, <1>9, <2>4, OthersHands DEF AwaitTurn
      <3>2. Menus' /\ Sending' BY <1>9, <2>4 DEF AwaitTurn, Menus, Sending
      <3>3. ~Making' BY <1>0, <2>4 DEF WinGame, Making, CanMakeLocalMove, CanFollowthroughRemoteMove, BoardRecord
      <3> QED BY <1>g, <2>1, <3>1, <3>2, <3>3, QuietTurns
    <2> QED BY <1>9, <2>3, <2>4 DEF AwaitTurn
  <1>10. CASE NoteCheckmate
    <2>1. HandsInv' BY <1>0, <1>10, OthersHands DEF NoteCheckmate
    <2>2. SameState BY <1>0, <1>10 DEF NoteCheckmate, SetUpcomingCheckmate, SameState, BoardRecord
    <2>3. Menus' /\ Sending' BY <1>10 DEF NoteCheckmate, Menus, Sending
    <2> QED BY <1>10, <1>g, <2>1, <2>2, <2>3, QuietTurns DEF NoteCheckmate
  <1>11. CASE Resign
    <2>1. HandsInv' BY <1>0, <1>11, OthersHands DEF Resign
    <2>2. game \in Game /\ game # NONE BY <1>0, <1>11 DEF Resign
    <2>3. GameMoves' BY <1>11, <2>2 DEF Resign, GameMoves, Game, LocalPlay
    <2>4. Menus' /\ Sending' BY <1>11 DEF Resign, Menus, Sending, controlVars
    <2>5. ~Making' BY <1>0, <1>11 DEF Resign, LoseGame, Making, CanMakeLocalMove, CanFollowthroughRemoteMove, BoardRecord
    <2> QED BY <2>1, <2>3, <2>4, <2>5, QuietTurns
  <1>12. CASE Continue
    <2>1. HandsInv' BY <1>0, <1>12, OthersHands DEF Continue
    <2>2. board'.fsm = "NO_GAME" BY <1>0, <1>12 DEF Continue, GoToIdle, BoardRecord
    <2>3. Menus' /\ Sending' BY <1>12, <2>2 DEF Continue, Menus, Sending
    <2>4. GameMoves' BY <1>12 DEF Continue, GameMoves, LocalPlay
    <2>5. ~Making' BY <2>2 DEF Making, CanMakeLocalMove, CanFollowthroughRemoteMove
    <2> QED BY <2>1, <2>3, <2>4, <2>5, QuietTurns
  <1> QED BY <1>1, <1>2, <1>3, <1>4, <1>5, <1>6, <1>7, <1>8, <1>9, <1>10, <1>11, <1>12
          DEF Control
-----------------------------------------------------------------------------
LEMMA OpponentPlay == ASSUME PlayInv, OpponentMoves PROVE HandsInv' /\ TurnsInv'
  <1> USE DEF PlayInv, TurnsInv
  <1>0. game # NONE /\ game \in Game /\ ~LocalPlay /\ game.turn = "remote"
    BY DEF IInv, TypeOK, OpponentMoves
  <1>1. HandsInv' BY OthersHands DEF OpponentMoves
  <1>2. GameMoves' /\ LocalPlay' = LocalPlay
    <2>1. ASSUME NEW m \in LegalMoves(game), NEW mate \in BOOLEAN, game' = AfterMove(game, m, mate)
          PROVE  GameMoves' /\ LocalPlay' = LocalPlay
      BY <1>0, <2>1, AfterMoveGoes DEF GameMoves, LocalPlay, Other, Game, Side
    <2>2. CASE game' = [game EXCEPT !.status = "resigned"]
      BY <1>0, <2>2 DEF GameMoves, Game, LocalPlay
    <2> QED BY <2>1, <2>2 DEF OpponentMoves
  <1>3. SameState /\ pc' = pc BY DEF OpponentMoves, SameState, controlVars
  <1>4. Menus' /\ Sending'
    BY <1>2, <1>3 DEF Menus, Sending, SameState, CanReceiveRemoteMove
  <1>5. ~Making BY <1>0 DEF TurnsAgree, Making
  <1> QED BY <1>1, <1>2, <1>3, <1>4, <1>5, QuietTurns

\* A board that has just been switched on has nothing in hand and no game.
LEMMA SwitchedOnPlay ==
  ASSUME IInv', board' = SwitchedOn, event' = NONE, GameMoves', pc' # "sending"
  PROVE  HandsInv' /\ TurnsInv'
  <1>1. board'.fsm = "NO_GAME" BY DEF SwitchedOn
  <1>2. /\ ~CanMakeLocalMove' /\ ~CanFollowthroughRemoteMove' /\ ~CanReceiveRemoteMove' /\ ~Making'
    BY <1>1 DEF Making, CanMakeLocalMove, CanFollowthroughRemoteMove, CanReceiveRemoteMove
  <1> QED BY <1>1, <1>2 DEF HandsInv, TurnsInv, HandsAreReal, NothingInHandWaiting, HandSettled,
       PlacedSettled, EventSettled, Pending, FollowsMove, Menus, Sending, TurnsAgree, Making

LEMMA InitPlay == Init => PlayInv
  <1> SUFFICES ASSUME Init PROVE PlayInv OBVIOUS
  <1>1. IInv BY InitIInv
  <1>2. board.fsm = "NO_GAME" BY DEF Init, SwitchedOn
  <1>3. ~CanMakeLocalMove /\ ~CanFollowthroughRemoteMove /\ ~CanReceiveRemoteMove /\ ~Making
    BY <1>2 DEF Making, CanMakeLocalMove, CanFollowthroughRemoteMove, CanReceiveRemoteMove
  <1>4. event = NONE /\ game = NONE /\ pc = "nogame" BY DEF Init
  <1>5. HandsInv
    BY <1>3, <1>4 DEF HandsInv, HandsAreReal, NothingInHandWaiting, HandSettled, PlacedSettled,
       EventSettled, Pending, FollowsMove
  <1>6. TurnsInv BY <1>2, <1>3, <1>4 DEF TurnsInv, GameMoves, Menus, Sending, TurnsAgree
  <1> QED BY <1>1, <1>5, <1>6 DEF PlayInv

LEMMA StepPlay == PlayInv /\ [Next]_vars => PlayInv'
  <1> SUFFICES ASSUME PlayInv, [Next]_vars PROVE PlayInv' OBVIOUS
  <1> USE DEF PlayInv
  <1>1. IInv' BY StepIInv
  <1>2. CASE Sensors
    <2>1. ASSUME NEW c \in Cell, Detect(c) PROVE HandsInv' BY <2>1, DetectHands
    <2>2. HandsInv' BY <1>2, <2>1, LiftHands, PlaceHands DEF Sensors
    <2> QED BY <1>1, <1>2, <2>2, SensorTurns
  <1>3. CASE Control BY <1>1, <1>3, ControlPlay
  <1>4. CASE OpponentMoves BY <1>1, <1>4, OpponentPlay
  <1>5. CASE PowerCycle
    <2>1. GameMoves' BY <1>5 DEF PowerCycle, GameMoves, TurnsInv, LocalPlay
    <2>2. pc' # "sending" BY <1>5 DEF PowerCycle
    <2>3. board' = SwitchedOn /\ event' = NONE BY <1>5 DEF PowerCycle
    <2> QED BY <1>1, <2>1, <2>2, <2>3, SwitchedOnPlay
  <1>6. CASE UNCHANGED vars
    <2>1. /\ UNCHANGED board /\ UNCHANGED playVars /\ game' = game /\ pc' = pc
      BY <1>6 DEF vars, controlVars
    <2>2. HandsInv' BY <2>1, OthersHands
    <2>3. GameMoves' /\ Menus' /\ Sending' /\ SameState
      BY <2>1 DEF TurnsInv, GameMoves, Menus, Sending, SameState, LocalPlay, CanReceiveRemoteMove
    <2>4. TurnsInv' BY <2>1, <2>3, QuietTurns
    <2> QED BY <1>1, <2>2, <2>4
  <1> QED BY <1>2, <1>3, <1>4, <1>5, <1>6 DEF Next

LEMMA AlwaysPlayInv == Spec => []PlayInv
  BY InitPlay, StepPlay, PTL DEF Spec
-----------------------------------------------------------------------------
(***************************************************************************)
(* Whatever the squares, the moves and the player, the piece in hand is off*)
(* its square while a move is made and the one put down is on its own, but *)
(* for squares whose change has not reached the board, or reached it after *)
(* a download measured them again (LiftPiece and PlacePiece, ChessBoard.cpp*)
(* 17-221).                                                                *)
(***************************************************************************)
THEOREM HandsAlwaysReal == Spec => []HandsAreReal
  <1>1. PlayInv => HandsAreReal BY DEF PlayInv, HandsInv
  <1> QED BY <1>1, AlwaysPlayInv, PTL

(***************************************************************************)
(* So a move can be submitted only when its piece has left its square and, *)
(* unless it promotes, its target is taken, for any squares, moves, lost   *)
(* requests and hurried players (ChessBoard.cpp 505-512).  Of the rook of a*)
(* castle and of a pawn taken in passing, SubmittableAlwaysMade below.     *)
(***************************************************************************)
THEOREM SubmittedPieceMoved == Spec => [](IsPotentialLocalMoveValid => PieceMoved)
  <1>1. HandsAreReal => (IsPotentialLocalMoveValid => PieceMoved)
    BY DEF HandsAreReal, IsPotentialLocalMoveValid, PieceMoved, HandsFull, Empty, Taken
  <1> QED BY <1>1, HandsAlwaysReal, PTL

(***************************************************************************)
(* Whatever the squares, the moves and the player, nothing is in hand and  *)
(* no special move is under way when the board waits for the opponent,     *)
(* which ReceiveRemoteMove counts on (ChessBoard.cpp 548-561).             *)
(***************************************************************************)
THEOREM NothingEverInHandWaiting == Spec => []NothingInHandWaiting
  <1>1. PlayInv => NothingInHandWaiting BY DEF PlayInv, HandsInv
  <1> QED BY <1>1, AlwaysPlayInv, PTL

(***************************************************************************)
(* Whatever the squares, the moves, the requests that are lost and the use *)
(* of the switch, the board lets a player move, or follow a remote move,   *)
(* only when the server awaits this board, and the remote move it knows is *)
(* the server's last (ChessBoard.cpp 382-413, 497, 543-574).               *)
(***************************************************************************)
THEOREM TurnsAlwaysAgree == Spec => []TurnsAgree
  <1>1. PlayInv => TurnsAgree BY DEF PlayInv, TurnsInv
  <1> QED BY <1>1, AlwaysPlayInv, PTL
-----------------------------------------------------------------------------
\* What completes a remote move.  A castle or a capture in passing that is being
\* followed is the one of the last remote move; once its first piece has been put
\* on its target, the target is taken or flagged.
FollowInv ==
  CanFollowthroughRemoteMove =>
    LET m == board.lastRemoteMove
    IN  /\ board.currentRookCastleMove \in {NONE, m.rook}
        /\ EnPassant => m.moveType = "EN_PASSANT"
        /\ (Castling \/ EnPassant) /\ board.placedPiece # NONE =>
             /\ m.to \in sensed \cup board.invalidLifts \cup Unsettled
             /\ m.to \in board.invalidPlacements => m.to \in overtaken
             /\ Pending(m.to, TRUE) => m.to \in board.invalidLifts \cup overtaken

LEMMA LiftFollowSpecial ==
  ASSUME board \in BoardRecord, NEW c \in Cell, LiftInFollowthrough(c)
  PROVE  \/ /\ board' = CompleteRemoteMoveFollowthrough(board)
            /\ HandsFull /\ (Castling \/ EnPassant)
         \/ /\ SameSpecial /\ board'.fsm = board.fsm
            /\ board'.placedPiece = board.placedPiece
            /\ /\ c = board.lastRemoteMove.to /\ c # board.lastRemoteMove.from
               /\ ~board.lastRemoteMove.isAttackingMove /\ (Castling \/ EnPassant)
               /\ Castling => c \notin {board.currentRookCastleMove.from, board.currentRookCastleMove.to}
               => c \in board'.invalidLifts
  <1>1. CASE /\ board' = CompleteRemoteMoveFollowthrough(board)
             /\ HandsFull /\ ~Castling /\ EnPassant
    BY <1>1
  <1>2. CASE FlagLift(c)
    BY <1>2 DEF FlagLift, SameSpecial, BoardRecord
  <1>3. CASE c = board.lastRemoteMove.from /\ board' = [board EXCEPT !.liftedPiece = c]
    BY <1>3 DEF SameSpecial, BoardRecord
  <1>4. CASE /\ c = board.lastRemoteMove.to /\ board.lastRemoteMove.isAttackingMove
             /\ board' = [board EXCEPT !.attackedPiece = c]
    BY <1>4 DEF SameSpecial, BoardRecord
  <1>5. CASE Castling /\ LiftWhileCastling(c)
    <2>1. CASE /\ c \in {board.currentRookCastleMove.from, board.currentRookCastleMove.to}
               /\ \/ board' = [board EXCEPT !.liftedCastle = TRUE]
                  \/ board' = [board EXCEPT !.placedCastle = FALSE]
      BY <1>5, <2>1 DEF SameSpecial, BoardRecord
    <2> QED BY <1>2, <1>5, <2>1 DEF LiftWhileCastling
  <1>6. CASE ~Castling /\ ~EnPassant /\ (LiftToPromote(c) \/ UNCHANGED board)
    <2>1. CASE board' = [board EXCEPT !.liftedPromotion = TRUE] \/ UNCHANGED board
      BY <1>6, <2>1 DEF SameSpecial, BoardRecord
    <2> QED BY <1>2, <1>6, <2>1 DEF LiftToPromote
  <1> QED BY <1>1, <1>2, <1>3, <1>4, <1>5, <1>6 DEF LiftInFollowthrough

LEMMA PlaceFollowSpecial ==
  ASSUME board \in BoardRecord, NEW c \in Cell, PlaceInFollowthrough(c)
  PROVE  \/ /\ board' = CompleteRemoteMoveFollowthrough(board) /\ board.liftedPiece # NONE
            /\ c = board.lastRemoteMove.to \/ (HandsFull /\ Castling)
         \/ /\ SameSpecial /\ board'.fsm = board.fsm
            /\ \/ board'.placedPiece = board.placedPiece
               \/ c = board.lastRemoteMove.to /\ board'.invalidPlacements = board.invalidPlacements
  <1>1. CASE /\ board' = CompleteRemoteMoveFollowthrough(board) /\ board.liftedPiece # NONE
             /\ c = board.lastRemoteMove.to \/ (HandsFull /\ Castling)
    BY <1>1
  <1>2. CASE \/ FlagPlacement(c) \/ PutBack \/ UNCHANGED board
             \/ board' = [board EXCEPT !.liftedCastle = FALSE]
             \/ board' = [board EXCEPT !.attackedPiece = NONE]
    <2>1. CASE FlagPlacement(c) \/ PutBack \/ UNCHANGED board
      BY <2>1 DEF FlagPlacement, PutBack, SameSpecial, BoardRecord
    <2>2. CASE \/ board' = [board EXCEPT !.liftedCastle = FALSE]
               \/ board' = [board EXCEPT !.attackedPiece = NONE]
      BY <2>2 DEF SameSpecial, BoardRecord
    <2> QED BY <1>2, <2>1, <2>2
  <1>3. CASE c = board.lastRemoteMove.to /\ board.liftedPiece # NONE /\ PlaceOnTarget(c)
    <2> DEFINE promotes == board.isPerformingPromotion \/ board.lastRemoteMove.moveType = "PROMOTION"
    <2>1. CASE board' = [board EXCEPT !.placedPiece = c, !.isPerformingPromotion = promotes]
      <3> HIDE DEF promotes
      <3> QED BY <1>3, <2>1 DEF SameSpecial, BoardRecord
    <2> QED BY <1>1, <1>3, <2>1 DEF PlaceOnTarget
  <1>4. CASE c = board.lastRemoteMove.to /\ PlaceAtTarget(c)
    BY <1>1, <1>2, <1>3, <1>4 DEF PlaceAtTarget, HandsFull
  <1> QED BY <1>1, <1>2, <1>4 DEF PlaceInFollowthrough, HandsFull

\* What FollowedThrough says of a step.
FollowedStep ==
  CanFollowthroughRemoteMove /\ board'.fsm \in {"AWAITING_LOCAL_MOVE", "LOST_GAME"} =>
    /\ board.lastRemoteMove.from \notin sensed' \ Unsettled
    /\ board.lastRemoteMove.to \in sensed' \cup board'.invalidLifts \cup Unsettled

LEMMA SameFollow ==
  ASSUME SameState
  PROVE  /\ CanFollowthroughRemoteMove' <=> CanFollowthroughRemoteMove
         /\ FollowedStep
         /\ SameSpecial => (Castling' <=> Castling) /\ (EnPassant' <=> EnPassant)
  BY DEF SameState, FollowedStep, CanFollowthroughRemoteMove, SameSpecial, Castling, EnPassant

LEMMA CompletedFollow ==
  ASSUME board \in BoardRecord, board' = CompleteRemoteMoveFollowthrough(board)
  PROVE  FollowInv' /\ board'.invalidLifts = board.invalidLifts
  BY CompleteEffect, CompleteTypes DEF Completed, FollowInv, CanFollowthroughRemoteMove

LEMMA DetectFollow ==
  ASSUME PlayInv, FollowInv, NEW c \in Cell, Detect(c)
  PROVE  FollowInv' /\ FollowedStep
  <1>1. board' = board /\ overtaken' = overtaken /\ event = NONE BY DEF Detect
  <1>2. event' = [cell |-> c, placed |-> c \notin sensed] /\ event' # NONE
    <2>1. event' \in Change /\ event' = [cell |-> c, placed |-> c \notin sensed]
      BY DEF Detect, Change
    <2> QED BY <2>1, NoneIsNoChange
  <1>3. /\ Unsettled = overtaken /\ Unsettled' = overtaken \cup {c}
        /\ \A d : Pending(d, TRUE)' <=> d = c /\ c \notin sensed
    BY <1>1, <1>2 DEF Unsettled, Pending
  <1>4. sensed' = Toggled(sensed, c) BY DEF Detect
  <1>5. SameState /\ SameSpecial BY <1>1 DEF SameState, SameSpecial
  <1> QED BY <1>1, <1>3, <1>4, <1>5, SameFollow DEF FollowInv, Toggled

LEMMA LiftFollow ==
  ASSUME PlayInv, FollowInv, Propagate, ~event.placed
  PROVE  FollowInv' /\ FollowedStep
  <1> USE DEF PlayInv, HandsInv
  <1> DEFINE c == event.cell
             m == board.lastRemoteMove
  <1>1. /\ c \in Cell /\ board \in BoardRecord /\ LiftPiece(c)
        /\ event' = NONE /\ sensed' = sensed
    BY DEF IInv, TypeOK, Propagate, Change
  <1>2. /\ overtaken \subseteq overtaken' /\ (c \in sensed => c \in overtaken')
        /\ Unsettled = overtaken \cup {c} /\ Unsettled' = overtaken'
    BY <1>1 DEF Propagate, Unsettled, IInv, TypeOK, Change
  <1> HIDE DEF c
  <1>3. /\ board'.invalidPlacements \subseteq board.invalidPlacements
        /\ \/ board'.invalidLifts = board.invalidLifts
           \/ board'.invalidLifts = board.invalidLifts \cup {c}
    BY <1>1, LiftIInv DEF Changes
  <1>4. \A d : ~Pending(d, TRUE)' BY <1>1 DEF Pending
  <1>5. CASE ~CanFollowthroughRemoteMove
    <2>1. SameState BY <1>1, <1>5, LiftEffect
    <2> QED BY <1>5, <2>1, SameFollow DEF FollowInv
  <1>6. ASSUME CanFollowthroughRemoteMove, SameState, SameSpecial,
               board'.placedPiece = board.placedPiece,
               /\ c = m.to /\ (Castling \/ EnPassant) /\ board.placedPiece # NONE
                 => c \in board'.invalidLifts \/ c \in overtaken
        PROVE  FollowInv' /\ FollowedStep
    <2>1. /\ CanFollowthroughRemoteMove' /\ board'.lastRemoteMove = m
          /\ (Castling' <=> Castling) /\ (EnPassant' <=> EnPassant)
      BY <1>6, SameFollow DEF SameState
    <2>2. (Castling \/ EnPassant) /\ board.placedPiece # NONE
            => m.to \in sensed \cup board'.invalidLifts \cup overtaken'
      <3>1. CASE m.to = c BY <1>2, <1>6, <3>1
      <3>2. CASE m.to # c BY <1>2, <1>3, <1>6, <3>2 DEF FollowInv
      <3> QED BY <3>1, <3>2
    <2> QED BY <1>1, <1>2, <1>3, <1>4, <1>6, <2>1, <2>2, SameFollow DEF FollowInv, SameSpecial
  <1>7. CASE CanFollowthroughRemoteMove /\ c \in board.invalidPlacements
             /\ board' = [board EXCEPT !.invalidPlacements = @ \ {c}]
    <2>1. SameState /\ SameSpecial /\ board'.placedPiece = board.placedPiece
      BY <1>1, <1>7 DEF SameState, SameSpecial, BoardRecord
    <2> QED BY <1>6, <1>7, <2>1 DEF FollowInv
  <1>8. CASE CanFollowthroughRemoteMove /\ LiftInFollowthrough(c)
    <2>1. CASE board' = CompleteRemoteMoveFollowthrough(board) /\ HandsFull /\ (Castling \/ EnPassant)
      <3>1. board.liftedPiece = m.from /\ board.placedPiece # NONE
        BY <1>8, <2>1 DEF HandsFull, FollowsMove
      <3>2. m.from \notin sensed \ Unsettled BY <1>8, <3>1 DEF HandsAreReal
      <3>3. m.to \in sensed \cup board.invalidLifts \cup Unsettled
        BY <1>8, <2>1, <3>1 DEF FollowInv
      <3> QED BY <1>1, <2>1, <3>2, <3>3, CompletedFollow DEF FollowedStep
    <2>2. CASE /\ SameSpecial /\ board'.fsm = board.fsm
               /\ board'.placedPiece = board.placedPiece
               /\ /\ c = m.to /\ c # m.from
                  /\ ~m.isAttackingMove /\ (Castling \/ EnPassant)
                  /\ Castling => c \notin {board.currentRookCastleMove.from, board.currentRookCastleMove.to}
                  => c \in board'.invalidLifts
      <3>1. SameState
        <4>1. ~Completed BY <1>8, <2>2 DEF Completed, CanFollowthroughRemoteMove
        <4> QED BY <1>1, <4>1, LiftEffect
      <3>2. ASSUME c = m.to, Castling \/ EnPassant PROVE c \in board'.invalidLifts
        <4>1. m # NoPreviousMove
          BY <1>1, <3>2, NoneAssumption DEF NoPreviousMove
        <4>2. /\ c # m.from
              /\ m.rook # NONE => ~m.isAttackingMove /\ c \notin {m.rook.from, m.rook.to}
              /\ m.moveType = "EN_PASSANT" => ~m.isAttackingMove
          BY <1>8, <3>2, <4>1 DEF FollowsMove, Goes
        <4>3. /\ Castling => m.rook # NONE /\ board.currentRookCastleMove = m.rook
              /\ EnPassant => m.moveType = "EN_PASSANT"
          BY <1>8 DEF FollowInv, Castling
        <4> QED BY <2>2, <3>2, <4>2, <4>3
      <3> QED BY <1>6, <1>8, <2>2, <3>1, <3>2
    <2> QED BY <1>1, <1>8, <2>1, <2>2, LiftFollowSpecial
  <1> QED BY <1>1, <1>5, <1>7, <1>8 DEF LiftPiece, CanMakeLocalMove, CanFollowthroughRemoteMove

LEMMA PlaceFollow ==
  ASSUME PlayInv, FollowInv, Propagate, event.placed
  PROVE  FollowInv' /\ FollowedStep
  <1> USE DEF PlayInv, HandsInv
  <1> DEFINE c == event.cell
             m == board.lastRemoteMove
  <1>1. /\ c \in Cell /\ board \in BoardRecord /\ PlacePiece(c)
        /\ event' = NONE /\ sensed' = sensed /\ Pending(c, TRUE)
    BY DEF IInv, TypeOK, Propagate, Change, Pending
  <1>2. /\ overtaken \subseteq overtaken' /\ (c \in sensed \/ c \in overtaken')
        /\ Unsettled = overtaken \cup {c} /\ Unsettled' = overtaken'
    BY <1>1 DEF Propagate, Unsettled, IInv, TypeOK, Change
  <1> HIDE DEF c
  <1>3. \/ /\ c \in board.invalidLifts
           /\ board'.invalidLifts = board.invalidLifts \ {c}
           /\ board'.invalidPlacements = board.invalidPlacements
        \/ /\ c \notin board.invalidLifts /\ board'.invalidLifts = board.invalidLifts
           /\ board'.invalidPlacements \in {board.invalidPlacements, board.invalidPlacements \cup {c}}
    BY <1>1, PlaceIInv DEF Changes
  <1>4. \A d : ~Pending(d, TRUE)' BY <1>1 DEF Pending
  <1>5. CASE ~CanFollowthroughRemoteMove
    <2>1. SameState BY <1>1, <1>5, PlaceEffect
    <2> QED BY <1>5, <2>1, SameFollow DEF FollowInv
  <1>6. ASSUME CanFollowthroughRemoteMove, SameState, SameSpecial,
               \/ board'.placedPiece = board.placedPiece
               \/ c = m.to /\ board'.invalidPlacements = board.invalidPlacements
        PROVE  FollowInv' /\ FollowedStep
    <2>1. /\ CanFollowthroughRemoteMove' /\ board'.lastRemoteMove = m
          /\ (Castling' <=> Castling) /\ (EnPassant' <=> EnPassant)
      BY <1>6, SameFollow DEF SameState
    <2>2. (Castling \/ EnPassant) /\ board'.placedPiece # NONE =>
            /\ m.to \in sensed \cup board'.invalidLifts \cup overtaken'
            /\ m.to \in board'.invalidPlacements => m.to \in overtaken'
      <3>1. CASE m.to = c
        <4>1. c \in board.invalidPlacements => c \in overtaken BY <1>1 DEF EventSettled
        <4>2. CASE board'.invalidPlacements = board.invalidPlacements
          BY <1>2, <3>1, <4>1, <4>2
        <4>3. CASE /\ c \notin board.invalidLifts
                   /\ board'.placedPiece = board.placedPiece
          BY <1>1, <1>2, <1>6, <3>1, <4>3 DEF FollowInv
        <4> QED BY <1>3, <1>6, <4>2, <4>3
      <3>2. CASE m.to # c
        <4>1. board'.placedPiece = board.placedPiece BY <1>6, <3>2
        <4>2. /\ m.to \in board.invalidLifts => m.to \in board'.invalidLifts
              /\ m.to \in board'.invalidPlacements => m.to \in board.invalidPlacements
          BY <1>3, <3>2
        <4> QED BY <1>2, <1>6, <3>2, <4>1, <4>2 DEF FollowInv
      <3> QED BY <3>1, <3>2
    <2> QED BY <1>1, <1>2, <1>4, <1>6, <2>1, <2>2, SameFollow DEF FollowInv, SameSpecial
  <1>7. CASE CanFollowthroughRemoteMove /\ c \in board.invalidLifts
             /\ board' = [board EXCEPT !.invalidLifts = @ \ {c}]
    <2>1. SameState /\ SameSpecial /\ board'.placedPiece = board.placedPiece
      BY <1>1, <1>7 DEF SameState, SameSpecial, BoardRecord
    <2> QED BY <1>6, <1>7, <2>1
  <1>8. CASE CanFollowthroughRemoteMove /\ PlaceInFollowthrough(c)
    <2>1. CASE /\ board' = CompleteRemoteMoveFollowthrough(board) /\ board.liftedPiece # NONE
               /\ c = m.to \/ (HandsFull /\ Castling)
      <3>1. board.liftedPiece = m.from BY <1>8, <2>1 DEF FollowsMove
      <3>2. m.from \notin sensed \ Unsettled BY <1>8, <3>1 DEF HandsAreReal
      <3>3. m.to \in sensed \cup board.invalidLifts \cup Unsettled
        BY <1>2, <1>8, <2>1 DEF FollowInv, HandsFull
      <3> QED BY <1>1, <2>1, <3>2, <3>3, CompletedFollow DEF FollowedStep
    <2>2. CASE /\ SameSpecial /\ board'.fsm = board.fsm
               /\ \/ board'.placedPiece = board.placedPiece
                  \/ c = m.to /\ board'.invalidPlacements = board.invalidPlacements
      <3>1. ~Completed BY <1>8, <2>2 DEF Completed, CanFollowthroughRemoteMove
      <3>2. SameState BY <1>1, <3>1, PlaceEffect
      <3> QED BY <1>6, <1>8, <2>2, <3>2
    <2> QED BY <1>1, <1>8, <2>1, <2>2, PlaceFollowSpecial
  <1> QED BY <1>1, <1>5, <1>7, <1>8 DEF PlacePiece, CanMakeLocalMove, CanFollowthroughRemoteMove

\* The steps of the control thread complete nothing; they begin a remote move or
\* leave its members alone.
LEMMA QuietFollow ==
  ASSUME PlayInv, FollowInv, UNCHANGED playVars, KeepsFlags,
         \/ SameState /\ SameSpecial /\ board'.placedPiece = board.placedPiece
         \/ ~CanFollowthroughRemoteMove'
  PROVE  FollowInv'
  <1>1. CASE ~CanFollowthroughRemoteMove' BY <1>1 DEF FollowInv
  <1>2. CASE SameState /\ SameSpecial /\ board'.placedPiece = board.placedPiece
    <2>1. Unsettled' = Unsettled /\ \A c : Pending(c, TRUE)' <=> Pending(c, TRUE)
      BY DEF playVars, Unsettled, Pending
    <2> QED BY <1>2, <2>1, SameFollow DEF FollowInv, SameState, SameSpecial, KeepsFlags, playVars
  <1> QED BY <1>1, <1>2

LEMMA DownloadFollow ==
  ASSUME PlayInv, FollowInv, UpdateFromServer \/ UpdateFails \/ UpdateAfterSensors
  PROVE  FollowInv' /\ FollowedStep
  <1> USE DEF PlayInv, TurnsInv
  <1>1. /\ game \in Game /\ board \in BoardRecord /\ board.fsm = "NO_GAME"
    BY DEF IInv, TypeOK, GameKnown, Menus, UpdateFromServer, UpdateFails, UpdateAfterSensors
  <1>2. FollowedStep BY <1>1 DEF FollowedStep, CanFollowthroughRemoteMove
  <1>3. ASSUME NEW d \in {Downloaded, DownloadedLost, DownloadedWon, ResetByDownload},
               NEW turns, FinishDownload(d, turns)
        PROVE  FollowInv'
    <2>1. Fresh(d) BY <1>1, DownloadedEffect
    <2>2. board' = d BY <1>3 DEF FinishDownload
    <2> QED BY <2>1, <2>2 DEF Fresh, Begun, FollowInv, CanFollowthroughRemoteMove, EnPassant
  <1>4. ASSUME FinishWithTurn PROVE FollowInv'
    BY <1>3, <1>4 DEF FinishWithTurn
  <1>5. CASE UNCHANGED board
    <2>1. ~CanFollowthroughRemoteMove' BY <1>1, <1>5 DEF CanFollowthroughRemoteMove
    <2> QED BY <1>2, <2>1 DEF FollowInv
  <1> QED BY <1>2, <1>3, <1>4, <1>5 DEF UpdateFromServer, UpdateFails, UpdateAfterSensors

LEMMA StepFollow ==
  ASSUME PlayInv, FollowInv, [Next]_vars
  PROVE  FollowInv' /\ FollowedStep
  <1> USE DEF PlayInv
  <1>0. board \in BoardRecord /\ IInv /\ HandsInv BY DEF IInv, TypeOK
  <1>1. CASE Sensors
    <2>1. ASSUME NEW c \in Cell, Detect(c) PROVE FollowInv' /\ FollowedStep
      BY <2>1, DetectFollow
    <2> QED BY <1>1, <2>1, LiftFollow, PlaceFollow DEF Sensors
  <1>2. CASE UpdateFromServer \/ UpdateFails \/ UpdateAfterSensors
    BY <1>2, DownloadFollow
  <1>3. ASSUME UNCHANGED playVars,
               \/ SetPromotionType \/ SetUpcomingCheckmate \/ WinGame \/ GoToIdle
               \/ WinLocal(localPlayerTurn)
               \/ legalReply' \in SUBSET Move /\ UpdateLegalMoves(legalReply')
               \/ UNCHANGED board
        PROVE  FollowInv' /\ FollowedStep
    <2>1. KeepsFlags BY <1>0, <1>3, OthersKeepFlags
    <2>2. \/ SameState /\ SameSpecial /\ board'.placedPiece = board.placedPiece
          \/ ~Making' /\ ~CanReceiveRemoteMove'
      BY <1>0, <1>3, OthersHands
    <2>3. FollowInv' BY <1>3, <2>1, <2>2, QuietFollow DEF Making
    <2>4. CASE WinGame \/ GoToIdle \/ WinLocal(localPlayerTurn)
      <3>1. board'.fsm \notin {"AWAITING_LOCAL_MOVE", "LOST_GAME"}
        BY <1>0, <2>4 DEF WinGame, GoToIdle, WinLocal, BoardRecord
      <3> QED BY <2>3, <3>1 DEF FollowedStep
    <2>5. CASE SetPromotionType \/ SetUpcomingCheckmate \/ UpdateLegalMoves(legalReply')
               \/ UNCHANGED board
      <3>1. SameState
        BY <1>0, <2>5 DEF SetPromotionType, SetUpcomingCheckmate, UpdateLegalMoves, SameState,
           BoardRecord
      <3> QED BY <2>3, <3>1, SameFollow
    <2> QED BY <1>3, <2>4, <2>5
  <1>4. CASE SubmitMove
    <2>1. UNCHANGED playVars /\ KeepsFlags BY <1>0, <1>4, SubmitKeepsFlags DEF SubmitMove
    <2>2. ~CanFollowthroughRemoteMove'
      BY <1>0, <1>4, SubmitEffect DEF SubmitMove, CanFollowthroughRemoteMove
    <2>3. ~CanFollowthroughRemoteMove
      BY <1>4 DEF SubmitMove, SubmitCurrentLocalMove, IsPotentialLocalMoveValid, CanMakeLocalMove,
         CanFollowthroughRemoteMove
    <2> QED BY <2>1, <2>2, <2>3, QuietFollow DEF FollowedStep
  <1>5. CASE Resign
    <2>1. UNCHANGED playVars /\ KeepsFlags BY <1>0, <1>5, OthersKeepFlags DEF Resign
    <2>2. ~CanFollowthroughRemoteMove'
      BY <1>0, <1>5 DEF Resign, LoseGame, CanFollowthroughRemoteMove, BoardRecord
    <2>3. ~CanFollowthroughRemoteMove
      BY <1>5 DEF Resign, CanMakeLocalMove, CanFollowthroughRemoteMove
    <2> QED BY <2>1, <2>2, <2>3, QuietFollow DEF FollowedStep
  <1>6. CASE AwaitTurn
    <2> DEFINE m == IF game.lastmove = NONE THEN NoPreviousMove ELSE game.lastmove
    <2>1. m \in Move \cup {NoPreviousMove} BY <1>6 DEF IInv, TypeOK, GameKnown, AwaitTurn, Game
    <2>2. ~CanFollowthroughRemoteMove
      BY <1>6 DEF AwaitTurn, CanReceiveRemoteMove, CanFollowthroughRemoteMove
    <2>3. CASE ReceiveRemoteMove(m)
      <3> HIDE DEF m
      <3>1. /\ board'.lastRemoteMove = m /\ Begun(board', m)
            /\ board'.placedPiece = board.placedPiece
        BY <1>0, <2>1, <2>3, ReceiveEffect
      <3>2. board.placedPiece = NONE
        BY <1>6 DEF AwaitTurn, HandsInv, NothingInHandWaiting
      <3>3. FollowInv' BY <3>1, <3>2 DEF FollowInv, Begun, EnPassant
      <3> QED BY <2>2, <3>3 DEF FollowedStep
    <2> QED BY <1>3, <1>6, <2>3 DEF AwaitTurn
  <1>7. CASE LegalMovesArrive
    <2>1. legalReply' \in SUBSET Move
      BY <1>0, <1>7, LegalMovesType DEF LegalMovesArrive, IInv, TypeOK, GameKnown
    <2> QED BY <1>3, <1>7, <2>1 DEF LegalMovesArrive
  <1>8. CASE \/ StartGame \/ DownloadCurrentGame \/ ChoosePromotion \/ MakeMove
             \/ AfterLocalMove \/ NoteCheckmate \/ Continue \/ OpponentMoves
    BY <1>3, <1>8 DEF StartGame, DownloadCurrentGame, ChoosePromotion, MakeMove, AfterLocalMove,
       NoteCheckmate, Continue, OpponentMoves
  <1>9. CASE PowerCycle
    <2>1. board'.fsm = "NO_GAME" BY <1>9 DEF PowerCycle, SwitchedOn
    <2> QED BY <2>1 DEF FollowInv, FollowedStep, CanFollowthroughRemoteMove
  <1>10. CASE UNCHANGED vars
    BY <1>3, <1>10 DEF vars
  <1> QED BY <1>1, <1>2, <1>4, <1>5, <1>6, <1>7, <1>8, <1>9, <1>10 DEF Next, Control

LEMMA InitFollow == Init => FollowInv
  BY DEF Init, SwitchedOn, FollowInv, CanFollowthroughRemoteMove

(***************************************************************************)
(* Whatever the squares, the moves and the player, a remote move counts as *)
(* followed through only when its piece has left the square it came from   *)
(* and the square it went to is taken, or flagged as lifted (ChessBoard.cpp*)
(* 92, 178, 188, 199, 216).                                                *)
(***************************************************************************)
THEOREM AlwaysFollowedThrough == Spec => FollowedThrough
  <1>1. PlayInv /\ FollowInv /\ [Next]_vars => FollowInv' BY StepFollow
  <1>2. PlayInv /\ FollowInv /\ [Next]_vars => [FollowedStep]_vars BY StepFollow
  <1>3. FollowedThrough <=> [][FollowedStep]_vars
    BY DEF FollowedThrough, FollowedStep
  <1> QED BY <1>1, <1>2, <1>3, InitFollow, AlwaysPlayInv, PTL DEF Spec
-----------------------------------------------------------------------------
(***************************************************************************)
(* What is noted of the other pieces of a move: the rook of a castle, the  *)
(* pawn taken in passing.  First what the legal moves of one position have *)
(* in common, which is why a square of a special move is no other move's   *)
(* business; then what the two handlers note of it.                        *)
(***************************************************************************)
\* The men of the two sides never share a square.
Apart(g) == g.men["local"] \cap g.men["remote"] = {}

\* What the legal moves of one position have in common: nothing else moves to the
\* corner a castling rook leaves, or from the square it goes to; nothing moves from
\* the square of a pawn taken in passing, or takes it there in another way unless it
\* is an attacking move; and that square is where the last remote move led.
Together(S, last) ==
  \A m, n \in S :
    /\ m.rook # NONE =>
         /\ m.rook.from # m.rook.to /\ m.to \notin {m.rook.from, m.rook.to}
         /\ n.to # m.rook.from /\ n.from # m.rook.to
         /\ n.isAttackingMove => n.to # m.rook.to
    /\ m.moveType = "EN_PASSANT" =>
         /\ m.pawn \in Cell /\ last # NONE /\ last.to = m.pawn
         /\ n.from # m.pawn
         /\ n.to = m.pawn => n.isAttackingMove
         /\ n.rook # NONE => m.pawn \notin {n.rook.from, n.rook.to}

LEMMA LegalMovesTogether ==
  ASSUME NEW g \in Game, Apart(g), NEW last,
         g.lastmove # NONE => last # NONE /\ last.to = g.lastmove.to
  PROVE  Together(LegalMoves(g), last)
  <1> DEFINE mine == g.men[g.turn]
             theirs == g.men[Other(g.turn)]
  <1>1. mine \cap theirs = {} BY DEF Apart, Game, Side, Other
  <1>2. ASSUME NEW m \in LegalMoves(g)
        PROVE  /\ m \in Moves["local"] \cup Moves["remote"] /\ m.from \in mine /\ m.to \notin mine
               /\ m.isAttackingMove <=> m.to \in theirs
               /\ m.rook # NONE => m.rook.from \in mine /\ m.rook.to \notin mine \cup theirs
               /\ m.moveType = "EN_PASSANT" =>
                    m.pawn \in theirs \cap Cell /\ g.lastmove # NONE /\ g.lastmove.to = m.pawn
    <2>1. m \in Moves["local"] \cup Moves["remote"] /\ Fits(g, m)
      BY <1>2 DEF LegalMoves, Game, Side
    <2>2. /\ m.moveType = "EN_PASSANT" <=> m.pawn # NONE
          /\ m.pawn \in Cell \cup {NONE}
      BY <2>1, MovesAssumption DEF Move, Side
    <2> QED BY <2>1, <2>2 DEF Fits
  <1> HIDE DEF mine, theirs
  <1>3. \A m \in LegalMoves(g) : m.rook # NONE => m.to \notin {m.rook.from, m.rook.to}
    BY <1>2, MovesAssumption
  <1> QED BY <1>1, <1>2, <1>3 DEF Together

\* A move keeps them apart.
LEMMA AfterMoveApart ==
  ASSUME NEW g \in Game, Apart(g), NEW m \in LegalMoves(g), NEW mate \in BOOLEAN
  PROVE  Apart(AfterMove(g, m, mate))
  <1>1. /\ g.turn \in Side /\ Side = {"local", "remote"} /\ Other(g.turn) \in Side
        /\ g.turn # Other(g.turn)
    BY DEF Game, Side, Other
  <1>2. m.rook # NONE => m.rook.to \notin g.men[Other(g.turn)]
    BY DEF LegalMoves, Fits
  <1> DEFINE after == AfterMove(g, m, mate).men
  <1>3. /\ after[g.turn] \subseteq g.men[g.turn] \cup {m.to}
                                     \cup (IF m.rook = NONE THEN {} ELSE {m.rook.to})
        /\ after[Other(g.turn)] \subseteq g.men[Other(g.turn)] \ {m.to}
    BY <1>1 DEF AfterMove
  <1>4. g.men[g.turn] \cap g.men[Other(g.turn)] = {} BY <1>1 DEF Apart, Other
  <1>5. after[g.turn] \cap after[Other(g.turn)] = {} BY <1>2, <1>3, <1>4
  <1> QED BY <1>1, <1>5 DEF Apart, Other
-----------------------------------------------------------------------------
\* What LiftPiece and PlacePiece make of what is noted of a local move, and when the
\* square concerned is left unflagged.
SameJudgement ==
  board'.inCheckmate = board.inCheckmate /\ board'.allLegalMoves = board.allLegalMoves
SameCastle ==
  board'.liftedCastle = board.liftedCastle /\ board'.placedCastle = board.placedCastle
Kept ==
  SameHands /\ SameSpecial /\ SameCastle /\ SameJudgement
  /\ board'.liftedEnPassant = board.liftedEnPassant

\* The flags and the promotion are no part of it.
LEMMA FlagKeeps ==
  ASSUME board \in BoardRecord, NEW c \in Cell,
         \/ FlagLift(c) \/ FlagPlacement(c)
         \/ board' = [board EXCEPT !.invalidPlacements = @ \ {c}]
         \/ board' = [board EXCEPT !.invalidLifts = @ \ {c}]
         \/ board' = [board EXCEPT !.liftedPromotion = TRUE]
         \/ board' = [board EXCEPT !.placedPromotion = TRUE]
         \/ board' = [board EXCEPT !.attackedPiece = c]
  PROVE  Kept
  <1> USE DEF Kept, SameHands, SameState, SamePlaced, SameSpecial, SameCastle, SameJudgement
  <1>1. CASE FlagLift(c) \/ FlagPlacement(c)
    BY <1>1 DEF FlagLift, FlagPlacement, BoardRecord
  <1>2. CASE \/ board' = [board EXCEPT !.invalidPlacements = @ \ {c}]
             \/ board' = [board EXCEPT !.invalidLifts = @ \ {c}]
             \/ board' = [board EXCEPT !.attackedPiece = c]
    BY <1>2 DEF BoardRecord
  <1>3. CASE \/ board' = [board EXCEPT !.liftedPromotion = TRUE]
             \/ board' = [board EXCEPT !.placedPromotion = TRUE]
    BY <1>3 DEF BoardRecord
  <1> QED BY <1>1, <1>2, <1>3

LiftNoted(c) ==
  /\ SameState /\ SameJudgement
  /\ \/ SameSpecial /\ board'.placedPiece = board.placedPiece
     \/ /\ ~Castling' /\ ~EnPassant' /\ board'.placedPiece = NONE
  /\ board'.liftedCastle =>
       \/ board.liftedCastle
       \/ /\ Castling /\ c = board.currentRookCastleMove.from
          /\ board'.liftedPiece = board.liftedPiece /\ board'.invalidLifts = board.invalidLifts
  /\ board'.placedCastle => board.placedCastle
  /\ board'.liftedEnPassant =>
       \/ board.liftedEnPassant
       \/ /\ EnPassant /\ c = board.enPassantCapture
          /\ board'.liftedPiece = board.liftedPiece /\ board'.invalidLifts = board.invalidLifts
  /\ board'.liftedPiece \in {board.liftedPiece, c}
  /\ c \in board.invalidPlacements => board'.liftedPiece = board.liftedPiece
  /\ board'.placedCastle /\ c \notin board.invalidPlacements =>
       \/ c \in board'.invalidLifts
       \/ c = board.placedPiece \/ GetLegalMoves(c) # {}
       \/ Castling /\ c = board.currentRookCastleMove.from
       \/ EnPassant /\ c = board.enPassantCapture
       \/ \E m \in board.allLegalMoves : m.isAttackingMove /\ m.to = c

LEMMA LiftNotes ==
  ASSUME board \in BoardRecord, NEW c \in Cell, CanMakeLocalMove, LiftPiece(c)
  PROVE  LiftNoted(c)
  <1> USE DEF LiftNoted
  <1>1. CASE c \in board.invalidPlacements /\ Kept
    BY <1>1 DEF Kept, SameHands, SamePlaced, SameCastle
  <1>2. CASE FlagLift(c)
    <2>1. Kept /\ c \in board'.invalidLifts BY <1>2, FlagKeeps DEF FlagLift, BoardRecord
    <2> QED BY <2>1 DEF Kept, SameHands, SamePlaced, SameCastle
  <1>3. CASE LiftPlaced /\ c = board.placedPiece
    BY <1>3 DEF LiftPlaced, SameState, SameJudgement, Castling, EnPassant, BoardRecord
  <1>4. CASE c \notin board.invalidPlacements /\ GetLegalMoves(c) # {}
             /\ board' = [board EXCEPT !.liftedPiece = c]
    BY <1>4 DEF SameState, SameJudgement, SameSpecial, BoardRecord
  <1>5. CASE Castling /\ c = board.currentRookCastleMove.from
             /\ board' = [board EXCEPT !.liftedCastle = TRUE]
    BY <1>5 DEF SameState, SameJudgement, SameSpecial, BoardRecord
  <1>6. CASE board' = [board EXCEPT !.placedCastle = FALSE]
    BY <1>6 DEF SameState, SameJudgement, SameSpecial, BoardRecord
  <1>7. CASE EnPassant /\ c = board.enPassantCapture
             /\ board' = [board EXCEPT !.liftedEnPassant = TRUE]
    BY <1>7 DEF SameState, SameJudgement, SameSpecial, BoardRecord
  <1>8. CASE /\ \/ c = board.placedPiece /\ board' = [board EXCEPT !.liftedPromotion = TRUE]
                \/ board' = [board EXCEPT !.attackedPiece = c]
             /\ c = board.placedPiece \/ \E m \in board.allLegalMoves : m.isAttackingMove /\ m.to = c
    <2>1. Kept BY <1>8, FlagKeeps
    <2> QED BY <1>8, <2>1 DEF Kept, SameHands, SamePlaced, SameCastle
  <1>9. ASSUME LiftToAttack(c) PROVE LiftNoted(c)
    BY <1>2, <1>8, <1>9 DEF LiftToAttack, GetLegalMove, GetLegalMoves
  <1>10. CASE c \notin board.invalidPlacements /\ LiftOnLocalMove(c)
    BY <1>2, <1>3, <1>4, <1>5, <1>6, <1>7, <1>8, <1>9, <1>10
       DEF LiftOnLocalMove, LiftToMove, LiftWhileCastling, LiftToPromote
  <1>11. CASE c \in board.invalidPlacements
              /\ board' = [board EXCEPT !.invalidPlacements = @ \ {c}]
    BY <1>1, <1>11, FlagKeeps
  <1> QED BY <1>10, <1>11 DEF LiftPiece, CanMakeLocalMove, CanFollowthroughRemoteMove

PlaceNoted(c) ==
  /\ SameState /\ SameJudgement
  /\ board'.liftedPiece \in {board.liftedPiece, NONE}
  /\ \/ SameSpecial /\ board'.placedPiece = board.placedPiece
     \/ \E m \in board.allLegalMoves, pawn \in TargetOf(board.lastRemoteMove) :
          /\ m.to = c /\ board'.placedPiece = c
          /\ board'.currentRookCastleMove = m.rook
          /\ board'.enPassantCapture = IF m.moveType = "EN_PASSANT" THEN pawn ELSE NONE
          /\ SameCastle
  /\ board'.liftedCastle => board.liftedCastle
  /\ board'.placedCastle =>
       \/ board.placedCastle
       \/ /\ Castling /\ c = board.currentRookCastleMove.to
          /\ board'.placedPiece = board.placedPiece
          /\ board'.invalidPlacements = board.invalidPlacements
  /\ board'.liftedEnPassant => board.liftedEnPassant
  /\ c \in board.invalidLifts => board'.placedPiece = board.placedPiece
  /\ c \notin board.invalidLifts =>
       \/ c \in board'.invalidPlacements
       \/ c = board.liftedPiece \/ c = board.placedPiece
       \/ \E m \in board.allLegalMoves : m.to = c
       \/ Castling /\ c = board.currentRookCastleMove.to
       \/ Castling /\ c = board.currentRookCastleMove.from /\ ~board'.liftedCastle
       \/ EnPassant /\ c = board.enPassantCapture /\ ~board'.liftedEnPassant

LEMMA PlaceNotes ==
  ASSUME board \in BoardRecord, NEW c \in Cell, CanMakeLocalMove, PlacePiece(c)
  PROVE  PlaceNoted(c)
  <1> USE DEF PlaceNoted
  <1>1. CASE c \in board.invalidLifts /\ Kept
    BY <1>1 DEF Kept, SameHands, SamePlaced, SameCastle
  <1>2. CASE FlagPlacement(c)
    <2>1. Kept /\ c \in board'.invalidPlacements
      BY <1>2, FlagKeeps DEF FlagPlacement, BoardRecord
    <2> QED BY <2>1 DEF Kept, SameHands, SamePlaced, SameCastle
  <1>3. CASE c = board.liftedPiece /\ PutBack
    BY <1>3 DEF PutBack, SameState, SameJudgement, SameSpecial, BoardRecord
  <1>4. CASE c \notin board.invalidLifts /\ PlaceLegally(c)
    <2>1. PICK m \in GetLegalMove(board.liftedPiece, c), pawn \in TargetOf(board.lastRemoteMove) :
            board' = [board EXCEPT
              !.placedPiece = c,
              !.currentRookCastleMove = m.rook,
              !.enPassantCapture = IF m.moveType = "EN_PASSANT" THEN pawn ELSE NONE,
              !.isPerformingPromotion = (m.moveType = "PROMOTION")]
      BY <1>4 DEF PlaceLegally
    <2> DEFINE rook == m.rook
               captured == IF m.moveType = "EN_PASSANT" THEN pawn ELSE NONE
               promotes == m.moveType = "PROMOTION"
    <2>2. board' = [board EXCEPT !.placedPiece = c, !.currentRookCastleMove = rook,
                      !.enPassantCapture = captured, !.isPerformingPromotion = promotes]
      BY <2>1
    <2>3. m \in board.allLegalMoves /\ m.to = c BY DEF GetLegalMove, GetLegalMoves
    <2> HIDE DEF rook, captured, promotes
    <2>4. /\ SameState /\ SameJudgement /\ SameCastle
          /\ board'.liftedPiece = board.liftedPiece /\ board'.placedPiece = c
          /\ board'.currentRookCastleMove = rook /\ board'.enPassantCapture = captured
          /\ board'.liftedEnPassant = board.liftedEnPassant
      BY <2>2 DEF SameState, SameJudgement, SameCastle, BoardRecord
    <2> QED BY <1>4, <2>3, <2>4 DEF rook, captured, SameCastle
  <1>5. CASE Castling /\ c = board.currentRookCastleMove.to
             /\ board' = [board EXCEPT !.placedCastle = TRUE]
    BY <1>5 DEF SameState, SameJudgement, SameSpecial, BoardRecord
  <1>6. CASE Castling /\ c = board.currentRookCastleMove.from
             /\ board' = [board EXCEPT !.liftedCastle = FALSE]
    BY <1>6 DEF SameState, SameJudgement, SameSpecial, BoardRecord
  <1>7. CASE EnPassant /\ c = board.enPassantCapture
             /\ board' = [board EXCEPT !.liftedEnPassant = FALSE]
    BY <1>7 DEF SameState, SameJudgement, SameSpecial, BoardRecord
  <1>8. CASE c = board.placedPiece /\ board' = [board EXCEPT !.placedPromotion = TRUE]
    <2>1. Kept BY <1>8, FlagKeeps
    <2> QED BY <1>8, <2>1 DEF Kept, SameHands, SamePlaced, SameCastle
  <1>9. CASE c \notin board.invalidLifts /\ PlaceOnLocalMove(c)
    BY <1>2, <1>3, <1>4, <1>5, <1>6, <1>7, <1>8, <1>9
       DEF PlaceOnLocalMove, PlaceToMove, PlaceWhileCastling, PlaceWhileEnPassant, PlaceToPromote
  <1>10. CASE c \in board.invalidLifts
              /\ board' = [board EXCEPT !.invalidLifts = @ \ {c}]
    BY <1>1, <1>10, FlagKeeps
  <1> QED BY <1>2, <1>9, <1>10 DEF PlacePiece, CanMakeLocalMove, CanFollowthroughRemoteMove
-----------------------------------------------------------------------------
\* What the board has been told of the squares.
Told == IF event = NONE THEN sensed ELSE Toggled(sensed, event.cell)

\* A square is empty, or is flagged and not the one of the piece in hand; a square is
\* taken, or is flagged, and not by the piece that has been put down.  Of a square
\* that a download has measured again nothing is known.
Gone(c) ==
  \/ c \in overtaken
  \/ /\ c \in Told => c \in board.invalidPlacements
     /\ c \notin Told => c \notin board.invalidLifts
     /\ board.liftedPiece # c
Put(c) ==
  \/ c \in overtaken
  \/ /\ c \notin Told => c \in board.invalidLifts
     /\ c \in Told => c \notin board.invalidPlacements
     /\ board.placedPiece # c

\* What has been noted of a local move is of one of the legal moves, and is so.
MoveNoted ==
  /\ Castling => \E m \in board.allLegalMoves :
                   m.rook = board.currentRookCastleMove /\ m.to = board.placedPiece
  /\ EnPassant => board.enPassantCapture = board.lastRemoteMove.to
  /\ EnPassant \/ board.liftedEnPassant =>
       \E m \in board.allLegalMoves : m.moveType = "EN_PASSANT"
  /\ board.placedPiece # NONE => \E m \in board.allLegalMoves : m.to = board.placedPiece
RookNoted ==
  OneCastle => \A m \in board.allLegalMoves : m.rook # NONE =>
    /\ board.liftedCastle => Gone(m.rook.from)
    /\ board.placedCastle => Put(m.rook.to)
PawnNoted ==
  TakenOnlyInPassing /\ board.liftedEnPassant => Gone(board.lastRemoteMove.to)

Noted == CanMakeLocalMove => MoveNoted /\ RookNoted /\ PawnNoted

LEMMA DetectNoted == ASSUME IInv, Noted, NEW c \in Cell, Detect(c) PROVE Noted'
  <1>1. board' = board /\ overtaken' = overtaken /\ event = NONE /\ sensed' = Toggled(sensed, c)
    BY DEF Detect
  <1>2. event' \in Change /\ event'.cell = c BY DEF Detect, Change
  <1>3. Told' = Told
    BY <1>1, <1>2, NoneIsNoChange DEF Told, Toggled, IInv, TypeOK
  <1>4. \A d : (Gone(d)' <=> Gone(d)) /\ (Put(d)' <=> Put(d))
    BY <1>1, <1>3 DEF Gone, Put
  <1> QED BY <1>1, <1>4 DEF Noted, MoveNoted, RookNoted, PawnNoted, CanMakeLocalMove, Castling,
             EnPassant, OneCastle, TakenOnlyInPassing

\* What a report changes of what the board has been told.
LEMMA ToldEffect ==
  ASSUME IInv, EventSettled, Propagate
  PROVE  /\ event.cell \in Cell /\ event' = NONE /\ Told' = sensed /\ overtaken \subseteq overtaken'
         /\ \A d : d # event.cell => (d \in Told' <=> d \in Told)
         /\ event.cell \notin overtaken' =>
              /\ event.cell \in Told' <=> event.placed
              /\ event.cell \in Told <=> ~event.placed
              /\ event.placed => event.cell \notin board.invalidPlacements
              /\ ~event.placed => event.cell \notin board.invalidLifts
  BY DEF Propagate, IInv, TypeOK, Told, Toggled, Change, EventSettled, Pending

\* A square other than the one reported.
LEMMA OtherSquare ==
  ASSUME IInv, EventSettled, Propagate, NEW d \in Cell, d # event.cell,
         board'.liftedPiece \in {board.liftedPiece, event.cell, NONE},
         board'.placedPiece \in {board.placedPiece, event.cell, NONE}
  PROVE  (Gone(d) => Gone(d)') /\ (Put(d) => Put(d)')
  <1>1. /\ event.cell \in Cell /\ overtaken \subseteq overtaken' /\ (d \in Told' <=> d \in Told)
    BY ToldEffect
  <1>2. board \in BoardRecord BY DEF IInv, TypeOK
  <1>3. /\ d \in board'.invalidLifts <=> d \in board.invalidLifts
        /\ d \in board'.invalidPlacements <=> d \in board.invalidPlacements
    <2>1. CASE event.placed
      <3>1. PlacePiece(event.cell) BY <2>1 DEF Propagate
      <3> QED BY <1>1, <1>2, <3>1, PlaceIInv DEF Changes, IInv, TypeOK
    <2>2. CASE ~event.placed
      <3>1. LiftPiece(event.cell) BY <2>2 DEF Propagate
      <3> QED BY <1>1, <1>2, <3>1, LiftIInv DEF Changes, IInv, TypeOK
    <2> QED BY <2>1, <2>2
  <1> QED BY <1>1, <1>3, NoneAssumption DEF Gone, Put

\* A report of a piece lifted, or placed, while a local move is made with the moves of
\* one position.
LEMMA LiftNote ==
  ASSUME PlayInv, Noted, CanMakeLocalMove, Together(board.allLegalMoves, board.lastRemoteMove),
         Propagate, ~event.placed, NEW c, c = event.cell, NEW last, last = board.lastRemoteMove,
         NEW S, S = board.allLegalMoves
  PROVE  Noted' /\ SameState /\ SameJudgement
  <1>1. /\ board \in BoardRecord /\ c \in Cell /\ LiftPiece(c) /\ Pending(c, FALSE)
        /\ IInv /\ EventSettled /\ HandSettled /\ Making
    BY DEF PlayInv, IInv, HandsInv, TypeOK, Propagate, Change, Pending, Making
  <1>2. LiftNoted(c) BY <1>1, LiftNotes
  <1>3. /\ SameState /\ SameJudgement
        /\ CanMakeLocalMove' /\ (OneCastle' <=> OneCastle) /\ (TakenOnlyInPassing' <=> TakenOnlyInPassing)
    BY <1>2, SameMaking DEF LiftNoted, SameJudgement, OneCastle, TakenOnlyInPassing
  <1>4. MoveNoted /\ RookNoted /\ PawnNoted BY DEF Noted
  <1>5. MoveNoted'
    BY <1>2, <1>4 DEF MoveNoted, LiftNoted, SameState, SameJudgement, SameSpecial, Castling, EnPassant
  <1>6. /\ board'.liftedPiece \in {board.liftedPiece, c}
        /\ c \in board.invalidPlacements => board'.liftedPiece = board.liftedPiece
        /\ board'.placedPiece \in {board.placedPiece, NONE}
    BY <1>2 DEF LiftNoted
  <1>7. /\ c \in board.invalidPlacements => board'.invalidLifts = board.invalidLifts
        /\ board.invalidLifts \subseteq board'.invalidLifts
        /\ board'.invalidPlacements \subseteq board.invalidPlacements
    BY <1>1, LiftIInv DEF Changes
  <1>8. /\ overtaken \subseteq overtaken'
        /\ c \notin overtaken' => c \notin Told' /\ c \in Told /\ c \notin board.invalidLifts
    BY <1>1, ToldEffect
  <1>9. ASSUME NEW d \in Cell, d # c PROVE (Gone(d) => Gone(d)') /\ (Put(d) => Put(d)')
    BY <1>1, <1>6, <1>9, OtherSquare
  \* The square just left is empty for the board, and is not in hand.
  <1>10. Gone(c) => Gone(c)' BY <1>6, <1>7, <1>8 DEF Gone
  <1>11. ASSUME board'.liftedPiece = board.liftedPiece, board'.invalidLifts = board.invalidLifts
         PROVE  Gone(c)'
    <2>1. board.liftedPiece = c => c \in overtaken BY <1>1 DEF HandSettled
    <2> QED BY <1>8, <1>11, <2>1 DEF Gone
  <1>12. \A m \in S : /\ m.rook # NONE => m.rook.from \in Cell /\ m.rook.to \in Cell
                      /\ m.moveType = "EN_PASSANT" => last.to = m.pawn /\ last.to \in Cell
    BY <1>1 DEF Together, BoardRecord, Move, CastleMove
  <1>13. RookNoted'
    <2> SUFFICES ASSUME OneCastle, NEW m \in S, m.rook # NONE
                 PROVE  /\ board'.liftedCastle => Gone(m.rook.from)'
                        /\ board'.placedCastle => Put(m.rook.to)'
      BY <1>3 DEF RookNoted, SameJudgement
    <2>1. Castling => board.currentRookCastleMove = m.rook
      BY <1>4 DEF MoveNoted, OneCastle, Castling
    <2>2. /\ board.liftedCastle => Gone(m.rook.from)
          /\ board.placedCastle => Put(m.rook.to)
      BY <1>4 DEF RookNoted
    <2>3. ASSUME board'.liftedCastle PROVE Gone(m.rook.from)'
      BY <1>2, <1>9, <1>10, <1>11, <1>12, <2>1, <2>2, <2>3 DEF LiftNoted
    <2>4. ASSUME board'.placedCastle PROVE Put(m.rook.to)'
      <3>1. board.placedCastle /\ Put(m.rook.to) BY <1>2, <2>2, <2>4 DEF LiftNoted
      <3>2. CASE c = m.rook.to /\ c \notin overtaken'
        <4>1. c \notin board.invalidPlacements /\ board.placedPiece # c
          BY <1>8, <3>1, <3>2 DEF Put
        <4>2. GetLegalMoves(c) = {} BY <3>2 DEF GetLegalMoves, Together
        <4>3. ~(Castling /\ c = board.currentRookCastleMove.from)
          BY <2>1, <3>2 DEF Together
        <4>4. ~(EnPassant /\ c = board.enPassantCapture)
          BY <1>4, <3>2 DEF MoveNoted, Together
        <4>5. ~(\E n \in board.allLegalMoves : n.isAttackingMove /\ n.to = c)
          BY <3>2 DEF Together
        <4>6. c \in board'.invalidLifts BY <1>2, <2>4, <4>1, <4>2, <4>3, <4>4, <4>5 DEF LiftNoted
        <4>7. c # NONE BY <1>1, NoneAssumption
        <4> QED BY <1>6, <1>8, <3>2, <4>1, <4>6, <4>7 DEF Put
      <3>3. CASE c = m.rook.to /\ c \in overtaken' BY <3>3 DEF Put
      <3> QED BY <1>9, <1>12, <3>1, <3>2, <3>3
    <2> QED BY <2>3, <2>4
  <1>14. PawnNoted'
    <2> SUFFICES ASSUME TakenOnlyInPassing, board'.liftedEnPassant PROVE Gone(last.to)'
      BY <1>3 DEF PawnNoted, SameState
    <2>1. last.to \in Cell
      BY <1>2, <1>4, <1>12 DEF LiftNoted, MoveNoted
    <2>2. board.liftedEnPassant => Gone(last.to) BY <1>4 DEF PawnNoted
    <2>3. EnPassant => board.enPassantCapture = last.to BY <1>4 DEF MoveNoted
    <2> QED BY <1>2, <1>9, <1>10, <1>11, <2>1, <2>2, <2>3 DEF LiftNoted
  <1> QED BY <1>3, <1>5, <1>13, <1>14 DEF Noted

LEMMA PlaceNote ==
  ASSUME PlayInv, Noted, CanMakeLocalMove, Together(board.allLegalMoves, board.lastRemoteMove),
         Propagate, event.placed, NEW c, c = event.cell, NEW last, last = board.lastRemoteMove,
         NEW S, S = board.allLegalMoves
  PROVE  Noted' /\ SameState /\ SameJudgement
  <1>1. /\ board \in BoardRecord /\ c \in Cell /\ PlacePiece(c) /\ Pending(c, TRUE)
        /\ IInv /\ EventSettled /\ Making
    BY DEF PlayInv, IInv, HandsInv, TypeOK, Propagate, Change, Pending, Making
  <1>2. PlaceNoted(c) BY <1>1, PlaceNotes
  <1>3. /\ SameState /\ SameJudgement
        /\ CanMakeLocalMove' /\ (OneCastle' <=> OneCastle) /\ (TakenOnlyInPassing' <=> TakenOnlyInPassing)
    BY <1>2, SameMaking DEF PlaceNoted, SameJudgement, OneCastle, TakenOnlyInPassing
  <1>4. MoveNoted /\ RookNoted /\ PawnNoted BY DEF Noted
  <1>5. MoveNoted'
    <2>1. CASE SameSpecial /\ board'.placedPiece = board.placedPiece
      BY <1>2, <1>4, <2>1 DEF MoveNoted, PlaceNoted, SameState, SameJudgement, SameSpecial,
         Castling, EnPassant
    <2>2. ASSUME NEW m \in S, NEW pawn \in TargetOf(last),
                 m.to = c, board'.placedPiece = c, board'.currentRookCastleMove = m.rook,
                 board'.enPassantCapture = IF m.moveType = "EN_PASSANT" THEN pawn ELSE NONE
          PROVE  MoveNoted'
      <3>1. m.moveType = "EN_PASSANT" => pawn = last.to BY <2>2 DEF Together, TargetOf
      <3> QED BY <1>2, <1>4, <2>2, <3>1 DEF MoveNoted, PlaceNoted, SameState, SameJudgement,
              Castling, EnPassant
    <2> QED BY <1>2, <2>1, <2>2 DEF PlaceNoted
  <1>6. /\ board'.liftedPiece \in {board.liftedPiece, NONE}
        /\ board'.placedPiece \in {board.placedPiece, c}
        /\ c \in board.invalidLifts => board'.placedPiece = board.placedPiece
    BY <1>2 DEF PlaceNoted
  <1>7. c \in board.invalidLifts => board'.invalidPlacements = board.invalidPlacements
    BY <1>1, PlaceIInv DEF Changes
  <1>8. /\ overtaken \subseteq overtaken'
        /\ c \notin overtaken' => c \in Told' /\ c \notin Told /\ c \notin board.invalidPlacements
    BY <1>1, ToldEffect
  <1>9. ASSUME NEW d \in Cell, d # c PROVE (Gone(d) => Gone(d)') /\ (Put(d) => Put(d)')
    BY <1>1, <1>6, <1>9, OtherSquare
  \* A piece put where one had gone is flagged, unless it is what had gone.
  <1>10. ASSUME Gone(c), board.liftedPiece # c /\ c \notin board.invalidLifts
                                => c \in board'.invalidPlacements
         PROVE  Gone(c)'
    BY <1>1, <1>6, <1>8, <1>10, NoneAssumption DEF Gone
  <1>11. Castling => \E n \in S : n.rook = board.currentRookCastleMove /\ n.rook # NONE
                                  /\ n.to = board.placedPiece
    BY <1>4 DEF MoveNoted, Castling
  <1>12. /\ EnPassant => board.enPassantCapture = last.to
         /\ EnPassant \/ board.liftedEnPassant => \E m \in S : m.moveType = "EN_PASSANT"
         /\ c = board.placedPiece => \E n \in S : n.to = c
    BY <1>1, <1>4, NoneAssumption DEF MoveNoted
  <1>13. \A m \in S : /\ m.rook # NONE => m.rook.from \in Cell /\ m.rook.to \in Cell
                      /\ m.moveType = "EN_PASSANT" => last.to = m.pawn /\ last.to \in Cell
    BY <1>1 DEF Together, BoardRecord, Move, CastleMove
  <1>14. RookNoted'
    <2> SUFFICES ASSUME OneCastle, NEW m \in S, m.rook # NONE
                 PROVE  /\ board'.liftedCastle => Gone(m.rook.from)'
                        /\ board'.placedCastle => Put(m.rook.to)'
      BY <1>3 DEF RookNoted, SameJudgement
    <2>1. Castling => board.currentRookCastleMove = m.rook
      BY <1>11 DEF OneCastle
    <2>2. /\ board.liftedCastle => Gone(m.rook.from)
          /\ board.placedCastle => Put(m.rook.to)
      BY <1>4 DEF RookNoted
    <2>3. ASSUME board'.liftedCastle, c = m.rook.from PROVE Gone(c)'
      <3>1. board.liftedCastle /\ Gone(c) BY <1>2, <2>2, <2>3 DEF PlaceNoted
      <3>2. /\ \A n \in S : n.to # c
            /\ m.rook.from # m.rook.to
            /\ \A n \in S : n.moveType = "EN_PASSANT" => n.pawn # c
        BY <2>3 DEF Together
      <3>3. ~(EnPassant /\ c = board.enPassantCapture) BY <1>12, <1>13, <3>2
      <3> QED BY <1>2, <1>10, <1>12, <2>1, <2>3, <3>1, <3>2, <3>3 DEF PlaceNoted
    <2>4. ASSUME board'.placedCastle, c = m.rook.to PROVE Put(c)'
      <3>1. CASE board.placedCastle
        BY <1>1, <1>6, <1>7, <1>8, <2>2, <2>4, <3>1 DEF Put
      <3>2. CASE /\ Castling /\ c = board.currentRookCastleMove.to
                 /\ board'.placedPiece = board.placedPiece
                 /\ board'.invalidPlacements = board.invalidPlacements
        <4>1. board.placedPiece # c BY <1>11, <2>1, <2>4, <3>2 DEF Together
        <4> QED BY <1>8, <3>2, <4>1 DEF Put
      <3> QED BY <1>2, <2>4, <3>1, <3>2 DEF PlaceNoted
    <2>5. board'.placedCastle /\ c # m.rook.to => board.placedCastle
      BY <1>2, <2>1 DEF PlaceNoted
    <2> QED BY <1>2, <1>9, <1>13, <2>2, <2>3, <2>4, <2>5 DEF PlaceNoted
  <1>15. PawnNoted'
    <2> SUFFICES ASSUME TakenOnlyInPassing, board'.liftedEnPassant PROVE Gone(last.to)'
      BY <1>3 DEF PawnNoted, SameState
    <2>1. board.liftedEnPassant /\ Gone(last.to)
      BY <1>2, <1>4 DEF PlaceNoted, PawnNoted
    <2>2. PICK m \in S : m.moveType = "EN_PASSANT" BY <1>12, <2>1
    <2>3. last.to = m.pawn /\ last.to \in Cell BY <1>13, <2>2
    <2>4. ASSUME c = last.to PROVE Gone(c)'
      <3>1. \A n \in S : n.to # c BY <2>2, <2>3, <2>4 DEF Together, TakenOnlyInPassing
      <3>2. \A n \in S : n.rook # NONE => c \notin {n.rook.from, n.rook.to}
        BY <2>2, <2>3, <2>4 DEF Together
      <3>3. ~(Castling /\ c \in {board.currentRookCastleMove.from, board.currentRookCastleMove.to})
        BY <1>11, <3>2
      <3> QED BY <1>2, <1>10, <1>12, <2>1, <2>4, <3>1, <3>3 DEF PlaceNoted
    <2> QED BY <1>9, <2>1, <2>3, <2>4
  <1> QED BY <1>3, <1>5, <1>14, <1>15 DEF Noted
-----------------------------------------------------------------------------
\* Following a remote move looks at no legal move and at no checkmate.
LEMMA FollowJudgement ==
  ASSUME board \in BoardRecord, NEW c \in Cell,
         LiftInFollowthrough(c) \/ PlaceInFollowthrough(c)
  PROVE  Completed \/ SameJudgement
  <1>1. CASE board' = CompleteRemoteMoveFollowthrough(board) BY <1>1, CompleteEffect
  <1>2. CASE c = board.lastRemoteMove.to /\ PlaceOnTarget(c)
    <2> DEFINE promotes == board.isPerformingPromotion \/ board.lastRemoteMove.moveType = "PROMOTION"
    <2>1. CASE board' = [board EXCEPT !.placedPiece = c, !.isPerformingPromotion = promotes]
      <3> HIDE DEF promotes
      <3> QED BY <2>1 DEF SameJudgement, BoardRecord
    <2> QED BY <1>1, <1>2, <2>1 DEF PlaceOnTarget
  <1>3. CASE \/ FlagLift(c) \/ FlagPlacement(c) \/ PutBack \/ UNCHANGED board
             \/ board' = [board EXCEPT !.liftedPiece = c]
             \/ \E a \in {c, NONE} : board' = [board EXCEPT !.attackedPiece = a]
             \/ \E b \in BOOLEAN : \/ board' = [board EXCEPT !.liftedCastle = b]
                                   \/ board' = [board EXCEPT !.placedCastle = b]
             \/ board' = [board EXCEPT !.liftedPromotion = TRUE]
    BY <1>3 DEF FlagLift, FlagPlacement, PutBack, SameJudgement, BoardRecord
  <1>4. CASE LiftInFollowthrough(c)
    BY <1>1, <1>3, <1>4 DEF LiftInFollowthrough, LiftWhileCastling, LiftToPromote
  <1>5. CASE PlaceInFollowthrough(c)
    BY <1>1, <1>2, <1>3, <1>5 DEF PlaceInFollowthrough, PlaceAtTarget
  <1> QED BY <1>4, <1>5
-----------------------------------------------------------------------------
\* What goes with it: the men of the game stand apart; the last remote move is the
\* server's last move, or the one just sent; and once the legal moves are there they
\* are those of one position.  A player who moves is not mated, and begins with
\* nothing in hand.
GameApart == game # NONE => Apart(game)
Link ==
  Making =>
    IF pc = "sending"
      THEN board.lastRemoteMove # NONE /\ board.lastRemoteMove.to = sent.to
      ELSE game.lastmove # NONE =>
             board.lastRemoteMove # NONE /\ board.lastRemoteMove.to = game.lastmove.to
Known ==
  Making /\ pc = "ingame" /\ ~board.inCheckmate
    => Together(board.allLegalMoves, board.lastRemoteMove)
NoCheckmate == CanMakeLocalMove => ~board.inCheckmate /\ pc # "mated"
Rested == CanMakeLocalMove /\ pc # "ingame" => AtRest(board)

NotedInv == Noted /\ GameApart /\ Link /\ Known /\ NoCheckmate /\ Rested

LEMMA IdleNoted == ASSUME ~Making', GameApart' PROVE NotedInv'
  BY DEF Making, NotedInv, Noted, Link, Known, NoCheckmate, Rested

LEMMA RestingNoted == ASSUME AtRest(board') PROVE Noted' /\ Rested'
  BY DEF AtRest, Noted, Rested, MoveNoted, RookNoted, PawnNoted, Castling, EnPassant

-----------------------------------------------------------------------------
(***************************************************************************)
(* Patient: the player leaves the pieces alone while the board talks to the*)
(* server about a move, so that a change is reported only in between.      *)
(* Pieces moved before the new legal moves have come are judged by the old *)
(* ones, and what is noted of them then is kept (FSM.cpp 825-839, 863-869; *)
(* ChessBoard.cpp 443).                                                    *)
(*                                                                         *)
(* Answered: every request for the legal moves is answered, and the server *)
(* accepts the moves of a local game.  When it does not, the board judges  *)
(* by the moves of another position than the one it is in (ChessBoard.cpp  *)
(* 281-285), and looks for the captured pawn where the move it sent led.   *)
(***************************************************************************)
PatientStep == Propagate /\ Making => pc = "ingame"
AnsweredStep ==
  /\ LegalMovesArrive => legalReply' = LegalMoves(game)
  /\ MakeMove /\ LocalPlay => game' # game

Patient == [][PatientStep]_vars
Answered == [][AnsweredStep]_vars

LEMMA SensorsNoted ==
  ASSUME PlayInv, NotedInv, Sensors, PatientStep
  PROVE  NotedInv'
  <1> USE DEF NotedInv
  <1>1. /\ IInv /\ EventSettled /\ board \in BoardRecord
        /\ game' = game /\ pc' = pc /\ sent' = sent
    BY DEF PlayInv, IInv, HandsInv, TypeOK, Sensors, Detect, Propagate, controlVars
  <1>2. GameApart' BY <1>1 DEF GameApart
  <1>3. ASSUME NEW c \in Cell, Detect(c) PROVE NotedInv'
    <2>1. Noted' BY <1>1, <1>3, DetectNoted
    <2>2. board' = board BY <1>3 DEF Detect
    <2> QED BY <1>1, <1>2, <2>1, <2>2 DEF Link, Known, NoCheckmate, Rested, Making,
            CanMakeLocalMove, CanFollowthroughRemoteMove
  <1>4. CASE Propagate
    <2>1. /\ event.cell \in Cell
          /\ IF event.placed THEN PlacePiece(event.cell) ELSE LiftPiece(event.cell)
      BY <1>1, <1>4, ToldEffect DEF Propagate
    <2>2. \/ CanFollowthroughRemoteMove /\ Completed
          \/ SameState
      BY <1>1, <2>1, LiftEffect, PlaceEffect
    <2>3. CASE ~Making
      <3>1. ~Making' BY <2>2, <2>3, SameMaking DEF Making
      <3> QED BY <1>2, <3>1, IdleNoted
    <2>4. CASE CanFollowthroughRemoteMove /\ Completed
      <3>1. pc = "ingame" /\ Making BY <1>4, <2>4 DEF PatientStep, Making
      <3>2. Noted' /\ Rested' BY <2>4, RestingNoted DEF Completed
      <3>3. Link' /\ Known' /\ NoCheckmate'
        BY <1>1, <2>4, <3>1 DEF Completed, Link, Known, NoCheckmate, CanMakeLocalMove
      <3> QED BY <1>2, <3>2, <3>3
    <2>5. CASE CanFollowthroughRemoteMove /\ SameState /\ SameJudgement
      <3>1. pc = "ingame" /\ Making BY <1>4, <2>5 DEF PatientStep, Making
      <3>2. Making' /\ ~CanMakeLocalMove'
        BY <2>5, <3>1, SameMaking DEF CanMakeLocalMove, CanFollowthroughRemoteMove
      <3> QED BY <1>1, <1>2, <2>5, <3>1, <3>2
              DEF Noted, Link, Known, NoCheckmate, Rested, SameState, SameJudgement
    <2>6. CASE CanMakeLocalMove
      <3>1. pc = "ingame" /\ Making /\ ~board.inCheckmate
        BY <1>4, <2>6 DEF PatientStep, Making, NoCheckmate
      <3>2. Noted' /\ SameState /\ SameJudgement
        BY <1>4, <2>6, <3>1, LiftNote, PlaceNote DEF Known
      <3> QED BY <1>1, <1>2, <3>1, <3>2, SameMaking
              DEF Link, Known, NoCheckmate, Rested, SameState, SameJudgement
    <2>7. CanFollowthroughRemoteMove /\ ~Completed => SameJudgement
      <3> SUFFICES ASSUME CanFollowthroughRemoteMove, ~Completed PROVE SameJudgement OBVIOUS
      <3>1. CASE LiftInFollowthrough(event.cell) \/ PlaceInFollowthrough(event.cell)
        BY <1>1, <2>1, <3>1, FollowJudgement
      <3>2. CASE \/ board' = [board EXCEPT !.invalidPlacements = @ \ {event.cell}]
                 \/ board' = [board EXCEPT !.invalidLifts = @ \ {event.cell}]
        BY <1>1, <2>1, <3>2, FlagKeeps DEF Kept
      <3> QED BY <2>1, <3>1, <3>2
              DEF LiftPiece, PlacePiece, CanMakeLocalMove, CanFollowthroughRemoteMove
    <2> QED BY <2>2, <2>3, <2>4, <2>5, <2>6, <2>7 DEF Making
  <1> QED BY <1>3, <1>4 DEF Sensors
-----------------------------------------------------------------------------
\* A step that changes neither the board nor the sensors.
LEMMA SameNoted == ASSUME Noted, UNCHANGED board, UNCHANGED playVars PROVE Noted'
  <1>1. Told' = Told BY DEF Told, Toggled, playVars
  <1>2. \A d : (Gone(d)' <=> Gone(d)) /\ (Put(d)' <=> Put(d))
    BY <1>1 DEF Gone, Put, playVars
  <1> QED BY <1>2 DEF Noted, MoveNoted, RookNoted, PawnNoted, CanMakeLocalMove, Castling,
             EnPassant, OneCastle, TakenOnlyInPassing

LEMMA DownloadNoted ==
  ASSUME PlayInv, NotedInv, UpdateFromServer \/ UpdateFails \/ UpdateAfterSensors
  PROVE  NotedInv'
  <1>1. /\ game \in Game /\ board \in BoardRecord /\ board.fsm = "NO_GAME" /\ game' = game
        /\ GameMoves
    BY DEF PlayInv, TurnsInv, IInv, TypeOK, GameKnown, Menus, UpdateFromServer, UpdateFails,
           UpdateAfterSensors, FinishDownload, FinishWithTurn
  <1>2. GameApart' BY <1>1 DEF NotedInv, GameApart
  <1>3. ASSUME NEW d \in {Downloaded, DownloadedLost, DownloadedWon, ResetByDownload},
               NEW turns, FinishDownload(d, turns)
        PROVE  NotedInv'
    <2>1. Fresh(d) BY <1>1, DownloadedEffect
    <2>2. board' = d /\ pc' = IF board'.inCheckmate THEN "ingame" ELSE "legal"
      BY <1>3 DEF FinishDownload
    <2>3. CanMakeLocalMove' => AtRest(board') /\ ~board'.inCheckmate
      BY <2>1, <2>2 DEF Fresh, CanMakeLocalMove
    <2>4. Noted' /\ Rested' BY <2>3, RestingNoted DEF Noted, Rested
    <2>5. Making' => board'.lastRemoteMove = game'.lastmove
      BY <1>1, <2>1, <2>2 DEF Fresh, Making, CanMakeLocalMove, CanFollowthroughRemoteMove
    <2>6. Link' /\ Known' /\ NoCheckmate' BY <2>2, <2>3, <2>5 DEF Link, Known, NoCheckmate
    <2> QED BY <1>2, <2>4, <2>6 DEF NotedInv
  <1>4. ASSUME FinishWithTurn PROVE NotedInv'
    BY <1>3, <1>4 DEF FinishWithTurn
  <1>5. CASE UNCHANGED board
    BY <1>1, <1>2, <1>5, IdleNoted DEF Making, CanMakeLocalMove, CanFollowthroughRemoteMove
  <1> QED BY <1>3, <1>4, <1>5 DEF UpdateFromServer, UpdateFails, UpdateAfterSensors

LEMMA ControlNoted ==
  ASSUME PlayInv, NotedInv, Control, AnsweredStep
  PROVE  NotedInv'
  <1> USE DEF NotedInv
  <1>0. /\ board \in BoardRecord /\ (pc # "nogame" => game \in Game)
        /\ game \in Game \cup {NONE} /\ NONE \notin Game
        /\ Menus /\ Sending /\ NothingInHandWaiting
    BY NoneIsNoGame DEF PlayInv, HandsInv, TurnsInv, IInv, TypeOK, GameKnown
  <1>g. game' = game => GameApart' BY DEF GameApart
  <1>m. /\ UNCHANGED board => (Making' <=> Making) /\ (CanMakeLocalMove' <=> CanMakeLocalMove)
        /\ Making => pc \notin {"nogame", "download", "downloading", "reading"}
    BY <1>0 DEF Making, CanMakeLocalMove, CanFollowthroughRemoteMove, Menus
  <1>1. CASE StartGame
    <2>1. ~Making' BY <1>1, <1>m DEF StartGame
    <2>2. GameApart' BY <1>1, OpeningsAssumption DEF StartGame, GameApart, Apart, NewGame
    <2> QED BY <2>1, <2>2, IdleNoted
  <1>2. CASE DownloadCurrentGame
    <2>1. ~Making' BY <1>2, <1>m DEF DownloadCurrentGame
    <2> QED BY <1>2, <1>g, <2>1, IdleNoted DEF DownloadCurrentGame
  <1>3. CASE UpdateFromServer \/ UpdateFails \/ UpdateAfterSensors
    BY <1>3, DownloadNoted
  <1>4. CASE LegalMovesArrive
    <2> DEFINE reply == LegalMoves(game)
    <2>1. /\ board' = [board EXCEPT !.allLegalMoves = reply]
          /\ game' = game /\ pc = "legal" /\ pc' = "ingame" /\ game \in Game /\ game # NONE
      BY <1>0, <1>4 DEF LegalMovesArrive, UpdateLegalMoves, AnsweredStep
    <2> HIDE DEF reply
    <2>2. /\ board'.allLegalMoves = reply /\ board'.lastRemoteMove = board.lastRemoteMove
          /\ board'.inCheckmate = board.inCheckmate
          /\ Making' <=> Making
          /\ CanMakeLocalMove' <=> CanMakeLocalMove
          /\ AtRest(board) => AtRest(board')
      BY <1>0, <2>1 DEF Making, CanMakeLocalMove, CanFollowthroughRemoteMove, AtRest, BoardRecord
    <2>3. Noted' /\ Rested'
      BY <2>1, <2>2, RestingNoted DEF Rested, Noted
    <2>4. Known'
      <3>1. Making => Together(reply, board.lastRemoteMove)
        BY <2>1, LegalMovesTogether DEF reply, Link, GameApart
      <3> QED BY <2>2, <3>1 DEF Known
    <2>5. Link' /\ NoCheckmate' BY <2>1, <2>2 DEF Link, NoCheckmate
    <2> QED BY <1>g, <2>1, <2>3, <2>4, <2>5
  <1>5. CASE ChoosePromotion
    <2>1. /\ board' = [board EXCEPT !.promotionType = "QUEEN"]
          /\ UNCHANGED playVars /\ game' = game /\ pc' = pc /\ sent' = sent
          /\ pc = "ingame"
      BY <1>5 DEF ChoosePromotion, SetPromotionType, controlVars
    <2>2. /\ board'.allLegalMoves = board.allLegalMoves
          /\ board'.lastRemoteMove = board.lastRemoteMove
          /\ board'.inCheckmate = board.inCheckmate
          /\ board'.liftedPiece = board.liftedPiece /\ board'.placedPiece = board.placedPiece
          /\ board'.invalidLifts = board.invalidLifts
          /\ board'.invalidPlacements = board.invalidPlacements
          /\ board'.liftedCastle = board.liftedCastle /\ board'.placedCastle = board.placedCastle
          /\ board'.liftedEnPassant = board.liftedEnPassant
          /\ board'.currentRookCastleMove = board.currentRookCastleMove
          /\ board'.enPassantCapture = board.enPassantCapture
          /\ board'.fsm = board.fsm
      BY <1>0, <2>1 DEF BoardRecord
    <2>3. (Making' <=> Making) /\ (CanMakeLocalMove' <=> CanMakeLocalMove)
      BY <2>2 DEF Making, CanMakeLocalMove, CanFollowthroughRemoteMove
    <2>4. Told' = Told BY <2>1 DEF Told, Toggled, playVars
    <2>5. \A d : (Gone(d)' <=> Gone(d)) /\ (Put(d)' <=> Put(d))
      BY <2>1, <2>2, <2>4 DEF Gone, Put, playVars
    <2>6. Noted'
      BY <2>2, <2>3, <2>5 DEF Noted, MoveNoted, RookNoted, PawnNoted, Castling,
             EnPassant, OneCastle, TakenOnlyInPassing
    <2> QED BY <1>g, <2>1, <2>2, <2>3, <2>6 DEF Link, Known, NoCheckmate, Rested
  <1>6. CASE SubmitMove
    <2>1. /\ AtRest(board')
          /\ board'.fsm = IF LocalPlay THEN "AWAITING_LOCAL_MOVE" ELSE "AWAITING_REMOTE_MOVE_NOTICE"
          /\ board'.inCheckmate = board.inCheckmate
          /\ board'.lastRemoteMove = IF LocalPlay THEN LocalMove ELSE NONE
          /\ IsPotentialLocalMoveValid
      BY <1>0, <1>6, SubmitEffect DEF SubmitMove, SubmitCurrentLocalMove
    <2>2. game' = game /\ pc' = "sending" /\ sent' = LocalMove BY <1>6 DEF SubmitMove
    <2>3. LocalMove # NONE BY <1>0, <2>1, LocalMoveType, NoneAssumption
    <2>4. Noted' /\ Rested' BY <2>1, RestingNoted
    <2>5. Making' => LocalPlay
      BY <2>1 DEF Making, CanMakeLocalMove, CanFollowthroughRemoteMove
    <2>6. Link' /\ Known' BY <2>1, <2>2, <2>3, <2>5 DEF Link, Known
    <2>7. NoCheckmate' BY <2>1, <2>2 DEF NoCheckmate, IsPotentialLocalMoveValid
    <2> QED BY <1>g, <2>2, <2>4, <2>6, <2>7
  <1>7. CASE MakeMove
    <2>1. /\ game \in Game /\ game # NONE /\ pc = "sending"
          /\ UNCHANGED board /\ UNCHANGED playVars
          /\ pc' = IF LocalPlay THEN "sent" ELSE "ingame"
      BY <1>0, <1>7 DEF MakeMove
    <2>2. \/ game' = game
          \/ \E m \in LegalMoves(game), mate \in BOOLEAN :
               m.to = sent.to /\ game' = AfterMove(game, m, mate)
      BY <1>7 DEF MakeMove, Accepts
    <2>3. GameApart' BY <1>g, <2>1, <2>2, AfterMoveApart DEF GameApart
    <2>4. CASE ~LocalPlay
      <3>1. ~Making'
        BY <1>0, <1>m, <2>1, <2>4 DEF Sending, Making, CanReceiveRemoteMove, CanMakeLocalMove,
           CanFollowthroughRemoteMove
      <3> QED BY <2>3, <3>1, IdleNoted
    <2>5. CASE LocalPlay
      <3>1. game' # game BY <1>7, <2>5 DEF AnsweredStep
      <3>2. game'.lastmove.to = sent.to BY <2>1, <2>2, <3>1, AfterMoveGoes
      <3>3. Link' BY <1>m, <2>1, <2>5, <3>2 DEF Link
      <3>4. Noted' BY <2>1, SameNoted
      <3>5. Known' /\ NoCheckmate' /\ Rested'
        BY <1>m, <2>1, <2>5 DEF Known, NoCheckmate, Rested
      <3> QED BY <2>3, <3>3, <3>4, <3>5
    <2> QED BY <2>4, <2>5
  <1>8. CASE AfterLocalMove
    <2>1. game' = game /\ pc = "sent" /\ pc' = "legal" /\ UNCHANGED playVars
      BY <1>8 DEF AfterLocalMove
    <2>2. CASE WinLocal(localPlayerTurn)
      <3>1. ~Making'
        BY <1>0, <2>2 DEF WinLocal, Making, CanMakeLocalMove, CanFollowthroughRemoteMove, BoardRecord
      <3> QED BY <1>g, <2>1, <3>1, IdleNoted
    <2>3. CASE UNCHANGED board
      <3>1. Noted' BY <2>1, <2>3, SameNoted
      <3> QED BY <1>g, <1>m, <2>1, <2>3, <3>1 DEF Link, Known, NoCheckmate, Rested
    <2> QED BY <1>8, <2>2, <2>3 DEF AfterLocalMove
  <1>9. CASE AwaitTurn
    <2>1. game \in Game /\ game' = game /\ game # NONE BY <1>0, <1>9 DEF AwaitTurn
    <2> DEFINE m == IF game.lastmove = NONE THEN NoPreviousMove ELSE game.lastmove
    <2>2. m \in Move \cup {NoPreviousMove} /\ (game.lastmove # NONE => m = game.lastmove)
      BY <2>1 DEF Game
    <2>3. ASSUME ReceiveRemoteMove(m), pc' \in {"legal", "mated"} PROVE NotedInv'
      <3>1. board'.fsm = "AWAITING_REMOTE_MOVE_FOLLOWTHROUGH" /\ board'.lastRemoteMove = m
        <4> HIDE DEF m
        <4> QED BY <1>0, <2>2, <2>3, ReceiveEffect
      <3>2. ~CanMakeLocalMove' BY <3>1 DEF CanMakeLocalMove
      <3>3. Link'
        <4> HIDE DEF m
        <4> QED BY <2>1, <2>2, <2>3, <3>1 DEF Link
      <3> QED BY <1>g, <2>1, <2>3, <3>2, <3>3 DEF Noted, Known, NoCheckmate, Rested
    <2>4. CASE WinGame
      <3>1. ~Making'
        BY <1>0, <2>4 DEF WinGame, Making, CanMakeLocalMove, CanFollowthroughRemoteMove, BoardRecord
      <3> QED BY <1>g, <2>1, <3>1, IdleNoted
    <2> QED BY <1>9, <2>3, <2>4 DEF AwaitTurn
  <1>10. CASE NoteCheckmate
    <2>1. /\ pc = "mated" /\ pc' = "ingame" /\ game' = game
          /\ board' = [board EXCEPT !.inCheckmate = TRUE]
      BY <1>10 DEF NoteCheckmate, SetUpcomingCheckmate
    <2>2. /\ board'.inCheckmate /\ board'.lastRemoteMove = board.lastRemoteMove
          /\ board'.fsm = board.fsm
      BY <1>0, <2>1 DEF BoardRecord
    <2>3. ~CanMakeLocalMove' /\ (Making' <=> Making)
      BY <2>1, <2>2 DEF NoCheckmate, Making, CanMakeLocalMove, CanFollowthroughRemoteMove
    <2> QED BY <1>g, <2>1, <2>2, <2>3 DEF Noted, Link, Known, NoCheckmate, Rested
  <1>11. CASE Resign
    <2>1. game \in Game /\ game # NONE BY <1>0, <1>11 DEF Resign
    <2>2. GameApart' BY <1>11, <2>1 DEF Resign, GameApart, Apart, Game
    <2>3. ~Making' BY <1>0, <1>11 DEF Resign, LoseGame, Making, CanMakeLocalMove, CanFollowthroughRemoteMove, BoardRecord
    <2> QED BY <2>2, <2>3, IdleNoted
  <1>12. CASE Continue
    <2>1. GameApart' BY <1>12 DEF Continue, GameApart
    <2>2. ~Making'
      BY <1>0, <1>12 DEF Continue, GoToIdle, Making, CanMakeLocalMove, CanFollowthroughRemoteMove, BoardRecord
    <2> QED BY <2>1, <2>2, IdleNoted
  <1> QED BY <1>1, <1>2, <1>3, <1>4, <1>5, <1>6, <1>7, <1>8, <1>9, <1>10, <1>11, <1>12
          DEF Control

LEMMA StepNoted ==
  ASSUME PlayInv, NotedInv, Next, PatientStep, AnsweredStep
  PROVE  NotedInv'
  <1>1. CASE Sensors BY <1>1, SensorsNoted
  <1>2. CASE Control BY <1>2, ControlNoted
  <1>3. CASE OpponentMoves
    <2>1. game # NONE /\ game \in Game /\ ~LocalPlay /\ game.turn = "remote" /\ UNCHANGED board
      BY <1>3 DEF PlayInv, IInv, TypeOK, OpponentMoves
    <2>2. ~Making'
      BY <2>1 DEF PlayInv, TurnsInv, TurnsAgree, Making, CanMakeLocalMove, CanFollowthroughRemoteMove
    <2>3. GameApart'
      <3>1. CASE game' = [game EXCEPT !.status = "resigned"]
        BY <2>1, <3>1 DEF NotedInv, GameApart, Apart, Game
      <3>2. CASE \E m \in LegalMoves(game), mate \in BOOLEAN : game' = AfterMove(game, m, mate)
        BY <2>1, <3>2, AfterMoveApart DEF NotedInv, GameApart
      <3> QED BY <1>3, <3>1, <3>2 DEF OpponentMoves
    <2> QED BY <2>2, <2>3, IdleNoted
  <1>4. CASE PowerCycle
    <2>1. ~Making'
      BY <1>4 DEF PowerCycle, SwitchedOn, Making, CanMakeLocalMove, CanFollowthroughRemoteMove
    <2>2. GameApart' BY <1>4 DEF PowerCycle, NotedInv, GameApart
    <2> QED BY <2>1, <2>2, IdleNoted
  <1> QED BY <1>1, <1>2, <1>3, <1>4 DEF Next

LEMMA InitNoted == Init => NotedInv
  <1> SUFFICES ASSUME Init PROVE NotedInv OBVIOUS
  <1>1. ~CanMakeLocalMove /\ ~Making
    BY DEF Init, SwitchedOn, Making, CanMakeLocalMove, CanFollowthroughRemoteMove
  <1>2. game = NONE BY DEF Init
  <1> QED BY <1>1, <1>2 DEF NotedInv, Noted, GameApart, Link, Known, NoCheckmate, Rested

\* What is noted, and what IInv says of the flags, makes the move a real one.
LEMMA NotedIsMade ==
  ASSUME PlayInv, NotedInv, IsPotentialLocalMoveValid
  PROVE  PieceMoved /\ (OneCastle => RookMoved) /\ (TakenOnlyInPassing => PawnGone)
  <1>1. PieceMoved
    BY DEF PlayInv, HandsInv, HandsAreReal, IsPotentialLocalMoveValid, PieceMoved, HandsFull,
       Empty, Taken
  <1>2. /\ MoveNoted /\ RookNoted /\ PawnNoted
        /\ board.invalidLifts = {} /\ board.invalidPlacements = {}
    BY DEF NotedInv, Noted, IsPotentialLocalMoveValid
  <1>3. \A c : (c \in Told => c \in sensed \cup Unsettled) /\ (c \in sensed \ Unsettled => c \in Told)
    BY DEF Told, Toggled, Unsettled
  <1>4. \A c : (Gone(c) => Empty(c)) /\ (Put(c) => Taken(c))
    BY <1>2, <1>3 DEF Gone, Put, Empty, Taken, Unsettled
  <1>5. OneCastle => RookMoved
    BY <1>2, <1>4 DEF RookMoved, MoveNoted, RookNoted, Castling, IsPotentialLocalMoveValid
  <1>6. TakenOnlyInPassing => PawnGone
    BY <1>2, <1>4 DEF PawnGone, MoveNoted, PawnNoted, EnPassant, IsPotentialLocalMoveValid
  <1> QED BY <1>1, <1>5, <1>6
-----------------------------------------------------------------------------
(***************************************************************************)
(* Whatever the squares and the moves of the two sides, a move the board   *)
(* would submit has been made with the pieces: the piece has left its      *)
(* square and its target is taken; a castling rook has moved, where the    *)
(* position allows one castle; a pawn captured in passing has gone, where  *)
(* nothing attacks its square (IsPotentialLocalMoveValid, ChessBoard.cpp   *)
(* 505-512, and what LiftPiece and PlacePiece note before it, 17-221).     *)
(* The player may lift and place any piece in any order, cancel a castle or*)
(* a capture half way and start another move, and switch the board off; it *)
(* needs that no piece is moved while the board talks to the server, and   *)
(* that the server answers.                                                *)
(***************************************************************************)
THEOREM SubmittableAlwaysMade == Spec /\ Patient /\ Answered => []SubmittableIsMade
  <1>1. PlayInv /\ NotedInv => SubmittableIsMade BY NotedIsMade DEF SubmittableIsMade
  <1>2. PlayInv /\ NotedInv /\ [Next]_vars /\ [PatientStep]_vars /\ [AnsweredStep]_vars => NotedInv'
    <2> SUFFICES ASSUME PlayInv, NotedInv, [Next]_vars, [PatientStep]_vars, [AnsweredStep]_vars
                 PROVE  NotedInv'
      OBVIOUS
    <2>1. CASE Next /\ PatientStep /\ AnsweredStep BY <2>1, StepNoted
    <2>2. CASE UNCHANGED vars
      <3>1. /\ UNCHANGED board /\ UNCHANGED playVars /\ game' = game /\ pc' = pc /\ sent' = sent
        BY <2>2 DEF vars, controlVars
      <3>2. Noted' BY <3>1, SameNoted DEF NotedInv
      <3> QED BY <3>1, <3>2 DEF NotedInv, GameApart, Link, Known, NoCheckmate, Rested, Making,
              CanMakeLocalMove, CanFollowthroughRemoteMove
    <2> QED BY <2>1, <2>2
  <1> QED BY <1>1, <1>2, InitNoted, AlwaysPlayInv, PTL DEF Spec, Patient, Answered
=============================================================================
