----------------------------- MODULE BoardPlay -----------------------------
(***************************************************************************)
(* A board at play: the sensor thread, which reports changes to Board; the *)
(* control thread, which downloads games, sends moves and asks for the     *)
(* opponent's (FSM.cpp); the server and the opponent; and the switch that  *)
(* turns the board off and on.  The player may lift any piece and put any  *)
(* piece anywhere at any time.                                             *)
(*                                                                         *)
(* The sensor thread holds sensorSem from the detection of a change until  *)
(* Board has taken note of it, which needs boardSem; the control thread    *)
(* holds boardSem during a download, and needs sensorSem in the middle.    *)
(***************************************************************************)
EXTENDS Board

CONSTANTS
  LocalGames,   \* whether the games are local: a subset of BOOLEAN
  MaxFlags,     \* bound: squares the player leaves flagged at a time
  MaxMissed     \* bound: squares that change behind the sensor thread's back

VARIABLES
  sensed,       \* currentMagnetValues: the squares with a magnet on them
  event,        \* the change the sensor thread is about to report, or NONE
  overtaken,    \* history: squares reported after a download measured again
  pc,           \* where the control thread is
  game,         \* the server's record of the game the board is in
  localPlayerTurn,
  sent,         \* the move that has been submitted and is to be sent
  submitted,    \* history: the number that move has in the game
  legalReply    \* legalMovesString: the last good answer of getlegalmoves

playVars == <<sensed, event, overtaken>>
controlVars == <<pc, localPlayerTurn, sent, submitted, legalReply>>
vars == <<board, playVars, controlVars, game>>

Change == [cell : Cell, placed : BOOLEAN]
ASSUME NoneIsNoChange == NONE \notin Change
ASSUME LocalGamesAssumption == LocalGames \subseteq BOOLEAN

\* isLocalGame
LocalPlay == game.local

Positions == {"nogame", "download", "downloading", "reading", "legal", "ingame",
              "sending", "sent", "mated"}

TypeOK ==
  /\ board \in BoardRecord
  /\ sensed \subseteq Cell
  /\ event \in Change \cup {NONE}
  /\ overtaken \subseteq Cell
  /\ pc \in Positions
  /\ game \in Game \cup {NONE}
  /\ localPlayerTurn \in Side
  /\ sent \in Move \cup {NONE}
  /\ submitted \in 0..MaxMoves
  /\ legalReply \in (SUBSET Move) \cup {NONE}

Init ==
  /\ \E men \in Openings : sensed = men["local"] \cup men["remote"]
  /\ board = SwitchedOn
  /\ event = NONE /\ overtaken = {}
  /\ pc = "nogame" /\ game = NONE
  /\ localPlayerTurn = "local" /\ sent = NONE /\ submitted = 0
  /\ legalReply = NONE
-----------------------------------------------------------------------------
(***************************************************************************)
(* MagneticSensors::UpdateMagnetValuesAndPropagate: one change at a time is*)
(* found and then reported.                                                *)
(***************************************************************************)
Toggled(S, c) == (S \ {c}) \cup ({c} \ S)

Detect(c) ==
  /\ event = NONE
  /\ \/ Cardinality(board.invalidLifts \cup board.invalidPlacements) < MaxFlags
     \/ c \in board.invalidLifts \cup board.invalidPlacements
  /\ sensed' = Toggled(sensed, c)
  /\ event' = [cell |-> c, placed |-> c \notin sensed]
  /\ UNCHANGED <<board, overtaken, controlVars, game>>

Propagate ==
  /\ event # NONE /\ pc \notin {"downloading", "reading"}
  /\ IF event.placed THEN PlacePiece(event.cell) ELSE LiftPiece(event.cell)
  /\ event' = NONE
  /\ overtaken' = IF event.placed = (event.cell \in sensed)
                    THEN overtaken ELSE overtaken \cup {event.cell}
  /\ UNCHANGED <<sensed, controlVars, game>>
-----------------------------------------------------------------------------
(***************************************************************************)
(* DownloadCurrentGame: Board::UpdateFromServer, from when it has boardSem.*)
(***************************************************************************)
StartGame ==
  /\ pc = "nogame"
  /\ \E men \in Openings, first \in Side, local \in LocalGames :
       (local => first = "local") /\ game' = NewGame(men, first, local)
  /\ pc' = "download"
  /\ UNCHANGED <<board, playVars, localPlayerTurn, sent, submitted, legalReply>>

DownloadCurrentGame ==
  /\ pc = "download"
  /\ pc' = "downloading"
  /\ UNCHANGED <<board, playVars, game, localPlayerTurn, sent, submitted, legalReply>>

\* Mutant of ResetByDownload: the flags are kept.
ResetKeepingFlags ==
  [NoSpecialMove(EmptyHanded(board)) EXCEPT
     !.lastRemoteMove = NONE, !.lastLocalMove = NONE, !.inCheckmate = FALSE]
ResetByDownload ==
  [NoSpecialMove(EmptyHanded(board)) EXCEPT
     !.invalidLifts = {}, !.invalidPlacements = {},
     !.lastRemoteMove = NONE, !.lastLocalMove = NONE, !.inCheckmate = FALSE]

\* The board's part of the answer: whose turn it is, and the last move, which
\* has been followed through if the square it came from is empty.
Downloaded ==
  LET last == game.lastmove
      ours == game.turn = "local" \/ LocalPlay
      b == ResetByDownload
  IN  IF ~ours
        THEN [b EXCEPT !.lastLocalMove = last, !.fsm = "AWAITING_REMOTE_MOVE_NOTICE"]
      ELSE IF last = NONE
        THEN [b EXCEPT !.fsm = "AWAITING_LOCAL_MOVE"]
      ELSE IF last.from \notin sensed
        THEN [b EXCEPT !.lastRemoteMove = last, !.fsm = "AWAITING_LOCAL_MOVE"]
      ELSE [BeginFollowthrough(b, last, last.pawn) EXCEPT !.lastRemoteMove = last]

\* A game that is already lost, or won: then nothing else is looked at.
DownloadedLost ==
  IF LocalPlay THEN [Downloaded EXCEPT !.fsm = "LOCAL_BLACK_WIN"]
  ELSE [Downloaded EXCEPT !.inCheckmate = TRUE,
          !.fsm = IF @ = "AWAITING_LOCAL_MOVE" THEN "LOST_GAME" ELSE @]
DownloadedWon == [ResetByDownload EXCEPT !.fsm = "WON_GAME"]

MeasureInitialMagnetValues ==
  \E changed \in {S \in SUBSET Cell : Cardinality(S) <= MaxMissed} :
    sensed' = (sensed \ changed) \cup (changed \ sensed)

\* The end of a download; whose turn it says it is, which a local game goes by,
\* is a variable never written unless the turn has been looked at.
FinishDownload(b, turns) ==
  /\ board' = b
  /\ MeasureInitialMagnetValues
  /\ overtaken' = {}
  /\ pc' = IF b.inCheckmate THEN "ingame" ELSE "legal"
  /\ localPlayerTurn' \in IF LocalPlay THEN turns ELSE {localPlayerTurn}
  /\ submitted' = 0
  /\ UNCHANGED <<event, game, sent, legalReply>>

FinishWithTurn ==
  FinishDownload(IF game.status = "lost" THEN DownloadedLost ELSE Downloaded, {game.turn})

\* Whether the answer makes the board look at the square a move came from.
NeedsSensors ==
  /\ game.status # "won" /\ game.lastmove # NONE
  /\ game.turn = "local" \/ LocalPlay

UpdateFromServer ==
  /\ pc = "downloading"
  /\ \/ game.status = "won" /\ FinishDownload(DownloadedWon, Side)
     \/ game.status # "won" /\ ~NeedsSensors /\ FinishWithTurn
     \/ /\ NeedsSensors /\ pc' = "reading"
        /\ UNCHANGED <<board, playVars, game, localPlayerTurn, sent, submitted, legalReply>>

\* No answer, or not one that can be read: the board has only been reset.
UpdateFails == pc = "downloading" /\ FinishDownload(ResetByDownload, Side)

\* GetCurrentMagnetValues needs sensorSem, which a change that is still to be
\* reported keeps taken.
UpdateAfterSensors == pc = "reading" /\ event = NONE /\ FinishWithTurn

\* Board::UpdateLegalMoves; without an answer it reads the last one again.
LegalMovesArrive ==
  /\ pc = "legal"
  /\ \/ legalReply' = LegalMoves(game)
     \/ legalReply # NONE /\ UNCHANGED legalReply
  /\ UpdateLegalMoves(legalReply')
  /\ pc' = "ingame"
  /\ UNCHANGED <<playVars, game, localPlayerTurn, sent, submitted>>
-----------------------------------------------------------------------------
(***************************************************************************)
(* InGame and Resign.  InGame looks at nothing else while a promotion is in*)
(* progress; the menu of Resign is shown while the player goes on moving.  *)
(***************************************************************************)
ChoosePromotion ==
  /\ pc = "ingame" /\ CanMakeLocalMove /\ MustSelectPromotion
  /\ SetPromotionType
  /\ UNCHANGED <<playVars, controlVars, game>>

SubmitMove ==
  /\ pc = "ingame" /\ ~PromotionInProgress /\ game.movecount < MaxMoves
  /\ SubmitCurrentLocalMove(LocalPlay)
  /\ sent' = LocalMove
  /\ submitted' = game.movecount + 1
  /\ pc' = "sending"
  /\ UNCHANGED <<playVars, game, localPlayerTurn, legalReply>>

\* What the server makes of the move: refused unless it is legal and the
\* player's turn.
Accepts(m) ==
  /\ game.turn = IF LocalPlay THEN localPlayerTurn ELSE "local"
  /\ m.from = sent.from /\ m.to = sent.to
  /\ m.moveType = "PROMOTION" <=> sent.moveType = "PROMOTION"

\* chessServer_makeMove, whose result is not looked at.
MakeMove ==
  /\ pc = "sending"
  /\ \/ \E m \in LegalMoves(game), mate \in BOOLEAN :
          /\ Accepts(m) /\ game.movecount < MaxMoves
          /\ game' = AfterMove(game, m, mate)
     \/ UNCHANGED game
  /\ pc' = IF LocalPlay THEN "sent" ELSE "ingame"
  /\ sent' = NONE
  /\ UNCHANGED <<board, playVars, localPlayerTurn, submitted, legalReply>>

\* In a local game the control thread then asks whether that was checkmate.
AfterLocalMove ==
  /\ pc = "sent"
  /\ \/ game.status \in {"won", "lost"} /\ WinLocal(localPlayerTurn)
     \/ UNCHANGED board
  /\ localPlayerTurn' = Other(localPlayerTurn)
  /\ pc' = "legal"
  /\ UNCHANGED <<playVars, game, sent, submitted, legalReply>>

\* chessServer_awaitTurn, and what InGame does with the answer.
AwaitTurn ==
  /\ pc = "ingame" /\ ~PromotionInProgress /\ CanReceiveRemoteMove
  /\ LET m == IF game.lastmove = NONE THEN NoPreviousMove ELSE game.lastmove
     IN  \/ /\ game.status = "ongoing" /\ game.turn = "local"
            /\ ReceiveRemoteMove(m) /\ pc' = "legal"
         \/ /\ game.status = "lost"
            /\ ReceiveRemoteMove(m) /\ pc' = "mated"
         \/ game.status \in {"won", "resigned"} /\ WinGame /\ UNCHANGED pc
  /\ UNCHANGED <<playVars, game, localPlayerTurn, sent, submitted, legalReply>>

\* After a lost game's last move, the checkmate is noted in a step of its own.
NoteCheckmate ==
  /\ pc = "mated"
  /\ SetUpcomingCheckmate
  /\ pc' = "ingame"
  /\ UNCHANGED <<playVars, game, localPlayerTurn, sent, submitted, legalReply>>

Resign ==
  /\ pc = "ingame" /\ CanMakeLocalMove
  /\ game' = [game EXCEPT !.status = "resigned"]
  /\ LoseGame
  /\ UNCHANGED <<playVars, controlVars>>

\* The game is over and the player goes on; the request to leave it may be lost.
Continue ==
  /\ pc = "ingame" /\ (PromotionInProgress => game.status = "resigned")
  /\ board.fsm \in {"WON_GAME", "LOST_GAME", "LOCAL_WHITE_WIN", "LOCAL_BLACK_WIN"}
  /\ GoToIdle
  /\ game' \in {NONE, game}
  /\ pc' = "nogame"
  /\ UNCHANGED <<playVars, localPlayerTurn, sent, submitted, legalReply>>
-----------------------------------------------------------------------------
OpponentMoves ==
  /\ game # NONE /\ ~LocalPlay
  /\ game.status = "ongoing" /\ game.turn = "remote"
  /\ \/ /\ game.movecount < MaxMoves
        /\ \E m \in LegalMoves(game), mate \in BOOLEAN : game' = AfterMove(game, m, mate)
     \/ game' = [game EXCEPT !.status = "resigned"]
  /\ UNCHANGED <<board, playVars, controlVars>>

\* The board is switched off and on: only the server remembers.
PowerCycle ==
  /\ board' = SwitchedOn
  /\ event' = NONE /\ overtaken' = {}
  /\ pc' \in IF game = NONE THEN {"nogame"} ELSE {"nogame", "download"}
  /\ localPlayerTurn' = "local" /\ sent' = NONE /\ submitted' = 0
  /\ legalReply' = NONE
  /\ UNCHANGED <<sensed, game>>

Sensors == (\E c \in Cell : Detect(c)) \/ Propagate

Control ==
  \/ StartGame \/ DownloadCurrentGame
  \/ UpdateFromServer \/ UpdateFails \/ UpdateAfterSensors \/ LegalMovesArrive
  \/ ChoosePromotion \/ SubmitMove \/ MakeMove \/ AfterLocalMove
  \/ AwaitTurn \/ NoteCheckmate \/ Resign \/ Continue

Next == Sensors \/ Control \/ OpponentMoves \/ PowerCycle

Spec == Init /\ [][Next]_vars
-----------------------------------------------------------------------------
\* Squares whose last change has not reached the board, or reached it after a
\* download had measured the square again.
Unsettled == overtaken \cup (IF event = NONE THEN {} ELSE {event.cell})

(***************************************************************************)
(* The two sets of flagged squares say something real: a square flagged for*)
(* a piece that must go back is empty, one flagged for a piece that must go*)
(* has a piece on it.  Each flag is raised in one handler and cleared in   *)
(* the other, so a flag that is wrong can never be cleared by the player   *)
(* (ChessBoard.cpp 19-23, 116-123).                                        *)
(***************************************************************************)
FlagsAreReal ==
  /\ board.invalidLifts \cap sensed \subseteq Unsettled
  /\ board.invalidPlacements \ sensed \subseteq Unsettled

(***************************************************************************)
(* While a move is being made the piece in hand is off its square, and the *)
(* piece that was put down for a move still to be submitted is on its own  *)
(* (ChessBoard.cpp 25-41, 74-78, 126-135, 208-209).                        *)
(***************************************************************************)
HandsAreReal ==
  /\ (CanMakeLocalMove \/ CanFollowthroughRemoteMove) /\ board.liftedPiece \in sensed
       => board.liftedPiece \in Unsettled
  /\ CanMakeLocalMove /\ ~board.isPerformingPromotion /\ board.placedPiece # NONE
       => board.placedPiece \in sensed \cup Unsettled

(***************************************************************************)
(* A move the board would submit has been made with the pieces: the piece  *)
(* has left its square and its target is taken; a castling rook has moved  *)
(* from corner to side; a pawn captured in passing has gone.  The handlers *)
(* note one change at a time, in any order, and cancelling a castle or a   *)
(* capture forgets only half of what they noted (ChessBoard.cpp 25-33,     *)
(* 148-165, 505-512).  Without a last move, no pawn can be taken in passing*)
(* but by the legal moves of a game that is over; in a position in which   *)
(* the king may castle to either side, what was noted of one rook counts   *)
(* for the other; and a piece that may also take the pawn on its own square*)
(* may be left there.  It is the legal moves of one position that keep the *)
(* notes apart: BoardHands_proofs says when the board has them (Patient,   *)
(* Answered).                                                              *)
(***************************************************************************)
OneCastle ==
  \A m, n \in board.allLegalMoves : m.rook # NONE /\ n.rook # NONE => m.rook = n.rook
TakenOnlyInPassing ==
  \A m, n \in board.allLegalMoves :
    m.moveType = "EN_PASSANT" /\ n.to = m.pawn => ~n.isAttackingMove

Empty(c) == c \notin sensed \ Unsettled
Taken(c) == c \in sensed \cup Unsettled
PieceMoved ==
  /\ Empty(board.liftedPiece)
  /\ ~board.isPerformingPromotion => Taken(board.placedPiece)
RookMoved ==
  Castling => Empty(board.currentRookCastleMove.from) /\ Taken(board.currentRookCastleMove.to)
PawnGone == EnPassant /\ board.lastRemoteMove # NONE => Empty(board.enPassantCapture)

SubmittableIsMade ==
  IsPotentialLocalMoveValid =>
    /\ PieceMoved
    /\ OneCastle => RookMoved
    /\ TakenOnlyInPassing => PawnGone

(***************************************************************************)
(* A remote move counts as followed through only when its piece has left   *)
(* the square it came from and the square it went to is taken or flagged,  *)
(* whatever else the player did with the pieces meanwhile (ChessBoard.cpp  *)
(* 92, 178, 188, 199, 216).                                                *)
(***************************************************************************)
FollowedThrough ==
  [][CanFollowthroughRemoteMove
     /\ board'.fsm \in {"AWAITING_LOCAL_MOVE", "LOST_GAME"} =>
       /\ board.lastRemoteMove.from \notin sensed' \ Unsettled
       /\ board.lastRemoteMove.to \in sensed' \cup board'.invalidLifts \cup Unsettled]_vars

\* Nothing is in hand and no special move is under way when the board waits for
\* the opponent: ReceiveRemoteMove counts on it, since it does not reset
\* liftedPiece and placedPiece (ChessBoard.cpp 548-561).
NothingInHandWaiting ==
  CanReceiveRemoteMove =>
    /\ board.liftedPiece = NONE /\ board.placedPiece = NONE /\ board.attackedPiece = NONE
    /\ ~Castling /\ ~board.liftedCastle /\ ~board.placedCastle
    /\ ~EnPassant /\ ~board.liftedEnPassant

(***************************************************************************)
(* The board and the server agree on the turn whatever requests are lost:  *)
(* the board lets a player move, or asks for a remote move, only when the  *)
(* server awaits this board, and the remote move it knows is the server's  *)
(* last (ChessBoard.cpp 382-413, 497, 543-574).                            *)
(***************************************************************************)
TurnsAgree ==
  CanMakeLocalMove \/ CanFollowthroughRemoteMove =>
    LocalPlay \/ /\ game.turn = "local"
                 /\ board.lastRemoteMove \in {game.lastmove, NoPreviousMove}
=============================================================================
