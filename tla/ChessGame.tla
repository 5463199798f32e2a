----------------------------- MODULE ChessGame -----------------------------
(***************************************************************************)
(* The game as the server keeps it (chess_server.py), seen from one board: *)
(* "local" moves are this board's, "remote" moves its opponent's.  Which   *)
(* moves a piece has is python-chess's business: Moves lists the moves of  *)
(* an instance, and a move is legal when its men are where it needs them.  *)
(***************************************************************************)
EXTENDS Integers, FiniteSets

CONSTANTS
  Cell,        \* the squares
  Moves,       \* Moves[side]: the moves the men of that side have
  MaxMoves,    \* bound: moves in a game
  Openings,    \* where the men of each side may stand when a game begins
  NONE         \* an empty optional

Side == {"local", "remote"}
MoveType == {"NORMAL", "CASTLE", "EN_PASSANT", "PROMOTION"}
CastleMove == [from : Cell, to : Cell]

\* The Move class of the board; rook is GetRookCastleMove of a castling king,
\* pawn the square an en passant capture empties.  Move::Move reads one mark: a
\* castle or a capture in passing is never an attacking move.  A castling king lands
\* on neither square of its rook.
Move == [from : Cell, to : Cell, isAttackingMove : BOOLEAN, moveType : MoveType,
         rook : CastleMove \cup {NONE}, pawn : Cell \cup {NONE}]

ASSUME MovesAssumption ==
  /\ Moves \in [Side -> SUBSET Move]
  /\ \A m \in Moves["local"] \cup Moves["remote"] :
       /\ m.from # m.to
       /\ (m.moveType = "CASTLE") <=> (m.rook # NONE)
       /\ (m.moveType = "EN_PASSANT") <=> (m.pawn # NONE)
       /\ m.isAttackingMove => m.moveType \in {"NORMAL", "PROMOTION"}
       /\ m.rook # NONE => m.to \notin {m.rook.from, m.rook.to}
ASSUME OpeningsAssumption ==
  /\ Openings \subseteq [Side -> SUBSET Cell]
  /\ \A men \in Openings : men["local"] \cap men["remote"] = {}
ASSUME NoneAssumption == NONE \notin Cell /\ NONE \notin Move /\ NONE \notin CastleMove
ASSUME MaxMovesAssumption == MaxMoves \in Nat

Status == {"ongoing", "won", "lost", "resigned"}
Game == [men : [Side -> SUBSET Cell], turn : Side, lastmove : Move \cup {NONE},
         movecount : 0..MaxMoves, status : Status, local : BOOLEAN]
ASSUME NoneIsNoGame == NONE \notin Game

Other(side) == IF side = "local" THEN "remote" ELSE "local"

\* create_new_game: the creator, who may be either player, moves first; in a
\* local game both sides are played on one board.
NewGame(men, first, local) ==
  [men |-> men, turn |-> first, lastmove |-> NONE, movecount |-> 0, status |-> "ongoing",
   local |-> local]

Fits(g, m) ==
  LET mine == g.men[g.turn]
      theirs == g.men[Other(g.turn)]
  IN  /\ m.from \in mine /\ m.to \notin mine
      /\ m.isAttackingMove <=> m.to \in theirs
      /\ m.rook # NONE => m.rook.from \in mine /\ m.rook.to \notin mine \cup theirs
      /\ m.pawn # NONE => /\ m.pawn \in theirs
                          /\ g.lastmove # NONE /\ g.lastmove.to = m.pawn

\* board.legal_moves; a checkmate leaves none.
LegalMoves(g) ==
  IF g.status \in {"won", "lost"} THEN {} ELSE {m \in Moves[g.turn] : Fits(g, m)}

\* push_uci and what make_move writes back; mate says whether it is checkmate.
AfterMove(g, m, mate) ==
  LET rooks == IF m.rook = NONE THEN [from |-> {}, to |-> {}]
               ELSE [from |-> {m.rook.from}, to |-> {m.rook.to}]
  IN  [men |-> [side \in Side |->
                  IF side = g.turn
                    THEN (g.men[side] \ ({m.from} \cup rooks.from)) \cup {m.to} \cup rooks.to
                    ELSE g.men[side] \ {m.to, m.pawn}],
       turn |-> Other(g.turn), lastmove |-> m, movecount |-> g.movecount + 1,
       status |-> IF ~mate THEN "ongoing" ELSE IF g.turn = "local" THEN "won" ELSE "lost",
       local |-> g.local]
=============================================================================
