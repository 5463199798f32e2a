---------------------------- MODULE MCBoardPlay ----------------------------
(***************************************************************************)
(* Small boards for TLC: a few squares each, with the moves that one kind  *)
(* of situation needs.                                                     *)
(***************************************************************************)
EXTENDS BoardClaims

Quiet(f, t) == [from |-> f, to |-> t, isAttackingMove |-> FALSE,
                moveType |-> "NORMAL", rook |-> NONE, pawn |-> NONE]
Takes(f, t) == [Quiet(f, t) EXCEPT !.isAttackingMove = TRUE]
Promotes(f, t) == [Quiet(f, t) EXCEPT !.moveType = "PROMOTION"]
Castles(f, t, rf, rt) == [Quiet(f, t) EXCEPT !.moveType = "CASTLE",
                            !.rook = [from |-> rf, to |-> rt]]
Passes(f, t, p) == [Quiet(f, t) EXCEPT !.moveType = "EN_PASSANT", !.pawn = p]

Men(mine, theirs) == [side \in Side |-> IF side = "local" THEN mine ELSE theirs]
EitherWay(mine, theirs) == {Men(mine, theirs), Men(theirs, mine)}

(* Captures: a rook each on a corridor of three squares. *)
CorridorCell == {"a1", "a2", "a3"}
CorridorOpenings == {Men({"a1"}, {"a3"})}
Slides == UNION {{Quiet(f, t), Takes(f, t)} : f, t \in CorridorCell}
CorridorMoves == [side \in Side |-> {m \in Slides : m.from # m.to}]

(* Castling: the player or the opponent has a king and a rook that may. *)
CastleCell == {"e1", "g1", "h1", "f1", "a8"}
CastleOpenings == EitherWay({"e1", "h1"}, {"a8"})
CastleMoves == [side \in Side |->
  {Castles("e1", "g1", "h1", "f1"), Quiet("e1", "f1"), Quiet("a8", "g1")}]

(* En passant: a pawn of one side passes, the other side's captures it. *)
PassantCell == {"d2", "d3", "d4", "e4", "h1"}
PassantOpenings == EitherWay({"d2"}, {"e4"})
PassantMoves == [side \in Side |->
  {Quiet("d2", "d4"), Passes("e4", "d3", "d4"), Quiet("e4", "h1")}]

(* A pawn of either side promotes, capturing or not. *)
PromotionCell == {"a7", "a8", "b8"}
PromotionOpenings == EitherWay({"a7"}, {"b8"})
PromotionMoves == [side \in Side |->
  {Promotes("a7", "a8"), [Promotes("a7", "b8") EXCEPT !.isAttackingMove = TRUE],
   Quiet("b8", "a8"), Takes("b8", "a7")}]
=============================================================================
