------------------------------- MODULE Match -------------------------------
(***************************************************************************)
(* What the server promises of the games between two boards: a game is     *)
(* opened, joined, played in alternating moves, and ends with a mate or a  *)
(* resignation, after which nothing happens to it.  It may vanish as long  *)
(* as no move has been made.                                               *)
(*                                                                         *)
(* The first player's board, switched off and on, does not know whether    *)
(* anyone has joined.  What it does before is a part of the promise too: a *)
(* move leaves the turn with nobody, for good, and of a move or a          *)
(* resignation and a join that overlap one may undo the other.  Nothing    *)
(* else undoes anything.                                                   *)
(***************************************************************************)
EXTENDS Naturals

CONSTANT Code

VARIABLES
  phase,   \* how far each game has got
  turn,    \* whose turn it is: the first player's, who opened it, the second's or nobody's
  moves    \* how many moves have been made

Init ==
  /\ phase = [c \in Code |-> "none"]
  /\ turn = [c \in Code |-> "first"]
  /\ moves = [c \in Code |-> 0]

Becomes(c, p) == phase' = [phase EXCEPT ![c] = p]

Open(c) == phase[c] = "none" /\ Becomes(c, "open") /\ UNCHANGED <<turn, moves>>

Join(c) ==
  /\ \/ phase[c] = "open" /\ Becomes(c, "playing")
     \/ phase[c] = "abandoned" /\ Becomes(c, "resigned")
  /\ UNCHANGED <<turn, moves>>

Move(c) ==
  /\ phase[c] = "playing" /\ turn[c] # "nobody"
  /\ Becomes(c, "playing") \/ Becomes(c, "mated")
  /\ turn' = [turn EXCEPT ![c] = IF @ = "first" THEN "second" ELSE "first"]
  /\ moves' = [moves EXCEPT ![c] = @ + 1]

Resign(c) ==
  /\ phase[c] = "playing" /\ turn[c] # "nobody"
  /\ Becomes(c, "resigned") /\ UNCHANGED <<turn, moves>>

Vanish(c) ==
  /\ phase[c] \in {"open", "playing"} /\ moves[c] = 0
  /\ Becomes(c, "gone") /\ UNCHANGED <<turn, moves>>

\* The first player acts alone.  The move is written over a join that came
\* after it had read the game.
MoveAlone(c) ==
  /\ phase[c] \in {"open", "playing"} /\ turn[c] = "first" /\ moves[c] = 0
  /\ Becomes(c, "open")
  /\ turn' = [turn EXCEPT ![c] = "nobody"] /\ moves' = [moves EXCEPT ![c] = 1]

ResignAlone(c) ==
  /\ phase[c] = "open" /\ turn[c] = "first" /\ moves[c] = 0
  /\ Becomes(c, "abandoned") /\ UNCHANGED <<turn, moves>>

\* The join is written over what the first player did alone meanwhile.
JoinOver(c) ==
  /\ phase[c] = "abandoned" \/ (phase[c] = "open" /\ turn[c] = "nobody")
  /\ Becomes(c, "playing")
  /\ turn' = [turn EXCEPT ![c] = "first"] /\ moves' = [moves EXCEPT ![c] = 0]

Next ==
  \E c \in Code :
    \/ Open(c) \/ Join(c) \/ Move(c) \/ Resign(c) \/ Vanish(c)
    \/ MoveAlone(c) \/ ResignAlone(c) \/ JoinOver(c)
Spec == Init /\ [][Next]_<<phase, turn, moves>>
=============================================================================
