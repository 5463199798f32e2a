----------------------------- MODULE RemoteGame -----------------------------
(***************************************************************************)
(* Boards that play each other through the server (FSM.cpp, chessServer.c, *)
(* chess_server.py).  A board knows what the answers have told it; the     *)
(* server's documents change one access at a time, as GameServer has them. *)
(* A request is lost on its way, is answered, or is answered by something  *)
(* the board cannot read.  A board may be switched off and on when it has  *)
(* no request under way.  The pieces are left to BoardPlay: a remote move  *)
(* is followed through as soon as it is received.                          *)
(***************************************************************************)
EXTENDS GameServer

CONSTANTS
  MaxMoves,     \* bound: moves in a game
  MaxFaults     \* bound: lost requests and answers, boards switched off and on

VARIABLES
  at,        \* where the board's control thread is
  gameCode,  \* the code the board has of its game
  seen,      \* the number of moves in the game the board shows
  faults     \* how many faults there have been

boardVars == <<at, gameCode, seen>>
remoteVars == <<vars, boardVars, faults>>

InTheGame == {"hosting", "cancelling", "joining", "download", "stuck", "local", "moving", "remote",
              "ready", "notready", "garbled", "resigning", "won", "lost"}
Places == InTheGame \cup {"menu", "creating", "leaving"}

RemoteInit ==
  /\ Init
  /\ at = [u \in User |-> "menu"] /\ gameCode = [u \in User |-> NONE]
  /\ seen = [u \in User |-> 0]
  /\ faults = 0
-----------------------------------------------------------------------------
GoTo(u, place) == at' = [at EXCEPT ![u] = place]
Fault == faults < MaxFaults /\ faults' = faults + 1
Game(u) == games[gameCode[u]].state
InGame(u) == gameCode[u] \in Code /\ games[gameCode[u]] # NONE

\* A request that gets through, and one that does not: sendRequestToServer
\* cannot connect.  Answers that are lost are Serve's.
Requests(u, route, code, place, otherwise) ==
  \/ /\ Ask(u, route, code, IF route = "makemove" THEN u ELSE NONE)
     /\ GoTo(u, place)
     /\ UNCHANGED faults
  \/ Fault /\ GoTo(u, otherwise) /\ UNCHANGED vars

\* Create, Join
CreateGame(u) ==
  /\ at[u] = "menu" /\ req[u].step = "idle" /\ CodesLeft
  /\ Requests(u, "newgame", NONE, "creating", "menu")
  /\ UNCHANGED <<gameCode, seen>>

\* The code is that of another player's game: it has been told, or is a guess.
JoinGame(u) ==
  /\ at[u] = "menu"
  /\ \E c \in Running :
       /\ games[c].state.player1_id # u
       /\ gameCode' = [gameCode EXCEPT ![u] = c]
       /\ Requests(u, "joingame", c, "joining", "menu")
  /\ UNCHANGED seen

CancelGame(u) ==
  /\ at[u] = "hosting"
  /\ Requests(u, "delete", gameCode[u], "cancelling", "menu")
  /\ UNCHANGED <<gameCode, seen>>

\* WaitForOpponent: only an answer that says it is this board's turn ends it.
\* Both of the handler's reads are one step, since the game cannot have been
\* mated or resigned.
AwaitOpponent(u) ==
  /\ at[u] = "hosting" /\ InGame(u)
  /\ Game(u).players_joined = 2 /\ Game(u).players_turn = u
  /\ GoTo(u, "download")
  /\ UNCHANGED <<vars, gameCode, seen, faults>>

\* Mutant: the first player is taken to be on turn.
DownloadedFirst(u) ==
  CASE Game(u).game_status.kind = "W" -> IF Game(u).game_status.by = u THEN "won" ELSE "lost"
    [] Game(u).game_status.kind # "W" -> IF Game(u).player1_id = u THEN "local" ELSE "remote"

\* UpdateFromServer, as far as whose turn it is.  An error or no answer leaves
\* the board without a game until it is switched off.
Downloaded(u) ==
  CASE Game(u).game_status.kind = "W" -> IF Game(u).game_status.by = u THEN "won" ELSE "lost"
    [] Game(u).game_status.kind # "W" -> IF Game(u).players_turn = u THEN "local" ELSE "remote"

DownloadGame(u) ==
  /\ at[u] = "download"
  /\ \/ /\ InGame(u)
        /\ GoTo(u, Downloaded(u))
        /\ seen' = [seen EXCEPT ![u] = Game(u).movecount]
        /\ UNCHANGED <<vars, faults>>
     \/ /\ ~InGame(u) /\ GoTo(u, "stuck") /\ UNCHANGED <<vars, seen, faults>>
     \/ Fault /\ GoTo(u, "stuck") /\ UNCHANGED <<vars, seen>>
  /\ UNCHANGED gameCode

\* InGame on the board's turn.  A board that was switched on again before anyone
\* joined its game does not know that nobody has: its player may move and resign.
SubmitMove(u) ==
  /\ at[u] = "local" /\ InGame(u) /\ seen[u] < MaxMoves
  /\ Requests(u, "makemove", gameCode[u], "moving", "remote")
  /\ seen' = [seen EXCEPT ![u] = @ + 1]
  /\ UNCHANGED gameCode

\* Resign goes on asking until it is told that it has succeeded.
Resign(u) ==
  /\ \/ at[u] = "local" /\ InGame(u)
     \/ at[u] = "resigning" /\ req[u].step = "idle"
  /\ Requests(u, "resign", gameCode[u], "resigning", "resigning")
  /\ UNCHANGED <<gameCode, seen>>

Continue(u) ==
  /\ at[u] \in {"won", "lost"}
  /\ Requests(u, "leavegame", NONE, "leaving", "menu")
  /\ UNCHANGED <<gameCode, seen>>
-----------------------------------------------------------------------------
\* is_turn_ready, which looks at the turn in one read of the game and takes
\* the answer from another; and what InGame does with the answer.
AskTurn(u) ==
  /\ at[u] = "remote" /\ InGame(u)
  /\ u \in {Game(u).player1_id, Game(u).player2_id} /\ Game(u).players_joined = 2
  /\ GoTo(u, CASE Game(u).game_status.kind = "R" -> "won"
               [] Game(u).game_status.kind # "R" ->
                    IF Game(u).players_turn = u THEN "ready" ELSE "notready")
  /\ UNCHANGED <<vars, gameCode, seen, faults>>

TurnReady(u) ==
  /\ at[u] = "ready"
  /\ IF InGame(u)
       THEN /\ seen' = [seen EXCEPT ![u] = Game(u).movecount]
            /\ GoTo(u, IF Game(u).game_status.kind # "W" THEN "local"
                       ELSE IF Game(u).game_status.by = u THEN "won" ELSE "lost")
       ELSE GoTo(u, "remote") /\ UNCHANGED seen
  /\ UNCHANGED <<vars, gameCode, faults>>

\* Mutant: the winner is looked for only when the turn is ready.
TurnNotReadyPlain(u) ==
  /\ at[u] = "notready"
  /\ GoTo(u, "remote")
  /\ UNCHANGED <<vars, gameCode, seen, faults>>

\* A loss that is reported so comes without the move that brought it, which
\* awaitTurn then reads from where there is none.
TurnNotReady(u) ==
  /\ at[u] = "notready"
  /\ GoTo(u, IF ~InGame(u) \/ Game(u).game_status.kind # "W" THEN "remote"
             ELSE IF Game(u).game_status.by = u THEN "won" ELSE "garbled")
  /\ UNCHANGED <<vars, gameCode, seen, faults>>
-----------------------------------------------------------------------------
\* The last access of a handler, after which it answers that it has done what
\* was asked.
Done(u) == req[u].step \in {"own", "seat", "leave"}

\* Mutant: a resignation that was not confirmed is given up.
AnsweredGivesUp(u, ok) ==
  /\ GoTo(u, CASE at[u] = "creating" -> IF ok THEN "hosting" ELSE "menu"
               [] at[u] = "joining" -> IF ok THEN "download" ELSE "menu"
               [] at[u] = "resigning" -> IF ok THEN "lost" ELSE "remote"
               [] at[u] = "moving" -> "remote"
               [] at[u] \in {"cancelling", "leaving"} -> "menu")
  /\ gameCode' = IF at[u] = "creating" /\ ok THEN [gameCode EXCEPT ![u] = req[u].code]
                 ELSE gameCode

Answered(u, ok) ==
  /\ GoTo(u, CASE at[u] = "creating" -> IF ok THEN "hosting" ELSE "menu"
               [] at[u] = "joining" -> IF ok THEN "download" ELSE "menu"
               [] at[u] = "resigning" -> IF ok THEN "lost" ELSE "resigning"
               [] at[u] = "moving" -> "remote"
               [] at[u] \in {"cancelling", "leaving"} -> "menu")
  /\ gameCode' = IF at[u] = "creating" /\ ok THEN [gameCode EXCEPT ![u] = req[u].code]
                 ELSE gameCode

Serve(u) ==
  /\ Handle(u)
  /\ \/ req'[u].step # "idle" /\ UNCHANGED <<at, gameCode, faults>>
     \/ req'[u].step = "idle" /\ Answered(u, Done(u)) /\ UNCHANGED faults
     \/ req'[u].step = "idle" /\ Answered(u, FALSE) /\ Fault
  /\ UNCHANGED seen

\* Mutant: a player in no game gets an answer too.
RebootUnchecked(u) ==
  /\ Fault
  /\ req[u].step = "idle"
  /\ \/ /\ GoTo(u, "download")
        /\ gameCode' = [gameCode EXCEPT ![u] = users[u].ongoing_game]
     \/ GoTo(u, "menu") /\ gameCode' = [gameCode EXCEPT ![u] = NONE]
  /\ seen' = [seen EXCEPT ![u] = 0]
  /\ UNCHANGED vars

\* InitialConnection after the switch: only the server remembers.
Reboot(u) ==
  /\ Fault
  /\ req[u].step = "idle"
  /\ \/ /\ users[u].ongoing_game # EMPTY
        /\ GoTo(u, "download")
        /\ gameCode' = [gameCode EXCEPT ![u] = users[u].ongoing_game]
     \/ GoTo(u, "menu") /\ gameCode' = [gameCode EXCEPT ![u] = NONE]
  /\ seen' = [seen EXCEPT ![u] = 0]
  /\ UNCHANGED vars

Board(u) ==
  \/ CreateGame(u) \/ JoinGame(u) \/ CancelGame(u) \/ AwaitOpponent(u)
  \/ DownloadGame(u) \/ SubmitMove(u) \/ Resign(u) \/ Continue(u)
  \/ AskTurn(u) \/ TurnReady(u) \/ TurnNotReady(u)
  \/ Serve(u) \/ Reboot(u)

RemoteNext == \E u \in User : Board(u)
RemoteSpec == RemoteInit /\ [][RemoteNext]_remoteVars

\* A poll is repeated as long as it is not answered, and the server handles
\* what it was sent; only finitely many requests are lost.
Poll(u) == AwaitOpponent(u) \/ AskTurn(u) \/ TurnReady(u) \/ TurnNotReady(u)
Fairness == \A u \in User : WF_remoteVars(Poll(u)) /\ WF_remoteVars(Serve(u))
FairRemoteSpec == RemoteSpec /\ Fairness
-----------------------------------------------------------------------------
\* A board that shows a game has the code of one.
BoardsOK ==
  /\ at \in [User -> Places] /\ gameCode \in [User -> Code \cup {NONE}]
  /\ \A u \in User : at[u] \in InTheGame => gameCode[u] \in Code

\* A board lets its player move only in a game that is still going on, in
\* which the server will take the move: it is this player's turn there, and
\* the position shown is the last.  Lost requests and reboots do not change
\* that.
InStep ==
  \A u \in User :
    at[u] = "local" /\ InGame(u) =>
      /\ Game(u).players_turn = u /\ Game(u).movecount = seen[u]
      /\ Game(u).game_status.kind \in {"O", "N"}

\* A board says "You won" only to the player who mated or whose opponent
\* resigned, and "You lost" only to the other.  One resignation may come to
\* nothing: that of a game nobody had joined, when join_game, having read the
\* game before, writes it back afterwards.
Won(u) ==
  \/ Game(u).game_status = [kind |-> "W", by |-> u]
  \/ Game(u).game_status.kind = "R" /\ Game(u).game_status.by # u
Beaten(u) ==
  \/ Game(u).game_status = [kind |-> "R", by |-> u]
  \/ Game(u).game_status.kind = "W" /\ Game(u).game_status.by # u
Overwritten(u) ==
  /\ Game(u).player1_id = u /\ Game(u).players_joined = 2
  /\ Game(u).movecount = 0 /\ Game(u).game_status.kind = "O"
VerdictsRight ==
  \A u \in User : InGame(u) =>
    /\ at[u] = "won" => Won(u)
    /\ at[u] = "lost" => Beaten(u) \/ Overwritten(u)

\* Once the guest's board waits for the first move, the host's board stops
\* waiting for the guest.
OpponentArrives ==
  \A u \in User :
    (at[u] = "hosting" /\ \E v \in User : at[v] = "remote" /\ gameCode[v] = gameCode[u])
      ~> at[u] # "hosting"

\* A board that waits for the opponent's move in a game both have joined is
\* told of it, and of the end of the game.
News(u) ==
  /\ InGame(u) /\ Game(u).players_joined = 2
  /\ Game(u).players_turn = u \/ Game(u).game_status.kind \in {"R", "W"}
NewsArrives ==
  \A u \in User : (at[u] = "remote" /\ News(u)) ~> at[u] \notin {"remote", "ready", "notready"}

Phase(c) ==
  IF games[c] = NONE THEN IF c \in drawn THEN "gone" ELSE "none"
  ELSE LET pos == games[c].state
       IN  CASE pos.game_status.kind = "W" -> "mated"
             [] pos.game_status.kind = "R" ->
                  IF pos.players_joined = 1 THEN "abandoned" ELSE "resigned"
             [] pos.game_status.kind \in {"O", "N"} ->
                  IF pos.players_joined = 1 THEN "open" ELSE "playing"
Turn(c) ==
  IF games[c] = NONE \/ games[c].state.players_turn = games[c].state.player1_id THEN "first"
  ELSE IF games[c].state.players_turn = NONE THEN "nobody" ELSE "second"
Moves(c) == IF games[c] = NONE THEN 0 ELSE games[c].state.movecount

\* Between two boards the documents, written without transactions, go only
\* through the steps of Match: but for what the first player does before the
\* second has joined, nothing is joined twice, no move is undone, repeated or
\* made out of turn, and a game that is over stays as it is.
M == INSTANCE Match WITH phase <- [c \in Code |-> Phase(c)],
                         turn <- [c \in Code |-> Turn(c)],
                         moves <- [c \in Code |-> Moves(c)]
MatchPlayed == M!Spec
=============================================================================
