------------------------- MODULE RemoteGame_proofs -------------------------
(***************************************************************************)
(* Boards that play each other are users of the server: every step of      *)
(* theirs is a step of GameServer or leaves its documents alone, so that   *)
(* what holds of the server under any requests holds here, for any number  *)
(* of boards, games, moves and faults.  Two boards see more: what each of  *)
(* them shows is what the server has, and the games they play are those of *)
(* Match, since only the board that is on turn changes a game, or joins    *)
(* it.  The two overlap only in a game nobody has joined: then one writes  *)
(* back a position older than the other's.                                 *)
(***************************************************************************)
EXTENDS RemoteGame, GameServer_proofs

Asking == {"creating", "joining", "cancelling", "moving", "resigning", "leaving"}

\* A request is under way only where the board waits for its answer.
AskingInv ==
  \A u \in User :
    /\ req[u].step # "idle" => at[u] \in Asking
    /\ at[u] = "creating" => req[u].route = "newgame" /\ req[u].step \in {"create", "own"}

RemoteInv == ServerInv /\ BoardsOK /\ AskingInv
-----------------------------------------------------------------------------
\* A handler changes no request but its own, which is under way.
LEMMA HandleOwn ==
  ASSUME req \in [User -> Request], NEW u \in User, Handle(u)
  PROVE  /\ req[u].step # "idle"
         /\ \A v \in User \ {u} : req'[v] = req[v]
<1> USE DEF Goto, Reply, ReturnTo, Idle
<1>1. CASE Create(u) \/ Own(u) \/ SeatMachine(u) \/ ReadToJoin(u) \/ Sit(u) \/ Seat(u)
  BY <1>1 DEF Create, Own, SeatMachine, ReadToJoin, Sit, Seat
<1>2. CASE ReadToDelete(u) \/ ClearFirst(u) \/ ClearSecond(u) \/ Erase(u)
  BY <1>2 DEF ReadToDelete, ClearFirst, ClearSecond, Erase
<1>3. CASE ReadInvitee(u) \/ ReadInviter(u) \/ Reread(u) \/ Invite(u)
  BY <1>3 DEF ReadInvitee, ReadInviter, Reread, Invite
<1>4. CASE ReadToCancel(u) \/ Withdraw(u) \/ ReadMyGame(u) \/ ReadInvites(u) \/ DropInvite(u)
  BY <1>4 DEF ReadToCancel, Withdraw, ReadMyGame, ReadInvites, DropInvite
<1>5. CASE Leave(u) \/ ReadToResign(u) \/ PutStatus(u)
  BY <1>5 DEF Leave, ReadToResign, PutStatus
<1>6. CASE ReadToMove(u) \/ PutMove(u) \/ PutPrev(u) \/ ReadPrev(u) \/ Restore(u)
  BY <1>6 DEF ReadToMove, PutMove, PutPrev, ReadPrev, Restore
<1> QED
  BY <1>1, <1>2, <1>3, <1>4, <1>5, <1>6 DEF Handle

\* A new game's handler writes the game, then its owner, and answers.
LEMMA HandleCreating ==
  ASSUME req \in [User -> Request], NEW u \in User, Handle(u),
         req[u].route = "newgame", req[u].step \in {"create", "own"}
  PROVE  \/ req'[u].step = "own" /\ req'[u].route = "newgame"
         \/ req'[u].step = "idle"
<1>1. CASE req[u].step = "create"
  <2>1. Create(u)
    BY <1>1 DEF Handle, Own, SeatMachine, ReadToJoin, Sit, Seat, ReadToDelete, ClearFirst,
       ClearSecond, Erase, ReadInvitee, ReadInviter, Reread, Invite, ReadToCancel, Withdraw,
       ReadMyGame, ReadInvites, DropInvite, Leave, ReadToResign, PutStatus, ReadToMove,
       PutMove, PutPrev, ReadPrev, Restore
  <2> QED
    BY <2>1 DEF Create, Request
<1>2. CASE req[u].step = "own"
  <2>1. Own(u)
    BY <1>2 DEF Handle, Create, SeatMachine, ReadToJoin, Sit, Seat, ReadToDelete, ClearFirst,
       ClearSecond, Erase, ReadInvitee, ReadInviter, Reread, Invite, ReadToCancel, Withdraw,
       ReadMyGame, ReadInvites, DropInvite, Leave, ReadToResign, PutStatus, ReadToMove,
       PutMove, PutPrev, ReadPrev, Restore
  <2> QED
    BY <2>1 DEF Own, Reply, Idle
<1> QED
  BY <1>1, <1>2
-----------------------------------------------------------------------------
\* What a board requests, a user may send.
LEMMA BoardSends ==
  ASSUME BoardsOK, TypeOK, NEW u \in User, Board(u), ~Serve(u), ~UNCHANGED vars
  PROVE  Send(u)
<1> USE DEF Requests
<1>1. CASE CreateGame(u)
  BY <1>1 DEF CreateGame, Send
<1>2. CASE JoinGame(u)
  BY <1>2 DEF JoinGame, Running, Send
<1>3. CASE CancelGame(u)
  BY <1>3 DEF CancelGame, BoardsOK, InTheGame, Send
<1>4. CASE SubmitMove(u)
  BY <1>4 DEF SubmitMove, InGame, Send
<1>5. CASE Resign(u)
  BY <1>5 DEF Resign, InGame, BoardsOK, InTheGame, Send
<1>6. CASE Continue(u)
  BY <1>6 DEF Continue, Send
<1> QED
  BY <1>1, <1>2, <1>3, <1>4, <1>5, <1>6 DEF Board, AwaitOpponent, DownloadGame, AskTurn,
     TurnReady, TurnNotReady, Reboot, vars

\* So every step of a board is one of the server or leaves it alone.
LEMMA BoardIsUser ==
  ASSUME BoardsOK, TypeOK, [RemoteNext]_remoteVars
  PROVE  [Next]_vars
<1>1. CASE UNCHANGED remoteVars
  BY <1>1 DEF remoteVars
<1>2. ASSUME NEW u \in User, Board(u) PROVE [Next]_vars
  <2>1. CASE Serve(u)
    BY <2>1 DEF Serve, Next
  <2> QED
    BY <1>2, <2>1, BoardSends DEF Next
<1> QED
  BY <1>1, <1>2 DEF RemoteNext
-----------------------------------------------------------------------------
\* A step of board u moves no other board, and its own as BoardsOK asks.
LEMMA BoardsStep ==
  ASSUME BoardsOK, TypeOK, NEW u \in User, NEW place \in Places, NEW code \in Code \cup {NONE},
         at' = [at EXCEPT ![u] = place], gameCode' = [gameCode EXCEPT ![u] = code],
         place \in InTheGame => code \in Code
  PROVE  BoardsOK'
BY DEF BoardsOK

\* A request that is sent from a place where none was under way.
LEMMA AskingStep ==
  ASSUME AskingInv, BoardsOK, TypeOK, NEW u \in User, NEW place \in Places, NEW otherwise \in Places,
         NEW route, NEW code, Requests(u, route, code, place, otherwise),
         place \in Asking, place = "creating" => route = "newgame", otherwise # "creating",
         req[u].step = "idle"
  PROVE  AskingInv'
<1>1. CASE Ask(u, route, code, IF route = "makemove" THEN u ELSE NONE) /\ GoTo(u, place)
  <2>1. \A v \in User \ {u} : req'[v] = req[v] /\ at'[v] = at[v]
    BY <1>1 DEF Ask, GoTo, BoardsOK, TypeOK
  <2>2. req'[u].route = route /\ req'[u].step = FirstStep[route] /\ at'[u] = place
    BY <1>1 DEF Ask, GoTo, BoardsOK, TypeOK
  <2>3. FirstStep["newgame"] = "create"
    BY DEF FirstStep
  <2> QED
    BY <2>1, <2>2, <2>3 DEF AskingInv
<1>2. CASE GoTo(u, otherwise) /\ UNCHANGED vars
  BY <1>2 DEF GoTo, BoardsOK, AskingInv, vars
<1> QED
  BY <1>1, <1>2 DEF Requests

\* A place that is no request's is gone to when none is under way.
LEMMA IdleStep ==
  ASSUME AskingInv, BoardsOK, NEW u \in User, NEW place \in Places,
         GoTo(u, place), UNCHANGED vars, req[u].step = "idle", place # "creating"
  PROVE  AskingInv'
BY DEF GoTo, BoardsOK, AskingInv, vars

\* Every action of a board but Serve keeps the two invariants.
LEMMA BoardActionStep ==
  ASSUME RemoteInv, NEW u \in User, Board(u), ~Serve(u)
  PROVE  BoardsOK' /\ AskingInv'
<1> USE DEF RemoteInv, Places, InTheGame, Asking
<1>0. BoardsOK /\ AskingInv /\ TypeOK
  BY DEF ServerInv
<1>i. at[u] \notin Asking => req[u].step = "idle"
  BY <1>0 DEF AskingInv
<1>1. CASE CreateGame(u)
  <2>1. AskingInv'
    BY <1>0, <1>1, AskingStep DEF CreateGame
  <2>2. BoardsOK'
    BY <1>0, <1>1 DEF CreateGame, Requests, GoTo, BoardsOK
  <2> QED
    BY <2>1, <2>2
<1>2. CASE JoinGame(u)
  <2>1. PICK c \in Running :
          /\ gameCode' = [gameCode EXCEPT ![u] = c]
          /\ Requests(u, "joingame", c, "joining", "menu")
    BY <1>2 DEF JoinGame
  <2>2. AskingInv'
    BY <1>0, <1>i, <1>2, <2>1, AskingStep DEF JoinGame
  <2>3. BoardsOK'
    BY <1>0, <2>1 DEF Requests, GoTo, BoardsOK, Running
  <2> QED
    BY <2>2, <2>3
<1>3. CASE CancelGame(u)
  <2>1. AskingInv'
    BY <1>0, <1>i, <1>3, AskingStep DEF CancelGame
  <2>2. BoardsOK'
    BY <1>0, <1>3 DEF CancelGame, Requests, GoTo, BoardsOK
  <2> QED
    BY <2>1, <2>2
<1>4. CASE SubmitMove(u)
  <2>1. AskingInv'
    BY <1>0, <1>i, <1>4, AskingStep DEF SubmitMove
  <2>2. BoardsOK'
    BY <1>0, <1>4 DEF SubmitMove, Requests, GoTo, BoardsOK
  <2> QED
    BY <2>1, <2>2
<1>5. CASE Resign(u)
  <2>1. AskingInv'
    BY <1>0, <1>i, <1>5, AskingStep DEF Resign
  <2>2. BoardsOK'
    BY <1>0, <1>5 DEF Resign, Requests, GoTo, BoardsOK, InGame
  <2> QED
    BY <2>1, <2>2
<1>6. CASE Continue(u)
  <2>1. AskingInv'
    BY <1>0, <1>i, <1>6, AskingStep DEF Continue
  <2>2. BoardsOK'
    BY <1>0, <1>6 DEF Continue, Requests, GoTo, BoardsOK
  <2> QED
    BY <2>1, <2>2
<1>7. CASE AwaitOpponent(u) \/ AskTurn(u) \/ TurnNotReady(u)
  <2>1. PICK place \in {"download", "won", "lost", "ready", "notready", "remote", "garbled"} :
          GoTo(u, place) /\ UNCHANGED <<vars, gameCode>> /\ at[u] \in {"hosting", "remote", "notready"}
    BY <1>7 DEF AwaitOpponent, AskTurn, TurnNotReady
  <2>2. AskingInv'
    BY <1>0, <1>i, <2>1, IdleStep
  <2>3. BoardsOK'
    BY <1>0, <2>1 DEF GoTo, BoardsOK
  <2> QED
    BY <2>2, <2>3
<1>8. CASE DownloadGame(u) \/ TurnReady(u)
  <2>1. PICK place \in {"won", "lost", "local", "remote", "stuck"} :
          GoTo(u, place) /\ UNCHANGED <<vars, gameCode>> /\ at[u] \in {"download", "ready"}
    BY <1>8 DEF DownloadGame, Downloaded, TurnReady
  <2>2. AskingInv'
    BY <1>0, <1>i, <2>1, IdleStep
  <2>3. BoardsOK'
    BY <1>0, <2>1 DEF GoTo, BoardsOK
  <2> QED
    BY <2>2, <2>3
<1>9. CASE Reboot(u)
  <2>1. AskingInv'
    BY <1>0, <1>9, IdleStep DEF Reboot
  <2>2. users[u].ongoing_game # EMPTY => users[u].ongoing_game \in Code
    BY <1>0 DEF TypeOK
  <2>3. BoardsOK'
    BY <1>0, <1>9, <2>2 DEF Reboot, GoTo, BoardsOK
  <2> QED
    BY <2>1, <2>3
<1> QED
  BY <1>1, <1>2, <1>3, <1>4, <1>5, <1>6, <1>7, <1>8, <1>9 DEF Board

\* And so does the server's answer.
LEMMA ServeStep ==
  ASSUME RemoteInv, NEW u \in User, Serve(u)
  PROVE  BoardsOK' /\ AskingInv'
<1> USE DEF RemoteInv, Places, InTheGame, Asking
<1>0. BoardsOK /\ AskingInv /\ TypeOK /\ RequestInv(req[u]) /\ req \in [User -> Request]
  BY DEF ServerInv, TypeOK
<1>1. Handle(u)
  BY DEF Serve
<1>2. req[u].step # "idle" /\ \A v \in User \ {u} : req'[v] = req[v]
  BY <1>0, <1>1, HandleOwn
<1>3. at[u] \in Asking
  BY <1>0, <1>2 DEF AskingInv
<1>4. CASE req'[u].step # "idle" /\ UNCHANGED <<at, gameCode>>
  <2>1. at[u] = "creating" => req'[u].step = "own" /\ req'[u].route = "newgame"
    BY <1>0, <1>1, <1>4, HandleCreating DEF AskingInv
  <2>2. AskingInv'
    BY <1>0, <1>2, <1>3, <1>4, <2>1 DEF AskingInv
  <2> QED
    BY <1>0, <1>4, <2>2 DEF BoardsOK
<1>5. CASE \E ok \in {Done(u), FALSE} : req'[u].step = "idle" /\ Answered(u, ok)
  <2>1. PICK ok \in {Done(u), FALSE} : req'[u].step = "idle" /\ Answered(u, ok)
    BY <1>5
  <2>2. at[u] = "creating" /\ ok => req[u].code \in Code
    BY <1>0, <2>1 DEF AskingInv, Done, RequestInv, GameSteps, SettingUp
  <2>3. PICK place \in {"hosting", "menu", "download", "lost", "resigning", "remote"} :
          /\ GoTo(u, place)
          /\ place \in {"download", "lost", "resigning", "remote"} => at[u] \in InTheGame
          /\ place = "hosting" => at[u] = "creating" /\ ok
    BY <1>3, <2>1 DEF Answered
  <2>4. AskingInv'
    BY <1>0, <1>2, <2>1, <2>3 DEF AskingInv, GoTo, BoardsOK
  <2>5. BoardsOK'
    BY <1>0, <2>1, <2>2, <2>3 DEF BoardsOK, GoTo, Answered
  <2> QED
    BY <2>4, <2>5
<1> QED
  BY <1>4, <1>5 DEF Serve

\* So every step keeps the invariant.
LEMMA RemoteNextInv == RemoteInv /\ [RemoteNext]_remoteVars => RemoteInv'
<1> SUFFICES ASSUME RemoteInv, [RemoteNext]_remoteVars PROVE RemoteInv'
  OBVIOUS
<1>1. ServerInv'
  <2>1. [Next]_vars
    BY BoardIsUser DEF RemoteInv, ServerInv
  <2> QED
    BY <2>1, ServerNextInv DEF RemoteInv
<1>2. ASSUME NEW u \in User, Board(u) PROVE BoardsOK' /\ AskingInv'
  BY <1>2, ServeStep, BoardActionStep
<1>3. CASE UNCHANGED remoteVars
  BY <1>1, <1>3 DEF RemoteInv, BoardsOK, AskingInv, remoteVars, boardVars, vars
<1> QED
  BY <1>1, <1>2, <1>3 DEF RemoteInv, RemoteNext

\* And it holds at first.
LEMMA RemoteInitInv == RemoteInit => RemoteInv
<1> SUFFICES ASSUME RemoteInit PROVE RemoteInv
  OBVIOUS
<1>1. ServerInv
  BY ServerInitInv DEF RemoteInit
<1>2. BoardsOK
  BY DEF RemoteInit, BoardsOK, Places, InTheGame
<1>3. AskingInv
  BY DEF RemoteInit, Init, Idle, AskingInv
<1> QED
  BY <1>1, <1>2, <1>3 DEF RemoteInv
-----------------------------------------------------------------------------
\* The invariant the theorems below rest on.
THEOREM RemoteInvariant == RemoteSpec => []RemoteInv
<1> QED
  BY RemoteInitInv, RemoteNextInv, PTL DEF RemoteSpec

\* A board that shows a game has the code of one, whatever requests are lost
\* and whenever it is switched off.
THEOREM RemoteBoardsOK == RemoteSpec => []BoardsOK
<1>1. RemoteInv => BoardsOK
  BY DEF RemoteInv
<1> QED
  BY <1>1, RemoteInvariant, PTL

\* Boards that play each other are users of the server: RemoteGame
\* implements GameServer.
THEOREM BoardsAreUsers == RemoteSpec => Spec
<1>1. RemoteInit => Init
  BY DEF RemoteInit
<1>2. RemoteInv /\ [RemoteNext]_remoteVars => [Next]_vars
  BY BoardIsUser DEF RemoteInv, ServerInv
<1> QED
  BY <1>1, <1>2, RemoteInvariant, PTL DEF RemoteSpec, Spec

\* So between any number of boards the turn and the number of moves of a
\* game agree, and a game reported won is won by the player who moved last.
THEOREM RemoteGamesConsistent == RemoteSpec => [](TurnMatchesCount /\ WinnerHasMoved)
<1> QED
  BY BoardsAreUsers, ServerTurnMatchesCount, ServerWinnerHasMoved, PTL
-----------------------------------------------------------------------------
\* The invariant of two boards.

\* What request a board makes where it waits for an answer, and the handler's steps.
RouteOf ==
  [creating |-> "newgame", joining |-> "joingame", cancelling |-> "delete",
   moving |-> "makemove", resigning |-> "resign", leaving |-> "leavegame"]
StepsOf ==
  [creating |-> {"create", "own"}, joining |-> {"join", "sit", "seat"},
   cancelling |-> {"delete", "clearfirst", "clearsecond", "erase"},
   moving |-> {"move", "put", "putprev"}, resigning |-> {"resign", "status", "leave"},
   leaving |-> {"leave"}]
Concerning == {"joining", "cancelling", "moving", "resigning"}

BusyInv(u) ==
  /\ req[u].step # "idle" =>
       /\ at[u] \in Asking /\ req[u].route = RouteOf[at[u]] /\ req[u].step \in StepsOf[at[u]]
       /\ at[u] \in Concerning => req[u].code = gameCode[u]
       /\ at[u] = "moving" => req[u].peer = u
  /\ at[u] \in Asking \ {"resigning"} => req[u].step # "idle"
  /\ gameCode[u] \in Code => gameCode[u] \in drawn
  /\ users[u].ongoing_game \in Code => users[u].ongoing_game \in drawn

\* A game that nobody has moved in or resigned; a game that goes on.
Pos(c) == games[c].state
Fresh(pos) ==
  pos.movecount = 0 /\ pos.players_turn = pos.player1_id /\ pos.game_status.kind = "O"
GoingOn(pos) == pos.game_status.kind \in {"O", "N"}
Resigned(pos, u) == pos.game_status = [kind |-> "R", by |-> u]

\* What the first player makes of a game that nobody has joined.
Adrift(pos) ==
  pos.movecount = 1 /\ pos.players_turn = NONE /\ pos.game_status.kind = "N"
Dropped(pos) ==
  /\ pos.movecount = 0 /\ pos.players_turn = pos.player1_id
  /\ Resigned(pos, pos.player1_id)

\* An older position than pos that a join may write back, and one that a move may.
BeforeJoin(old, pos) ==
  /\ old.players_joined = 1 /\ old.player1_id = pos.player1_id
  /\ old = pos \/ Fresh(old)
BeforeMove(old, pos) ==
  \/ old = pos
  \/ /\ old.players_joined = 1 /\ old.player1_id = pos.player1_id
     /\ Fresh(old) /\ pos.players_joined = 2 /\ Fresh(pos)

\* u's resignation of a game nobody had joined has been written over.
Overtaken(pos, u) == pos.player1_id = u /\ pos.players_joined = 2 /\ Fresh(pos)

GameInv(pos) ==
  /\ pos.players_joined = 1 => Fresh(pos) \/ Adrift(pos) \/ Dropped(pos)
  /\ pos.players_joined = 2 => pos.player2_id \in User \ {pos.player1_id}
  /\ pos.game_status.kind = "R" => pos.game_status.by = pos.players_turn

\* What a handler that will write the game may count on.
HeldInv(u) ==
  LET c == req[u].code
      pos == Pos(c)
      doc == req[u].doc
  IN  /\ req[u].step = "own" /\ c \in Running => pos.player1_id = u /\ Fresh(pos)
      /\ req[u].step = "join" /\ c \in Running => pos.player1_id # u
      /\ req[u].step \in {"sit", "seat"} =>
           /\ c \in Running /\ BeforeJoin(doc.state, pos)
           /\ pos.players_joined = 1 /\ pos.player1_id # u
      /\ req[u].step = "put" => c \in Running /\ BeforeMove(doc.state, pos)
      /\ req[u].step \in {"clearfirst", "clearsecond", "erase"} =>
           /\ doc.state.player1_id = u
           /\ c \in Running /\ doc.state.players_joined = 2 => pos = doc.state
      /\ req[u].step = "erase" => doc.state.players_joined = 2

\* What a board at a place, with its request at a step, may count on in the game it
\* shows n moves of.
WonIn(pos, u) ==
  \/ pos.game_status = [kind |-> "W", by |-> u]
  \/ pos.game_status.kind = "R" /\ pos.game_status.by # u
LostIn(pos, u) ==
  \/ pos.game_status = [kind |-> "R", by |-> u]
  \/ pos.game_status.kind = "W" /\ pos.game_status.by # u
Shows(u, place, step, n, pos) ==
  /\ place = "local" => pos.players_turn = u /\ pos.movecount = n /\ GoingOn(pos)
  /\ place = "moving" /\ step \in {"move", "put"} => pos.players_turn = u /\ GoingOn(pos)
  /\ place = "resigning" =>
       /\ pos.players_turn = u
       /\ GoingOn(pos) \/ Resigned(pos, u)
       /\ step = "leave" => Resigned(pos, u) \/ Overtaken(pos, u)
  /\ place \in {"hosting", "cancelling"} => pos.player1_id = u /\ Fresh(pos)
  /\ place = "ready" => pos.players_turn = u /\ pos.game_status.kind # "R"
  /\ place = "won" => WonIn(pos, u)
  /\ place = "lost" => LostIn(pos, u) \/ Overtaken(pos, u)
  /\ Resigned(pos, u) =>
       place \in {"resigning", "lost", "leaving", "menu", "creating", "joining"}
ShownInv(u) ==
  gameCode[u] \in Running => Shows(u, at[u], req[u].step, seen[u], Pos(gameCode[u]))

\* A player who has resigned is in no game any more, once the handler is through.
LeftInv(u) ==
  LET c == users[u].ongoing_game
  IN  c \in Running /\ Resigned(Pos(c), u) =>
        at[u] = "resigning" /\ req[u].step = "leave" /\ gameCode[u] = c

DuelInv ==
  /\ seen \in [User -> Nat]
  /\ \A c \in Running : GameInv(Pos(c))
  /\ \A u \in User : BusyInv(u) /\ HeldInv(u) /\ ShownInv(u) /\ LeftInv(u)

\* No three of the boards are different.  Of three, two that join a game at once may
\* both be told that they have: joingame reads the players and writes them apart.
TwoBoards == \A u, v, w \in User : u = v \/ v = w \/ u = w

UserInv(u) == BusyInv(u) /\ HeldInv(u) /\ ShownInv(u) /\ LeftInv(u)

\* What a step of board u does to the games: nothing that a position would show; or it
\* creates one, seats u as the second player, or, when u is on turn in a game that goes
\* on, moves, gives up, or erases it before the first move.  A join and a move write what
\* they make of a position that may be an older one.
Leaves(c) ==
  /\ c \in Running' <=> c \in Running
  /\ c \in Running => games'[c].state = games[c].state
NowHas(c, pos) == games'[c] # NONE /\ games'[c].state = pos
Seats(u, c) ==
  /\ c \in Running /\ Pos(c).players_joined = 1 /\ Pos(c).player1_id # u
  /\ \E old \in Position :
       /\ BeforeJoin(old, Pos(c))
       /\ NowHas(c, [old EXCEPT !.player2_id = u, !.players_joined = 2])
OnTurn(u, c) == c \in Running /\ Pos(c).players_turn = u /\ GoingOn(Pos(c))
Advances(u, c) ==
  \E old \in Position, mate \in BOOLEAN :
    /\ Good(old) /\ BeforeMove(old, Pos(c)) /\ (mate => old.movecount > 0)
    /\ NowHas(c, Moved(old, u, mate))
Changes(u, c) ==
  \/ c \notin drawn /\ drawn' = drawn \cup {c} /\ NowHas(c, NewPosition(u))
  \/ UNCHANGED drawn /\ Seats(u, c)
  \/ /\ UNCHANGED drawn /\ OnTurn(u, c)
     /\ \/ Advances(u, c)
        \/ NowHas(c, [Pos(c) EXCEPT !.game_status = [kind |-> "R", by |-> u]])
        \/ Pos(c).players_joined = 2 /\ Fresh(Pos(c)) /\ games'[c] = NONE
Writes(u) ==
  \/ UNCHANGED drawn /\ \A c \in Code : Leaves(c)
  \/ \E c \in Code : Changes(u, c) /\ \A d \in Code \ {c} : Leaves(d)

\* What the other board may count on: a game changes only on u's turn, or by u's
\* joining it.
GoesOnWith(u, c) ==
  /\ OnTurn(u, c)
  /\ Pos(c).players_joined = 1 => games'[c] # NONE /\ games'[c].state.players_joined = 1
  /\ games'[c] # NONE =>
       /\ games'[c].state.player1_id = games[c].state.player1_id
       /\ games'[c].state.game_status.kind = "R" => games'[c].state.game_status.by = u
Respects(u) == \A c \in drawn : Leaves(c) \/ GoesOnWith(u, c) \/ Seats(u, c)

\* A board that a step is not of.
Stays(w) ==
  /\ at'[w] = at[w] /\ gameCode'[w] = gameCode[w] /\ seen'[w] = seen[w] /\ req'[w] = req[w]
  /\ users'[w].ongoing_game \in {users[w].ongoing_game, EMPTY}

\* Where the board is during which step of its request.
LEMMA PlaceOfStep ==
  ASSUME NEW u \in User, BusyInv(u)
  PROVE  /\ req[u].step \in {"create", "own"} => at[u] = "creating"
         /\ req[u].step \in {"join", "sit", "seat"} => at[u] = "joining"
         /\ req[u].step \in {"delete", "clearfirst", "clearsecond", "erase"} => at[u] = "cancelling"
         /\ req[u].step \in {"move", "put", "putprev"} => at[u] = "moving"
         /\ req[u].step \in {"resign", "status"} => at[u] = "resigning"
         /\ req[u].step = "leave" => at[u] \in {"resigning", "leaving"}
BY DEF BusyInv, Asking, StepsOf

\* A player on turn in a game nobody has joined is the first, who has done nothing yet.
LEMMA FirstFresh ==
  ASSUME NEW pos, NEW u \in User, GameInv(pos), pos.players_turn = u, GoingOn(pos)
  PROVE  pos.players_joined = 1 => Fresh(pos)
<1>1. u # NONE BY PlayersAssumption DEF Player
<1>2. ~Adrift(pos) BY <1>1 DEF Adrift
<1>3. ~Dropped(pos) BY DEF Dropped, Resigned, GoingOn
<1> QED BY <1>2, <1>3 DEF GameInv

\* What a board counts on in a game that another one goes on with: nothing.
LEMMA NothingCounted ==
  ASSUME RemoteInv, NEW w \in User, UserInv(w), NEW c \in Code, c \in Running,
         Pos(c).players_turn # w, GoingOn(Pos(c))
  PROVE  /\ gameCode[w] = c =>
              at[w] \notin {"local", "resigning", "hosting", "cancelling", "ready", "won", "lost"}
              /\ (at[w] = "moving" => req[w].step \notin {"move", "put"})
         /\ req[w].code = c =>
              req[w].step \notin {"own", "put", "clearfirst", "clearsecond", "erase"}
<1>1. /\ req[w].step \in {"put"} => at[w] = "moving" /\ req[w].code = gameCode[w]
      /\ req[w].step \in {"clearfirst", "clearsecond", "erase"} =>
           at[w] = "cancelling" /\ req[w].code = gameCode[w]
  BY PlaceOfStep DEF UserInv, BusyInv, Concerning
<1>2. gameCode[w] = c =>
         at[w] \notin {"local", "resigning", "hosting", "cancelling", "ready", "won", "lost"}
         /\ (at[w] = "moving" => req[w].step \notin {"move", "put"})
  BY DEF UserInv, ShownInv, Shows, Fresh, GoingOn, WonIn, LostIn, Resigned, Overtaken
<1>3. req[w].code = c => req[w].step # "own"
  BY DEF UserInv, HeldInv, Fresh
<1> QED BY <1>1, <1>2, <1>3

\* What a join makes of a game.
LEMMA SeatedFacts ==
  ASSUME NEW u \in User, NEW c \in Code, Seats(u, c)
  PROVE  /\ games'[c] # NONE /\ games'[c].state \in Position
         /\ games'[c].state.player1_id = Pos(c).player1_id
         /\ games'[c].state.player2_id = u /\ games'[c].state.players_joined = 2
         /\ \/ Fresh(games'[c].state)
            \/ /\ games'[c].state.players_turn = Pos(c).players_turn
               /\ games'[c].state.movecount = Pos(c).movecount
               /\ games'[c].state.game_status = Pos(c).game_status
         /\ Fresh(Pos(c)) => Fresh(games'[c].state)
<1>1. PICK old \in Position :
        /\ BeforeJoin(old, Pos(c))
        /\ NowHas(c, [old EXCEPT !.player2_id = u, !.players_joined = 2])
  BY Zenon DEF Seats
<1> DEFINE new == [old EXCEPT !.player2_id = u, !.players_joined = 2]
<1>2. /\ new \in Position /\ new.player1_id = old.player1_id /\ new.player2_id = u
      /\ new.players_joined = 2 /\ new.players_turn = old.players_turn
      /\ new.movecount = old.movecount /\ new.game_status = old.game_status
  BY DEF Position, Player
<1>3. games'[c] # NONE /\ games'[c].state = new
  BY <1>1 DEF NowHas
<1> HIDE DEF new
<1>4. Fresh(new) \/ old = Pos(c)
  BY <1>1, <1>2 DEF BeforeJoin, Fresh
<1>5. old = Pos(c) /\ Fresh(Pos(c)) => Fresh(new)
  BY <1>2 DEF Fresh
<1> QED BY <1>1, <1>2, <1>3, <1>4, <1>5 DEF BeforeJoin

\* The first player's board loses nothing by it that it counts on.
LEMMA SeatedShows ==
  ASSUME NEW u \in User, NEW c \in Code, Seats(u, c), NEW w \in User, Pos(c).player1_id = w,
         GameInv(Pos(c)), NEW place, NEW step, NEW n, Shows(w, place, step, n, Pos(c))
  PROVE  Shows(w, place, step, n, games'[c].state)
<1> DEFINE pos == Pos(c)
           new == games'[c].state
<1>1. /\ new.player1_id = w /\ new.players_joined = 2 /\ pos.player1_id = w
      /\ \/ Fresh(new)
         \/ /\ new.players_turn = pos.players_turn /\ new.movecount = pos.movecount
            /\ new.game_status = pos.game_status
      /\ Fresh(pos) => Fresh(new)
  BY SeatedFacts
<1>2. Fresh(pos) \/ Adrift(pos) \/ Dropped(pos)
  BY DEF Seats, GameInv
<1>3. w # NONE BY PlayersAssumption DEF Player
<1>4. Shows(w, place, step, n, pos) OBVIOUS
<1> HIDE DEF pos, new
<1>5. Fresh(pos) => Shows(w, place, step, n, new)
  BY <1>1, <1>4 DEF Shows, Fresh, GoingOn, Resigned, WonIn, LostIn, Overtaken
<1>6. Adrift(pos) => Shows(w, place, step, n, new)
  BY <1>1, <1>3, <1>4 DEF Shows, Adrift, Fresh, GoingOn, Resigned, WonIn, LostIn, Overtaken
<1>7. Dropped(pos) => Shows(w, place, step, n, new)
  BY <1>1, <1>4 DEF Shows, Dropped, Fresh, GoingOn, Resigned, WonIn, LostIn, Overtaken
<1>8. Shows(w, place, step, n, new) BY <1>2, <1>5, <1>6, <1>7
<1> QED BY <1>8 DEF new

LEMMA OthersKept ==
  ASSUME RemoteInv, TwoBoards, NEW u \in User, NEW w \in User \ {u}, UserInv(w), Stays(w), Respects(u),
         drawn \subseteq drawn', \A c \in Running : GameInv(Pos(c))
  PROVE  UserInv(w)'
<1>0. NONE \notin Code /\ EMPTY \notin Code BY CodesAssumption
<1>1. BusyInv(w)'
  BY <1>0 DEF UserInv, BusyInv, Stays
<1>2. \A c \in Code : c \in Running => Pos(c).player1_id \in User /\ Pos(c).players_joined \in {1, 2}
  BY DEF RemoteInv, ServerInv, TypeOK, Running, Document, Position, Pos
<1>3. HeldInv(w)'
  <2> DEFINE c == req[w].code
             held == {"own", "join", "sit", "seat", "put", "clearfirst", "clearsecond", "erase"}
  <2>1. CASE req[w].step \notin held
    BY <2>1 DEF HeldInv, Stays
  <2>2. CASE req[w].step \in held
    <3>1. c \in drawn /\ c \in Code
      <4>1. req[w].step = "own" => c \in drawn
        BY DEF RemoteInv, ServerInv, SetupInv, SettingUp
      <4>2. req[w].step # "own" => at[w] \in Concerning /\ req[w].step # "idle"
        BY <2>2, PlaceOfStep DEF UserInv, Concerning
      <4>3. req[w].step # "own" => c = gameCode[w]
        BY <4>2 DEF UserInv, BusyInv
      <4>4. gameCode[w] \in Code => gameCode[w] \in drawn
        BY DEF UserInv, BusyInv
      <4>5. req[w].step # "own" => gameCode[w] \in Code
        BY <4>2, <2>2 DEF RemoteInv, BoardsOK, InTheGame, Concerning
      <4> QED BY <4>1, <4>3, <4>4, <4>5 DEF RemoteInv, ServerInv, TypeOK
    <3>2. CASE Leaves(c)
      BY <3>2 DEF UserInv, HeldInv, Stays, Leaves, Pos
    <3>3. CASE GoesOnWith(u, c)
      <4>1. req[w].step \notin {"own", "put", "clearfirst", "clearsecond", "erase"}
        BY <3>1, <3>3, NothingCounted DEF GoesOnWith, OnTurn
      <4>2. Pos(c).players_joined = 1 => Fresh(Pos(c))
        BY <3>3, FirstFresh DEF GoesOnWith, OnTurn
      <4>3. /\ games'[c] # NONE => games'[c].state.player1_id = Pos(c).player1_id
            /\ Pos(c).players_joined = 1 => c \in Running' /\ games'[c].state.players_joined = 1
        BY <3>1, <3>3 DEF GoesOnWith, Pos, Running
      <4>4. c \in Running' => games'[c] # NONE BY DEF Running
      <4>5. c \in Running BY <3>3 DEF GoesOnWith, OnTurn
      <4> HIDE DEF c
      <4>6. HeldInv(w) /\ Stays(w) BY DEF UserInv
      <4>7. CASE req[w].step = "join"
        BY <4>3, <4>4, <4>5, <4>6, <4>7 DEF HeldInv, Stays, Pos, c
      <4>8. CASE req[w].step \in {"sit", "seat"}
        <5> DEFINE old == req[w].doc.state
        <5>1. BeforeJoin(old, Pos(c)) /\ Pos(c).players_joined = 1 /\ Pos(c).player1_id # w
          BY <4>6, <4>8 DEF HeldInv, c
        <5>2. Fresh(old) /\ old.players_joined = 1 /\ old.player1_id = Pos(c).player1_id
          BY <4>2, <5>1 DEF BeforeJoin
        <5> DEFINE new == games'[c].state
        <5>3. c \in Running' /\ new.player1_id = Pos(c).player1_id /\ new.players_joined = 1
          BY <4>3, <4>4, <5>1
        <5> HIDE DEF old, new
        <5>4. BeforeJoin(old, new)
          BY <5>2, <5>3 DEF BeforeJoin
        <5> QED BY <4>6, <4>8, <5>1, <5>3, <5>4 DEF HeldInv, Stays, Pos, c, old, new
      <4> QED BY <2>2, <4>1, <4>7, <4>8
    <3>4. CASE Seats(u, c)
      <4>1. req[w].step \notin {"join", "sit", "seat"}
        BY <1>2, <3>1, <3>4 DEF Seats, TwoBoards, UserInv, HeldInv
      <4>2. req[w].step = "put" => at[w] = "moving" /\ c = gameCode[w]
        BY PlaceOfStep DEF UserInv, BusyInv, Concerning
      <4>3. req[w].step \in {"clearfirst", "clearsecond", "erase"} =>
              req[w].doc.state.players_joined # 2
        BY <3>4 DEF Seats, NowHas, UserInv, HeldInv
      <4>4. c \in Running /\ Pos(c).players_joined = 1 /\ GameInv(Pos(c))
        BY <3>4 DEF Seats
      <4>5. /\ c \in Running' /\ games'[c].state.player1_id = Pos(c).player1_id
            /\ games'[c].state.players_joined = 2
            /\ Fresh(Pos(c)) => Fresh(games'[c].state)
        BY <3>1, <3>4, SeatedFacts DEF Running
      <4>6. req[w].step = "put" => Fresh(Pos(c))
        BY <4>2, <4>4, PlayersAssumption
           DEF UserInv, ShownInv, Shows, GameInv, Adrift, Dropped, Resigned, GoingOn, Player
      <4> HIDE DEF c
      <4>7. HeldInv(w) /\ Stays(w) BY DEF UserInv
      <4>8. CASE req[w].step = "put"
        BY <4>4, <4>5, <4>6, <4>7, <4>8 DEF HeldInv, Stays, BeforeMove, Pos, c
      <4>9. CASE req[w].step # "put"
        BY <4>1, <4>3, <4>4, <4>5, <4>7, <4>9 DEF HeldInv, Stays, Pos, c
      <4> QED BY <4>8, <4>9
    <3> QED BY <3>1, <3>2, <3>3, <3>4 DEF Respects
  <2> QED BY <2>1, <2>2
<1>4. ASSUME NEW c \in Code, c \in drawn
      PROVE  Leaves(c) \/ GoesOnWith(u, c) \/ Seats(u, c)
  BY <1>4 DEF Respects
<1>5. ASSUME NEW c \in Code, Seats(u, c)
      PROVE  /\ c \in Running /\ Pos(c).players_joined = 1 /\ GameInv(Pos(c))
             /\ Pos(c).player1_id = w
  BY <1>2, <1>5 DEF Seats, TwoBoards
<1>6. ShownInv(w)'
  <2> SUFFICES ASSUME NEW c, c = gameCode[w], c \in Running' PROVE ShownInv(w)'
    BY DEF ShownInv, Stays
  <2>1. c \in Code /\ c \in drawn
    BY DEF Running, UserInv, BusyInv
  <2>2. CASE Leaves(c)
    BY <2>1, <2>2 DEF UserInv, ShownInv, Stays, Leaves, Pos
  <2>3. CASE GoesOnWith(u, c)
    <3>1. /\ at[w] \notin {"local", "resigning", "hosting", "cancelling", "ready", "won", "lost"}
          /\ at[w] = "moving" => req[w].step \notin {"move", "put"}
      BY <2>1, <2>3, NothingCounted DEF GoesOnWith, OnTurn
    <3>2. ~Resigned(games'[c].state, w)
      BY <2>1, <2>3 DEF GoesOnWith, OnTurn, Resigned, Running
    <3> QED BY <3>1, <3>2 DEF ShownInv, Shows, Stays, Pos
  <2>4. CASE Seats(u, c)
    <3>1. /\ c \in Running /\ Pos(c).players_joined = 1 /\ GameInv(Pos(c))
          /\ Pos(c).player1_id = w
      BY <1>5, <2>1, <2>4
    <3>2. Shows(w, at[w], req[w].step, seen[w], Pos(c))
      BY <3>1 DEF UserInv, ShownInv
    <3>3. Shows(w, at[w], req[w].step, seen[w], games'[c].state)
      BY <2>1, <2>4, <3>1, <3>2, SeatedShows
    <3> QED BY <3>3 DEF ShownInv, Stays, Pos
  <2> QED BY <1>4, <2>1, <2>2, <2>3, <2>4
<1>7. LeftInv(w)'
  <2> SUFFICES ASSUME NEW c, c = users'[w].ongoing_game, c \in Running', Resigned(games'[c].state, w)
               PROVE  at[w] = "resigning" /\ req[w].step = "leave" /\ gameCode[w] = c
    BY DEF LeftInv, Stays, Pos
  <2>1. c \in Code /\ c \in drawn /\ c = users[w].ongoing_game
    BY <1>0 DEF Running, UserInv, BusyInv, Stays
  <2>2. Resigned(Pos(c), w) /\ c \in Running
    <3>0. games'[c].state.game_status.kind = "R" /\ games'[c].state.game_status.by = w
      BY DEF Resigned
    <3>1. CASE Leaves(c)
      BY <2>1, <3>1 DEF Leaves, Pos
    <3>3. CASE GoesOnWith(u, c)
      <4>1. games'[c] # NONE BY DEF Running
      <4> QED BY <3>0, <3>3, <4>1 DEF GoesOnWith
    <3>2. CASE Seats(u, c)
      <4>1. games'[c].state.game_status = Pos(c).game_status
        BY <2>1, <3>0, <3>2, SeatedFacts DEF Fresh
      <4> QED BY <3>2, <4>1 DEF Seats, Resigned
    <3> QED BY <1>4, <2>1, <3>1, <3>2, <3>3
  <2> QED BY <2>1, <2>2 DEF UserInv, LeftInv
<1> QED BY <1>1, <1>3, <1>6, <1>7 DEF UserInv

\* A step of a board that changes no document, but its place, and perhaps its game and
\* what it shows of it, with or without sending a request.
Quietly(u, place, code, n) ==
  /\ at' = [at EXCEPT ![u] = place] /\ gameCode' = [gameCode EXCEPT ![u] = code]
  /\ seen' = [seen EXCEPT ![u] = n] /\ UNCHANGED <<users, games, drawn>>
  /\ \/ req' = req /\ req[u].step = "idle" /\ place \notin Asking \ {"resigning"}
     \/ \E rcode \in Code \cup {NONE}, peer \in Player \cup {NONE} :
          /\ Ask(u, RouteOf[place], rcode, peer) /\ place \in Asking
          /\ place \in Concerning => rcode = code
          /\ place = "moving" => peer = u
          /\ place = "joining" => Pos(rcode).player1_id # u

\* What a step of board u has to see to: its own part of the invariant, the games, and
\* what it does to those of others.
Kept(u) ==
  /\ UserInv(u)' /\ seen' \in [User -> Nat]
  /\ Writes(u) /\ \A w \in User \ {u} : Stays(w)

LEMMA QuietlyKept ==
  ASSUME RemoteInv, DuelInv, NEW u \in User, NEW place \in Places, NEW code \in Code \cup {NONE},
         NEW n \in Nat, Quietly(u, place, code, n),
         code \in Code => code \in drawn,
         code \in Running =>
           \A step \in Steps : (place = "resigning" => step # "leave") =>
             Shows(u, place, step, n, Pos(code))
  PROVE  Kept(u)
<1>0. /\ req \in [User -> Request] /\ at \in [User -> Places] /\ gameCode \in [User -> Code \cup {NONE}]
      /\ seen \in [User -> Nat]
  BY DEF RemoteInv, ServerInv, TypeOK, BoardsOK, DuelInv
<1>1. at'[u] = place /\ gameCode'[u] = code /\ seen'[u] = n /\ req[u].step = "idle"
  BY <1>0 DEF Quietly, Ask
<1>2. \/ req'[u].step = "idle" /\ place \notin Asking \ {"resigning"}
      \/ /\ place \in Asking /\ req'[u].route = RouteOf[place]
         /\ req'[u].step = FirstStep[RouteOf[place]]
         /\ place \in Concerning => req'[u].code = code
         /\ place = "moving" => req'[u].peer = u
         /\ place = "joining" => Pos(req'[u].code).player1_id # u
  BY <1>0, <1>1 DEF Quietly, Ask
<1>3. /\ place \in Asking => FirstStep[RouteOf[place]] \in StepsOf[place]
      /\ place \in Asking => FirstStep[RouteOf[place]] \in {"create", "join", "delete", "move", "resign", "leave"}
      /\ place \in Asking /\ FirstStep[RouteOf[place]] = "join" => place = "joining"
      /\ place = "resigning" => FirstStep[RouteOf[place]] # "leave"
  BY DEF Asking, RouteOf, StepsOf, FirstStep
<1>4. BusyInv(u)'
  BY <1>1, <1>2, <1>3 DEF BusyInv, Quietly, DuelInv
<1>5. HeldInv(u)'
  BY <1>1, <1>2, <1>3 DEF HeldInv, Pos, Quietly
<1>6. ShownInv(u)'
  <2>1. req'[u].step \in Steps /\ (place = "resigning" => req'[u].step # "leave")
    BY <1>2, <1>3 DEF Steps
  <2> QED BY <1>1, <2>1 DEF ShownInv, Pos, Quietly, Running
<1>7. LeftInv(u)'
  BY <1>1 DEF LeftInv, DuelInv, Quietly, Running, Pos
<1>8. Writes(u)
  BY DEF Writes, Leaves, Quietly, Running
<1>9. seen' \in [User -> Nat] /\ \A w \in User \ {u} : Stays(w)
  BY <1>0 DEF Stays, Quietly, Ask
<1> QED BY <1>4, <1>5, <1>6, <1>7, <1>8, <1>9 DEF UserInv, Kept, Running, Pos

\* A request is sent or cannot be: a step of that kind either way.
LEMMA RequestsQuietly ==
  ASSUME RemoteInv, DuelInv, NEW u \in User, NEW place \in Asking, NEW otherwise \in Places,
         NEW code \in Code \cup {NONE}, NEW rcode \in Code \cup {NONE}, NEW n \in Nat,
         Requests(u, RouteOf[place], rcode, place, otherwise), req[u].step = "idle",
         gameCode' = [gameCode EXCEPT ![u] = code], seen' = [seen EXCEPT ![u] = n],
         place \in Concerning => rcode = code,
         place = "joining" => Pos(rcode).player1_id # u,
         otherwise \notin Asking \ {"resigning"}
  PROVE  Quietly(u, place, code, n) \/ Quietly(u, otherwise, code, n)
<1>1. RouteOf[place] = "makemove" <=> place = "moving"
  BY DEF RouteOf, Asking
<1>2. CASE /\ Ask(u, RouteOf[place], rcode, IF RouteOf[place] = "makemove" THEN u ELSE NONE)
           /\ GoTo(u, place)
  BY <1>1, <1>2 DEF Quietly, GoTo, Ask, Player
<1>3. CASE GoTo(u, otherwise) /\ UNCHANGED vars
  BY <1>3 DEF Quietly, GoTo, vars
<1> QED BY <1>2, <1>3 DEF Requests

\* Nothing else changes.
LEMMA SameCode ==
  ASSUME RemoteInv, DuelInv, NEW u \in User
  PROVE  /\ UNCHANGED gameCode => gameCode' = [gameCode EXCEPT ![u] = gameCode[u]]
         /\ UNCHANGED seen => seen' = [seen EXCEPT ![u] = seen[u]]
         /\ gameCode[u] \in Code \cup {NONE} /\ seen[u] \in Nat
         /\ gameCode[u] \in Code => gameCode[u] \in drawn
BY DEF RemoteInv, BoardsOK, DuelInv, BusyInv

\* The steps that send a request.
LEMMA AsksKept ==
  ASSUME RemoteInv, DuelInv, NEW u \in User,
         CreateGame(u) \/ JoinGame(u) \/ CancelGame(u) \/ SubmitMove(u) \/ Resign(u) \/ Continue(u)
  PROVE  Kept(u)
<1>0. UserInv(u) /\ ShownInv(u) /\ BusyInv(u)
  BY DEF DuelInv, UserInv
<1>1. Asking \subseteq Places /\ {"menu", "remote", "resigning"} \subseteq Places
  BY DEF Asking, Places, InTheGame
<1>2. \A c \in Running : c \in Code /\ c \in drawn
  BY DEF Running, RemoteInv, ServerInv, DocInv
<1>3. at[u] \notin Asking => req[u].step = "idle"
  BY <1>0 DEF BusyInv
<1>4. NONE \notin Running /\ NONE \notin Code
  BY CodesAssumption DEF Running
<1>5. CASE CreateGame(u)
  <2>1. Quietly(u, "creating", gameCode[u], seen[u]) \/ Quietly(u, "menu", gameCode[u], seen[u])
    BY <1>1, <1>5, SameCode, RequestsQuietly DEF CreateGame, RouteOf, Asking, Concerning
  <2>2. \A step, n, pos : Shows(u, "creating", step, n, pos) /\ Shows(u, "menu", step, n, pos)
    BY DEF Shows
  <2> QED BY <1>1, <2>1, <2>2, SameCode, QuietlyKept DEF Asking
<1>6. CASE JoinGame(u)
  <2>1. PICK c \in Running :
          /\ games[c].state.player1_id # u
          /\ gameCode' = [gameCode EXCEPT ![u] = c]
          /\ Requests(u, "joingame", c, "joining", "menu")
    BY <1>6 DEF JoinGame
  <2>2. Quietly(u, "joining", c, seen[u]) \/ Quietly(u, "menu", c, seen[u])
    BY <1>1, <1>2, <1>3, <1>6, <2>1, SameCode, RequestsQuietly DEF JoinGame, RouteOf, Asking, Pos
  <2>3. \A step, n, pos : Shows(u, "joining", step, n, pos) /\ Shows(u, "menu", step, n, pos)
    BY DEF Shows
  <2> QED BY <1>1, <1>2, <2>2, <2>3, SameCode, QuietlyKept DEF Asking
<1>7. CASE CancelGame(u)
  <2>1. Quietly(u, "cancelling", gameCode[u], seen[u]) \/ Quietly(u, "menu", gameCode[u], seen[u])
    BY <1>1, <1>3, <1>7, SameCode, RequestsQuietly DEF CancelGame, RouteOf, Asking
  <2>2. gameCode[u] \in Running => \A step, n :
          /\ Shows(u, "cancelling", step, n, Pos(gameCode[u]))
          /\ Shows(u, "menu", step, n, Pos(gameCode[u]))
    BY <1>0, <1>7 DEF CancelGame, ShownInv, Shows, Fresh, Resigned
  <2> QED BY <1>1, <2>1, <2>2, SameCode, QuietlyKept DEF Asking
<1>8. CASE SubmitMove(u)
  <2>1. /\ seen[u] + 1 \in Nat /\ seen' = [seen EXCEPT ![u] = seen[u] + 1]
        /\ Requests(u, RouteOf["moving"], gameCode[u], "moving", "remote") /\ UNCHANGED gameCode
        /\ at[u] = "local"
    <3>1. seen[u] \in Nat BY SameCode
    <3>2. seen[u] + 1 \in Nat BY <3>1
    <3>3. RouteOf["moving"] = "makemove" BY DEF RouteOf
    <3> QED BY <1>8, <3>2, <3>3 DEF SubmitMove
  <2>2. Quietly(u, "moving", gameCode[u], seen[u] + 1) \/ Quietly(u, "remote", gameCode[u], seen[u] + 1)
    BY <1>1, <1>3, <2>1, SameCode, RequestsQuietly DEF Asking
  <2>3. gameCode[u] \in Running => \A step, n :
          /\ Shows(u, "moving", step, n, Pos(gameCode[u]))
          /\ Shows(u, "remote", step, n, Pos(gameCode[u]))
    BY <1>0, <2>1 DEF ShownInv, Shows, GoingOn, Resigned
  <2> QED BY <1>1, <2>1, <2>2, <2>3, SameCode, QuietlyKept DEF Asking
<1>9. CASE Resign(u)
  <2>1. /\ Requests(u, RouteOf["resigning"], gameCode[u], "resigning", "resigning")
        /\ UNCHANGED <<gameCode, seen>> /\ req[u].step = "idle"
        /\ at[u] \in {"local", "resigning"}
    BY <1>3, <1>9 DEF Resign, RouteOf, Asking
  <2>2. Quietly(u, "resigning", gameCode[u], seen[u])
    BY <1>1, <2>1, SameCode, RequestsQuietly DEF Asking
  <2>3. gameCode[u] \in Running => \A step, n : step # "leave" =>
          Shows(u, "resigning", step, n, Pos(gameCode[u]))
    BY <1>0, <2>1 DEF ShownInv, Shows, GoingOn, Resigned
  <2> QED BY <1>1, <2>2, <2>3, SameCode, QuietlyKept DEF Asking
<1>10. CASE Continue(u)
  <2>1. Quietly(u, "leaving", gameCode[u], seen[u]) \/ Quietly(u, "menu", gameCode[u], seen[u])
    BY <1>1, <1>3, <1>10, SameCode, RequestsQuietly DEF Continue, RouteOf, Asking, Concerning
  <2>2. \A step, n, pos : Shows(u, "leaving", step, n, pos) /\ Shows(u, "menu", step, n, pos)
    BY DEF Shows
  <2> QED BY <1>1, <2>1, <2>2, SameCode, QuietlyKept DEF Asking
<1> QED BY <1>5, <1>6, <1>7, <1>8, <1>9, <1>10

\* A verdict on a game, and whose turn it is in one that goes on.
LEMMA Verdicts ==
  ASSUME NEW pos \in Position, GameInv(pos), NEW u \in User, ~Resigned(pos, u)
  PROVE  /\ pos.game_status.kind = "W" => (pos.game_status.by = u => WonIn(pos, u))
         /\ pos.game_status.kind = "W" => (pos.game_status.by # u => LostIn(pos, u))
         /\ pos.game_status.kind = "R" => WonIn(pos, u)
         /\ pos.game_status.kind = "R" => pos.players_turn # u
         /\ pos.game_status.kind # "W" /\ pos.players_turn = u => GoingOn(pos)
<1>1. pos.game_status \in Status BY DEF Position
<1>2. pos.game_status = [kind |-> pos.game_status.kind, by |-> pos.game_status.by]
  BY <1>1 DEF Status
<1>3. pos.game_status.kind \in {"O", "N", "R", "W"} BY <1>1 DEF Status
<1>4. pos.game_status.kind = "R" => pos.game_status.by # u BY <1>2 DEF Resigned
<1> QED BY <1>2, <1>3, <1>4 DEF GameInv, WonIn, LostIn, GoingOn

\* The steps that look at a game, and the switch.
LEMMA LooksKept ==
  ASSUME RemoteInv, DuelInv, NEW u \in User,
         \/ AwaitOpponent(u) \/ DownloadGame(u) \/ AskTurn(u) \/ TurnReady(u) \/ TurnNotReady(u)
         \/ Reboot(u)
  PROVE  Kept(u)
<1> DEFINE c == gameCode[u]
<1>0. UserInv(u) /\ ShownInv(u) /\ BusyInv(u) /\ LeftInv(u)
  BY DEF DuelInv, UserInv
<1>1. {"menu", "download", "won", "lost", "local", "remote", "stuck", "ready", "notready",
       "garbled"} \subseteq Places \ Asking
  BY DEF Asking, Places, InTheGame
<1>3. at[u] \notin Asking => req[u].step = "idle"
  BY <1>0 DEF BusyInv
<1>4. NONE \notin Running /\ NONE \notin Code
  BY CodesAssumption DEF Running
<1>5. c \in Running => Pos(c) \in Position /\ GameInv(Pos(c))
  BY DEF Running, RemoteInv, ServerInv, TypeOK, Document, DuelInv, Pos
<1>6. InGame(u) <=> c \in Running
  BY DEF InGame, Running
<1>7. ASSUME NEW place \in Places \ Asking, GoTo(u, place), UNCHANGED <<vars, gameCode>>, NEW n \in Nat,
             seen' = [seen EXCEPT ![u] = n], req[u].step = "idle",
             c \in Running => \A step \in Steps : Shows(u, place, step, n, Pos(c))
      PROVE  Kept(u)
  <2>1. Quietly(u, place, c, n)
    BY <1>7, SameCode DEF Quietly, GoTo, vars
  <2> QED BY <1>7, <2>1, SameCode, QuietlyKept
<1>8. CASE AwaitOpponent(u)
  <2>1. c \in Running => \A step, n : Shows(u, "download", step, n, Pos(c))
    BY <1>0, <1>8 DEF AwaitOpponent, ShownInv, Shows, Fresh, Resigned
  <2> QED BY <1>1, <1>3, <1>7, <1>8, <2>1, SameCode DEF AwaitOpponent, Asking
<1>9. CASE DownloadGame(u)
  <2>1. c \in Running => ~Resigned(Pos(c), u)
    BY <1>0, <1>9 DEF DownloadGame, ShownInv, Shows
  <2>2. ASSUME c \in Running
        PROVE  \A step \in Steps : Shows(u, Downloaded(u), step, Pos(c).movecount, Pos(c))
    BY <1>5, <2>1, <2>2, Verdicts DEF Downloaded, Shows, Game, Pos
  <2>3. c \in Running => \A step, n : Shows(u, "stuck", step, n, Pos(c))
    BY <2>1 DEF Shows
  <2>4. Downloaded(u) \in Places \ Asking
    BY <1>1 DEF Downloaded
  <2>5. c \in Running => Game(u).movecount \in Nat /\ Game(u).movecount = Pos(c).movecount
    BY <1>5 DEF Game, Pos, Position
  <2>6. at[u] = "download" /\ UNCHANGED gameCode /\ req[u].step = "idle"
    BY <1>3, <1>9 DEF DownloadGame, Asking
  <2>7. CASE /\ InGame(u) /\ GoTo(u, Downloaded(u)) /\ UNCHANGED vars
             /\ seen' = [seen EXCEPT ![u] = Game(u).movecount]
    <3>1. c \in Running BY <1>6, <2>7
    <3>2. seen' = [seen EXCEPT ![u] = Pos(c).movecount] BY <2>5, <2>7, <3>1
    <3> HIDE DEF c
    <3>3. /\ Pos(c).movecount \in Nat
          /\ \A step \in Steps : Shows(u, Downloaded(u), step, Pos(c).movecount, Pos(c))
      BY <2>2, <2>5, <3>1
    <3> QED BY <1>7, <2>4, <2>6, <2>7, <3>2, <3>3 DEF c
  <2>8. CASE GoTo(u, "stuck") /\ UNCHANGED <<vars, seen>>
    BY <1>1, <1>7, <2>3, <2>6, <2>8, SameCode
  <2> QED BY <1>9, <2>7, <2>8 DEF DownloadGame
<1>10. CASE AskTurn(u)
  <2>1. c \in Running /\ ~Resigned(Pos(c), u)
    BY <1>0, <1>6, <1>10 DEF AskTurn, ShownInv, Shows
  <2>2. PICK place \in {"won", "ready", "notready"} :
          /\ GoTo(u, place)
          /\ place = "won" => Pos(c).game_status.kind = "R"
          /\ place = "ready" => Pos(c).players_turn = u /\ Pos(c).game_status.kind # "R"
    BY <1>10 DEF AskTurn, Game, Pos
  <2>3. \A step, n : Shows(u, place, step, n, Pos(c))
    BY <1>5, <2>1, <2>2, Verdicts DEF Shows
  <2> QED BY <1>1, <1>3, <1>7, <1>10, <2>2, <2>3, SameCode DEF AskTurn, Asking
<1>11. CASE TurnReady(u)
  <2>1. c \in Running => /\ ~Resigned(Pos(c), u) /\ Pos(c).players_turn = u
                         /\ Pos(c).movecount \in Nat
    BY <1>0, <1>5, <1>11 DEF TurnReady, ShownInv, Shows, Position
  <2>2. CASE c \in Running
    <3>1. PICK place \in {"local", "won", "lost"} :
            /\ GoTo(u, place)
            /\ place = "local" => Pos(c).game_status.kind # "W"
            /\ place = "won" => Pos(c).game_status.kind = "W" /\ Pos(c).game_status.by = u
            /\ place = "lost" => Pos(c).game_status.kind = "W" /\ Pos(c).game_status.by # u
      BY <1>6, <1>11, <2>2 DEF TurnReady, Game, Pos
    <3>2. \A step : Shows(u, place, step, Pos(c).movecount, Pos(c))
      BY <1>5, <2>1, <2>2, <3>1, Verdicts DEF Shows
    <3>3. seen' = [seen EXCEPT ![u] = Pos(c).movecount]
      BY <1>6, <1>11, <2>2 DEF TurnReady, Game, Pos
    <3> QED BY <1>1, <1>3, <1>7, <1>11, <2>1, <2>2, <3>1, <3>2, <3>3 DEF TurnReady, Asking
  <2>3. CASE c \notin Running
    BY <1>1, <1>3, <1>6, <1>7, <1>11, <2>3, SameCode DEF TurnReady, Asking
  <2> QED BY <2>2, <2>3
<1>12. CASE TurnNotReady(u)
  <2>1. c \in Running => ~Resigned(Pos(c), u)
    BY <1>0, <1>12 DEF TurnNotReady, ShownInv, Shows
  <2>2. PICK place \in {"remote", "won", "garbled"} :
          /\ GoTo(u, place)
          /\ place = "won" => Pos(c).game_status.kind = "W" /\ Pos(c).game_status.by = u
    BY <1>12 DEF TurnNotReady, Game, Pos
  <2>3. c \in Running => \A step, n : Shows(u, place, step, n, Pos(c))
    BY <1>5, <2>1, <2>2, Verdicts DEF Shows
  <2> QED BY <1>1, <1>3, <1>7, <1>12, <2>2, <2>3, SameCode DEF TurnNotReady, Asking
<1>13. CASE Reboot(u)
  <2> DEFINE home == users[u].ongoing_game
  <2>1. home \in Code \cup {EMPTY} /\ (home \in Code => home \in drawn)
    BY <1>0 DEF RemoteInv, ServerInv, TypeOK, BusyInv
  <2>2. home \in Running => ~Resigned(Pos(home), u)
    BY <1>0, <1>13 DEF LeftInv, Reboot
  <2>3. home \in Running => \A step, n : Shows(u, "download", step, n, Pos(home))
    BY <2>2 DEF Shows
  <2>4. \/ home \in Code /\ Quietly(u, "download", home, 0)
        \/ Quietly(u, "menu", NONE, 0)
    BY <1>1, <1>13, <2>1 DEF Reboot, Quietly, GoTo, vars
  <2> QED BY <1>1, <1>4, <2>1, <2>3, <2>4, QuietlyKept
<1> QED BY <1>8, <1>9, <1>10, <1>11, <1>12, <1>13
-----------------------------------------------------------------------------
\* Each step of a request that a board makes is one handler's.
LEMMA HandlerOf ==
  ASSUME NEW u \in User, Handle(u)
  PROVE  /\ req[u].step = "create" => Create(u)
         /\ req[u].step = "own" => Own(u)
         /\ req[u].step = "join" => ReadToJoin(u)
         /\ req[u].step = "sit" => Sit(u)
         /\ req[u].step = "seat" => Seat(u)
         /\ req[u].step = "delete" => ReadToDelete(u)
         /\ req[u].step = "clearfirst" => ClearFirst(u)
         /\ req[u].step = "clearsecond" => ClearSecond(u)
         /\ req[u].step = "erase" => Erase(u)
         /\ req[u].step = "move" => ReadToMove(u)
         /\ req[u].step = "put" => PutMove(u)
         /\ req[u].step = "putprev" => PutPrev(u)
         /\ req[u].step = "resign" => ReadToResign(u)
         /\ req[u].step = "status" => PutStatus(u)
         /\ req[u].step = "leave" => Leave(u)
BY DEF Handle, Create, Own, SeatMachine, ReadToJoin, Sit, Seat, ReadToDelete, ClearFirst,
   ClearSecond, Erase, ReadInvitee, ReadInviter, Reread, Invite, ReadToCancel, Withdraw,
   ReadMyGame, ReadInvites, DropInvite, Leave, ReadToResign, PutStatus, ReadToMove,
   PutMove, PutPrev, ReadPrev, Restore

\* What an access of a handler means for the boards.
LEMMA Served ==
  ASSUME RemoteInv, DuelInv, NEW u \in User, Serve(u)
  PROVE  /\ Handle(u) /\ at[u] \in Asking
         /\ req[u].route = RouteOf[at[u]] /\ req[u].step \in StepsOf[at[u]]
         /\ at[u] \in Concerning => req[u].code = gameCode[u] /\ gameCode[u] \in drawn
         /\ seen' = seen
         /\ \A w \in User \ {u} : Stays(w)
         /\ \/ req'[u].step # "idle" /\ at'[u] = at[u] /\ gameCode'[u] = gameCode[u]
            \/ /\ req'[u].step = "idle"
               /\ \E ok \in {Done(u), FALSE} :
                    /\ at'[u] = CASE at[u] = "creating" -> IF ok THEN "hosting" ELSE "menu"
                                  [] at[u] = "joining" -> IF ok THEN "download" ELSE "menu"
                                  [] at[u] = "resigning" -> IF ok THEN "lost" ELSE "resigning"
                                  [] at[u] = "moving" -> "remote"
                                  [] at[u] \in {"cancelling", "leaving"} -> "menu"
                    /\ gameCode'[u] = IF at[u] = "creating" /\ ok THEN req[u].code ELSE gameCode[u]
<1>0. /\ req \in [User -> Request] /\ at \in [User -> Places] /\ gameCode \in [User -> Code \cup {NONE}]
      /\ ServerInv /\ BusyInv(u)
  BY DEF RemoteInv, ServerInv, TypeOK, BoardsOK, DuelInv
<1>1. Handle(u) BY DEF Serve
<1>2. req[u].step # "idle" /\ \A w \in User \ {u} : req'[w] = req[w]
  BY <1>0, <1>1, HandleOwn
<1>3. \A w \in User \ {u} : users'[w].ongoing_game \in {users[w].ongoing_game, EMPTY}
  BY <1>0, <1>1, HandleEffects DEF Effects, CodeEffect
<1>4. at[u] \in Asking /\ req[u].route = RouteOf[at[u]] /\ req[u].step \in StepsOf[at[u]]
  BY <1>0, <1>2 DEF BusyInv
<1>5. at[u] \in Concerning => req[u].code = gameCode[u] /\ gameCode[u] \in drawn
  BY <1>0, <1>2 DEF BusyInv, RemoteInv, BoardsOK, Concerning, InTheGame
<1>6. \A w \in User \ {u} : Stays(w)
  BY <1>0, <1>2, <1>3 DEF Serve, Stays, Answered, GoTo
<1>7. \/ req'[u].step # "idle" /\ at'[u] = at[u] /\ gameCode'[u] = gameCode[u]
      \/ /\ req'[u].step = "idle"
         /\ \E ok \in {Done(u), FALSE} :
              /\ at'[u] = CASE at[u] = "creating" -> IF ok THEN "hosting" ELSE "menu"
                            [] at[u] = "joining" -> IF ok THEN "download" ELSE "menu"
                            [] at[u] = "resigning" -> IF ok THEN "lost" ELSE "resigning"
                            [] at[u] = "moving" -> "remote"
                            [] at[u] \in {"cancelling", "leaving"} -> "menu"
              /\ gameCode'[u] = IF at[u] = "creating" /\ ok THEN req[u].code ELSE gameCode[u]
  BY <1>0 DEF Serve, Answered, GoTo
<1> QED BY <1>1, <1>4, <1>5, <1>6, <1>7 DEF Serve

\* Accesses that write no position.
LEMMA PositionsKept ==
  ASSUME NEW u \in User, UNCHANGED drawn, \A c \in Code : Leaves(c)
  PROVE  Writes(u)
BY DEF Writes

\* A step at the end of which board u is where a game is shown only in menus.
LEMMA MenusShow ==
  \A u, place, step, n, pos :
    place \in {"menu", "creating", "joining", "leaving"} => Shows(u, place, step, n, pos)
BY DEF Shows

\* The four parts of the invariant from what is so after the step.
LEMMA ServedKept ==
  ASSUME RemoteInv, DuelInv, NEW u \in User, Serve(u),
         BusyInv(u)', HeldInv(u)', ShownInv(u)', LeftInv(u)', Writes(u)
  PROVE  Kept(u)
BY Served DEF Kept, UserInv, DuelInv

\* A game is created.
LEMMA CreatingKept ==
  ASSUME RemoteInv, DuelInv, NEW u \in User, Serve(u), at[u] = "creating"
  PROVE  Kept(u)
<1>0. /\ req \in [User -> Request] /\ users \in UserDocs
      /\ games \in [Code -> Document \cup {NONE}] /\ drawn \in SUBSET Code
      /\ \A c \in Running : c \in drawn
      /\ BusyInv(u) /\ HeldInv(u) /\ LeftInv(u)
  BY DEF RemoteInv, ServerInv, TypeOK, DocInv, DuelInv, UserDocs
<1>1. /\ req[u].step \in {"create", "own"} /\ req[u].route = "newgame"
      /\ at'[u] = "creating" \/ at'[u] = "menu" \/ (at'[u] = "hosting" /\ req'[u].step = "idle")
      /\ req'[u].step # "idle" => at'[u] = at[u] /\ gameCode'[u] = gameCode[u]
      /\ gameCode'[u] = gameCode[u] \/ (req'[u].step = "idle" /\ gameCode'[u] = req[u].code)
      /\ at'[u] = "hosting" => gameCode'[u] = req[u].code
      /\ req'[u].step = "idle" => at'[u] # "creating"
      /\ at'[u] = "hosting" => Done(u)
  BY Served DEF RouteOf, StepsOf
<1>2. CASE req[u].step = "create"
  <2>1. PICK c \in Code \ drawn :
          /\ games' = [games EXCEPT ![c] = [state |-> NewPosition(u), prev_state |-> NONE]]
          /\ drawn' = drawn \cup {c}
          /\ req' = [req EXCEPT ![u] = [@ EXCEPT !.step = "own", !.code = c]]
          /\ UNCHANGED users
    BY <1>2, Served, HandlerOf DEF Create
  <2>2. req[u] \in Request /\ req'[u] = [req[u] EXCEPT !.step = "own", !.code = c]
    BY <1>0, <2>1
  <2>3. req'[u].step = "own" /\ req'[u].code = c /\ req'[u].route = "newgame"
    BY <1>1, <2>2 DEF Request
  <2>4. games'[c].state = NewPosition(u) /\ \A d \in Code \ {c} : games'[d] = games[d]
    BY <1>0, <2>1
  <2>5. at'[u] = "creating" /\ gameCode'[u] = gameCode[u]
    BY <1>1, <2>3
  <2>6. \A d \in Code \ {c} : Leaves(d)
    BY <2>4 DEF Leaves, Running
  <2>7. games'[c].state.player1_id = u /\ Fresh(games'[c].state)
    BY <2>4 DEF NewPosition, Fresh
  <2>8. Writes(u)
    <3>1. [state |-> NewPosition(u), prev_state |-> NONE] \in Document
      BY DEF NewPosition, Document, Position, Player, Status
    <3>2. games'[c] # NONE BY <1>0, <2>1, <3>1, NoneAssumption
    <3> QED BY <2>1, <2>4, <2>6, <3>2 DEF Writes, Changes, NowHas
  <2>9. BusyInv(u)'
    BY <1>0, <2>1, <2>3, <2>5 DEF BusyInv, Asking, RouteOf, StepsOf, Concerning
  <2>10. HeldInv(u)'
    BY <2>3, <2>7 DEF HeldInv, Pos
  <2>11. ShownInv(u)'
    BY <2>5, MenusShow DEF ShownInv
  <2>12. LeftInv(u)'
    <3> DEFINE home == users[u].ongoing_game
    <3>1. ASSUME home \in Running', Resigned(games'[home].state, u) PROVE FALSE
      <4>1. home \in Code /\ home # c
        BY <1>0, <2>1, <3>1 DEF Running, BusyInv
      <4>2. home \in Running /\ Resigned(Pos(home), u)
        BY <2>4, <3>1, <4>1 DEF Running, Pos
      <4> QED BY <1>0, <4>2 DEF LeftInv
    <3> QED BY <2>1, <3>1 DEF LeftInv, Pos
  <2> QED BY <2>8, <2>9, <2>10, <2>11, <2>12, ServedKept
<1>3. CASE req[u].step = "own"
  <2>1. users' = [users EXCEPT ![u].ongoing_game = req[u].code] /\ Reply(u) /\ UNCHANGED <<games, drawn>>
    BY <1>1, <1>3, Served, HandlerOf DEF Own, PutOngoing
  <2>2. req'[u] = Idle /\ users'[u].ongoing_game = req[u].code
    BY <1>0, <2>1 DEF Reply, UserDocs
  <2>3. req[u].code \in drawn
    BY <1>3 DEF RemoteInv, ServerInv, SetupInv, SettingUp
  <2>4. at'[u] \in {"hosting", "menu"}
    BY <1>1, <2>2 DEF Idle
  <2>5. Writes(u)
    BY <2>1, PositionsKept DEF Leaves, Running
  <2>6. BusyInv(u)'
    BY <1>0, <1>1, <2>1, <2>2, <2>3, <2>4 DEF BusyInv, Asking, Idle
  <2>7. HeldInv(u)'
    BY <2>2 DEF HeldInv, Idle
  <2>8. req[u].code \in Running => Pos(req[u].code).player1_id = u /\ Fresh(Pos(req[u].code))
    BY <1>0, <1>3 DEF HeldInv
  <2>9. ShownInv(u)'
    <3>1. CASE at'[u] = "menu" BY <3>1, MenusShow DEF ShownInv
    <3>2. CASE at'[u] = "hosting"
      <4>1. gameCode'[u] = req[u].code BY <1>1, <3>2
      <4>2. gameCode'[u] \in Running' => \A step, n : Shows(u, "hosting", step, n, games'[gameCode'[u]].state)
        BY <2>1, <2>8, <4>1 DEF Shows, Fresh, Resigned, Running, Pos
      <4> QED BY <3>2, <4>2 DEF ShownInv, Pos
    <3> QED BY <2>4, <3>1, <3>2
  <2>10. LeftInv(u)'
    BY <2>1, <2>2, <2>8 DEF LeftInv, Fresh, Resigned, Running, Pos
  <2> QED BY <2>5, <2>6, <2>7, <2>9, <2>10, ServedKept
<1> QED BY <1>1, <1>2, <1>3

\* A game is joined.
LEMMA JoiningKept ==
  ASSUME RemoteInv, DuelInv, NEW u \in User, Serve(u), at[u] = "joining"
  PROVE  Kept(u)
<1> DEFINE c == req[u].code
<1>0. /\ req \in [User -> Request] /\ users \in UserDocs
      /\ games \in [Code -> Document \cup {NONE}] /\ drawn \in SUBSET Code
      /\ BusyInv(u) /\ HeldInv(u) /\ LeftInv(u) /\ RequestInv(req[u])
  BY DEF RemoteInv, ServerInv, TypeOK, DuelInv, UserDocs
<1>1. /\ req[u].step \in {"join", "sit", "seat"} /\ req[u].route = "joingame"
      /\ c = gameCode[u] /\ c \in drawn /\ c \in Code
      /\ gameCode'[u] = c
      /\ req'[u].step # "idle" => at'[u] = "joining"
      /\ req'[u].step = "idle" => at'[u] \in {"download", "menu"}
      /\ at'[u] = "download" => req[u].step = "seat"
  <2>1. /\ req[u].step \in {"join", "sit", "seat"} /\ req[u].route = "joingame"
        /\ c = gameCode[u] /\ c \in drawn
    BY Served DEF RouteOf, StepsOf, Concerning
  <2>2. at'[u] = "download" => Done(u)
    BY Served
  <2>3. /\ gameCode'[u] = gameCode[u]
        /\ req'[u].step # "idle" => at'[u] = "joining"
        /\ req'[u].step = "idle" => at'[u] \in {"download", "menu"}
    BY Served
  <2> QED BY <1>0, <2>1, <2>2, <2>3 DEF Done
<1>2. ReturnTo(u) => req'[u] = Idle
  BY <1>0, <1>1 DEF ReturnTo, Reply
<1>3. c \in Running => games[c] \in Document /\ Pos(c) \in Position /\ GameInv(Pos(c))
  BY <1>0 DEF Running, Document, DuelInv, Pos
<1>4. ASSUME at'[u] \in {"joining", "menu"} PROVE ShownInv(u)'
  BY <1>4, MenusShow DEF ShownInv
<1>5. ASSUME req'[u] = Idle, drawn' = drawn, users'[u].ongoing_game \in {users[u].ongoing_game, c}
      PROVE  BusyInv(u)' /\ HeldInv(u)'
  BY <1>0, <1>1, <1>5 DEF BusyInv, HeldInv, Idle, Asking
<1>6. ASSUME NEW step \in {"sit", "seat"}, req'[u].step = step, req'[u].route = "joingame",
             req'[u].code = c, drawn' = drawn,
             users'[u].ongoing_game \in {users[u].ongoing_game, c}
      PROVE  BusyInv(u)'
  BY <1>0, <1>1, <1>6 DEF BusyInv, Asking, RouteOf, StepsOf
<1>7. ASSUME UNCHANGED games, users'[u].ongoing_game = users[u].ongoing_game
      PROVE  LeftInv(u)'
  BY <1>0, <1>7 DEF LeftInv, Running, Pos
<1>8. UNCHANGED <<games, drawn>> => Writes(u)
  BY PositionsKept DEF Leaves, Running
<1>9. CASE req[u].step = "join"
  <2>1. ReadToJoin(u) /\ UNCHANGED <<users, games, drawn>>
    BY <1>9, Served, HandlerOf DEF ReadToJoin
  <2>2. CASE ReturnTo(u)
    <3>1. at'[u] = "menu" BY <1>1, <1>2, <1>9, <2>2 DEF Idle
    <3> QED BY <1>2, <1>4, <1>5, <1>7, <1>8, <2>1, <2>2, <3>1, ServedKept
  <2>3. CASE /\ c \in Running /\ Pos(c).players_joined < 2
             /\ req' = [req EXCEPT ![u] = [@ EXCEPT !.step = "sit", !.doc = games[c]]]
    <3>1. req'[u].step = "sit" /\ req'[u].doc = games[c] /\ req'[u].code = c /\ req'[u].route = "joingame"
      <4>1. req[u] \in Request BY <1>0
      <4>2. req'[u] = [req[u] EXCEPT !.step = "sit", !.doc = games[c]] BY <1>0, <2>3
      <4> QED BY <1>1, <4>1, <4>2 DEF Request
    <3>2. Pos(c).players_joined = 1 BY <1>3, <2>3 DEF Position
    <3>3. Pos(c).player1_id # u BY <1>0, <1>9, <2>3 DEF HeldInv
    <3>4. HeldInv(u)' BY <2>1, <2>3, <3>1, <3>2, <3>3 DEF HeldInv, BeforeJoin, Running, Pos
    <3>5. at'[u] = "joining" BY <1>1, <3>1
    <3> QED BY <1>4, <1>6, <1>7, <1>8, <2>1, <3>1, <3>4, <3>5, ServedKept
  <2> QED BY <1>1, <2>1, <2>2, <2>3 DEF ReadToJoin, Exists, Running, Pos
<1>10. CASE req[u].step = "sit"
  <2>1. users' = [users EXCEPT ![u].ongoing_game = c] /\ Goto(u, "seat") /\ UNCHANGED <<games, drawn>>
    BY <1>10, Served, HandlerOf DEF Sit, PutOngoing
  <2>2. /\ req'[u].step = "seat" /\ req'[u].route = "joingame" /\ req'[u].code = c
        /\ req'[u].doc = req[u].doc /\ users'[u].ongoing_game = c
    BY <1>0, <1>1, <2>1 DEF Goto, Request, UserDocs
  <2>3. HeldInv(u)' BY <1>0, <1>10, <2>1, <2>2 DEF HeldInv, Running, Pos
  <2>4. ~Resigned(Pos(c), u)
    BY <1>0, <1>3, <1>10 DEF HeldInv, GameInv, Fresh, Adrift, Dropped, Resigned
  <2>5. LeftInv(u)' BY <2>1, <2>2, <2>4 DEF LeftInv, Pos
  <2>6. at'[u] = "joining" BY <1>1, <2>2
  <2> QED BY <1>4, <1>6, <1>8, <2>1, <2>2, <2>3, <2>5, <2>6, ServedKept
<1>11. CASE req[u].step = "seat"
  <2>1. /\ games' = [games EXCEPT ![c] = [req[u].doc EXCEPT !.state =
                      [@ EXCEPT !.player2_id = u, !.players_joined = 2]]]
        /\ req'[u] = Idle /\ UNCHANGED <<users, drawn>>
    BY <1>2, <1>11, Served, HandlerOf DEF Seat, PutGame
  <2> DEFINE old == req[u].doc.state
  <2>2. /\ c \in Running /\ BeforeJoin(old, Pos(c))
        /\ Pos(c).players_joined = 1 /\ Pos(c).player1_id # u
    BY <1>0, <1>11 DEF HeldInv
  <2>3. req[u].doc \in Document /\ Good(old)
    BY <1>0, <1>11 DEF RequestInv, DocSteps, Request, RemoteInv, ServerInv, DocInv, GoodDoc
  <2>4. /\ games'[c].state = [old EXCEPT !.player2_id = u, !.players_joined = 2]
        /\ games'[c] # NONE /\ old \in Position
    <3> DEFINE new == [req[u].doc EXCEPT !.state = [@ EXCEPT !.player2_id = u, !.players_joined = 2]]
    <3>1. games'[c] = new BY <1>0, <1>1, <2>1
    <3>2. new.state = [old EXCEPT !.player2_id = u, !.players_joined = 2] /\ old \in Position
      BY <2>3 DEF Document
    <3>3. new.state \in Position
      <4>1. u \in Player /\ old.players_joined < 2 BY <2>2 DEF Player, BeforeJoin
      <4> HIDE DEF old, new
      <4> QED BY <2>3, <3>2, <4>1, SeatGood
    <3>4. new \in Document
      BY <2>3, <3>3 DEF Document
    <3> HIDE DEF new
    <3> QED BY <3>1, <3>2, <3>4, NoneAssumption
  <2>5. \A d \in Code \ {c} : games'[d] = games[d]
    BY <1>0, <2>1
  <2>6. Seats(u, c)
    BY <2>2, <2>4 DEF Seats, NowHas
  <2>7. Writes(u)
    BY <1>1, <2>1, <2>5, <2>6 DEF Writes, Changes, Leaves, Running
  <2>8. /\ GameInv(Pos(c)) /\ c \in Code
        /\ Fresh(games'[c].state) \/ games'[c].state.game_status = Pos(c).game_status
    BY <1>1, <1>3, <2>2, <2>6, SeatedFacts
  <2>10. ~Resigned(games'[c].state, u)
    BY <2>2, <2>8 DEF Resigned, Fresh, GameInv, Adrift, Dropped
  <2>11. ShownInv(u)'
    <3>1. CASE at'[u] = "download"
      <4>1. \A step, n : Shows(u, "download", step, n, games'[c].state)
        BY <2>10 DEF Shows
      <4> QED BY <1>1, <3>1, <4>1 DEF ShownInv, Pos
    <3> QED BY <1>1, <1>4, <2>1, <3>1 DEF Idle
  <2>12. LeftInv(u)'
    <3>1. ASSUME NEW home \in Running', Resigned(games'[home].state, u), home = users[u].ongoing_game
          PROVE  FALSE
      <4>1. home # c /\ home \in Code BY <2>10, <3>1 DEF Running
      <4>2. home \in Running /\ Resigned(Pos(home), u) BY <2>5, <3>1, <4>1 DEF Running, Pos
      <4> QED BY <1>0, <3>1, <4>2 DEF LeftInv
    <3> QED BY <2>1, <3>1 DEF LeftInv, Pos
  <2> QED BY <1>5, <2>1, <2>7, <2>11, <2>12, ServedKept
<1> QED BY <1>1, <1>9, <1>10, <1>11

\* A player leaves a game that is over.
LEMMA LeavingKept ==
  ASSUME RemoteInv, DuelInv, NEW u \in User, Serve(u), at[u] = "leaving"
  PROVE  Kept(u)
<1>0. /\ req \in [User -> Request] /\ users \in UserDocs /\ BusyInv(u)
      /\ EMPTY \notin Code
  BY CodesAssumption DEF RemoteInv, ServerInv, TypeOK, DuelInv, UserDocs
<1>1. req[u].step = "leave"
  BY Served DEF StepsOf
<1>2. /\ users' = [users EXCEPT ![u].ongoing_game = EMPTY] /\ req'[u] = Idle
      /\ UNCHANGED <<games, drawn>>
  BY <1>0, <1>1, Served, HandlerOf DEF Leave, PutOngoing, Reply
<1>3. at'[u] = "menu" /\ gameCode'[u] = gameCode[u] /\ users'[u].ongoing_game = EMPTY
  BY <1>0, <1>2, Served DEF Idle, UserDocs
<1>4. BusyInv(u)' /\ HeldInv(u)'
  BY <1>0, <1>2, <1>3 DEF BusyInv, HeldInv, Idle, Asking
<1>5. ShownInv(u)' BY <1>3, MenusShow DEF ShownInv
<1>6. LeftInv(u)' BY <1>0, <1>3 DEF LeftInv, Running
<1>7. Writes(u)
  BY <1>2, PositionsKept DEF Leaves, Running
<1> QED BY <1>4, <1>5, <1>6, <1>7, ServedKept

\* A game is cancelled.
LEMMA CancellingKept ==
  ASSUME RemoteInv, DuelInv, NEW u \in User, Serve(u), at[u] = "cancelling"
  PROVE  Kept(u)
<1> DEFINE c == req[u].code
<1>0. /\ req \in [User -> Request] /\ users \in UserDocs
      /\ games \in [Code -> Document \cup {NONE}] /\ drawn \in SUBSET Code
      /\ BusyInv(u) /\ HeldInv(u) /\ LeftInv(u) /\ ShownInv(u) /\ RequestInv(req[u])
      /\ EMPTY \notin Code
  BY CodesAssumption DEF RemoteInv, ServerInv, TypeOK, DuelInv, UserDocs
<1>1. /\ req[u].step \in {"delete", "clearfirst", "clearsecond", "erase"} /\ req[u].route = "delete"
      /\ c = gameCode[u] /\ c \in drawn /\ c \in Code
      /\ gameCode'[u] = c
      /\ req'[u].step # "idle" => at'[u] = "cancelling"
      /\ req'[u].step = "idle" => at'[u] = "menu"
  <2>1. /\ req[u].step \in {"delete", "clearfirst", "clearsecond", "erase"} /\ req[u].route = "delete"
        /\ c = gameCode[u] /\ c \in drawn
    BY Served DEF RouteOf, StepsOf, Concerning
  <2>2. /\ gameCode'[u] = gameCode[u]
        /\ req'[u].step # "idle" => at'[u] = "cancelling"
        /\ req'[u].step = "idle" => at'[u] = "menu"
    BY Served
  <2> QED BY <1>0, <2>1, <2>2
<1>2. ReturnTo(u) => req'[u] = Idle
  BY <1>0, <1>1 DEF ReturnTo, Reply
<1>3. c \in Running => Pos(c).player1_id = u /\ Fresh(Pos(c))
  BY <1>0, <1>1 DEF ShownInv, Shows
<1>4. UNCHANGED games => ShownInv(u)'
  <2>1. c \in Running => \A step, n : Shows(u, "cancelling", step, n, Pos(c))
    BY <1>3 DEF Shows, Fresh, Resigned
  <2>2. at'[u] \in {"cancelling", "menu"} BY <1>1
  <2> QED BY <1>1, <2>1, <2>2, MenusShow DEF ShownInv, Pos, Running
<1>5. ASSUME req'[u] = Idle, drawn' = drawn, users'[u].ongoing_game \in {users[u].ongoing_game, EMPTY}
      PROVE  BusyInv(u)' /\ HeldInv(u)'
  BY <1>0, <1>1, <1>5 DEF BusyInv, HeldInv, Idle, Asking
<1>6. ASSUME NEW step \in {"clearfirst", "clearsecond", "erase"}, req'[u].step = step,
             req'[u].route = "delete", req'[u].code = c, drawn' = drawn,
             users'[u].ongoing_game \in {users[u].ongoing_game, EMPTY}
      PROVE  BusyInv(u)'
  BY <1>0, <1>1, <1>6 DEF BusyInv, Asking, RouteOf, StepsOf
<1>7. ASSUME \A d \in Running' : d \in Running /\ games'[d] = games[d],
             users'[u].ongoing_game \in {users[u].ongoing_game, EMPTY}
      PROVE  LeftInv(u)'
  BY <1>0, <1>7 DEF LeftInv, Running, Pos
<1>8. UNCHANGED <<games, drawn>> =>
        /\ Writes(u)
        /\ \A d \in Running' : d \in Running /\ games'[d] = games[d]
  BY PositionsKept DEF Leaves, Running
<1>9. CASE req[u].step = "delete"
  <2>1. ReadToDelete(u) /\ UNCHANGED <<users, games, drawn>>
    BY <1>9, Served, HandlerOf DEF ReadToDelete
  <2>2. CASE ReturnTo(u)
    BY <1>2, <1>4, <1>5, <1>7, <1>8, <2>1, <2>2, ServedKept
  <2>3. CASE /\ c \in Running
             /\ req' = [req EXCEPT ![u] = [@ EXCEPT !.step = "clearfirst", !.doc = games[c]]]
    <3>1. req'[u].step = "clearfirst" /\ req'[u].doc = games[c] /\ req'[u].code = c /\ req'[u].route = "delete"
      <4>1. req[u] \in Request BY <1>0
      <4>2. req'[u] = [req[u] EXCEPT !.step = "clearfirst", !.doc = games[c]] BY <1>0, <2>3
      <4> QED BY <1>1, <4>1, <4>2 DEF Request
    <3>2. HeldInv(u)' BY <1>3, <2>1, <2>3, <3>1 DEF HeldInv, Running, Pos
    <3> QED BY <1>4, <1>6, <1>7, <1>8, <2>1, <3>1, <3>2, ServedKept
  <2> QED BY <1>1, <2>1, <2>2, <2>3 DEF ReadToDelete, Exists, Running
<1>10. CASE req[u].step = "clearfirst"
  <2>1. /\ users' = [users EXCEPT ![req[u].doc.state.player1_id].ongoing_game = EMPTY]
        /\ Goto(u, "clearsecond") /\ UNCHANGED <<games, drawn>>
    BY <1>10, Served, HandlerOf DEF ClearFirst, PutOngoing
  <2>2. /\ req'[u].step = "clearsecond" /\ req'[u].route = "delete" /\ req'[u].code = c
        /\ req'[u].doc = req[u].doc
    BY <1>0, <1>1, <2>1 DEF Goto, Request
  <2>3. users'[u].ongoing_game = EMPTY
    BY <1>0, <1>10, <2>1 DEF HeldInv, UserDocs
  <2>4. HeldInv(u)' BY <1>0, <1>10, <2>1, <2>2 DEF HeldInv, Running, Pos
  <2> QED BY <1>4, <1>6, <1>7, <1>8, <2>1, <2>2, <2>3, <2>4, ServedKept
<1>11. CASE req[u].step = "clearsecond"
  <2> DEFINE player2 == req[u].doc.state.player2_id
  <2>1. UNCHANGED <<games, drawn>>
    BY <1>11, Served, HandlerOf DEF ClearSecond
  <2>2. CASE /\ player2 \in User /\ users' = [users EXCEPT ![player2].ongoing_game = EMPTY]
             /\ Goto(u, "erase")
    <3>1. /\ req'[u].step = "erase" /\ req'[u].route = "delete" /\ req'[u].code = c
          /\ req'[u].doc = req[u].doc
      BY <1>0, <1>1, <2>2 DEF Goto, Request
    <3>2. users'[u].ongoing_game \in {users[u].ongoing_game, EMPTY}
      BY <1>0, <2>2 DEF UserDocs
    <3>3. req[u].doc.state.players_joined = 2
      <4>1. req[u].doc \in Document /\ Good(req[u].doc.state)
        BY <1>0, <1>11 DEF RequestInv, DocSteps, Request, RemoteInv, ServerInv, DocInv, GoodDoc
      <4>2. player2 # NONE BY <2>2, PlayersAssumption DEF Player
      <4>3. req[u].doc.state.players_joined \in {1, 2} BY <4>1 DEF Document, Position
      <4> QED BY <4>1, <4>2, <4>3 DEF Good
    <3>4. HeldInv(u)' BY <1>0, <1>11, <2>1, <3>1, <3>3 DEF HeldInv, Running, Pos
    <3> QED BY <1>4, <1>6, <1>7, <1>8, <2>1, <3>1, <3>2, <3>4, ServedKept
  <2>3. CASE ReturnTo(u) /\ UNCHANGED users
    BY <1>2, <1>4, <1>5, <1>7, <1>8, <2>1, <2>3, ServedKept
  <2> QED BY <1>11, <2>2, <2>3, Served, HandlerOf DEF ClearSecond, PutOngoing
<1>12. CASE req[u].step = "erase"
  <2>1. /\ games' = [games EXCEPT ![c] = NONE] /\ req'[u] = Idle /\ UNCHANGED <<users, drawn>>
    BY <1>2, <1>12, Served, HandlerOf DEF Erase, PutGame
  <2>2. games'[c] = NONE /\ \A d \in Code \ {c} : games'[d] = games[d]
    BY <1>0, <1>1, <2>1
  <2>3. c \in Running => OnTurn(u, c) /\ Pos(c).players_joined = 2 /\ Fresh(Pos(c))
    BY <1>0, <1>3, <1>12 DEF HeldInv, OnTurn, Fresh, GoingOn
  <2>4. Writes(u)
    <3>1. \A d \in Code \ {c} : Leaves(d)
      BY <2>2 DEF Leaves, Running
    <3>2. c \notin Running => Leaves(c)
      BY <2>2 DEF Leaves, Running
    <3>3. c \in Running => Changes(u, c)
      BY <2>1, <2>2, <2>3 DEF Changes
    <3> QED BY <1>1, <2>1, <3>1, <3>2, <3>3 DEF Writes
  <2>5. \A d \in Running' : d \in Running /\ games'[d] = games[d]
    BY <2>2 DEF Running
  <2>7. ShownInv(u)'
    BY <1>1, <2>1, MenusShow DEF ShownInv, Idle
  <2> QED BY <1>5, <1>7, <2>1, <2>4, <2>5, <2>7, ServedKept
<1> QED BY <1>1, <1>9, <1>10, <1>11, <1>12

\* A move is made.
LEMMA MovingKept ==
  ASSUME RemoteInv, DuelInv, NEW u \in User, Serve(u), at[u] = "moving"
  PROVE  Kept(u)
<1> DEFINE c == req[u].code
<1>0. /\ req \in [User -> Request] /\ users \in UserDocs
      /\ games \in [Code -> Document \cup {NONE}] /\ drawn \in SUBSET Code
      /\ BusyInv(u) /\ HeldInv(u) /\ LeftInv(u) /\ ShownInv(u) /\ RequestInv(req[u])
  BY DEF RemoteInv, ServerInv, TypeOK, DuelInv, UserDocs
<1>1. /\ req[u].step \in {"move", "put", "putprev"} /\ req[u].route = "makemove"
      /\ c = gameCode[u] /\ c \in drawn /\ c \in Code /\ req[u].peer = u
      /\ gameCode'[u] = c
      /\ req'[u].step # "idle" => at'[u] = "moving"
      /\ req'[u].step = "idle" => at'[u] = "remote"
  <2>1. /\ req[u].step \in {"move", "put", "putprev"} /\ req[u].route = "makemove"
        /\ c = gameCode[u] /\ c \in drawn
    BY Served DEF RouteOf, StepsOf, Concerning
  <2>2. /\ gameCode'[u] = gameCode[u]
        /\ req'[u].step # "idle" => at'[u] = "moving"
        /\ req'[u].step = "idle" => at'[u] = "remote"
    BY Served
  <2> QED BY <1>0, <2>1, <2>2 DEF BusyInv
<1>2. c \in Running => /\ ~Resigned(Pos(c), u) /\ Pos(c) \in Position /\ GameInv(Pos(c))
                       /\ games[c] \in Document
  BY <1>0, <1>1 DEF ShownInv, Shows, Running, Document, DuelInv, Pos
<1>3. c \in Running /\ req[u].step \in {"move", "put"} =>
        Pos(c).players_turn = u /\ GoingOn(Pos(c))
  BY <1>0, <1>1 DEF ShownInv, Shows
<1>4. ASSUME c \in Running' => ~Resigned(games'[c].state, u), req'[u].step \notin {"move", "put"}
      PROVE  ShownInv(u)'
  <2>1. at'[u] = "remote" \/ at'[u] = "moving" BY <1>1
  <2> QED BY <1>1, <1>4, <2>1 DEF ShownInv, Shows, Pos
<1>5. ASSUME req'[u] = Idle, UNCHANGED <<users, drawn>>
      PROVE  BusyInv(u)' /\ HeldInv(u)'
  BY <1>0, <1>1, <1>5 DEF BusyInv, HeldInv, Idle, Asking
<1>6. ASSUME NEW step \in {"put", "putprev"}, req'[u].step = step, req'[u].route = "makemove",
             req'[u].code = c, req'[u].peer = u, UNCHANGED <<users, drawn>>
      PROVE  BusyInv(u)'
  BY <1>0, <1>1, <1>6 DEF BusyInv, Asking, RouteOf, StepsOf
<1>7. ASSUME \A d \in Code : Leaves(d), UNCHANGED users PROVE LeftInv(u)'
  BY <1>0, <1>7 DEF LeftInv, Leaves, Running, Pos
<1>8. UNCHANGED games => \A d \in Code : Leaves(d)
  BY DEF Leaves, Running
<1>9. CASE req[u].step = "move"
  <2>1. ReadToMove(u) /\ UNCHANGED <<users, games, drawn>>
    BY <1>9, Served, HandlerOf DEF ReadToMove
  <2>2. CASE Reply(u)
    <3>1. req'[u] = Idle BY <1>0, <2>2 DEF Reply
    <3>2. ShownInv(u)' BY <1>2, <1>4, <2>1, <3>1 DEF Idle, Running, Pos
    <3> QED BY <1>5, <1>7, <1>8, <2>1, <3>1, <3>2, PositionsKept, ServedKept
  <2>3. CASE /\ c \in Running
             /\ req' = [req EXCEPT ![u] = [@ EXCEPT !.step = "put", !.doc = games[c]]]
    <3>1. /\ req'[u].step = "put" /\ req'[u].doc = games[c] /\ req'[u].code = c
          /\ req'[u].route = "makemove" /\ req'[u].peer = u
      <4>1. req[u] \in Request BY <1>0
      <4>2. req'[u] = [req[u] EXCEPT !.step = "put", !.doc = games[c]] BY <1>0, <2>3
      <4> QED BY <1>1, <4>1, <4>2 DEF Request
    <3>2. HeldInv(u)' BY <2>1, <2>3, <3>1 DEF HeldInv, BeforeMove, Running, Pos
    <3>3. at'[u] = "moving" BY <1>1, <3>1
    <3>4. \A n : Shows(u, "moving", "put", n, Pos(c))
      BY <1>2, <1>3, <1>9, <2>3 DEF Shows
    <3>5. ShownInv(u)' BY <1>1, <2>1, <3>1, <3>3, <3>4 DEF ShownInv, Pos
    <3> QED BY <1>6, <1>7, <1>8, <2>1, <3>1, <3>2, <3>5, PositionsKept, ServedKept
  <2> QED BY <1>1, <2>1, <2>2, <2>3 DEF ReadToMove, Exists, Running
<1>10. CASE req[u].step = "put"
  <2> DEFINE old == req[u].doc.state
  <2>1. PICK mate \in BOOLEAN :
          /\ mate => old.movecount > 0
          /\ games' = [games EXCEPT ![c] = [state |-> Moved(old, u, mate), prev_state |-> NONE]]
          /\ Goto(u, "putprev") /\ UNCHANGED <<users, drawn>>
    BY <1>1, <1>10, Served, HandlerOf DEF PutMove, PutGame
  <2>2. c \in Running /\ BeforeMove(old, Pos(c))
    BY <1>0, <1>10 DEF HeldInv
  <2>3. games'[c].state = Moved(old, u, mate) /\ \A d \in Code \ {c} : games'[d] = games[d]
    BY <1>0, <1>1, <2>1, <2>2
  <2>4. old \in Position /\ Good(old) /\ MayMove(old, u)
    <3>1. req[u].doc \in Document /\ Good(old) /\ MayMove(old, u)
      BY <1>0, <1>1, <1>10 DEF RequestInv, DocSteps, Request, RemoteInv, ServerInv, DocInv, GoodDoc
    <3> QED BY <3>1 DEF Document
  <2> HIDE DEF old
  <2>5. games'[c] # NONE /\ games'[c].state.game_status.kind # "R"
    <3>1. u \in Player BY DEF Player
    <3>2. Moved(old, u, mate) \in Position /\ Moved(old, u, mate).game_status.kind \in {"N", "W"}
      BY <2>4, <3>1, MoveTyped
    <3>3. [state |-> Moved(old, u, mate), prev_state |-> NONE] \in Document
      BY <3>2 DEF Document
    <3>4. games'[c] # NONE
      BY <1>0, <1>1, <2>1, <3>3, NoneAssumption
    <3> QED BY <2>3, <3>2, <3>4
  <2>6. OnTurn(u, c) /\ Advances(u, c)
    BY <1>3, <1>10, <2>1, <2>2, <2>3, <2>4, <2>5 DEF OnTurn, Advances, NowHas
  <2>7. Writes(u)
    BY <1>1, <2>1, <2>3, <2>6 DEF Writes, Changes, Leaves, Running
  <2>8. /\ req'[u].step = "putprev" /\ req'[u].route = "makemove" /\ req'[u].code = c
        /\ req'[u].peer = u
    BY <1>0, <1>1, <2>1 DEF Goto, Request
  <2>9. ~Resigned(games'[c].state, u) BY <2>5 DEF Resigned
  <2>10. LeftInv(u)'
    <3>1. ASSUME NEW home \in Running', Resigned(games'[home].state, u), home = users[u].ongoing_game
          PROVE  FALSE
      <4>1. home # c /\ home \in Code BY <2>9, <3>1 DEF Running
      <4>2. home \in Running /\ Resigned(Pos(home), u) BY <2>3, <3>1, <4>1 DEF Running, Pos
      <4> QED BY <1>0, <3>1, <4>2 DEF LeftInv
    <3> QED BY <2>1, <3>1 DEF LeftInv, Pos
  <2>11. HeldInv(u)' BY <2>8 DEF HeldInv
  <2> QED BY <1>4, <1>6, <2>1, <2>7, <2>8, <2>9, <2>10, <2>11, ServedKept
<1>11. CASE req[u].step = "putprev"
  <2>1. /\ IF Exists(u) THEN games' = [games EXCEPT ![c].prev_state = req[u].doc.state]
                        ELSE UNCHANGED games
        /\ req'[u] = Idle /\ UNCHANGED <<users, drawn>>
    BY <1>0, <1>11, Served, HandlerOf DEF PutPrev, Reply
  <2>2. \A d \in Code : Leaves(d)
    <3>1. CASE c \in Running
      <4>1. games' = [games EXCEPT ![c].prev_state = req[u].doc.state]
        BY <2>1, <3>1 DEF Exists, Running
      <4>2. games'[c] = [games[c] EXCEPT !.prev_state = req[u].doc.state]
        BY <1>0, <1>1, <4>1
      <4>3. games[c] \in Document /\ games'[c].state = games[c].state
        BY <1>2, <3>1, <4>2 DEF Document
      <4>4. games'[c] # NONE
        <5>1. games'[c] \in Document
          <6>1. req[u].doc \in Document
            BY <1>0, <1>11 DEF RequestInv, DocSteps, Request
          <6>2. req[u].doc.state \in Position \cup {NONE} BY <6>1 DEF Document
          <6> QED BY <4>2, <4>3, <6>2 DEF Document
        <5> QED BY <5>1, NoneAssumption
      <4>5. \A d \in Code \ {c} : games'[d] = games[d] BY <1>0, <4>1
      <4> QED BY <3>1, <4>3, <4>4, <4>5 DEF Leaves, Running
    <3>2. CASE c \notin Running
      BY <1>1, <1>8, <2>1, <3>2 DEF Exists, Running
    <3> QED BY <3>1, <3>2
  <2>3. ShownInv(u)'
    BY <1>1, <1>2, <1>4, <2>1, <2>2 DEF Idle, Leaves, Pos
  <2> QED BY <1>5, <1>7, <2>1, <2>2, <2>3, PositionsKept, ServedKept
<1> QED BY <1>1, <1>9, <1>10, <1>11

\* A game is resigned, and asked again to be.
LEMMA ResigningKept ==
  ASSUME RemoteInv, DuelInv, NEW u \in User, Serve(u), at[u] = "resigning"
  PROVE  Kept(u)
<1> DEFINE c == req[u].code
<1>0. /\ req \in [User -> Request] /\ users \in UserDocs
      /\ games \in [Code -> Document \cup {NONE}] /\ drawn \in SUBSET Code
      /\ BusyInv(u) /\ LeftInv(u) /\ ShownInv(u)
      /\ EMPTY \notin Code
  BY CodesAssumption DEF RemoteInv, ServerInv, TypeOK, DuelInv, UserDocs
<1>1. /\ req[u].step \in {"resign", "status", "leave"} /\ req[u].route = "resign"
      /\ c = gameCode[u] /\ c \in drawn /\ c \in Code
      /\ gameCode'[u] = c
      /\ req'[u].step # "idle" => at'[u] = "resigning"
      /\ req'[u].step = "idle" => at'[u] \in {"resigning", "lost"}
      /\ at'[u] = "lost" => req[u].step = "leave"
  <2>1. /\ req[u].step \in {"resign", "status", "leave"} /\ req[u].route = "resign"
        /\ c = gameCode[u] /\ c \in drawn
    BY Served DEF RouteOf, StepsOf, Concerning
  <2>2. at'[u] = "lost" => Done(u)
    BY Served
  <2>3. /\ gameCode'[u] = gameCode[u]
        /\ req'[u].step # "idle" => at'[u] = "resigning"
        /\ req'[u].step = "idle" => at'[u] \in {"resigning", "lost"}
    BY Served
  <2> QED BY <1>0, <2>1, <2>2, <2>3 DEF Done
<1>2. c \in Running => /\ Pos(c).players_turn = u
                       /\ GoingOn(Pos(c)) \/ Resigned(Pos(c), u)
                       /\ req[u].step = "leave" => Resigned(Pos(c), u) \/ Overtaken(Pos(c), u)
                       /\ Pos(c) \in Position /\ GameInv(Pos(c)) /\ games[c] \in Document
  BY <1>0, <1>1 DEF ShownInv, Shows, Running, Document, DuelInv, Pos
<1>3. ASSUME req'[u] = Idle, drawn' = drawn, users'[u].ongoing_game \in {users[u].ongoing_game, EMPTY}
      PROVE  BusyInv(u)' /\ HeldInv(u)'
  BY <1>0, <1>1, <1>3 DEF BusyInv, HeldInv, Idle, Asking
<1>4. ASSUME NEW step \in {"status", "leave"}, Goto(u, step), UNCHANGED <<users, drawn>>
      PROVE  /\ BusyInv(u)' /\ HeldInv(u)' /\ req'[u].step = step /\ at'[u] = "resigning"
  <2>1. req'[u].step = step /\ req'[u].route = "resign" /\ req'[u].code = c
    BY <1>0, <1>1, <1>4 DEF Goto, Request
  <2> QED BY <1>0, <1>1, <1>4, <2>1 DEF BusyInv, HeldInv, Asking, RouteOf, StepsOf
<1>5. UNCHANGED games => \A d \in Code : Leaves(d)
  BY DEF Leaves, Running
<1>6. CASE req[u].step = "resign"
  <2>1. (Goto(u, "status") \/ Reply(u)) /\ UNCHANGED <<users, games, drawn>>
    BY <1>6, Served, HandlerOf DEF ReadToResign
  <2>2. Reply(u) => req'[u] = Idle BY <1>0 DEF Reply
  <2>3. BusyInv(u)' /\ HeldInv(u)' /\ req'[u].step # "leave" /\ at'[u] = "resigning"
    BY <1>1, <1>3, <1>4, <1>6, <2>1, <2>2 DEF Idle
  <2>4. ShownInv(u)'
    BY <1>1, <1>2, <2>1, <2>3 DEF ShownInv, Shows, Running, Pos
  <2>5. LeftInv(u)'
    BY <1>0, <1>6, <2>1 DEF LeftInv, Running, Pos
  <2> QED BY <1>5, <2>1, <2>3, <2>4, <2>5, PositionsKept, ServedKept
<1>7. CASE req[u].step = "status"
  <2>1. PutStatus(u) /\ UNCHANGED <<users, drawn>>
    BY <1>7, Served, HandlerOf DEF PutStatus
  <2>2. CASE c \in Running
    <3> DEFINE status == [kind |-> "R", by |-> u]
    <3>1. games' = [games EXCEPT ![c].state.game_status = status] /\ Goto(u, "leave")
      BY <2>1, <2>2 DEF PutStatus, Exists, Running
    <3>2. games'[c] = [games[c] EXCEPT !.state = [games[c].state EXCEPT !.game_status = status]]
      BY <1>0, <1>1, <3>1
    <3> HIDE DEF status
    <3>3. games'[c].state = [Pos(c) EXCEPT !.game_status = status]
      BY <1>2, <2>2, <3>2 DEF Document, Pos
    <3>4. games'[c] # NONE
      <4>1. status \in Status BY DEF status, Status, Player
      <4>2. games'[c].state \in Position BY <1>2, <2>2, <3>3, <4>1 DEF Position
      <4>3. games'[c] \in Document BY <1>2, <2>2, <3>2, <3>3, <4>2 DEF Document, Pos
      <4> QED BY <4>3, NoneAssumption
    <3>5. /\ games'[c].state.player1_id = Pos(c).player1_id
          /\ games'[c].state.player2_id = Pos(c).player2_id
          /\ games'[c].state.players_turn = u
          /\ games'[c].state.game_status = status
      BY <1>2, <2>2, <3>3 DEF Position
    <3>6. Resigned(games'[c].state, u)
      BY <3>5 DEF Resigned, status
    <3>7. \A d \in Code \ {c} : games'[d] = games[d]
      BY <1>0, <3>1
    <3>8. Changes(u, c) \/ Leaves(c)
      <4>1. CASE GoingOn(Pos(c))
        BY <1>2, <2>1, <2>2, <3>3, <3>4, <4>1 DEF Changes, NowHas, OnTurn, status
      <4>2. CASE Resigned(Pos(c), u)
        <5>1. games'[c].state = Pos(c)
          BY <1>2, <2>2, <3>3, <4>2 DEF Resigned, Position, status
        <5> QED BY <2>2, <3>4, <5>1 DEF Leaves, Running, Pos
      <4> QED BY <1>2, <2>2, <4>1, <4>2
    <3>9. Writes(u)
      BY <1>1, <2>1, <3>7, <3>8 DEF Writes, Leaves, Running
    <3>10. BusyInv(u)' /\ HeldInv(u)' /\ req'[u].step = "leave" /\ at'[u] = "resigning"
      BY <1>4, <2>1, <3>1
    <3>11. ShownInv(u)'
      BY <1>1, <3>5, <3>6, <3>10 DEF ShownInv, Shows, Pos
    <3>12. LeftInv(u)'
      <4>1. ASSUME NEW home \in Running', Resigned(games'[home].state, u), home = users[u].ongoing_game
            PROVE  home = c
        <5>1. home # c => home \in Running /\ Resigned(Pos(home), u)
          BY <3>7, <4>1 DEF Running, Pos
        <5> QED BY <1>0, <1>7, <4>1, <5>1 DEF LeftInv
      <4> QED BY <1>1, <2>1, <3>10, <4>1 DEF LeftInv, Pos
    <3> QED BY <3>9, <3>10, <3>11, <3>12, ServedKept
  <2>3. CASE c \notin Running
    <3>1. Reply(u) /\ UNCHANGED games
      BY <1>1, <2>1, <2>3 DEF PutStatus, Exists, Running
    <3>2. req'[u] = Idle BY <1>0, <3>1 DEF Reply
    <3>3. ShownInv(u)' BY <1>1, <2>3, <3>1 DEF ShownInv, Running
    <3>4. LeftInv(u)' BY <1>0, <1>7, <2>1, <3>1 DEF LeftInv, Running, Pos
    <3> QED BY <1>3, <1>5, <2>1, <3>1, <3>2, <3>3, <3>4, PositionsKept, ServedKept
  <2> QED BY <2>2, <2>3
<1>8. CASE req[u].step = "leave"
  <2>1. /\ users' = [users EXCEPT ![u].ongoing_game = EMPTY] /\ req'[u] = Idle
        /\ UNCHANGED <<games, drawn>>
    BY <1>0, <1>8, Served, HandlerOf DEF Leave, PutOngoing, Reply
  <2>2. users'[u].ongoing_game = EMPTY BY <1>0, <2>1 DEF UserDocs
  <2>3. LeftInv(u)' BY <1>0, <2>2 DEF LeftInv, Running
  <2>4. at'[u] \in {"resigning", "lost"} BY <1>1, <2>1 DEF Idle
  <2>5. ShownInv(u)'
    BY <1>1, <1>2, <1>8, <2>1, <2>4 DEF ShownInv, Shows, Running, Pos, Resigned, LostIn, Idle
  <2> QED BY <1>3, <1>5, <2>1, <2>2, <2>3, <2>5, PositionsKept, ServedKept
<1> QED BY <1>1, <1>6, <1>7, <1>8
-----------------------------------------------------------------------------
\* Every step of a board keeps its part of the invariant, and harms no other's.
LEMMA BoardKept ==
  ASSUME RemoteInv, DuelInv, NEW u \in User, Board(u)
  PROVE  Kept(u)
<1>1. CASE Serve(u)
  <2>1. at[u] \in Asking BY <1>1, Served
  <2> QED BY <1>1, <2>1, CreatingKept, JoiningKept, LeavingKept, CancellingKept, MovingKept, ResigningKept
          DEF Asking
<1> QED BY <1>1, AsksKept, LooksKept DEF Board

\* What is written leaves the games as they should be, and the other board in peace.
LEMMA WritesRespect ==
  ASSUME RemoteInv, DuelInv, NEW u \in User, Writes(u)
  PROVE  Respects(u) /\ drawn \subseteq drawn' /\ \A c \in Running' : GameInv(games'[c].state)
<1>1. CASE UNCHANGED drawn /\ \A c \in Code : Leaves(c)
  BY <1>1 DEF Respects, Leaves, Running, DuelInv, Pos, RemoteInv, ServerInv, TypeOK
<1>2. ASSUME NEW c \in Code, Changes(u, c), \A d \in Code \ {c} : Leaves(d)
      PROVE  Respects(u) /\ drawn \subseteq drawn' /\ \A d \in Running' : GameInv(games'[d].state)
  <2>1. c \in Running => Pos(c) \in Position /\ GameInv(Pos(c)) /\ c \in drawn
    BY DEF RemoteInv, ServerInv, TypeOK, DocInv, Running, Document, DuelInv, Pos
  <2>2. \A d \in Running' : d # c => d \in Running /\ games'[d].state = Pos(d)
    BY <1>2 DEF Leaves, Running, Pos
  <2>3. CASE c \notin drawn /\ drawn' = drawn \cup {c} /\ NowHas(c, NewPosition(u))
    <3>1. GameInv(games'[c].state) BY <2>3 DEF NowHas, NewPosition, GameInv, Fresh
    <3> QED BY <1>2, <2>2, <2>3, <3>1 DEF Respects, DuelInv, RemoteInv, ServerInv, TypeOK
  <2>4. CASE UNCHANGED drawn /\ Seats(u, c)
    <3> DEFINE new == games'[c].state
    <3>1. GameInv(new)
      <4>1. /\ new.players_joined = 2 /\ new.player2_id = u /\ new.player1_id = Pos(c).player1_id
            /\ \/ Fresh(new)
               \/ new.players_turn = Pos(c).players_turn /\ new.game_status = Pos(c).game_status
        BY <2>4, SeatedFacts
      <4>2. u # Pos(c).player1_id /\ GameInv(Pos(c))
        BY <2>1, <2>4 DEF Seats
      <4> HIDE DEF new
      <4> QED BY <4>1, <4>2 DEF GameInv, Fresh
    <3> QED BY <1>2, <2>2, <2>4, <3>1 DEF Respects, DuelInv, RemoteInv, ServerInv, TypeOK
  <2>5. ASSUME OnTurn(u, c), Advances(u, c)
        PROVE  GoesOnWith(u, c) /\ games'[c] # NONE /\ GameInv(games'[c].state)
    <3>1. PICK old \in Position, mate \in BOOLEAN :
            /\ Good(old) /\ BeforeMove(old, Pos(c)) /\ (mate => old.movecount > 0)
            /\ NowHas(c, Moved(old, u, mate))
      BY <2>5 DEF Advances
    <3> DEFINE pos == Moved(old, u, mate)
    <3>2. /\ pos.player1_id = old.player1_id /\ pos.player2_id = old.player2_id
          /\ pos.players_joined = old.players_joined /\ pos.movecount = old.movecount + 1
          /\ pos.game_status.kind \in {"N", "W"} /\ (pos.game_status.kind = "W" <=> mate)
          /\ pos.players_turn = IF old.player1_id = u THEN old.player2_id ELSE old.player1_id
      <4>1. u \in Player BY DEF Player
      <4> QED BY <4>1, MoveTyped
    <3>3. games'[c] # NONE /\ games'[c].state = pos
      BY <3>1 DEF NowHas
    <3> HIDE DEF pos
    <3>4. Pos(c).players_turn = u /\ GoingOn(Pos(c)) /\ GameInv(Pos(c)) /\ c \in Running
      BY <2>1, <2>5 DEF OnTurn
    <3>5. Pos(c).players_joined = 1 => old = Pos(c) /\ Fresh(Pos(c))
      BY <3>1, <3>4, FirstFresh DEF BeforeMove
    <3>6. old.players_joined = 1 => Fresh(old) /\ old.player2_id = NONE
      BY <3>1, <3>5 DEF BeforeMove, Good
    <3>7. old.player1_id = Pos(c).player1_id /\ (old.players_joined = 2 => old = Pos(c))
      BY <3>1 DEF BeforeMove
    <3>8. old.players_joined = 1 => Adrift(pos)
      <4>1. old.players_joined = 1 => old.player1_id = u /\ old.movecount = 0
        BY <3>1, <3>4, <3>6 DEF BeforeMove, Fresh
      <4> QED BY <3>1, <3>2, <3>6, <4>1 DEF Adrift
    <3>9. GameInv(pos)
      BY <3>2, <3>4, <3>7, <3>8 DEF GameInv
    <3>10. GoesOnWith(u, c)
      BY <2>5, <3>2, <3>3, <3>5, <3>7 DEF GoesOnWith, Pos
    <3> QED BY <3>3, <3>9, <3>10
  <2>6. ASSUME OnTurn(u, c), NowHas(c, [Pos(c) EXCEPT !.game_status = [kind |-> "R", by |-> u]])
        PROVE  GoesOnWith(u, c) /\ games'[c] # NONE /\ GameInv(games'[c].state)
    <3> DEFINE status == [kind |-> "R", by |-> u]
               pos == [Pos(c) EXCEPT !.game_status = status]
    <3>1. Pos(c).players_turn = u /\ GoingOn(Pos(c)) /\ GameInv(Pos(c)) /\ Pos(c) \in Position
      BY <2>1, <2>6 DEF OnTurn
    <3>2. games'[c] # NONE /\ games'[c].state = pos
      BY <2>6 DEF NowHas
    <3>3. status.kind = "R" /\ status.by = u OBVIOUS
    <3> HIDE DEF status
    <3>4. /\ pos.player1_id = Pos(c).player1_id /\ pos.player2_id = Pos(c).player2_id
          /\ pos.players_joined = Pos(c).players_joined /\ pos.players_turn = u
          /\ pos.movecount = Pos(c).movecount /\ pos.game_status = status
      BY <3>1 DEF Position
    <3> HIDE DEF pos
    <3>5. Pos(c).players_joined = 1 => Fresh(Pos(c))
      BY <3>1, FirstFresh
    <3>6. pos.players_joined = 1 => Dropped(pos)
      BY <3>1, <3>4, <3>5 DEF Dropped, Fresh, Resigned, status
    <3>7. GameInv(pos)
      BY <3>1, <3>3, <3>4, <3>6 DEF GameInv
    <3>8. GoesOnWith(u, c)
      BY <2>6, <3>2, <3>3, <3>4 DEF GoesOnWith, Pos
    <3> QED BY <3>2, <3>7, <3>8
  <2>7. CASE /\ UNCHANGED drawn /\ OnTurn(u, c)
             /\ \/ Advances(u, c)
                \/ NowHas(c, [Pos(c) EXCEPT !.game_status = [kind |-> "R", by |-> u]])
                \/ Pos(c).players_joined = 2 /\ Fresh(Pos(c)) /\ games'[c] = NONE
    <3>1. GoesOnWith(u, c) /\ (games'[c] # NONE => GameInv(games'[c].state))
      <4>1. CASE Pos(c).players_joined = 2 /\ games'[c] = NONE
        BY <2>7, <4>1 DEF GoesOnWith
      <4>2. CASE Advances(u, c) BY <2>5, <2>7, <4>2
      <4>3. CASE NowHas(c, [Pos(c) EXCEPT !.game_status = [kind |-> "R", by |-> u]])
        BY <2>6, <2>7, <4>3
      <4> QED BY <2>7, <4>1, <4>2, <4>3
    <3> QED BY <1>2, <2>2, <2>7, <3>1 DEF Respects, DuelInv, RemoteInv, ServerInv, TypeOK, Running
  <2> QED BY <1>2, <2>3, <2>4, <2>7 DEF Changes
<1> QED BY <1>1, <1>2 DEF Writes

LEMMA DuelNext ==
  ASSUME RemoteInv, TwoBoards, DuelInv, [RemoteNext]_remoteVars
  PROVE  DuelInv'
<1>1. ASSUME NEW u \in User, Board(u) PROVE DuelInv'
  <2>1. Kept(u) BY <1>1, BoardKept
  <2>2. Respects(u) /\ drawn \subseteq drawn' /\ \A c \in Running' : GameInv(games'[c].state)
    BY <2>1, WritesRespect DEF Kept
  <2>3. \A w \in User \ {u} : UserInv(w)'
    BY <2>1, <2>2, OthersKept DEF Kept, DuelInv, UserInv
  <2>4. \A w \in User : UserInv(w)' BY <2>1, <2>3 DEF Kept
  <2> QED BY <2>1, <2>2, <2>4 DEF Kept, DuelInv, UserInv, Pos
<1>2. CASE UNCHANGED remoteVars
  BY <1>2 DEF remoteVars, boardVars, vars, DuelInv, BusyInv, HeldInv, ShownInv, LeftInv, Shows,
     Running, Pos
<1> QED BY <1>1, <1>2 DEF RemoteNext

LEMMA DuelInit == RemoteInit => DuelInv
<1> SUFFICES ASSUME RemoteInit PROVE DuelInv OBVIOUS
<1>1. Running = {} BY DEF RemoteInit, Init, Running
<1>2. NONE \notin Code /\ EMPTY \notin Code BY CodesAssumption
<1>3. ASSUME NEW u \in User PROVE BusyInv(u) /\ HeldInv(u) /\ ShownInv(u) /\ LeftInv(u)
  BY <1>1, <1>2 DEF RemoteInit, Init, Idle, BusyInv, HeldInv, ShownInv, LeftInv, Asking
<1> QED BY <1>1, <1>3 DEF DuelInv, RemoteInit

LEMMA DuelAlways ==
  ASSUME TwoBoards PROVE RemoteSpec => []DuelInv
<1>1. RemoteInv /\ DuelInv /\ [RemoteNext]_remoteVars => DuelInv'
  BY DuelNext
<1> QED BY <1>1, DuelInit, RemoteInvariant, PTL DEF RemoteSpec

\* However the requests of two boards overlap, are lost or answered unreadably,
\* and whenever a board is switched off, a board lets its player move only in a
\* game in which makemove will take the move: what chessServer_awaitTurn and
\* DownloadCurrentGame brought is the server's last position until this board moves.
THEOREM TwoBoardsInStep ==
  ASSUME TwoBoards PROVE RemoteSpec => []InStep
<1>1. DuelInv => InStep
  BY DEF DuelInv, ShownInv, Shows, InStep, InGame, Game, Running, Pos, GoingOn
<1> QED BY <1>1, DuelAlways, PTL

\* However late its answers, a board says "You won" only to the player who mated or
\* whose opponent resigned, and "You lost" only to the other: Resign (FSM.cpp) goes
\* on until the server has it, and nothing follows the end of a game, but that
\* join_game may write over the resignation of a game nobody had joined.
THEOREM TwoBoardsVerdictsRight ==
  ASSUME TwoBoards PROVE RemoteSpec => []VerdictsRight
<1>1. DuelInv => VerdictsRight
  BY DEF DuelInv, ShownInv, Shows, VerdictsRight, InGame, Game, Running, Pos, Won, Beaten, WonIn,
     LostIn, Overwritten, Overtaken, Fresh
<1> QED BY <1>1, DuelAlways, PTL
-----------------------------------------------------------------------------
\* How far a game is, from its document.
LEMMA PhaseOf ==
  ASSUME NEW c \in Code, c \in Running, Pos(c) \in Position
  PROVE  /\ Phase(c) = "open" <=> GoingOn(Pos(c)) /\ Pos(c).players_joined = 1
         /\ Phase(c) = "playing" <=> GoingOn(Pos(c)) /\ Pos(c).players_joined = 2
         /\ Phase(c) = "abandoned" <=> Pos(c).game_status.kind = "R" /\ Pos(c).players_joined = 1
         /\ Phase(c) = "resigned" <=> Pos(c).game_status.kind = "R" /\ Pos(c).players_joined = 2
         /\ Phase(c) = "mated" <=> Pos(c).game_status.kind = "W"
         /\ Moves(c) = Pos(c).movecount /\ Turn(c) \in {"first", "second", "nobody"}
         /\ Turn(c) = "first" <=> Pos(c).players_turn = Pos(c).player1_id
         /\ Turn(c) = "nobody" <=> Pos(c).players_turn = NONE
<1> DEFINE pos == Pos(c)
<1>1. games[c] # NONE /\ games[c].state = pos
  BY DEF Running, Pos
<1>2. pos \in Position OBVIOUS
<1> HIDE DEF pos
<1>3. /\ Phase(c) = "open" <=> GoingOn(pos) /\ pos.players_joined = 1
      /\ Phase(c) = "playing" <=> GoingOn(pos) /\ pos.players_joined = 2
      /\ Phase(c) = "abandoned" <=> pos.game_status.kind = "R" /\ pos.players_joined = 1
      /\ Phase(c) = "resigned" <=> pos.game_status.kind = "R" /\ pos.players_joined = 2
      /\ Phase(c) = "mated" <=> pos.game_status.kind = "W"
  BY <1>1, <1>2 DEF Phase, GoingOn, Position, Status
<1>4. /\ Moves(c) = pos.movecount /\ Turn(c) \in {"first", "second", "nobody"}
      /\ Turn(c) = "first" <=> pos.players_turn = pos.player1_id
      /\ Turn(c) = "nobody" <=> pos.players_turn = NONE
  BY <1>1, <1>2, PlayersAssumption DEF Moves, Turn, Position, Player
<1> QED BY <1>3, <1>4 DEF pos

\* What is left alone looks the same.
LEMMA LeavesView ==
  ASSUME RemoteInv, NEW c \in Code, Leaves(c), c \in drawn' <=> c \in drawn
  PROVE  UNCHANGED <<Phase(c), Turn(c), Moves(c)>>
<1>1. CASE c \in Running
  <2>1. Pos(c) \in Position
    BY <1>1 DEF RemoteInv, ServerInv, TypeOK, Running, Document, Pos
  <2>2. games[c] # NONE /\ games'[c] # NONE /\ games'[c].state = games[c].state
    BY <1>1 DEF Leaves, Running
  <2>3. games[c].state.game_status.kind \in {"O", "N", "R", "W"}
    BY <2>1 DEF Position, Status, Pos
  <2>4. Phase(c)' = Phase(c) BY <2>2, <2>3 DEF Phase
  <2> QED BY <2>2, <2>4 DEF Turn, Moves
<1>2. CASE c \notin Running
  BY <1>2 DEF Leaves, Running, Phase, Turn, Moves
<1> QED BY <1>1, <1>2

\* A change to a game is one of the steps of a match: of the game's opening and its
\* joining, of one that is played, and of what the first player does alone.
Opens(c) ==
  \/ Phase(c) = "none" /\ Phase(c)' = "open" /\ UNCHANGED <<Turn(c), Moves(c)>>
  \/ /\ \/ Phase(c) = "open" /\ Phase(c)' = "playing"
        \/ Phase(c) = "abandoned" /\ Phase(c)' = "resigned"
     /\ UNCHANGED <<Turn(c), Moves(c)>>
Continues(c) ==
  \/ /\ Phase(c) = "playing" /\ Turn(c) # "nobody" /\ Phase(c)' \in {"playing", "mated"}
     /\ Turn(c)' = (IF Turn(c) = "first" THEN "second" ELSE "first")
     /\ Moves(c)' = Moves(c) + 1
  \/ /\ Phase(c) = "playing" /\ Turn(c) # "nobody"
     /\ Phase(c)' = "resigned" /\ UNCHANGED <<Turn(c), Moves(c)>>
  \/ /\ Phase(c) \in {"open", "playing"} /\ Moves(c) = 0
     /\ Phase(c)' = "gone" /\ UNCHANGED <<Turn(c), Moves(c)>>
Alone(c) ==
  \/ /\ Phase(c) \in {"open", "playing"} /\ Turn(c) = "first" /\ Moves(c) = 0
     /\ Phase(c)' = "open" /\ Turn(c)' = "nobody" /\ Moves(c)' = 1
  \/ /\ Phase(c) = "open" /\ Turn(c) = "first" /\ Moves(c) = 0
     /\ Phase(c)' = "abandoned" /\ UNCHANGED <<Turn(c), Moves(c)>>
  \/ /\ Phase(c) = "abandoned" \/ (Phase(c) = "open" /\ Turn(c) = "nobody")
     /\ Phase(c)' = "playing" /\ Turn(c)' = "first" /\ Moves(c)' = 0
Plays(c) == Opens(c) \/ Continues(c) \/ Alone(c)

\* How far a game is once a position is written.
LEMMA WrittenView ==
  ASSUME NEW c \in Code, NEW pos \in Position, NowHas(c, pos)
  PROVE  /\ Phase(c)' = "open" <=> GoingOn(pos) /\ pos.players_joined = 1
         /\ Phase(c)' = "playing" <=> GoingOn(pos) /\ pos.players_joined = 2
         /\ Phase(c)' = "abandoned" <=> pos.game_status.kind = "R" /\ pos.players_joined = 1
         /\ Phase(c)' = "resigned" <=> pos.game_status.kind = "R" /\ pos.players_joined = 2
         /\ Phase(c)' = "mated" <=> pos.game_status.kind = "W"
         /\ Moves(c)' = pos.movecount /\ Turn(c)' \in {"first", "second", "nobody"}
         /\ Turn(c)' = "first" <=> pos.players_turn = pos.player1_id
         /\ Turn(c)' = "nobody" <=> pos.players_turn = NONE
BY PlayersAssumption DEF NowHas, Phase, Moves, Turn, GoingOn, Position, Status, Player

\* u joins the game, or writes a join over what the first player did alone.
LEMMA SeatsPlays ==
  ASSUME RemoteInv, DuelInv, NEW u \in User, NEW c \in Code, Seats(u, c)
  PROVE  Plays(c)
<1>1. c \in Running /\ Pos(c) \in Position /\ GameInv(Pos(c)) /\ Pos(c).players_joined = 1
  BY DEF Seats, RemoteInv, ServerInv, TypeOK, Running, Document, DuelInv, Pos
<1>2. PICK old \in Position :
        /\ BeforeJoin(old, Pos(c))
        /\ NowHas(c, [old EXCEPT !.player2_id = u, !.players_joined = 2])
  BY Zenon DEF Seats
<1> DEFINE pos == [old EXCEPT !.player2_id = u, !.players_joined = 2]
<1>3. /\ pos \in Position /\ pos.players_joined = 2 /\ pos.movecount = old.movecount
      /\ pos.game_status = old.game_status
      /\ pos.players_turn = old.players_turn /\ pos.player1_id = old.player1_id
  BY DEF Position, Player
<1>4. NowHas(c, pos) BY <1>2
<1> HIDE DEF pos
<1>5. old.player1_id = Pos(c).player1_id /\ (old = Pos(c) \/ Fresh(old))
  BY <1>2 DEF BeforeJoin
<1>6. Pos(c).player1_id # NONE BY <1>1, PlayersAssumption DEF Position, Player
<1>7. Fresh(Pos(c)) \/ Adrift(Pos(c)) \/ Dropped(Pos(c)) BY <1>1 DEF GameInv
<1>8. CASE old = Pos(c)
  <2>1. UNCHANGED <<Turn(c), Moves(c)>>
    BY <1>1, <1>3, <1>4, <1>8, WrittenView, PhaseOf
  <2>2. \/ Phase(c) = "open" /\ Phase(c)' = "playing"
        \/ Phase(c) = "abandoned" /\ Phase(c)' = "resigned"
    BY <1>1, <1>3, <1>4, <1>7, <1>8, WrittenView, PhaseOf
       DEF Fresh, Adrift, Dropped, Resigned, GoingOn
  <2> QED BY <2>1, <2>2 DEF Plays, Opens
<1>9. CASE Fresh(old)
  <2>1. Phase(c)' = "playing" /\ Turn(c)' = "first" /\ Moves(c)' = 0
    BY <1>3, <1>4, <1>9, WrittenView DEF Fresh, GoingOn
  <2>2. CASE Fresh(Pos(c))
    <3>1. Phase(c) = "open" /\ Turn(c) = "first" /\ Moves(c) = 0
      BY <1>1, <2>2, PhaseOf DEF Fresh, GoingOn
    <3> QED BY <2>1, <3>1 DEF Plays, Opens
  <2>3. CASE Adrift(Pos(c))
    <3>1. Phase(c) = "open" /\ Turn(c) = "nobody"
      BY <1>1, <2>3, PhaseOf DEF Adrift, GoingOn
    <3> QED BY <2>1, <3>1 DEF Plays, Alone
  <2>4. CASE Dropped(Pos(c))
    <3>1. Phase(c) = "abandoned"
      BY <1>1, <2>4, PhaseOf DEF Dropped, Resigned
    <3> QED BY <2>1, <3>1 DEF Plays, Alone
  <2> QED BY <1>7, <2>2, <2>3, <2>4
<1> QED BY <1>5, <1>8, <1>9

\* A player on turn in a game nobody has joined is the first, who has done nothing yet.
LEMMA AloneFresh ==
  ASSUME RemoteInv, DuelInv, NEW u \in User, NEW c \in Code, OnTurn(u, c)
  PROVE  /\ c \in Running /\ Pos(c) \in Position /\ GameInv(Pos(c))
         /\ Pos(c).players_turn = u /\ GoingOn(Pos(c)) /\ u # NONE
         /\ Pos(c).players_joined = 1 => Fresh(Pos(c))
<1>1. c \in Running /\ Pos(c) \in Position /\ GameInv(Pos(c))
  BY DEF OnTurn, RemoteInv, ServerInv, TypeOK, Running, Document, DuelInv, Pos
<1>2. Pos(c).players_turn = u /\ GoingOn(Pos(c)) /\ u # NONE
  BY PlayersAssumption DEF OnTurn, Player
<1>3. Pos(c).players_joined = 1 => Fresh(Pos(c))
  BY <1>1, <1>2, FirstFresh
<1> QED BY <1>1, <1>2, <1>3

\* u moves, in a game both have joined, or alone.
LEMMA AdvancesPlays ==
  ASSUME RemoteInv, DuelInv, NEW u \in User, NEW c \in Code, OnTurn(u, c), Advances(u, c)
  PROVE  Plays(c)
<1>1. PICK old \in Position, mate \in BOOLEAN :
        /\ Good(old) /\ BeforeMove(old, Pos(c)) /\ (mate => old.movecount > 0)
        /\ NowHas(c, Moved(old, u, mate))
  BY DEF Advances
<1> DEFINE pos == Moved(old, u, mate)
<1>2. u \in Player BY DEF Player
<1>3. /\ pos \in Position /\ pos.players_joined = old.players_joined
      /\ pos.movecount = old.movecount + 1 /\ pos.player1_id = old.player1_id
      /\ pos.game_status.kind \in {"N", "W"} /\ (pos.game_status.kind = "W" <=> mate)
      /\ pos.players_turn = IF old.player1_id = u THEN old.player2_id ELSE old.player1_id
  BY <1>2, MoveTyped
<1>4. NowHas(c, pos) BY <1>1
<1> HIDE DEF pos
<1>5. /\ c \in Running /\ Pos(c) \in Position /\ GameInv(Pos(c))
      /\ Pos(c).players_turn = u /\ GoingOn(Pos(c)) /\ u # NONE
      /\ Pos(c).players_joined = 1 => Fresh(Pos(c))
  BY AloneFresh
<1>6. Pos(c).players_joined \in {1, 2} BY <1>5 DEF Position
<1>7. CASE old = Pos(c) /\ Pos(c).players_joined = 2
  <2>1. Pos(c).player2_id \in User \ {Pos(c).player1_id} /\ Pos(c).player1_id \in User
    BY <1>5, <1>7 DEF GameInv, Position
  <2>2. Phase(c) = "playing" /\ Turn(c) # "nobody" /\ Moves(c) = Pos(c).movecount
    BY <1>5, <1>7, PhaseOf
  <2>3. Phase(c)' \in {"playing", "mated"} /\ Moves(c)' = Moves(c) + 1
    BY <1>3, <1>4, <1>7, <2>2, WrittenView DEF GoingOn
  <2>4. NONE \notin User BY PlayersAssumption DEF Player
  <2>5. /\ Turn(c) = "first" <=> u = Pos(c).player1_id
        /\ Turn(c) \in {"first", "second", "nobody"}
    BY <1>5, PhaseOf
  <2>6. /\ Turn(c)' = "first" <=> pos.players_turn = pos.player1_id
        /\ Turn(c)' = "nobody" <=> pos.players_turn = NONE
        /\ Turn(c)' \in {"first", "second", "nobody"}
    BY <1>3, <1>4, WrittenView
  <2>7. Turn(c)' = (IF Turn(c) = "first" THEN "second" ELSE "first")
    BY <1>3, <1>7, <2>1, <2>4, <2>5, <2>6
  <2> QED BY <2>2, <2>3, <2>7 DEF Plays, Continues
<1>8. CASE Fresh(old) /\ old.players_joined = 1 /\ Fresh(Pos(c)) /\ old.player1_id = Pos(c).player1_id
  <2>1. Phase(c) \in {"open", "playing"} /\ Turn(c) = "first" /\ Moves(c) = 0
    BY <1>5, <1>6, <1>8, PhaseOf DEF Fresh
  <2>2. ~mate /\ old.player2_id = NONE /\ old.player1_id = u /\ old.movecount = 0
    BY <1>1, <1>5, <1>8 DEF Good, Fresh
  <2>3. pos.movecount = 1 /\ pos.players_turn = NONE /\ GoingOn(pos) /\ pos.players_joined = 1
    BY <1>3, <1>8, <2>2 DEF GoingOn
  <2>4. Phase(c)' = "open" /\ Turn(c)' = "nobody" /\ Moves(c)' = 1
    BY <1>3, <1>4, <2>3, WrittenView
  <2> QED BY <2>1, <2>4 DEF Plays, Alone
<1>9. \/ old = Pos(c)
      \/ Fresh(old) /\ old.players_joined = 1 /\ Fresh(Pos(c)) /\ old.player1_id = Pos(c).player1_id
  BY <1>1 DEF BeforeMove
<1> QED BY <1>5, <1>6, <1>7, <1>8, <1>9

\* u resigns, in a game both have joined, or alone.
LEMMA ResignsPlays ==
  ASSUME RemoteInv, DuelInv, NEW u \in User, NEW c \in Code, OnTurn(u, c),
         NowHas(c, [Pos(c) EXCEPT !.game_status = [kind |-> "R", by |-> u]])
  PROVE  Plays(c)
<1> DEFINE pos == [Pos(c) EXCEPT !.game_status = [kind |-> "R", by |-> u]]
<1>1. /\ c \in Running /\ Pos(c) \in Position /\ GameInv(Pos(c))
      /\ Pos(c).players_turn = u /\ GoingOn(Pos(c)) /\ u # NONE
      /\ Pos(c).players_joined = 1 => Fresh(Pos(c))
  BY AloneFresh
<1>2. /\ pos \in Position /\ pos.movecount = Pos(c).movecount /\ pos.game_status.kind = "R"
      /\ pos.players_turn = Pos(c).players_turn /\ pos.player1_id = Pos(c).player1_id
      /\ pos.players_joined = Pos(c).players_joined
  BY <1>1 DEF Position, Status, Player
<1>3. NowHas(c, pos) OBVIOUS
<1> HIDE DEF pos
<1>4. UNCHANGED <<Turn(c), Moves(c)>>
  BY <1>1, <1>2, <1>3, WrittenView, PhaseOf
<1>5. CASE Pos(c).players_joined = 1
  <2>1. Phase(c) = "open" /\ Turn(c) = "first" /\ Moves(c) = 0
    BY <1>1, <1>5, PhaseOf DEF Fresh
  <2>2. Phase(c)' = "abandoned"
    BY <1>2, <1>3, <1>5, WrittenView
  <2> QED BY <1>4, <2>1, <2>2 DEF Plays, Alone
<1>6. CASE Pos(c).players_joined = 2
  <2>1. Phase(c) = "playing" /\ Turn(c) # "nobody"
    BY <1>1, <1>6, PhaseOf
  <2>2. Phase(c)' = "resigned"
    BY <1>2, <1>3, <1>6, WrittenView
  <2> QED BY <1>4, <2>1, <2>2 DEF Plays, Continues
<1> QED BY <1>1, <1>5, <1>6 DEF Position

LEMMA ChangesPlays ==
  ASSUME RemoteInv, DuelInv, NEW u \in User, NEW c \in Code, Changes(u, c)
  PROVE  Plays(c)
<1>1. CASE c \notin drawn /\ NowHas(c, NewPosition(u))
  <2>1. c \notin Running
    BY <1>1 DEF RemoteInv, ServerInv, DocInv
  <2>2. Phase(c) = "none" /\ Turn(c) = "first" /\ Moves(c) = 0
    BY <1>1, <2>1 DEF Phase, Turn, Moves, Running
  <2>3. /\ NewPosition(u) \in Position /\ GoingOn(NewPosition(u))
        /\ NewPosition(u).players_joined = 1 /\ NewPosition(u).movecount = 0
        /\ NewPosition(u).players_turn = NewPosition(u).player1_id
    BY DEF NewPosition, Position, Status, Player, GoingOn
  <2>4. Phase(c)' = "open" /\ Turn(c)' = "first" /\ Moves(c)' = 0
    BY <1>1, <2>3, WrittenView
  <2> QED BY <2>2, <2>4 DEF Plays, Opens
<1>2. CASE UNCHANGED drawn /\ OnTurn(u, c) /\ Pos(c).players_joined = 2 /\ Fresh(Pos(c))
            /\ games'[c] = NONE
  <2>1. c \in Running /\ Pos(c) \in Position /\ c \in drawn
    BY <1>2 DEF OnTurn, RemoteInv, ServerInv, DocInv, TypeOK, Running, Document, Pos
  <2>2. Phase(c) = "playing" /\ Turn(c) = "first" /\ Moves(c) = 0
    BY <1>2, <2>1, PhaseOf DEF OnTurn, Fresh
  <2>3. Phase(c)' = "gone" /\ Turn(c)' = "first" /\ Moves(c)' = 0
    BY <1>2, <2>1 DEF Phase, Turn, Moves
  <2> QED BY <2>2, <2>3 DEF Plays, Continues
<1> QED
  BY <1>1, <1>2, SeatsPlays, AdvancesPlays, ResignsPlays DEF Changes

LEMMA PlaysStep ==
  ASSUME NEW c \in Code, Plays(c),
         \A d \in Code \ {c} : UNCHANGED <<Phase(d), Turn(d), Moves(d)>>
  PROVE  M!Next
<1> DEFINE phase == [d \in Code |-> Phase(d)]
           turn == [d \in Code |-> Turn(d)]
           moves == [d \in Code |-> Moves(d)]
<1>1. phase' = [phase EXCEPT ![c] = Phase(c)']
  OBVIOUS
<1>2. turn' = [turn EXCEPT ![c] = Turn(c)'] /\ moves' = [moves EXCEPT ![c] = Moves(c)']
  OBVIOUS
<1>3. phase[c] = Phase(c) /\ turn[c] = Turn(c) /\ moves[c] = Moves(c)
  OBVIOUS
<1>4. UNCHANGED Turn(c) => turn' = turn
  BY <1>2
<1>5. UNCHANGED Moves(c) => moves' = moves
  BY <1>2
<1> HIDE DEF phase, turn, moves
<1>6. CASE Opens(c)
  <2>1. M!Open(c) \/ M!Join(c)
    BY <1>1, <1>3, <1>4, <1>5, <1>6 DEF Opens, M!Open, M!Join, M!Becomes, phase, turn, moves
  <2> QED BY <2>1 DEF M!Next
<1>7. CASE Continues(c)
  <2>1. M!Move(c) \/ M!Resign(c) \/ M!Vanish(c)
    BY <1>1, <1>2, <1>3, <1>4, <1>5, <1>7
       DEF Continues, M!Move, M!Resign, M!Vanish, M!Becomes, phase, turn, moves
  <2> QED BY <2>1 DEF M!Next
<1>8. CASE Alone(c)
  <2>1. M!MoveAlone(c) \/ M!ResignAlone(c) \/ M!JoinOver(c)
    BY <1>1, <1>2, <1>3, <1>4, <1>5, <1>8
       DEF Alone, M!MoveAlone, M!ResignAlone, M!JoinOver, M!Becomes, phase, turn, moves
  <2> QED BY <2>1 DEF M!Next
<1> QED BY <1>6, <1>7, <1>8 DEF Plays

LEMMA MatchNext ==
  ASSUME RemoteInv, DuelInv, [RemoteNext]_remoteVars
  PROVE  [M!Next]_<<[c \in Code |-> Phase(c)], [c \in Code |-> Turn(c)], [c \in Code |-> Moves(c)]>>
<1>1. ASSUME NEW u \in User, Board(u)
      PROVE  M!Next \/ \A c \in Code : UNCHANGED <<Phase(c), Turn(c), Moves(c)>>
  <2>1. Writes(u) BY <1>1, BoardKept DEF Kept
  <2>2. CASE UNCHANGED drawn /\ \A c \in Code : Leaves(c)
    BY <2>2, LeavesView
  <2>3. ASSUME NEW c \in Code, Changes(u, c), \A d \in Code \ {c} : Leaves(d) PROVE M!Next
    <3>1. \A d \in Code \ {c} : d \in drawn' <=> d \in drawn
      BY <2>3 DEF Changes
    <3> QED BY <2>3, <3>1, LeavesView, ChangesPlays, PlaysStep
  <2> QED BY <2>1, <2>2, <2>3 DEF Writes
<1>2. UNCHANGED remoteVars => \A c \in Code : UNCHANGED <<Phase(c), Turn(c), Moves(c)>>
  BY DEF remoteVars, vars, Phase, Turn, Moves
<1> QED BY <1>1, <1>2 DEF RemoteNext

LEMMA MatchInit == RemoteInit => M!Init
BY DEF RemoteInit, Init, M!Init, Phase, Turn, Moves

\* The accesses that newgame, joingame, makemove, resign and delete
\* (chess_server.py) make for two boards, one at a time and without transactions,
\* implement Match, whatever a board that was switched off and on does in a game
\* that nobody has joined.
THEOREM TwoBoardsPlayMatch ==
  ASSUME TwoBoards PROVE RemoteSpec => MatchPlayed
<1>1. RemoteInv /\ DuelInv /\ [RemoteNext]_remoteVars =>
        [M!Next]_<<[c \in Code |-> Phase(c)], [c \in Code |-> Turn(c)], [c \in Code |-> Moves(c)]>>
  BY MatchNext
<1> QED BY <1>1, MatchInit, DuelAlways, RemoteInvariant, PTL DEF RemoteSpec, MatchPlayed, M!Spec
=============================================================================
