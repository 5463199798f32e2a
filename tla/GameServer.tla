----------------------------- MODULE GameServer -----------------------------
(***************************************************************************)
(* The game server (chess_server.py): two collections of Firestore         *)
(* documents, one of users and one of games, and the handlers that read,   *)
(* compute and write them.  A handler reads whole documents and writes     *)
(* whole documents (set) or fields (update), without a transaction: between*)
(* two of its accesses the handlers of other users run.  Each access is a  *)
(* step here, and what a handler has read is kept in its request.          *)
(*                                                                         *)
(* Chess is abstracted to what the handlers look at: whose turn it is, how *)
(* many moves were made, and whether the side to move is mated.            *)
(***************************************************************************)
EXTENDS Naturals, FiniteSets

CONSTANTS
  User,        \* the boards, by their id
  Code,        \* the codes games are given; none is drawn twice
  CPU,         \* the id of the second player of a game against the server
  LOCAL_PLAY,  \* the id of the second player of a game on one board
  NONE,        \* an empty seat, an absent document or field
  EMPTY        \* the empty string an ongoing_game is reset to

Machine == {CPU, LOCAL_PLAY}
Player == User \cup Machine
Routes == {"newgame", "newgamecpu", "newgamelocal", "joingame", "delete", "sendinvite",
           "cancelinvite", "acceptinvite", "declineinvite", "leavegame", "resign",
           "makemove", "undo"}

ASSUME PlayersAssumption ==
  /\ CPU \notin User /\ LOCAL_PLAY \notin User /\ CPU # LOCAL_PLAY
  /\ NONE \notin Player
ASSUME CodesAssumption == NONE # EMPTY /\ NONE \notin Code /\ EMPTY \notin Code

VARIABLES
  users,   \* the user documents: the game a user is in, the invites to them by sender
  games,   \* the game documents by code
  req,     \* the request each user waits for, between two accesses of its handler
  drawn    \* the codes given to a game so far

vars == <<users, games, req, drawn>>

Status == [kind : {"O", "N", "R", "W"}, by : Player \cup {NONE}]
Position == [player1_id : User, player2_id : Player \cup {NONE}, players_joined : {1, 2},
             players_turn : Player \cup {NONE}, movecount : Nat,
             game_status : Status, mated : BOOLEAN]
Document == [state : Position, prev_state : Position \cup {NONE}]
Invites == [User -> Code \cup {EMPTY, NONE}]

ASSUME NoneAssumption ==
  NONE \notin Position /\ NONE \notin Document /\ NONE \notin Invites /\ NONE \notin Routes

Steps == {"idle", "create", "own", "machine", "join", "sit", "seat", "delete", "clearfirst",
          "clearsecond", "erase", "invitee", "inviter", "reread", "invite", "cancel",
          "withdraw", "mygame", "invites", "dropinvite", "leave", "resign", "status",
          "move", "put", "putprev", "undo", "restore"}
Request == [route : Routes \cup {NONE}, step : Steps, peer : Player \cup {NONE},
            code : Code \cup {EMPTY, NONE}, doc : Document \cup {NONE},
            mail : Invites \cup {NONE}]
Idle == [route |-> NONE, step |-> "idle", peer |-> NONE, code |-> NONE, doc |-> NONE,
         mail |-> NONE]

\* The handler's first access.
FirstStep ==
  [newgame |-> "create", newgamecpu |-> "create", newgamelocal |-> "create",
   joingame |-> "join", delete |-> "delete", sendinvite |-> "invitee",
   cancelinvite |-> "cancel", acceptinvite |-> "invites", declineinvite |-> "invites",
   leavegame |-> "leave", resign |-> "resign", makemove |-> "move", undo |-> "undo"]

Init ==
  /\ users = [u \in User |-> [ongoing_game |-> EMPTY, invites |-> [v \in User |-> NONE]]]
  /\ games = [c \in Code |-> NONE]
  /\ req = [u \in User |-> Idle]
  /\ drawn = {}
-----------------------------------------------------------------------------
Goto(u, step) == req' = [req EXCEPT ![u].step = step]
Reply(u) == req' = [req EXCEPT ![u] = Idle]
Exists(u) == games[req[u].code] # NONE
PutGame(u, doc) == games' = [games EXCEPT ![req[u].code] = doc]
PutOngoing(u, code) == users' = [users EXCEPT ![u].ongoing_game = code]
PutInvites(u, mail) == users' = [users EXCEPT ![u].invites = mail]

\* join_game and delete_game return to the handler that called them, which
\* takes no notice of their answer.
ReturnTo(u) ==
  IF req[u].route \in {"acceptinvite", "declineinvite"}
    THEN Goto(u, "dropinvite") ELSE Reply(u)

\* A board sends one request and waits for its answer.
Ask(u, route, code, peer) ==
  /\ req[u].step = "idle"
  /\ req' = [req EXCEPT ![u] = [route |-> route, step |-> FirstStep[route], peer |-> peer,
                                code |-> code, doc |-> NONE, mail |-> NONE]]
  /\ UNCHANGED <<users, games, drawn>>

CodesLeft ==   \* bound
  Cardinality(Code \ drawn) >
    Cardinality({u \in User : req[u].step \in {"create", "invitee", "inviter"}})
-----------------------------------------------------------------------------
\* create_new_game, alone or called by the three handlers that go on from it.
NewPosition(u) ==
  [player1_id |-> u, player2_id |-> NONE, players_joined |-> 1, players_turn |-> u,
   movecount |-> 0, game_status |-> [kind |-> "O", by |-> NONE], mated |-> FALSE]

Create(u) ==
  /\ req[u].step = "create"
  /\ \E c \in Code \ drawn :
       /\ games' = [games EXCEPT ![c] = [state |-> NewPosition(u), prev_state |-> NONE]]
       /\ drawn' = drawn \cup {c}
       /\ req' = [req EXCEPT ![u] = [@ EXCEPT !.step = "own", !.code = c]]
  /\ UNCHANGED users

Own(u) ==
  /\ req[u].step = "own"
  /\ PutOngoing(u, req[u].code)
  /\ CASE req[u].route = "newgame" -> Reply(u)
       [] req[u].route = "sendinvite" -> Goto(u, "reread")
       [] OTHER -> Goto(u, "machine")
  /\ UNCHANGED <<games, drawn>>

\* Mutant: the second player is counted in, not written down.
SeatMachineCounting(u) ==
  /\ req[u].step = "machine"
  /\ IF Exists(u)
       THEN games' = [games EXCEPT ![req[u].code].state =
              [@ EXCEPT !.player2_id = IF req[u].route = "newgamecpu" THEN CPU ELSE LOCAL_PLAY,
                        !.players_joined = @ + 1]]
       ELSE UNCHANGED games
  /\ Reply(u)
  /\ UNCHANGED <<users, drawn>>

SeatMachine(u) ==
  /\ req[u].step = "machine"
  /\ IF Exists(u)
       THEN games' = [games EXCEPT ![req[u].code].state =
              [@ EXCEPT !.player2_id = IF req[u].route = "newgamecpu" THEN CPU ELSE LOCAL_PLAY,
                        !.players_joined = 2]]
       ELSE UNCHANGED games
  /\ Reply(u)
  /\ UNCHANGED <<users, drawn>>
-----------------------------------------------------------------------------
\* join_game
\* Mutant: a game may be joined again.
ReadToJoinAgain(u) ==
  /\ req[u].step = "join"
  /\ IF Exists(u)
       THEN req' = [req EXCEPT ![u] = [@ EXCEPT !.step = "sit", !.doc = games[req[u].code]]]
       ELSE ReturnTo(u)
  /\ UNCHANGED <<users, games, drawn>>

ReadToJoin(u) ==
  /\ req[u].step = "join"
  /\ IF Exists(u) /\ games[req[u].code].state.players_joined < 2
       THEN req' = [req EXCEPT ![u] = [@ EXCEPT !.step = "sit", !.doc = games[req[u].code]]]
       ELSE ReturnTo(u)
  /\ UNCHANGED <<users, games, drawn>>

Sit(u) ==
  /\ req[u].step = "sit"
  /\ PutOngoing(u, req[u].code)
  /\ Goto(u, "seat")
  /\ UNCHANGED <<games, drawn>>

\* Mutant: the second player is written down, not counted in.
SeatUncounted(u) ==
  /\ req[u].step = "seat"
  /\ PutGame(u, [req[u].doc EXCEPT !.state.player2_id = u])
  /\ ReturnTo(u)
  /\ UNCHANGED <<users, drawn>>

Seat(u) ==
  /\ req[u].step = "seat"
  /\ PutGame(u, [req[u].doc EXCEPT !.state =
                   [@ EXCEPT !.player2_id = u, !.players_joined = 2]])
  /\ ReturnTo(u)
  /\ UNCHANGED <<users, drawn>>
-----------------------------------------------------------------------------
\* delete_game.  The second player of a game nobody has joined is no user:
\* its update raises, and the game stays.
ReadToDelete(u) ==
  /\ req[u].step = "delete"
  /\ IF Exists(u)
       THEN req' = [req EXCEPT ![u] = [@ EXCEPT !.step = "clearfirst",
                                                !.doc = games[req[u].code]]]
       ELSE ReturnTo(u)
  /\ UNCHANGED <<users, games, drawn>>

ClearFirst(u) ==
  /\ req[u].step = "clearfirst"
  /\ PutOngoing(req[u].doc.state.player1_id, EMPTY)
  /\ Goto(u, "clearsecond")
  /\ UNCHANGED <<games, drawn>>

ClearSecond(u) ==
  LET player2 == req[u].doc.state.player2_id
  IN  /\ req[u].step = "clearsecond"
      /\ \/ /\ player2 \in User
            /\ PutOngoing(player2, EMPTY)
            /\ Goto(u, "erase")
         \/ /\ player2 \notin User
            /\ ReturnTo(u)
            /\ UNCHANGED users
      /\ UNCHANGED <<games, drawn>>

Erase(u) ==
  /\ req[u].step = "erase"
  /\ PutGame(u, NONE)
  /\ ReturnTo(u)
  /\ UNCHANGED <<users, drawn>>
-----------------------------------------------------------------------------
\* send_invites
ReadInvitee(u) ==
  LET invitee == users[req[u].peer]
  IN  /\ req[u].step = "invitee"
      /\ IF invitee.ongoing_game = EMPTY
           THEN req' = [req EXCEPT ![u] = [@ EXCEPT !.step = "inviter", !.mail = invitee.invites]]
           ELSE Reply(u)
      /\ UNCHANGED <<users, games, drawn>>

\* Mutant: an inviter who is in a game invites to that one.
ReadInviterInGame(u) ==
  /\ req[u].step = "inviter"
  /\ IF users[u].ongoing_game = EMPTY THEN Goto(u, "create") ELSE Goto(u, "reread")
  /\ UNCHANGED <<users, games, drawn>>

ReadInviter(u) ==
  /\ req[u].step = "inviter"
  /\ IF users[u].ongoing_game = EMPTY THEN Goto(u, "create") ELSE Reply(u)
  /\ UNCHANGED <<users, games, drawn>>

Reread(u) ==
  /\ req[u].step = "reread"
  /\ req' = [req EXCEPT ![u] = [@ EXCEPT !.step = "invite", !.code = users[u].ongoing_game]]
  /\ UNCHANGED <<users, games, drawn>>

Invite(u) ==
  /\ req[u].step = "invite"
  /\ PutInvites(req[u].peer, [req[u].mail EXCEPT ![u] = req[u].code])
  /\ Reply(u)
  /\ UNCHANGED <<games, drawn>>

\* cancel_invite
ReadToCancel(u) ==
  LET mail == users[req[u].peer].invites
  IN  /\ req[u].step = "cancel"
      /\ IF mail[u] # NONE
           THEN req' = [req EXCEPT ![u] = [@ EXCEPT !.step = "withdraw", !.mail = mail]]
           ELSE Reply(u)
      /\ UNCHANGED <<users, games, drawn>>

Withdraw(u) ==
  /\ req[u].step = "withdraw"
  /\ PutInvites(req[u].peer, [req[u].mail EXCEPT ![u] = NONE])
  /\ Goto(u, "mygame")
  /\ UNCHANGED <<games, drawn>>

ReadMyGame(u) ==
  LET code == users[u].ongoing_game
  IN  /\ req[u].step = "mygame"
      /\ IF code \in Code
           THEN req' = [req EXCEPT ![u] = [@ EXCEPT !.step = "delete", !.code = code]]
           ELSE Reply(u)
      /\ UNCHANGED <<users, games, drawn>>

\* accept_invite and decline_invite.  No document is called "": join_game
\* raises on it and the invite stays, delete_game catches that itself.
ReadInvites(u) ==
  LET mail == users[u].invites
      code == mail[req[u].peer]
      next == IF req[u].route = "acceptinvite" THEN "join"
              ELSE IF code = EMPTY THEN "dropinvite" ELSE "delete"
  IN  /\ req[u].step = "invites"
      /\ IF code = NONE \/ (code = EMPTY /\ req[u].route = "acceptinvite")
           THEN Reply(u)
           ELSE req' = [req EXCEPT ![u] = [@ EXCEPT !.step = next, !.code = code, !.mail = mail]]
      /\ UNCHANGED <<users, games, drawn>>

DropInvite(u) ==
  /\ req[u].step = "dropinvite"
  /\ PutInvites(u, [req[u].mail EXCEPT ![req[u].peer] = NONE])
  /\ Reply(u)
  /\ UNCHANGED <<games, drawn>>
-----------------------------------------------------------------------------
\* leave_game, and the last update of resign
Leave(u) ==
  /\ req[u].step = "leave"
  /\ PutOngoing(u, EMPTY)
  /\ Reply(u)
  /\ UNCHANGED <<games, drawn>>

\* resign
ReadToResign(u) ==
  /\ req[u].step = "resign"
  /\ IF Exists(u) THEN Goto(u, "status") ELSE Reply(u)
  /\ UNCHANGED <<users, games, drawn>>

PutStatus(u) ==
  /\ req[u].step = "status"
  /\ IF Exists(u)
       THEN /\ games' = [games EXCEPT ![req[u].code].state.game_status = [kind |-> "R", by |-> u]]
            /\ Goto(u, "leave")
       ELSE Reply(u) /\ UNCHANGED games
  /\ UNCHANGED <<users, drawn>>

\* make_move.  push_uci accepts a legal move of the side to move; a mated
\* side has none.
\* Mutants: the turn always goes to the second player; the winner is read
\* from the turn that was just passed on.
MovedToSecond(pos, player, mate) ==
  [pos EXCEPT !.movecount = @ + 1,
              !.players_turn = pos.player2_id,
              !.game_status = IF mate THEN [kind |-> "W", by |-> player]
                              ELSE [kind |-> "N", by |-> NONE],
              !.mated = mate]

MovedWinnerNext(pos, player, mate) ==
  LET next == IF pos.player1_id = player THEN pos.player2_id ELSE pos.player1_id
  IN  [pos EXCEPT !.movecount = @ + 1,
                  !.players_turn = next,
                  !.game_status = IF mate THEN [kind |-> "W", by |-> next]
                                  ELSE [kind |-> "N", by |-> NONE],
                  !.mated = mate]

Moved(pos, player, mate) ==
  [pos EXCEPT !.movecount = @ + 1,
              !.players_turn = IF pos.player1_id = player THEN pos.player2_id ELSE pos.player1_id,
              !.game_status = IF mate THEN [kind |-> "W", by |-> player]
                              ELSE [kind |-> "N", by |-> NONE],
              !.mated = mate]

MayMove(pos, player) ==
  /\ pos.players_turn = player
  /\ ~pos.mated

ReadToMove(u) ==
  /\ req[u].step = "move"
  /\ \/ /\ Exists(u)
        /\ MayMove(games[req[u].code].state, req[u].peer)
        /\ req' = [req EXCEPT ![u] = [@ EXCEPT !.step = "put", !.doc = games[req[u].code]]]
     \/ Reply(u)
  /\ UNCHANGED <<users, games, drawn>>

PutMove(u) ==
  /\ req[u].step = "put"
  /\ \E mate \in BOOLEAN :
       /\ mate => req[u].doc.state.movecount > 0
       /\ PutGame(u, [state |-> Moved(req[u].doc.state, req[u].peer, mate), prev_state |-> NONE])
  /\ Goto(u, "putprev")
  /\ UNCHANGED <<users, drawn>>

PutPrev(u) ==
  /\ req[u].step = "putprev"
  /\ IF Exists(u)
       THEN games' = [games EXCEPT ![req[u].code].prev_state = req[u].doc.state]
       ELSE UNCHANGED games
  /\ Reply(u)
  /\ UNCHANGED <<users, drawn>>

\* undo
ReadPrev(u) ==
  /\ req[u].step = "undo"
  /\ IF Exists(u) /\ games[req[u].code].prev_state # NONE
       THEN req' = [req EXCEPT ![u] = [@ EXCEPT !.step = "restore", !.doc = games[req[u].code]]]
       ELSE Reply(u)
  /\ UNCHANGED <<users, games, drawn>>

Restore(u) ==
  /\ req[u].step = "restore"
  /\ PutGame(u, [state |-> req[u].doc.prev_state, prev_state |-> NONE])
  /\ Reply(u)
  /\ UNCHANGED <<users, drawn>>
-----------------------------------------------------------------------------
\* What a user may send: any code (it is typed on the board), another user's
\* id, and for the moves of a game on one board the id LOCAL_PLAY.
Send(u) ==
  \/ \E route \in {"newgame", "newgamecpu", "newgamelocal"} : CodesLeft /\ Ask(u, route, NONE, NONE)
  \/ \E v \in User \ {u} : CodesLeft /\ Ask(u, "sendinvite", NONE, v)
  \/ \E route \in {"cancelinvite", "acceptinvite", "declineinvite"}, v \in User \ {u} :
       Ask(u, route, NONE, v)
  \/ \E route \in {"joingame", "delete", "resign", "undo"}, c \in Code : Ask(u, route, c, NONE)
  \/ \E c \in Code, player \in {u, LOCAL_PLAY} : Ask(u, "makemove", c, player)
  \/ Ask(u, "leavegame", NONE, NONE)

Handle(u) ==
  \/ Create(u) \/ Own(u) \/ SeatMachine(u)
  \/ ReadToJoin(u) \/ Sit(u) \/ Seat(u)
  \/ ReadToDelete(u) \/ ClearFirst(u) \/ ClearSecond(u) \/ Erase(u)
  \/ ReadInvitee(u) \/ ReadInviter(u) \/ Reread(u) \/ Invite(u)
  \/ ReadToCancel(u) \/ Withdraw(u) \/ ReadMyGame(u)
  \/ ReadInvites(u) \/ DropInvite(u)
  \/ Leave(u) \/ ReadToResign(u) \/ PutStatus(u)
  \/ ReadToMove(u) \/ PutMove(u) \/ PutPrev(u)
  \/ ReadPrev(u) \/ Restore(u)

Next == \E u \in User : Send(u) \/ Handle(u)
Spec == Init /\ [][Next]_vars
-----------------------------------------------------------------------------
\* The documents and the requests have the shape the handlers rely on.
TypeOK ==
  /\ users \in [User -> [ongoing_game : Code \cup {EMPTY}, invites : Invites]]
  /\ games \in [Code -> Document \cup {NONE}]
  /\ req \in [User -> Request]
  /\ drawn \in SUBSET Code

Running == {c \in Code : games[c] # NONE}

\* Whose turn it is and how many moves were made are written together and
\* read by both players: whatever joins, moves, resignations, undos and
\* deletions overlap, the first player is to move after an even number of
\* moves and only then.
TurnMatches(pos) ==
  pos.player1_id # pos.player2_id =>
    (pos.players_turn = pos.player1_id <=> pos.movecount % 2 = 0)
TurnMatchesCount == \A c \in Running : TurnMatches(games[c].state)

\* A game that is reported won is over for both: the player it names has
\* made the last move, and the other, whose turn it is, has none.
WinnerMoved(pos) ==
  pos.game_status.kind = "W" =>
    /\ pos.mated /\ pos.movecount > 0
    /\ pos.player1_id # pos.player2_id => pos.players_turn # pos.game_status.by
WinnerHasMoved == \A c \in Running : WinnerMoved(games[c].state)

\* Accepting an invite seats the invited in a game of the one who sent it:
\* an invite never names a game of a third player, nor one in which the
\* sender is a guest.
InviteNamesOwnGame ==
  \A u, v \in User : LET c == users[u].invites[v]
                     IN  c \in Running => games[c].state.player1_id = v
=============================================================================
