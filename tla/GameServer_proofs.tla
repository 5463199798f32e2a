------------------------ MODULE GameServer_proofs ------------------------
(***************************************************************************)
(* The documents stay consistent for any number of users, games and        *)
(* requests in flight: what a handler writes back is as consistent as what *)
(* it read, however old that is.                                           *)
(***************************************************************************)
EXTENDS GameServer, TLAPS

\* What is true of every position that is stored, or was.
Good(pos) ==
  /\ pos.players_joined = 1 <=> pos.player2_id = NONE
  /\ TurnMatches(pos)
  /\ WinnerMoved(pos)
GoodDoc(doc) == Good(doc.state) /\ (doc.prev_state # NONE => Good(doc.prev_state))

\* A game its creator is still setting up: nobody but another has joined it.
Unjoined(pos, u) == pos.player1_id = u /\ pos.player2_id # u
UnjoinedDoc(doc, u) ==
  Unjoined(doc.state, u) /\ (doc.prev_state # NONE => Unjoined(doc.prev_state, u))

SettingUp == {"own", "machine"}
GameSteps == SettingUp \cup {"join", "sit", "seat", "delete", "clearfirst", "clearsecond",
  "erase", "resign", "status", "move", "put", "putprev", "undo", "restore"}
DocSteps == {"sit", "seat", "clearfirst", "clearsecond", "erase", "put", "putprev", "restore"}
PeerSteps == {"invitee", "inviter", "cancel", "withdraw", "invites", "dropinvite", "invite", "reread"}
MailSteps == {"withdraw", "dropinvite", "reread", "invite"}
InviteRoutes == {"acceptinvite", "declineinvite"}
MailRoutes == InviteRoutes \cup {"sendinvite"}

\* What a handler knows from the accesses it has made.
RequestInv(r) ==
  /\ r.step \in GameSteps => r.code \in Code
  /\ r.step \in DocSteps => r.doc # NONE
  /\ r.doc # NONE => r.step \in DocSteps \cup {"dropinvite"}
  /\ r.step \in PeerSteps \/ r.route \in MailRoutes => r.peer \in User
  /\ r.step \in MailSteps => r.mail # NONE
  /\ r.route \in InviteRoutes /\ r.step # "invites" => r.mail # NONE
  /\ r.route = "sendinvite" /\ r.step # "invitee" => r.mail # NONE
  /\ r.step \in {"put", "move"} => r.peer \in Player
  /\ r.step = "put" => MayMove(r.doc.state, r.peer)
  /\ r.step = "restore" => r.doc.prev_state # NONE
  /\ r.step \in {"sit", "seat"} => r.doc.state.players_joined < 2

DocInv ==
  /\ \A c \in Running : c \in drawn /\ GoodDoc(games[c])
  /\ \A u \in User : req[u].doc # NONE => req[u].code \in drawn /\ GoodDoc(req[u].doc)
SetupInv ==
  \A u \in User : req[u].step \in SettingUp =>
    /\ req[u].code \in drawn
    /\ req[u].code \in Running => UnjoinedDoc(games[req[u].code], u)
    /\ \A v \in User \ {u} : req[v].doc # NONE /\ req[v].code = req[u].code =>
         UnjoinedDoc(req[v].doc, u)

ServerInv ==
  /\ TypeOK
  /\ \A u \in User : RequestInv(req[u])
  /\ DocInv
  /\ SetupInv
-----------------------------------------------------------------------------
UserDocs == [User -> [ongoing_game : Code \cup {EMPTY}, invites : Invites]]

\* A position is good once the second seat is taken by another player.
LEMMA SeatGood ==
  ASSUME NEW pos \in Position, NEW p \in Player, Good(pos),
         pos.players_joined < 2 \/ pos.player1_id # pos.player2_id,
         NEW new, new = [pos EXCEPT !.player2_id = p, !.players_joined = 2]
  PROVE  new \in Position /\ Good(new)
<1>1. new \in Position
  BY DEF Position, Player
<1>2. /\ new.player1_id = pos.player1_id /\ new.player2_id = p /\ new.players_joined = 2
      /\ new.players_turn = pos.players_turn /\ new.movecount = pos.movecount
      /\ new.game_status = pos.game_status /\ new.mated = pos.mated
  BY DEF Position
<1>3. pos.player1_id # pos.player2_id
  <2>1. pos.player1_id # NONE /\ pos.players_joined \in {1, 2}
    BY PlayersAssumption DEF Position, Player
  <2>2. pos.players_joined < 2 => pos.players_joined = 1
    BY <2>1
  <2>3. pos.players_joined = 1 => pos.player2_id = NONE
    BY DEF Good
  <2> QED
    BY <2>1, <2>2, <2>3
<1>4. TurnMatches(new) /\ WinnerMoved(new)
  BY <1>2, <1>3 DEF Good, TurnMatches, WinnerMoved
<1> QED
  BY <1>1, <1>2, <1>4, PlayersAssumption DEF Good

\* What a move writes.
LEMMA MoveTyped ==
  ASSUME NEW pos \in Position, NEW p \in Player, NEW mate \in BOOLEAN
  PROVE  LET new == Moved(pos, p, mate)
             next == IF pos.player1_id = p THEN pos.player2_id ELSE pos.player1_id
         IN  /\ new \in Position
             /\ new.player1_id = pos.player1_id /\ new.player2_id = pos.player2_id
             /\ new.players_joined = pos.players_joined /\ new.players_turn = next
             /\ new.movecount = pos.movecount + 1 /\ new.mated = mate
             /\ new.game_status.kind = "W" <=> mate
             /\ new.game_status.kind \in {"N", "W"}
             /\ mate => new.game_status.by = p
<1> DEFINE new == Moved(pos, p, mate)
           status == IF mate THEN [kind |-> "W", by |-> p] ELSE [kind |-> "N", by |-> NONE]
           turn == IF pos.player1_id = p THEN pos.player2_id ELSE pos.player1_id
<1>1. status \in Status /\ turn \in Player \cup {NONE}
  BY DEF Status, Position, Player
<1>2. new = [pos EXCEPT !.movecount = pos.movecount + 1, !.players_turn = turn,
                        !.game_status = status, !.mated = mate]
  BY DEF Moved
<1>3. /\ status.kind = "W" <=> mate
      /\ status.kind \in {"N", "W"}
      /\ mate => status.by = p
  OBVIOUS
<1> HIDE DEF status, turn
<1>4. new \in Position
  <2> DEFINE counted == [pos EXCEPT !.movecount = pos.movecount + 1]
             passed == [counted EXCEPT !.players_turn = turn]
             judged == [passed EXCEPT !.game_status = status]
  <2>1. counted \in Position
    BY DEF Position
  <2> HIDE DEF counted
  <2>2. passed \in Position
    BY <1>1, <2>1 DEF Position
  <2> HIDE DEF passed
  <2>3. judged \in Position
    BY <1>1, <2>2 DEF Position
  <2>4. new = [judged EXCEPT !.mated = mate]
    BY <1>2, <2>1 DEF judged, passed, counted, Position
  <2> HIDE DEF judged
  <2> QED
    BY <2>3, <2>4 DEF Position
<1>5. /\ new.player1_id = pos.player1_id /\ new.player2_id = pos.player2_id
      /\ new.players_joined = pos.players_joined /\ new.players_turn = turn
      /\ new.movecount = pos.movecount + 1 /\ new.game_status = status /\ new.mated = mate
  BY <1>2 DEF Position
<1> HIDE DEF new
<1> QED
  BY <1>3, <1>4, <1>5 DEF new, turn

\* A move passes the turn and counts.
LEMMA MoveGood ==
  ASSUME NEW pos \in Position, NEW p \in Player, Good(pos), MayMove(pos, p),
         NEW mate \in BOOLEAN
  PROVE  Moved(pos, p, mate) \in Position /\ Good(Moved(pos, p, mate))
<1> DEFINE new == Moved(pos, p, mate)
           turn == IF pos.player1_id = p THEN pos.player2_id ELSE pos.player1_id
<1>1. /\ new \in Position
      /\ new.player1_id = pos.player1_id /\ new.player2_id = pos.player2_id
      /\ new.players_joined = pos.players_joined /\ new.players_turn = turn
      /\ new.movecount = pos.movecount + 1 /\ new.mated = mate
      /\ new.game_status.kind = "W" <=> mate
      /\ mate => new.game_status.by = p
  BY MoveTyped
<1> HIDE DEF new
<1>2. pos.players_turn = p /\ pos.movecount \in Nat
  BY DEF MayMove, Position
<1>3. (pos.movecount + 1) % 2 = 0 <=> pos.movecount % 2 # 0
  BY <1>2
<1>4. TurnMatches(new)
  BY <1>1, <1>2, <1>3 DEF Good, TurnMatches, turn
<1>5. WinnerMoved(new)
  <2>1. CASE mate
    BY <2>1, <1>1, <1>2 DEF WinnerMoved, turn
  <2>2. CASE ~mate
    BY <2>2, <1>1 DEF WinnerMoved
  <2> QED
    BY <2>1, <2>2
<1> QED
  BY <1>1, <1>4, <1>5 DEF Good, new

\* A resignation leaves the turn alone.
LEMMA ResignGood ==
  ASSUME NEW pos \in Position, NEW p \in User, Good(pos),
         NEW new, new = [pos EXCEPT !.game_status = [kind |-> "R", by |-> p]]
  PROVE  new \in Position /\ Good(new)
<1>1. [kind |-> "R", by |-> p] \in Status
  BY DEF Status, Player
<1> DEFINE status == [kind |-> "R", by |-> p]
<1>2. status.kind # "W"
  OBVIOUS
<1> HIDE DEF status
<1>3. new = [pos EXCEPT !.game_status = status] /\ status \in Status
  BY <1>1 DEF status
<1>4. new \in Position
  BY <1>3 DEF Position
<1>5. /\ new.player1_id = pos.player1_id /\ new.player2_id = pos.player2_id
      /\ new.players_joined = pos.players_joined /\ new.players_turn = pos.players_turn
      /\ new.movecount = pos.movecount /\ new.game_status = status
  BY <1>3 DEF Position
<1> QED
  BY <1>2, <1>4, <1>5 DEF Good, TurnMatches, WinnerMoved
-----------------------------------------------------------------------------
\* An access that writes no game: the request goes on to r, with the document
\* it had, the one it has just read, or none.
LEMMA ReadStep ==
  ASSUME ServerInv, NEW u \in User, NEW r \in Request, RequestInv(r),
         req' = [req EXCEPT ![u] = r], UNCHANGED <<games, drawn>>, users' \in UserDocs,
         r.step \in SettingUp => req[u].step \in SettingUp /\ r.code = req[u].code,
         r.doc # NONE => /\ r.code = req[u].code /\ r.code \in Code
                         /\ r.doc = req[u].doc \/ r.doc = games[r.code]
  PROVE  ServerInv'
<1>1. req' \in [User -> Request] /\ \A v \in User : req'[v] = IF v = u THEN r ELSE req[v]
  BY DEF ServerInv, TypeOK
<1>2. TypeOK'
  BY <1>1 DEF ServerInv, TypeOK, UserDocs
<1>3. \A v \in User : RequestInv(req[v])'
  BY <1>1 DEF ServerInv
<1>4. DocInv'
  <2>1. r.doc # NONE => r.code \in drawn /\ GoodDoc(r.doc)
    <3>1. CASE r.doc = req[u].doc
      BY <3>1 DEF ServerInv, DocInv
    <3>2. CASE r.doc = games[r.code]
      BY <3>2 DEF ServerInv, DocInv, Running
    <3> QED
      BY <3>1, <3>2
  <2> QED
    BY <1>1, <2>1 DEF ServerInv, DocInv, Running
<1>5. SetupInv'
  <2> SUFFICES ASSUME NEW w \in User, req'[w].step \in SettingUp
               PROVE  /\ req'[w].code \in drawn
                      /\ req'[w].code \in Running => UnjoinedDoc(games[req'[w].code], w)
                      /\ \A v \in User \ {w} : req'[v].doc # NONE /\ req'[v].code = req'[w].code =>
                           UnjoinedDoc(req'[v].doc, w)
    BY DEF SetupInv, Running
  <2>1. req[w].step \in SettingUp /\ req'[w].code = req[w].code
    BY <1>1
  <2>2. /\ req[w].code \in drawn
        /\ req[w].code \in Running => UnjoinedDoc(games[req[w].code], w)
        /\ \A v \in User \ {w} : req[v].doc # NONE /\ req[v].code = req[w].code =>
             UnjoinedDoc(req[v].doc, w)
    BY <2>1 DEF ServerInv, SetupInv
  <2>3. ASSUME w # u, r.doc # NONE, r.code = req[w].code PROVE UnjoinedDoc(r.doc, w)
    BY <2>2, <2>3 DEF Running
  <2> QED
    BY <1>1, <2>1, <2>2, <2>3
<1> QED
  BY <1>2, <1>3, <1>4, <1>5 DEF ServerInv

\* An access that writes the game of the request, or removes it.
LEMMA WriteStep ==
  ASSUME ServerInv, NEW u \in User, NEW r \in Request, RequestInv(r),
         req' = [req EXCEPT ![u] = r], UNCHANGED <<users, drawn>>,
         NEW c \in Code, NEW d \in Document \cup {NONE}, games' = [games EXCEPT ![c] = d],
         d # NONE => /\ c \in drawn /\ GoodDoc(d)
                     /\ \A w \in User \ {u} : req[w].step \in SettingUp /\ req[w].code = c =>
                                               UnjoinedDoc(d, w),
         r.step \notin SettingUp,
         r.doc # NONE => r.code = req[u].code /\ r.doc = req[u].doc
  PROVE  ServerInv'
<1>1. req' \in [User -> Request] /\ \A v \in User : req'[v] = IF v = u THEN r ELSE req[v]
  BY DEF ServerInv, TypeOK
<1>2. /\ games' \in [Code -> Document \cup {NONE}]
      /\ \A e \in Code : games'[e] = IF e = c THEN d ELSE games[e]
  BY DEF ServerInv, TypeOK
<1>3. TypeOK'
  BY <1>1, <1>2 DEF ServerInv, TypeOK
<1>4. \A v \in User : RequestInv(req[v])'
  BY <1>1 DEF ServerInv
<1>5. DocInv'
  BY <1>1, <1>2 DEF ServerInv, DocInv, Running
<1>6. SetupInv'
  <2> SUFFICES ASSUME NEW w \in User, req'[w].step \in SettingUp
               PROVE  /\ req'[w].code \in drawn
                      /\ req'[w].code \in Running' => UnjoinedDoc(games'[req'[w].code], w)
                      /\ \A v \in User \ {w} : req'[v].doc # NONE /\ req'[v].code = req'[w].code =>
                           UnjoinedDoc(req'[v].doc, w)
    BY DEF SetupInv
  <2>1. w # u /\ req'[w] = req[w]
    BY <1>1
  <2>2. /\ req[w].code \in drawn
        /\ req[w].code \in Running => UnjoinedDoc(games[req[w].code], w)
        /\ \A v \in User \ {w} : req[v].doc # NONE /\ req[v].code = req[w].code =>
             UnjoinedDoc(req[v].doc, w)
    BY <2>1 DEF ServerInv, SetupInv
  <2>3. req[w].code \in Running' => UnjoinedDoc(games'[req[w].code], w)
    BY <1>2, <2>1, <2>2 DEF Running
  <2>4. ASSUME NEW v \in User \ {w}, req'[v].doc # NONE, req'[v].code = req[w].code
        PROVE  UnjoinedDoc(req'[v].doc, w)
    BY <1>1, <2>2, <2>4
  <2> QED
    BY <2>1, <2>2, <2>3, <2>4
<1> QED
  BY <1>3, <1>4, <1>5, <1>6 DEF ServerInv
-----------------------------------------------------------------------------
\* Steps of a handler that only change the request or the user documents.
LEMMA GotoStep ==
  ASSUME ServerInv, NEW u \in User, NEW step \in Steps \ SettingUp,
         Goto(u, step), UNCHANGED <<games, drawn>>, users' \in UserDocs,
         RequestInv([req[u] EXCEPT !.step = step])
  PROVE  ServerInv'
<1> DEFINE r == [req[u] EXCEPT !.step = step]
<1>1. r \in Request /\ r.step = step /\ r.doc = req[u].doc /\ r.code = req[u].code
  BY DEF ServerInv, TypeOK, Request
<1>2. req' = [req EXCEPT ![u] = r]
  BY DEF Goto
<1>3. r.doc # NONE => r.code \in Code
  BY <1>1 DEF ServerInv, DocInv, TypeOK
<1> HIDE DEF r
<1> QED
  BY <1>1, <1>2, <1>3, ReadStep DEF r

\* The request of a user who waits for nothing.
LEMMA IdleRequest ==
  /\ Idle \in Request /\ RequestInv(Idle)
  /\ Idle.step = "idle" /\ Idle.doc = NONE
<1>1. Idle \in Request /\ Idle.step = "idle" /\ Idle.doc = NONE /\ Idle.route = NONE
  BY DEF Idle, Request, Steps
<1>2. RequestInv(Idle)
  BY <1>1, NoneAssumption DEF RequestInv, GameSteps, SettingUp, DocSteps, PeerSteps, MailSteps,
     MailRoutes, InviteRoutes, Routes
<1> QED
  BY <1>1, <1>2

\* An answer leaves the user with nothing to wait for.
LEMMA ReplyStep ==
  ASSUME ServerInv, NEW u \in User, Reply(u), UNCHANGED <<games, drawn>>, users' \in UserDocs
  PROVE  ServerInv'
BY IdleRequest, ReadStep DEF Reply, SettingUp

\* Returning from join_game or delete_game ends a request or goes on to the invite.
LEMMA ReturnStep ==
  ASSUME ServerInv, NEW u \in User, ReturnTo(u), UNCHANGED <<games, drawn>>, users' \in UserDocs,
         req[u].step \notin {"idle", "invites"}
  PROVE  ServerInv'
<1> DEFINE r == [req[u] EXCEPT !.step = "dropinvite"]
<1>1. CASE req[u].route \in InviteRoutes
  <2>1. Goto(u, "dropinvite")
    BY <1>1 DEF ReturnTo, InviteRoutes
  <2>2. RequestInv(req[u]) /\ req[u] \in Request
    BY DEF ServerInv, TypeOK
  <2>3. /\ r.step = "dropinvite" /\ r.doc = req[u].doc /\ r.mail = req[u].mail
        /\ r.peer = req[u].peer /\ r.route = req[u].route
    BY <2>2 DEF Request
  <2>4. RequestInv(r)
    BY <1>1, <2>2, <2>3 DEF RequestInv, GameSteps, SettingUp, DocSteps, PeerSteps, MailSteps,
       MailRoutes, InviteRoutes
  <2>5. "dropinvite" \in Steps \ SettingUp
    BY DEF Steps, SettingUp
  <2> QED
    BY <2>1, <2>4, <2>5, GotoStep
<1>2. CASE req[u].route \notin InviteRoutes
  BY <1>2, ReplyStep DEF ReturnTo, InviteRoutes
<1> QED
  BY <1>1, <1>2
-----------------------------------------------------------------------------
\* A new request has read nothing yet.
LEMMA AskStep ==
  ASSUME ServerInv, NEW u \in User, NEW route \in Routes, NEW code \in Code \cup {NONE},
         NEW peer \in Player \cup {NONE}, Ask(u, route, code, peer),
         route \in {"joingame", "delete", "resign", "undo", "makemove"} => code \in Code,
         route \in MailRoutes \cup {"cancelinvite"} => peer \in User,
         route = "makemove" => peer \in Player
  PROVE  ServerInv'
<1> DEFINE r == [route |-> route, step |-> FirstStep[route], peer |-> peer, code |-> code,
                 doc |-> NONE, mail |-> NONE]
<1>2. /\ FirstStep[route] \in Steps \ (SettingUp \cup DocSteps \cup MailSteps)
      /\ FirstStep[route] \in GameSteps =>
           route \in {"joingame", "delete", "resign", "undo", "makemove"}
      /\ FirstStep[route] \in PeerSteps => route \in MailRoutes \cup {"cancelinvite"}
      /\ route \in InviteRoutes => FirstStep[route] = "invites"
      /\ route = "sendinvite" => FirstStep[route] = "invitee"
      /\ FirstStep[route] = "move" => route = "makemove"
  BY DEF FirstStep, Routes, Steps, GameSteps, SettingUp, DocSteps, PeerSteps, MailSteps,
     MailRoutes, InviteRoutes
<1>3. r \in Request
  BY <1>2 DEF Request
<1>4. r.step = FirstStep[route] /\ r.doc = NONE /\ r.code = code /\ r.peer = peer /\ r.route = route
  OBVIOUS
<1>5. req' = [req EXCEPT ![u] = r] /\ UNCHANGED <<users, games, drawn>>
  BY DEF Ask
<1> HIDE DEF r
<1>6. RequestInv(r)
  <2>1. r.step \in GameSteps => r.code \in Code
    BY <1>2, <1>4
  <2>2. r.step \in PeerSteps \/ r.route \in MailRoutes => r.peer \in User
    BY <1>2, <1>4
  <2>3. r.step \notin DocSteps \cup MailSteps
    BY <1>2, <1>4
  <2>4. r.step \notin {"put", "restore", "sit", "seat"}
    BY <2>3 DEF DocSteps
  <2> QED
    BY <1>2, <1>4, <2>1, <2>2, <2>3, <2>4 DEF RequestInv
<1>7. users' \in UserDocs
  BY <1>5 DEF ServerInv, TypeOK, UserDocs
<1> QED
  BY <1>2, <1>3, <1>4, <1>5, <1>6, <1>7, ReadStep

\* Whatever a user sends keeps the invariant.
LEMMA SendStep ==
  ASSUME ServerInv, NEW u \in User, Send(u)
  PROVE  ServerInv'
<1> USE DEF MailRoutes, InviteRoutes
<1>2. CASE \E route \in {"newgame", "newgamecpu", "newgamelocal"} : Ask(u, route, NONE, NONE)
  BY <1>2, AskStep DEF Routes
<1>3. CASE \E v \in User \ {u} : Ask(u, "sendinvite", NONE, v)
  BY <1>3, AskStep DEF Routes, Player
<1>4. CASE \E route \in {"cancelinvite", "acceptinvite", "declineinvite"}, v \in User \ {u} :
             Ask(u, route, NONE, v)
  BY <1>4, AskStep DEF Routes, Player
<1>5. CASE \E route \in {"joingame", "delete", "resign", "undo"}, c \in Code :
             Ask(u, route, c, NONE)
  BY <1>5, AskStep DEF Routes
<1>6. CASE \E c \in Code, player \in {u, LOCAL_PLAY} : Ask(u, "makemove", c, player)
  BY <1>6, AskStep DEF Routes, Player, Machine
<1>7. CASE Ask(u, "leavegame", NONE, NONE)
  BY <1>7, AskStep DEF Routes
<1> QED
  BY <1>2, <1>3, <1>4, <1>5, <1>6, <1>7 DEF Send
-----------------------------------------------------------------------------
\* What the invariant says of the request whose handler runs.
LEMMA RequestFacts ==
  ASSUME ServerInv, NEW u \in User
  PROVE  /\ req[u] \in Request /\ RequestInv(req[u])
         /\ req[u].doc # NONE => req[u].code \in drawn /\ GoodDoc(req[u].doc)
         /\ drawn \subseteq Code /\ users \in UserDocs
         /\ \A c \in Code : games[c] # NONE =>
              games[c] \in Document /\ c \in drawn /\ GoodDoc(games[c])
BY DEF ServerInv, TypeOK, DocInv, Running, UserDocs

\* A new ongoing_game keeps the user documents' type.
LEMMA OngoingTyped ==
  ASSUME users \in UserDocs, NEW u \in User, NEW code \in Code \cup {EMPTY}, PutOngoing(u, code)
  PROVE  users' \in UserDocs
BY DEF UserDocs, PutOngoing

\* New invites keep the user documents' type.
LEMMA InvitesTyped ==
  ASSUME users \in UserDocs, NEW u \in User, NEW mail \in Invites, PutInvites(u, mail)
  PROVE  users' \in UserDocs
BY DEF UserDocs, PutInvites

\* A handler reads the game of its request and goes on.
LEMMA ReadGameStep ==
  ASSUME ServerInv, NEW u \in User, NEW step \in DocSteps, Exists(u), req[u].code \in Code,
         req[u].step \in {"join", "delete", "move", "undo"},
         req' = [req EXCEPT ![u] = [@ EXCEPT !.step = step, !.doc = games[req[u].code]]],
         UNCHANGED <<users, games, drawn>>,
         step = "put" => MayMove(games[req[u].code].state, req[u].peer) /\ req[u].peer \in Player,
         step = "restore" => games[req[u].code].prev_state # NONE,
         step \in {"sit", "seat"} => games[req[u].code].state.players_joined < 2
  PROVE  ServerInv'
<1> DEFINE doc == games[req[u].code]
           r == [req[u] EXCEPT !.step = step, !.doc = doc]
<1>1. req[u] \in Request /\ RequestInv(req[u]) /\ users \in UserDocs
  BY RequestFacts
<1>2. doc \in Document /\ doc # NONE
  BY RequestFacts DEF Exists
<1>3. step \in Steps \ SettingUp
  BY DEF DocSteps, Steps, SettingUp
<1>4. req' = [req EXCEPT ![u] = r]
  OBVIOUS
<1> HIDE DEF doc
<1>5. r \in Request
  BY <1>1, <1>2, <1>3 DEF Request
<1>6. /\ r.step = step /\ r.doc = doc /\ r.code = req[u].code /\ r.peer = req[u].peer
      /\ r.route = req[u].route /\ r.mail = req[u].mail
  BY <1>1 DEF Request
<1> HIDE DEF r
<1>7. RequestInv(r)
  <2>1. step \notin MailSteps \cup PeerSteps \cup {"invites", "invitee", "move"}
    BY DEF DocSteps, MailSteps, PeerSteps
  <2>2. /\ r.route \in MailRoutes => r.peer \in User
        /\ r.route \in InviteRoutes => r.mail # NONE
        /\ r.route = "sendinvite" => r.mail # NONE
    BY <1>1, <1>6 DEF RequestInv
  <2>3. /\ step = "put" => MayMove(doc.state, r.peer) /\ r.peer \in Player
        /\ step = "restore" => doc.prev_state # NONE
        /\ step \in {"sit", "seat"} => doc.state.players_joined < 2
    BY <1>6 DEF doc
  <2> QED
    BY <1>2, <1>6, <2>1, <2>2, <2>3 DEF RequestInv
<1>8. users' \in UserDocs
  BY <1>1
<1> QED
  BY <1>3, <1>4, <1>5, <1>6, <1>7, <1>8, ReadStep DEF doc

\* A handler goes on to a step that asks no more of the request than the last.
LEMMA OnStep ==
  ASSUME ServerInv, NEW u \in User, NEW step \in Steps \ SettingUp,
         Goto(u, step), UNCHANGED <<games, drawn>>, users' \in UserDocs,
         req[u].doc # NONE => step \in DocSteps \cup {"dropinvite"},
         step \in DocSteps => req[u].doc # NONE,
         step \in GameSteps => req[u].code \in Code,
         step \in PeerSteps => req[u].peer \in User,
         step \in MailSteps => req[u].mail # NONE,
         step \notin {"invites", "invitee", "put", "move", "restore", "sit"},
         step = "seat" => req[u].step = "sit",
         req[u].step \notin {"invites", "invitee"}
  PROVE  ServerInv'
<1> DEFINE r == [req[u] EXCEPT !.step = step]
<1>1. req[u] \in Request /\ RequestInv(req[u])
  BY RequestFacts
<1>2. /\ r.step = step /\ r.doc = req[u].doc /\ r.code = req[u].code /\ r.peer = req[u].peer
      /\ r.route = req[u].route /\ r.mail = req[u].mail
  BY <1>1 DEF Request
<1>3. RequestInv(r)
  <2> HIDE DEF r
  <2>1. /\ r.route \in MailRoutes => r.peer \in User
        /\ r.route \in InviteRoutes => r.mail # NONE
        /\ r.route = "sendinvite" => r.mail # NONE
        /\ step = "seat" => r.doc.state.players_joined < 2
    BY <1>1, <1>2 DEF RequestInv
  <2> QED
    BY <1>2, <2>1 DEF RequestInv
<1> QED
  BY <1>3, GotoStep
-----------------------------------------------------------------------------
\* create_new_game: nobody has read the game that is created.
LEMMA CreateStep ==
  ASSUME ServerInv, NEW u \in User, Create(u)
  PROVE  ServerInv'
<1>1. PICK c \in Code \ drawn :
         /\ games' = [games EXCEPT ![c] = [state |-> NewPosition(u), prev_state |-> NONE]]
         /\ drawn' = drawn \cup {c}
         /\ req' = [req EXCEPT ![u] = [req[u] EXCEPT !.step = "own", !.code = c]]
  BY DEF Create
<1> DEFINE new == NewPosition(u)
           doc == [state |-> new, prev_state |-> NONE]
           r == [req[u] EXCEPT !.step = "own", !.code = c]
<1>2. req[u] \in Request /\ RequestInv(req[u]) /\ users' = users /\ req[u].step = "create"
  BY RequestFacts DEF Create
<1>3. req[u].doc = NONE
  BY <1>2 DEF RequestInv, DocSteps
<1>4. new \in Position
  BY DEF NewPosition, Position, Status, Player
<1>5. /\ new.player1_id = u /\ new.player2_id = NONE /\ new.players_joined = 1
      /\ new.players_turn = u /\ new.movecount = 0 /\ new.game_status.kind = "O"
  BY DEF NewPosition
<1> HIDE DEF new
<1>6. Good(new) /\ Unjoined(new, u)
  BY <1>5, PlayersAssumption DEF Good, TurnMatches, WinnerMoved, Unjoined, Player
<1>7. doc \in Document /\ GoodDoc(doc) /\ UnjoinedDoc(doc, u) /\ doc # NONE
  BY <1>4, <1>6, NoneAssumption DEF Document, GoodDoc, UnjoinedDoc
<1> HIDE DEF doc
<1>8. r \in Request
  BY <1>2 DEF Request, Steps
<1>9. r.step = "own" /\ r.code = c /\ r.doc = NONE /\ r.peer = req[u].peer /\ r.mail = req[u].mail
      /\ r.route = req[u].route
  BY <1>2, <1>3 DEF Request
<1> HIDE DEF r
<1>10. RequestInv(r)
  BY <1>2, <1>9 DEF RequestInv, GameSteps, SettingUp, DocSteps, PeerSteps, MailSteps
<1>11. /\ req' \in [User -> Request] /\ \A v \in User : req'[v] = IF v = u THEN r ELSE req[v]
       /\ games' \in [Code -> Document \cup {NONE}]
       /\ \A e \in Code : games'[e] = IF e = c THEN doc ELSE games[e]
  BY <1>1, <1>7, <1>8 DEF ServerInv, TypeOK, r, doc, new
<1>12. TypeOK'
  BY <1>1, <1>2, <1>11 DEF ServerInv, TypeOK
<1>13. \A v \in User : RequestInv(req[v])'
  BY <1>10, <1>11 DEF ServerInv
<1>14. DocInv'
  BY <1>1, <1>7, <1>9, <1>11 DEF ServerInv, DocInv, Running
<1>15. SetupInv'
  <2> SUFFICES ASSUME NEW w \in User, req'[w].step \in SettingUp
               PROVE  /\ req'[w].code \in drawn'
                      /\ req'[w].code \in Running' => UnjoinedDoc(games'[req'[w].code], w)
                      /\ \A v \in User \ {w} : req'[v].doc # NONE /\ req'[v].code = req'[w].code =>
                           UnjoinedDoc(req'[v].doc, w)
    BY DEF SetupInv
  <2>1. \A v \in User : req[v].doc # NONE => req[v].code \in drawn
    BY DEF ServerInv, DocInv
  <2>2. CASE w = u
    BY <1>1, <1>7, <1>9, <1>11, <2>1, <2>2
  <2>3. CASE w # u
    <3>1. /\ req[w].code \in drawn
          /\ req[w].code \in Running => UnjoinedDoc(games[req[w].code], w)
          /\ \A v \in User \ {w} : req[v].doc # NONE /\ req[v].code = req[w].code =>
               UnjoinedDoc(req[v].doc, w)
      BY <1>11, <2>3 DEF ServerInv, SetupInv
    <3> QED
      BY <1>1, <1>9, <1>11, <2>3, <3>1 DEF Running
  <2> QED
    BY <2>2, <2>3
<1> QED
  BY <1>12, <1>13, <1>14, <1>15 DEF ServerInv

\* create_new_game notes the game it created in the user's document.
LEMMA OwnStep ==
  ASSUME ServerInv, NEW u \in User, Own(u)
  PROVE  ServerInv'
<1>1. /\ req[u] \in Request /\ RequestInv(req[u]) /\ users \in UserDocs
      /\ req[u].step = "own" /\ UNCHANGED <<games, drawn>>
  BY RequestFacts DEF Own
<1>2. req[u].code \in Code /\ req[u].doc = NONE
  BY <1>1 DEF RequestInv, GameSteps, SettingUp, DocSteps
<1>3. users' \in UserDocs
  BY <1>1, <1>2, OngoingTyped DEF Own
<1>4. CASE Reply(u)
  BY <1>1, <1>3, <1>4, ReplyStep
<1>5. CASE req[u].route = "sendinvite" /\ Goto(u, "reread")
  <2>1. req[u].peer \in User /\ req[u].mail # NONE
    BY <1>1, <1>5 DEF RequestInv, MailRoutes
  <2>2. "reread" \in Steps \ (SettingUp \cup DocSteps \cup GameSteps)
    BY DEF Steps, GameSteps, SettingUp, DocSteps, PeerSteps, MailSteps
  <2> QED
    BY <1>1, <1>2, <1>3, <1>5, <2>1, <2>2, OnStep
<1>6. CASE Goto(u, "machine")
  <2> DEFINE r == [req[u] EXCEPT !.step = "machine"]
  <2>1. r \in Request
    BY <1>1 DEF Request, Steps
  <2>2. /\ r.step = "machine" /\ r.code = req[u].code /\ r.doc = NONE /\ r.peer = req[u].peer
        /\ r.mail = req[u].mail /\ r.route = req[u].route
    BY <1>1, <1>2 DEF Request
  <2>3. req' = [req EXCEPT ![u] = r]
    BY <1>6 DEF Goto
  <2> HIDE DEF r
  <2>4. RequestInv(r)
    BY <1>1, <1>2, <2>2 DEF RequestInv, GameSteps, SettingUp, DocSteps, PeerSteps, MailSteps
  <2> QED
    BY <1>1, <1>3, <2>1, <2>2, <2>3, <2>4, ReadStep DEF SettingUp
<1> QED
  BY <1>4, <1>5, <1>6 DEF Own
-----------------------------------------------------------------------------
\* The handlers that read and write user documents.
LEMMA ReadInviteeStep ==
  ASSUME ServerInv, NEW u \in User, ReadInvitee(u)
  PROVE  ServerInv'
<1>1. /\ req[u] \in Request /\ RequestInv(req[u]) /\ users \in UserDocs
      /\ req[u].step = "invitee" /\ UNCHANGED <<users, games, drawn>>
  BY RequestFacts DEF ReadInvitee
<1>2. req[u].doc = NONE /\ req[u].peer \in User
  BY <1>1 DEF RequestInv, DocSteps, PeerSteps
<1>3. CASE Reply(u)
  BY <1>1, <1>3, ReplyStep
<1>4. CASE req' = [req EXCEPT ![u] = [req[u] EXCEPT !.step = "inviter", !.mail = users[req[u].peer].invites]]
  <2> DEFINE mail == users[req[u].peer].invites
             r == [req[u] EXCEPT !.step = "inviter", !.mail = mail]
  <2>1. mail \in Invites /\ mail # NONE
    BY <1>1, <1>2, NoneAssumption DEF UserDocs
  <2> HIDE DEF mail
  <2>2. r \in Request
    BY <1>1, <2>1 DEF Request, Steps
  <2>3. /\ r.step = "inviter" /\ r.code = req[u].code /\ r.doc = NONE /\ r.peer = req[u].peer
        /\ r.mail = mail /\ r.route = req[u].route
    BY <1>1, <1>2 DEF Request
  <2>4. req' = [req EXCEPT ![u] = r]
    BY <1>4 DEF mail
  <2> HIDE DEF r
  <2>5. RequestInv(r)
    BY <1>1, <1>2, <2>1, <2>3 DEF RequestInv, GameSteps, SettingUp, DocSteps, PeerSteps, MailSteps
  <2> QED
    BY <1>1, <2>2, <2>3, <2>4, <2>5, ReadStep DEF SettingUp
<1> QED
  BY <1>3, <1>4 DEF ReadInvitee

\* cancel_invite reads the invites it will write back.
LEMMA ReadToCancelStep ==
  ASSUME ServerInv, NEW u \in User, ReadToCancel(u)
  PROVE  ServerInv'
<1>1. /\ req[u] \in Request /\ RequestInv(req[u]) /\ users \in UserDocs
      /\ req[u].step = "cancel" /\ UNCHANGED <<users, games, drawn>>
  BY RequestFacts DEF ReadToCancel
<1>2. req[u].doc = NONE /\ req[u].peer \in User
  BY <1>1 DEF RequestInv, DocSteps, PeerSteps
<1>3. CASE Reply(u)
  BY <1>1, <1>3, ReplyStep
<1>4. CASE req' = [req EXCEPT ![u] = [req[u] EXCEPT !.step = "withdraw", !.mail = users[req[u].peer].invites]]
  <2> DEFINE mail == users[req[u].peer].invites
             r == [req[u] EXCEPT !.step = "withdraw", !.mail = mail]
  <2>1. mail \in Invites /\ mail # NONE
    BY <1>1, <1>2, NoneAssumption DEF UserDocs
  <2> HIDE DEF mail
  <2>2. r \in Request
    BY <1>1, <2>1 DEF Request, Steps
  <2>3. /\ r.step = "withdraw" /\ r.code = req[u].code /\ r.doc = NONE /\ r.peer = req[u].peer
        /\ r.mail = mail /\ r.route = req[u].route
    BY <1>1, <1>2 DEF Request
  <2>4. req' = [req EXCEPT ![u] = r]
    BY <1>4 DEF mail
  <2> HIDE DEF r
  <2>5. RequestInv(r)
    BY <1>1, <1>2, <2>1, <2>3 DEF RequestInv, GameSteps, SettingUp, DocSteps, PeerSteps, MailSteps
  <2> QED
    BY <1>1, <2>2, <2>3, <2>4, <2>5, ReadStep DEF SettingUp
<1> QED
  BY <1>3, <1>4 DEF ReadToCancel

\* send_invites goes on to a new game when its sender has none.
LEMMA ReadInviterStep ==
  ASSUME ServerInv, NEW u \in User, ReadInviter(u)
  PROVE  ServerInv'
<1>1. /\ req[u] \in Request /\ RequestInv(req[u]) /\ users \in UserDocs
      /\ req[u].step = "inviter" /\ UNCHANGED <<users, games, drawn>>
  BY RequestFacts DEF ReadInviter
<1>2. "create" \in Steps \ (SettingUp \cup DocSteps \cup GameSteps \cup MailSteps \cup PeerSteps)
  BY DEF Steps, GameSteps, SettingUp, DocSteps, PeerSteps, MailSteps
<1>3. req[u].doc = NONE
  BY <1>1 DEF RequestInv, DocSteps
<1> QED
  BY <1>1, <1>2, <1>3, OnStep, ReplyStep DEF ReadInviter

\* send_invites reads the code of the game it had created.
LEMMA RereadStep ==
  ASSUME ServerInv, NEW u \in User, Reread(u)
  PROVE  ServerInv'
<1> DEFINE code == users[u].ongoing_game
           r == [req[u] EXCEPT !.step = "invite", !.code = code]
<1>1. /\ req[u] \in Request /\ RequestInv(req[u]) /\ users \in UserDocs
      /\ req[u].step = "reread" /\ UNCHANGED <<users, games, drawn>>
  BY RequestFacts DEF Reread
<1>2. req[u].doc = NONE /\ req[u].peer \in User
  BY <1>1 DEF RequestInv, DocSteps, PeerSteps
<1>3. code \in Code \cup {EMPTY}
  BY <1>1 DEF UserDocs
<1> HIDE DEF code
<1>4. r \in Request
  BY <1>1, <1>3 DEF Request, Steps
<1>5. /\ r.step = "invite" /\ r.code = code /\ r.doc = NONE /\ r.peer = req[u].peer
      /\ r.mail = req[u].mail /\ r.route = req[u].route
  BY <1>1, <1>2 DEF Request
<1>6. req' = [req EXCEPT ![u] = r]
  BY DEF Reread, code
<1> HIDE DEF r
<1>7. r.mail # NONE
  BY <1>1, <1>5 DEF RequestInv, MailSteps
<1>8. RequestInv(r)
  BY <1>1, <1>2, <1>5, <1>7 DEF RequestInv, GameSteps, SettingUp, DocSteps, PeerSteps, MailSteps
<1> QED
  BY <1>1, <1>4, <1>5, <1>6, <1>8, ReadStep DEF SettingUp

\* send_invites writes the invites it has read back, with one more.
LEMMA InviteStep ==
  ASSUME ServerInv, NEW u \in User, Invite(u)
  PROVE  ServerInv'
<1> DEFINE mail == [req[u].mail EXCEPT ![u] = req[u].code]
<1>1. /\ req[u] \in Request /\ RequestInv(req[u]) /\ users \in UserDocs
      /\ req[u].step = "invite" /\ UNCHANGED <<games, drawn>>
  BY RequestFacts DEF Invite
<1>2. req[u].mail \in Invites /\ req[u].code \in Code \cup {EMPTY, NONE} /\ req[u].peer \in User
  BY <1>1 DEF RequestInv, MailSteps, PeerSteps, Request
<1>3. mail \in Invites
  BY <1>2 DEF Invites
<1>4. users' \in UserDocs
  BY <1>1, <1>2, <1>3, InvitesTyped DEF Invite
<1> QED
  BY <1>1, <1>4, ReplyStep DEF Invite

\* cancel_invite writes the invites back, with one less.
LEMMA WithdrawStep ==
  ASSUME ServerInv, NEW u \in User, Withdraw(u)
  PROVE  ServerInv'
<1> DEFINE mail == [req[u].mail EXCEPT ![u] = NONE]
<1>1. /\ req[u] \in Request /\ RequestInv(req[u]) /\ users \in UserDocs
      /\ req[u].step = "withdraw" /\ UNCHANGED <<games, drawn>>
  BY RequestFacts DEF Withdraw
<1>2. req[u].mail \in Invites /\ req[u].peer \in User /\ req[u].doc = NONE
  BY <1>1 DEF RequestInv, MailSteps, PeerSteps, DocSteps, Request
<1>3. mail \in Invites
  BY <1>2 DEF Invites
<1>4. users' \in UserDocs
  BY <1>1, <1>2, <1>3, InvitesTyped DEF Withdraw
<1>5. "mygame" \in Steps \ (SettingUp \cup DocSteps \cup GameSteps \cup MailSteps \cup PeerSteps)
  BY DEF Steps, GameSteps, SettingUp, DocSteps, PeerSteps, MailSteps
<1> QED
  BY <1>1, <1>2, <1>4, <1>5, OnStep DEF Withdraw

\* cancel_invite goes on to delete the game its user is in.
LEMMA ReadMyGameStep ==
  ASSUME ServerInv, NEW u \in User, ReadMyGame(u)
  PROVE  ServerInv'
<1> DEFINE code == users[u].ongoing_game
           r == [req[u] EXCEPT !.step = "delete", !.code = code]
<1>1. /\ req[u] \in Request /\ RequestInv(req[u]) /\ users \in UserDocs
      /\ req[u].step = "mygame" /\ UNCHANGED <<users, games, drawn>>
  BY RequestFacts DEF ReadMyGame
<1>2. req[u].doc = NONE
  BY <1>1 DEF RequestInv, DocSteps
<1>3. CASE Reply(u)
  BY <1>1, <1>3, ReplyStep
<1>4. CASE code \in Code /\ req' = [req EXCEPT ![u] = r]
  <2> HIDE DEF code
  <2>1. r \in Request
    BY <1>1, <1>4 DEF Request, Steps
  <2>2. /\ r.step = "delete" /\ r.code = code /\ r.doc = NONE /\ r.peer = req[u].peer
        /\ r.mail = req[u].mail /\ r.route = req[u].route
    BY <1>1, <1>2 DEF Request
  <2>3. req' = [req EXCEPT ![u] = r]
    BY <1>4
  <2> HIDE DEF r
  <2>4. RequestInv(r)
    BY <1>1, <1>4, <2>2 DEF RequestInv, GameSteps, SettingUp, DocSteps, PeerSteps, MailSteps
  <2> QED
    BY <1>1, <2>1, <2>2, <2>3, <2>4, ReadStep DEF SettingUp
<1> QED
  BY <1>3, <1>4 DEF ReadMyGame

\* accept_invite and decline_invite take the game's code from the invite.
LEMMA ReadInvitesStep ==
  ASSUME ServerInv, NEW u \in User, ReadInvites(u)
  PROVE  ServerInv'
<1> DEFINE mail == users[u].invites
           code == mail[req[u].peer]
           next == IF req[u].route = "acceptinvite" THEN "join"
                   ELSE IF code = EMPTY THEN "dropinvite" ELSE "delete"
           r == [req[u] EXCEPT !.step = next, !.code = code, !.mail = mail]
<1>1. /\ req[u] \in Request /\ RequestInv(req[u]) /\ users \in UserDocs
      /\ req[u].step = "invites" /\ UNCHANGED <<users, games, drawn>>
  BY RequestFacts DEF ReadInvites
<1>2. req[u].doc = NONE /\ req[u].peer \in User
  BY <1>1 DEF RequestInv, DocSteps, PeerSteps
<1>3. CASE Reply(u)
  BY <1>1, <1>3, ReplyStep
<1>4. CASE ~(code = NONE \/ (code = EMPTY /\ req[u].route = "acceptinvite"))
           /\ req' = [req EXCEPT ![u] = r]
  <2>1. mail \in Invites /\ mail # NONE
    BY <1>1, NoneAssumption DEF UserDocs
  <2>2. code \in Code \cup {EMPTY, NONE}
    BY <1>2, <2>1 DEF Invites
  <2> HIDE DEF code, mail
  <2>3. next \in {"join", "dropinvite", "delete"} /\ (next # "dropinvite" => code \in Code)
    BY <1>4, <2>2
  <2> HIDE DEF next
  <2>4. r \in Request
    <3> DEFINE stepped == [req[u] EXCEPT !.step = next]
    <3>1. stepped \in Request
      BY <1>1, <2>3 DEF Request, Steps
    <3>2. r = [stepped EXCEPT !.code = code, !.mail = mail]
      BY <1>1 DEF Request
    <3> HIDE DEF stepped
    <3> QED
      BY <2>1, <2>2, <3>1, <3>2 DEF Request
  <2>5. /\ r.step = next /\ r.code = code /\ r.doc = NONE /\ r.peer = req[u].peer
        /\ r.mail = mail /\ r.route = req[u].route
    BY <1>1, <1>2 DEF Request
  <2>6. req' = [req EXCEPT ![u] = r]
    BY <1>4
  <2> HIDE DEF r
  <2>7. RequestInv(r)
    BY <1>1, <1>2, <2>1, <2>3, <2>5
    DEF RequestInv, GameSteps, SettingUp, DocSteps, PeerSteps, MailSteps
  <2>8. next \notin SettingUp
    BY <2>3 DEF SettingUp
  <2>9. users' \in UserDocs
    BY <1>1
  <2> QED
    BY <1>1, <2>4, <2>5, <2>6, <2>7, <2>8, <2>9, ReadStep
<1> QED
  BY <1>3, <1>4 DEF ReadInvites

\* accept_invite and decline_invite write the invites back, with one less.
LEMMA DropInviteStep ==
  ASSUME ServerInv, NEW u \in User, DropInvite(u)
  PROVE  ServerInv'
<1> DEFINE mail == [req[u].mail EXCEPT ![req[u].peer] = NONE]
<1>1. /\ req[u] \in Request /\ RequestInv(req[u]) /\ users \in UserDocs
      /\ req[u].step = "dropinvite" /\ UNCHANGED <<games, drawn>>
  BY RequestFacts DEF DropInvite
<1>2. req[u].mail \in Invites
  BY <1>1 DEF RequestInv, MailSteps, Request
<1>3. mail \in Invites
  BY <1>2 DEF Invites
<1>4. users' \in UserDocs
  BY <1>1, <1>3, InvitesTyped DEF DropInvite
<1> QED
  BY <1>1, <1>4, ReplyStep DEF DropInvite

\* leave_game writes the user's document only.
LEMMA LeaveStep ==
  ASSUME ServerInv, NEW u \in User, Leave(u)
  PROVE  ServerInv'
<1>1. users \in UserDocs
  BY RequestFacts
<1>2. users' \in UserDocs
  BY <1>1, OngoingTyped DEF Leave
<1> QED
  BY <1>2, ReplyStep DEF Leave
-----------------------------------------------------------------------------
\* The handlers that read game documents.
LEMMA ReadToJoinStep ==
  ASSUME ServerInv, NEW u \in User, ReadToJoin(u)
  PROVE  ServerInv'
<1>1. /\ RequestInv(req[u]) /\ users \in UserDocs /\ req[u].step = "join"
      /\ UNCHANGED <<users, games, drawn>>
  BY RequestFacts DEF ReadToJoin
<1>2. req[u].code \in Code
  BY <1>1 DEF RequestInv, GameSteps
<1>3. CASE ReturnTo(u)
  BY <1>1, <1>3, ReturnStep
<1>4. CASE /\ Exists(u) /\ games[req[u].code].state.players_joined < 2
           /\ req' = [req EXCEPT ![u] = [@ EXCEPT !.step = "sit", !.doc = games[req[u].code]]]
  BY <1>1, <1>2, <1>4, ReadGameStep DEF DocSteps
<1> QED
  BY <1>3, <1>4 DEF ReadToJoin

\* delete_game reads the game whose players it will free.
LEMMA ReadToDeleteStep ==
  ASSUME ServerInv, NEW u \in User, ReadToDelete(u)
  PROVE  ServerInv'
<1>1. /\ RequestInv(req[u]) /\ users \in UserDocs /\ req[u].step = "delete"
      /\ UNCHANGED <<users, games, drawn>>
  BY RequestFacts DEF ReadToDelete
<1>2. req[u].code \in Code
  BY <1>1 DEF RequestInv, GameSteps
<1>3. CASE ReturnTo(u)
  BY <1>1, <1>3, ReturnStep
<1>4. CASE /\ Exists(u)
           /\ req' = [req EXCEPT ![u] = [@ EXCEPT !.step = "clearfirst", !.doc = games[req[u].code]]]
  BY <1>1, <1>2, <1>4, ReadGameStep DEF DocSteps
<1> QED
  BY <1>3, <1>4 DEF ReadToDelete

\* make_move reads the game whose turn it is the player's to take.
LEMMA ReadToMoveStep ==
  ASSUME ServerInv, NEW u \in User, ReadToMove(u)
  PROVE  ServerInv'
<1>1. /\ RequestInv(req[u]) /\ users \in UserDocs /\ req[u].step = "move"
      /\ UNCHANGED <<users, games, drawn>>
  BY RequestFacts DEF ReadToMove
<1>2. req[u].code \in Code /\ req[u].peer \in Player
  BY <1>1 DEF RequestInv, GameSteps
<1>3. CASE Reply(u)
  BY <1>1, <1>3, ReplyStep
<1>4. CASE /\ Exists(u) /\ MayMove(games[req[u].code].state, req[u].peer)
           /\ req' = [req EXCEPT ![u] = [@ EXCEPT !.step = "put", !.doc = games[req[u].code]]]
  BY <1>1, <1>2, <1>4, ReadGameStep DEF DocSteps
<1> QED
  BY <1>3, <1>4 DEF ReadToMove

\* undo reads a game that has a previous position.
LEMMA ReadPrevStep ==
  ASSUME ServerInv, NEW u \in User, ReadPrev(u)
  PROVE  ServerInv'
<1>1. /\ RequestInv(req[u]) /\ users \in UserDocs /\ req[u].step = "undo"
      /\ UNCHANGED <<users, games, drawn>>
  BY RequestFacts DEF ReadPrev
<1>2. req[u].code \in Code
  BY <1>1 DEF RequestInv, GameSteps
<1>3. CASE Reply(u)
  BY <1>1, <1>3, ReplyStep
<1>4. CASE /\ Exists(u) /\ games[req[u].code].prev_state # NONE
           /\ req' = [req EXCEPT ![u] = [@ EXCEPT !.step = "restore", !.doc = games[req[u].code]]]
  BY <1>1, <1>2, <1>4, ReadGameStep DEF DocSteps
<1> QED
  BY <1>3, <1>4 DEF ReadPrev

\* join_game notes the game in the user's document.
LEMMA SitStep ==
  ASSUME ServerInv, NEW u \in User, Sit(u)
  PROVE  ServerInv'
<1>1. /\ RequestInv(req[u]) /\ users \in UserDocs /\ req[u].step = "sit"
      /\ UNCHANGED <<games, drawn>>
  BY RequestFacts DEF Sit
<1>2. req[u].code \in Code /\ req[u].doc # NONE
  BY <1>1 DEF RequestInv, GameSteps, DocSteps
<1>3. users' \in UserDocs
  BY <1>1, <1>2, OngoingTyped DEF Sit
<1>4. "seat" \in (Steps \ SettingUp) \cap DocSteps /\ "seat" \notin PeerSteps \cup MailSteps
  BY DEF Steps, GameSteps, SettingUp, DocSteps, PeerSteps, MailSteps
<1> QED
  BY <1>1, <1>2, <1>3, <1>4, OnStep DEF Sit

\* delete_game frees the first player.
LEMMA ClearFirstStep ==
  ASSUME ServerInv, NEW u \in User, ClearFirst(u)
  PROVE  ServerInv'
<1>1. /\ req[u] \in Request /\ RequestInv(req[u]) /\ users \in UserDocs
      /\ req[u].step = "clearfirst" /\ UNCHANGED <<games, drawn>>
  BY RequestFacts DEF ClearFirst
<1>2. req[u].code \in Code /\ req[u].doc # NONE
  BY <1>1 DEF RequestInv, GameSteps, DocSteps
<1>3. req[u].doc.state.player1_id \in User
  BY <1>1, <1>2 DEF Request, Document, Position
<1>4. users' \in UserDocs
  BY <1>1, <1>3, OngoingTyped DEF ClearFirst
<1>5. "clearsecond" \in (Steps \ SettingUp) \cap DocSteps
      /\ "clearsecond" \notin PeerSteps \cup MailSteps
  BY DEF Steps, GameSteps, SettingUp, DocSteps, PeerSteps, MailSteps
<1> QED
  BY <1>1, <1>2, <1>4, <1>5, OnStep DEF ClearFirst

\* delete_game frees the second player, or stops when there is none.
LEMMA ClearSecondStep ==
  ASSUME ServerInv, NEW u \in User, ClearSecond(u)
  PROVE  ServerInv'
<1> DEFINE player2 == req[u].doc.state.player2_id
<1>1. /\ RequestInv(req[u]) /\ users \in UserDocs /\ req[u].step = "clearsecond"
      /\ UNCHANGED <<games, drawn>>
  BY RequestFacts DEF ClearSecond
<1>2. CASE player2 \in User /\ PutOngoing(player2, EMPTY) /\ Goto(u, "erase")
  <2>1. req[u].code \in Code /\ req[u].doc # NONE
    BY <1>1 DEF RequestInv, GameSteps, DocSteps
  <2>2. users' \in UserDocs
    BY <1>1, <1>2, OngoingTyped
  <2>3. "erase" \in (Steps \ SettingUp) \cap DocSteps /\ "erase" \notin PeerSteps \cup MailSteps
    BY DEF Steps, GameSteps, SettingUp, DocSteps, PeerSteps, MailSteps
  <2> QED
    BY <1>1, <1>2, <2>1, <2>2, <2>3, OnStep
<1>3. CASE ReturnTo(u) /\ UNCHANGED users
  BY <1>1, <1>3, ReturnStep
<1> QED
  BY <1>2, <1>3 DEF ClearSecond

\* resign reads the game before it writes its status.
LEMMA ReadToResignStep ==
  ASSUME ServerInv, NEW u \in User, ReadToResign(u)
  PROVE  ServerInv'
<1>1. /\ RequestInv(req[u]) /\ users \in UserDocs /\ req[u].step = "resign"
      /\ UNCHANGED <<users, games, drawn>>
  BY RequestFacts DEF ReadToResign
<1>2. req[u].code \in Code /\ req[u].doc = NONE
  BY <1>1 DEF RequestInv, GameSteps, DocSteps
<1>3. "status" \in Steps \ (SettingUp \cup DocSteps \cup PeerSteps \cup MailSteps)
  BY DEF Steps, GameSteps, SettingUp, DocSteps, PeerSteps, MailSteps
<1> QED
  BY <1>1, <1>2, <1>3, OnStep, ReplyStep DEF ReadToResign
-----------------------------------------------------------------------------
\* The request goes on to r, with the document it had or with none.
Becomes(u, r) ==
  /\ r \in Request /\ RequestInv(r) /\ r.step \notin SettingUp
  /\ req' = [req EXCEPT ![u] = r]
  /\ r.doc # NONE => r.code = req[u].code /\ r.doc = req[u].doc

\* What the request is after an answer.
LEMMA ReplyBecomes ==
  ASSUME NEW u \in User, Reply(u)
  PROVE  Becomes(u, Idle)
BY IdleRequest DEF Reply, Becomes, SettingUp

\* What the request is after it goes on to another step.
LEMMA GotoBecomes ==
  ASSUME ServerInv, NEW u \in User, NEW step \in {"leave", "putprev", "dropinvite"}, Goto(u, step),
         step = "putprev" => req[u].code \in Code /\ req[u].doc # NONE,
         step = "leave" => req[u].doc = NONE,
         step = "dropinvite" => req[u].route \in InviteRoutes,
         req[u].step \notin {"invites", "invitee"}
  PROVE  Becomes(u, [req[u] EXCEPT !.step = step])
<1> DEFINE r == [req[u] EXCEPT !.step = step]
<1>1. req[u] \in Request /\ RequestInv(req[u])
  BY RequestFacts
<1>2. r \in Request
  BY <1>1 DEF Request, Steps
<1>3. /\ r.step = step /\ r.doc = req[u].doc /\ r.code = req[u].code /\ r.peer = req[u].peer
      /\ r.route = req[u].route /\ r.mail = req[u].mail
  BY <1>1 DEF Request
<1>4. req' = [req EXCEPT ![u] = r]
  BY DEF Goto
<1> HIDE DEF r
<1>5. /\ r.route \in MailRoutes => r.peer \in User
      /\ r.route \in InviteRoutes => r.mail # NONE
      /\ r.route = "sendinvite" => r.mail # NONE
  BY <1>1, <1>3 DEF RequestInv
<1>6. RequestInv(r)
  <2>1. CASE step = "leave"
    BY <1>3, <1>5, <2>1 DEF RequestInv, GameSteps, SettingUp, DocSteps, PeerSteps, MailSteps
  <2>2. CASE step = "putprev"
    BY <1>3, <1>5, <2>2 DEF RequestInv, GameSteps, SettingUp, DocSteps, PeerSteps, MailSteps
  <2>3. CASE step = "dropinvite"
    BY <1>3, <1>5, <2>3 DEF RequestInv, GameSteps, SettingUp, DocSteps, PeerSteps, MailSteps,
       MailRoutes
  <2> QED
    BY <2>1, <2>2, <2>3
<1> QED
  BY <1>2, <1>3, <1>4, <1>6 DEF Becomes, SettingUp, r

\* What the request is after join_game or delete_game returns.
LEMMA ReturnBecomes ==
  ASSUME ServerInv, NEW u \in User, ReturnTo(u), req[u].step \notin {"invites", "invitee"}
  PROVE  \E r : Becomes(u, r)
<1>1. CASE req[u].route \in InviteRoutes
  BY <1>1, GotoBecomes DEF ReturnTo, InviteRoutes
<1>2. CASE req[u].route \notin InviteRoutes
  BY <1>2, ReplyBecomes DEF ReturnTo, InviteRoutes
<1> QED
  BY <1>1, <1>2

\* A write of a document that was read for the same code.
LEMMA PutStep ==
  ASSUME ServerInv, NEW u \in User, NEW r, Becomes(u, r), UNCHANGED <<users, drawn>>,
         NEW c \in Code, NEW d \in Document \cup {NONE}, games' = [games EXCEPT ![c] = d],
         d # NONE => /\ c \in drawn /\ GoodDoc(d)
                     /\ \A w \in User \ {u} : req[w].step \in SettingUp /\ req[w].code = c =>
                                               UnjoinedDoc(d, w)
  PROVE  ServerInv'
BY WriteStep DEF Becomes

\* The documents somebody holds of a game its creator w is setting up.
LEMMA HeldUnjoined ==
  ASSUME ServerInv, NEW u \in User, NEW w \in User \ {u}, req[w].step \in SettingUp,
         req[w].code = req[u].code
  PROVE  /\ req[u].doc # NONE => UnjoinedDoc(req[u].doc, w)
         /\ req[u].code \in Code /\ Exists(u) => UnjoinedDoc(games[req[u].code], w)
BY DEF ServerInv, SetupInv, Running, Exists
-----------------------------------------------------------------------------
\* The handlers that write game documents.
LEMMA SeatMachineStep ==
  ASSUME ServerInv, NEW u \in User, SeatMachine(u)
  PROVE  ServerInv'
<1> DEFINE c == req[u].code
           player == IF req[u].route = "newgamecpu" THEN CPU ELSE LOCAL_PLAY
           old == games[c]
           pos == [old.state EXCEPT !.player2_id = player, !.players_joined = 2]
           doc == [old EXCEPT !.state = pos]
<1>1. /\ RequestInv(req[u]) /\ users \in UserDocs /\ req[u].step = "machine"
      /\ UNCHANGED <<users, drawn>> /\ Reply(u)
  BY RequestFacts DEF SeatMachine
<1>2. c \in Code
  BY <1>1 DEF RequestInv, GameSteps, SettingUp
<1>3. CASE Exists(u)
  <2>1. old \in Document /\ c \in drawn /\ GoodDoc(old) /\ old # NONE
    BY <1>2, <1>3, RequestFacts DEF Exists
  <2>2. UnjoinedDoc(old, u)
    BY <1>1, <1>2, <1>3 DEF ServerInv, SetupInv, SettingUp, Running, Exists
  <2>3. games' = [games EXCEPT ![c] = doc]
    BY <1>3 DEF SeatMachine
  <2>4. player \in Player /\ \A w \in User : player # w
    BY PlayersAssumption DEF Player, Machine
  <2> HIDE DEF player
  <2>5. old.state \in Position /\ Good(old.state) /\ Unjoined(old.state, u)
    BY <2>1, <2>2 DEF Document, GoodDoc, UnjoinedDoc
  <2>6. pos \in Position /\ Good(pos)
    BY <2>4, <2>5, SeatGood DEF Unjoined
  <2>7. pos.player1_id = old.state.player1_id /\ pos.player2_id = player
    BY <2>5 DEF Position
  <2> HIDE DEF pos
  <2>8. doc \in Document /\ doc.state = pos /\ doc.prev_state = old.prev_state
    BY <2>1, <2>6 DEF Document
  <2> HIDE DEF doc
  <2>9. GoodDoc(doc)
    BY <2>1, <2>6, <2>8 DEF GoodDoc
  <2>10. ASSUME NEW w \in User \ {u}, req[w].step \in SettingUp, req[w].code = c
         PROVE  UnjoinedDoc(doc, w)
    <3>1. UnjoinedDoc(old, w)
      BY <1>2, <1>3, <2>10, HeldUnjoined
    <3> QED
      BY <2>4, <2>7, <2>8, <3>1 DEF UnjoinedDoc, Unjoined
  <2>11. Becomes(u, Idle)
    BY <1>1, ReplyBecomes
  <2> HIDE DEF c, old
  <2> QED
    BY <1>1, <1>2, <2>1, <2>3, <2>8, <2>9, <2>10, <2>11, PutStep DEF c
<1>4. CASE ~Exists(u)
  BY <1>1, <1>4, ReplyStep DEF SeatMachine
<1> QED
  BY <1>3, <1>4

\* join_game writes back the document it read, with the second seat taken.
LEMMA SeatStep ==
  ASSUME ServerInv, NEW u \in User, Seat(u)
  PROVE  ServerInv'
<1> DEFINE c == req[u].code
           old == req[u].doc
           pos == [old.state EXCEPT !.player2_id = u, !.players_joined = 2]
           doc == [old EXCEPT !.state = pos]
<1>1. /\ req[u] \in Request /\ RequestInv(req[u]) /\ req[u].step = "seat"
      /\ UNCHANGED <<users, drawn>> /\ ReturnTo(u) /\ games' = [games EXCEPT ![c] = doc]
  BY RequestFacts DEF Seat, PutGame
<1>2. c \in Code /\ old \in Document /\ old # NONE /\ c \in drawn /\ GoodDoc(old)
  BY <1>1, RequestFacts DEF RequestInv, GameSteps, DocSteps, Request
<1>3. old.state \in Position /\ Good(old.state) /\ old.state.players_joined < 2 /\ u \in Player
  BY <1>1, <1>2 DEF Document, GoodDoc, RequestInv, Player
<1>4. pos \in Position /\ Good(pos)
  BY <1>3, SeatGood
<1>5. pos.player1_id = old.state.player1_id /\ pos.player2_id = u
  BY <1>3 DEF Position
<1> HIDE DEF pos
<1>6. doc \in Document /\ doc.state = pos /\ doc.prev_state = old.prev_state
  BY <1>2, <1>4 DEF Document
<1> HIDE DEF doc
<1>7. GoodDoc(doc)
  BY <1>2, <1>4, <1>6 DEF GoodDoc
<1>8. ASSUME NEW w \in User \ {u}, req[w].step \in SettingUp, req[w].code = c
      PROVE  UnjoinedDoc(doc, w)
  <2>1. UnjoinedDoc(old, w)
    BY <1>2, <1>8, HeldUnjoined
  <2> QED
    BY <1>5, <1>6, <1>8, <2>1 DEF UnjoinedDoc, Unjoined
<1>9. PICK r : Becomes(u, r)
  BY <1>1, ReturnBecomes
<1> HIDE DEF c
<1> QED
  BY <1>1, <1>2, <1>6, <1>7, <1>8, <1>9, PutStep

\* delete_game removes the document.
LEMMA EraseStep ==
  ASSUME ServerInv, NEW u \in User, Erase(u)
  PROVE  ServerInv'
<1>1. /\ RequestInv(req[u]) /\ req[u].step = "erase" /\ UNCHANGED <<users, drawn>>
      /\ ReturnTo(u) /\ games' = [games EXCEPT ![req[u].code] = NONE]
  BY RequestFacts DEF Erase, PutGame
<1>2. req[u].code \in Code
  BY <1>1 DEF RequestInv, GameSteps
<1>3. PICK r : Becomes(u, r)
  BY <1>1, ReturnBecomes
<1> QED
  BY <1>1, <1>2, <1>3, PutStep

\* resign writes the status field of whatever game is there.
LEMMA PutStatusStep ==
  ASSUME ServerInv, NEW u \in User, PutStatus(u)
  PROVE  ServerInv'
<1> DEFINE c == req[u].code
           old == games[c]
           pos == [old.state EXCEPT !.game_status = [kind |-> "R", by |-> u]]
           doc == [old EXCEPT !.state = pos]
<1>1. /\ RequestInv(req[u]) /\ users \in UserDocs /\ req[u].step = "status"
      /\ UNCHANGED <<users, drawn>>
  BY RequestFacts DEF PutStatus
<1>2. c \in Code /\ req[u].doc = NONE
  BY <1>1 DEF RequestInv, GameSteps, DocSteps
<1>3. CASE Exists(u)
  <2>1. old \in Document /\ c \in drawn /\ GoodDoc(old) /\ old # NONE
    BY <1>2, <1>3, RequestFacts DEF Exists
  <2>2. Goto(u, "leave") /\ games' = [games EXCEPT ![c] = doc]
    BY <1>3 DEF PutStatus
  <2>3. old.state \in Position /\ Good(old.state)
    BY <2>1 DEF Document, GoodDoc
  <2>4. pos \in Position /\ Good(pos)
    BY <2>3, ResignGood
  <2>5. pos.player1_id = old.state.player1_id /\ pos.player2_id = old.state.player2_id
    BY <2>3 DEF Position
  <2> HIDE DEF pos
  <2>6. doc \in Document /\ doc.state = pos /\ doc.prev_state = old.prev_state
    BY <2>1, <2>4 DEF Document
  <2> HIDE DEF doc
  <2>7. GoodDoc(doc)
    BY <2>1, <2>4, <2>6 DEF GoodDoc
  <2>8. ASSUME NEW w \in User \ {u}, req[w].step \in SettingUp, req[w].code = c
        PROVE  UnjoinedDoc(doc, w)
    <3>1. UnjoinedDoc(old, w)
      BY <1>2, <1>3, <2>8, HeldUnjoined
    <3> QED
      BY <2>5, <2>6, <3>1 DEF UnjoinedDoc, Unjoined
  <2>9. Becomes(u, [req[u] EXCEPT !.step = "leave"])
    BY <1>1, <1>2, <2>2, GotoBecomes
  <2> HIDE DEF c, old
  <2> QED
    BY <1>1, <1>2, <2>1, <2>2, <2>6, <2>7, <2>8, <2>9, PutStep
<1>4. CASE ~Exists(u)
  BY <1>1, <1>4, ReplyStep DEF PutStatus
<1> QED
  BY <1>3, <1>4

\* make_move writes back the document it read, with the move made.
LEMMA PutMoveStep ==
  ASSUME ServerInv, NEW u \in User, PutMove(u)
  PROVE  ServerInv'
<1> DEFINE c == req[u].code
           old == req[u].doc.state
<1>1. /\ req[u] \in Request /\ RequestInv(req[u]) /\ req[u].step = "put"
      /\ UNCHANGED <<users, drawn>> /\ Goto(u, "putprev")
  BY RequestFacts DEF PutMove
<1>2. PICK mate \in BOOLEAN :
        games' = [games EXCEPT ![c] = [state |-> Moved(old, req[u].peer, mate), prev_state |-> NONE]]
  BY DEF PutMove, PutGame
<1> DEFINE pos == Moved(old, req[u].peer, mate)
           doc == [state |-> pos, prev_state |-> NONE]
<1>3. /\ c \in Code /\ req[u].doc \in Document /\ req[u].doc # NONE /\ c \in drawn
      /\ GoodDoc(req[u].doc) /\ req[u].peer \in Player /\ MayMove(old, req[u].peer)
  BY <1>1, RequestFacts DEF RequestInv, GameSteps, DocSteps, Request
<1>4. old \in Position /\ Good(old)
  BY <1>3 DEF Document, GoodDoc
<1> HIDE DEF old
<1>5. pos \in Position /\ Good(pos)
  BY <1>3, <1>4, MoveGood
<1>6. pos.player1_id = old.player1_id /\ pos.player2_id = old.player2_id
  BY <1>4 DEF Moved, Position
<1> HIDE DEF pos
<1>7. doc \in Document /\ GoodDoc(doc) /\ doc.state = pos /\ doc.prev_state = NONE
  BY <1>5 DEF Document, GoodDoc
<1>8. games' = [games EXCEPT ![c] = doc]
  BY <1>2 DEF pos
<1> HIDE DEF doc
<1>9. ASSUME NEW w \in User \ {u}, req[w].step \in SettingUp, req[w].code = c
      PROVE  UnjoinedDoc(doc, w)
  <2>1. UnjoinedDoc(req[u].doc, w)
    BY <1>3, <1>9, HeldUnjoined
  <2> QED
    BY <1>6, <1>7, <2>1 DEF UnjoinedDoc, Unjoined, old
<1>10. Becomes(u, [req[u] EXCEPT !.step = "putprev"])
  BY <1>1, <1>3, GotoBecomes
<1> HIDE DEF c
<1> QED
  BY <1>1, <1>3, <1>7, <1>8, <1>9, <1>10, PutStep

\* make_move then adds the position before the move.
LEMMA PutPrevStep ==
  ASSUME ServerInv, NEW u \in User, PutPrev(u)
  PROVE  ServerInv'
<1> DEFINE c == req[u].code
           old == games[c]
           prev == req[u].doc.state
           doc == [old EXCEPT !.prev_state = prev]
<1>1. /\ req[u] \in Request /\ RequestInv(req[u]) /\ req[u].step = "putprev" /\ users \in UserDocs
      /\ UNCHANGED <<users, drawn>> /\ Reply(u)
  BY RequestFacts DEF PutPrev
<1>2. /\ c \in Code /\ req[u].doc \in Document /\ req[u].doc # NONE /\ c \in drawn
      /\ GoodDoc(req[u].doc)
  BY <1>1, RequestFacts DEF RequestInv, GameSteps, DocSteps, Request
<1>3. CASE Exists(u)
  <2>1. old \in Document /\ GoodDoc(old) /\ prev \in Position /\ Good(prev)
    BY <1>2, <1>3, RequestFacts DEF Exists, Document, GoodDoc
  <2>2. games' = [games EXCEPT ![c] = doc]
    BY <1>3 DEF PutPrev
  <2> HIDE DEF prev
  <2>3. doc \in Document /\ doc.state = old.state /\ doc.prev_state = prev
    BY <2>1 DEF Document
  <2> HIDE DEF doc
  <2>4. GoodDoc(doc)
    BY <2>1, <2>3 DEF GoodDoc
  <2>5. ASSUME NEW w \in User \ {u}, req[w].step \in SettingUp, req[w].code = c
        PROVE  UnjoinedDoc(doc, w)
    <3>1. UnjoinedDoc(old, w) /\ UnjoinedDoc(req[u].doc, w)
      BY <1>2, <1>3, <2>5, HeldUnjoined
    <3> QED
      BY <2>3, <3>1 DEF UnjoinedDoc, prev
  <2>6. Becomes(u, Idle)
    BY <1>1, ReplyBecomes
  <2> HIDE DEF c, old
  <2> QED
    BY <1>1, <1>2, <2>2, <2>3, <2>4, <2>5, <2>6, PutStep
<1>4. CASE ~Exists(u)
  BY <1>1, <1>4, ReplyStep DEF PutPrev
<1> QED
  BY <1>3, <1>4

\* undo writes back the position before the move.
LEMMA RestoreStep ==
  ASSUME ServerInv, NEW u \in User, Restore(u)
  PROVE  ServerInv'
<1> DEFINE c == req[u].code
           pos == req[u].doc.prev_state
           doc == [state |-> pos, prev_state |-> NONE]
<1>1. /\ req[u] \in Request /\ RequestInv(req[u]) /\ req[u].step = "restore"
      /\ UNCHANGED <<users, drawn>> /\ Reply(u) /\ games' = [games EXCEPT ![c] = doc]
  BY RequestFacts DEF Restore, PutGame
<1>2. /\ c \in Code /\ req[u].doc \in Document /\ req[u].doc # NONE /\ c \in drawn
      /\ GoodDoc(req[u].doc) /\ pos # NONE
  BY <1>1, RequestFacts DEF RequestInv, GameSteps, DocSteps, Request
<1>3. pos \in Position /\ Good(pos)
  BY <1>2 DEF Document, GoodDoc
<1>4. doc \in Document /\ GoodDoc(doc) /\ doc.state = pos /\ doc.prev_state = NONE
  BY <1>3 DEF Document, GoodDoc
<1> HIDE DEF doc
<1>5. ASSUME NEW w \in User \ {u}, req[w].step \in SettingUp, req[w].code = c
      PROVE  UnjoinedDoc(doc, w)
  <2>1. UnjoinedDoc(req[u].doc, w)
    BY <1>2, <1>5, HeldUnjoined
  <2> QED
    BY <1>2, <1>4, <2>1 DEF UnjoinedDoc
<1>6. Becomes(u, Idle)
  BY <1>1, ReplyBecomes
<1> HIDE DEF c
<1> QED
  BY <1>1, <1>2, <1>4, <1>5, <1>6, PutStep
-----------------------------------------------------------------------------
\* There are no games and no requests in the beginning.
LEMMA ServerInitInv == Init => ServerInv
<1> SUFFICES ASSUME Init PROVE ServerInv
  OBVIOUS
<1>1. Idle \in Request /\ RequestInv(Idle) /\ Idle.step = "idle" /\ Idle.doc = NONE
  BY IdleRequest
<1>3. \A u \in User : req[u] = Idle
  BY DEF Init
<1>4. TypeOK
  <2>1. [v \in User |-> NONE] \in Invites
    BY DEF Invites
  <2>2. users \in UserDocs
    BY <2>1 DEF Init, UserDocs
  <2> QED
    BY <1>1, <2>2 DEF Init, TypeOK, UserDocs
<1>5. DocInv
  BY <1>1, <1>3 DEF Init, DocInv, Running
<1>6. SetupInv
  BY <1>1, <1>3 DEF SetupInv, SettingUp
<1> QED
  BY <1>1, <1>3, <1>4, <1>5, <1>6 DEF ServerInv

\* Every access of every handler keeps the invariant.
LEMMA ServerNextInv == ServerInv /\ [Next]_vars => ServerInv'
<1> SUFFICES ASSUME ServerInv, [Next]_vars PROVE ServerInv'
  OBVIOUS
<1>1. ASSUME NEW u \in User, Send(u) PROVE ServerInv'
  BY <1>1, SendStep
<1>2. ASSUME NEW u \in User, Handle(u) PROVE ServerInv'
  <2>1. CASE Create(u) \/ Own(u) \/ SeatMachine(u) \/ ReadToJoin(u) \/ Sit(u) \/ Seat(u)
    BY <2>1, CreateStep, OwnStep, SeatMachineStep, ReadToJoinStep, SitStep, SeatStep
  <2>2. CASE ReadToDelete(u) \/ ClearFirst(u) \/ ClearSecond(u) \/ Erase(u)
    BY <2>2, ReadToDeleteStep, ClearFirstStep, ClearSecondStep, EraseStep
  <2>3. CASE \/ ReadInvitee(u) \/ ReadInviter(u) \/ Reread(u) \/ Invite(u)
             \/ ReadToCancel(u) \/ Withdraw(u) \/ ReadMyGame(u)
             \/ ReadInvites(u) \/ DropInvite(u)
    BY <2>3, ReadInviteeStep, ReadInviterStep, RereadStep, InviteStep, ReadToCancelStep,
       WithdrawStep, ReadMyGameStep, ReadInvitesStep, DropInviteStep
  <2>4. CASE \/ Leave(u) \/ ReadToResign(u) \/ PutStatus(u)
             \/ ReadToMove(u) \/ PutMove(u) \/ PutPrev(u) \/ ReadPrev(u) \/ Restore(u)
    BY <2>4, LeaveStep, ReadToResignStep, PutStatusStep, ReadToMoveStep, PutMoveStep,
       PutPrevStep, ReadPrevStep, RestoreStep
  <2> QED
    BY <1>2, <2>1, <2>2, <2>3, <2>4 DEF Handle
<1>3. CASE UNCHANGED vars
  BY <1>3 DEF vars, ServerInv, TypeOK, DocInv, SetupInv, Running
<1> QED
  BY <1>1, <1>2, <1>3 DEF Next

\* The invariant the theorems below rest on.
THEOREM ServerInvariant == Spec => []ServerInv
<1> QED
  BY ServerInitInv, ServerNextInv, PTL DEF Spec

\* However the handlers of the users overlap, the documents and the requests
\* keep their shape.
THEOREM ServerTypeCorrect == Spec => []TypeOK
<1>1. ServerInv => TypeOK
  BY DEF ServerInv
<1> QED
  BY <1>1, ServerInvariant, PTL

\* However the handlers overlap and however old what they write is, the turn
\* and the number of moves of every game agree.
THEOREM ServerTurnMatchesCount == Spec => []TurnMatchesCount
<1>1. ServerInv => TurnMatchesCount
  BY DEF ServerInv, DocInv, GoodDoc, Good, TurnMatchesCount
<1> QED
  BY <1>1, ServerInvariant, PTL

\* And a game reported won is won by the player who moved last.
THEOREM ServerWinnerHasMoved == Spec => []WinnerHasMoved
<1>1. ServerInv => WinnerHasMoved
  BY DEF ServerInv, DocInv, GoodDoc, Good, WinnerHasMoved
<1> QED
  BY <1>1, ServerInvariant, PTL
-----------------------------------------------------------------------------
\* Every version of game c, stored or held by a handler, is of player v's game.
OwnedDoc(doc, v) ==
  doc.state.player1_id = v /\ (doc.prev_state # NONE => doc.prev_state.player1_id = v)
OwnedBy(c, v) ==
  /\ c \in Running => OwnedDoc(games[c], v)
  /\ \A u \in User : req[u].doc # NONE /\ req[u].code = c => OwnedDoc(req[u].doc, v)
OwnCode(c, v) == c \in Code => c \in drawn /\ OwnedBy(c, v)
OwnInvites(mail) == \A v \in User : OwnCode(mail[v], v)

InviteInv ==
  /\ \A u \in User : OwnInvites(users[u].invites)
  /\ \A u \in User : req[u].mail # NONE => OwnInvites(req[u].mail)
  /\ \A u \in User : /\ req[u].step = "reread" => OwnCode(users[u].ongoing_game, u)
                     /\ req[u].step = "invite" => OwnCode(req[u].code, u)

\* A step of u's: what it makes of the games, of its request and of the users.
Written(u, d) ==
  \A v \in User : d # NONE /\ OwnedBy(req[u].code, v) => OwnedDoc(d, v)
GamesEffect(u) ==
  /\ drawn \subseteq drawn'
  /\ \A c \in drawn : \/ games'[c] = games[c]
                      \/ c = req[u].code /\ Written(u, games'[c])
  /\ \A w \in User \ {u} : req'[w] = req[w]
  /\ req'[u].doc # NONE =>
       /\ req'[u].code = req[u].code
       /\ req'[u].doc = req[u].doc \/ (req[u].code \in Running /\ req'[u].doc = games[req[u].code])
MailEffect(u) ==
  /\ \A w, v \in User :
       \/ users'[w].invites[v] = users[w].invites[v]
       \/ users'[w].invites[v] = NONE
       \/ req[u].mail # NONE /\ users'[w].invites[v] = req[u].mail[v]
       \/ v = u /\ req[u].step = "invite" /\ users'[w].invites[v] = req[u].code
  /\ \/ req'[u].mail = NONE \/ req'[u].mail = req[u].mail
     \/ \E w \in User : req'[u].mail = users[w].invites
CodeEffect(u) ==
  /\ \A w \in User \ {u} : users'[w].ongoing_game \in {users[w].ongoing_game, EMPTY}
  /\ req'[u].step = "reread" => req[u].step = "own" /\ users'[u].ongoing_game = req[u].code
  /\ req'[u].step = "invite" =>
       req[u].step = "reread" /\ req'[u].code = users[u].ongoing_game

\* A game that was given out keeps its owner, whatever version is written back.
LEMMA OwnedKept ==
  ASSUME ServerInv, ServerInv', NEW u \in User, GamesEffect(u), NEW c \in drawn, NEW v \in User,
         OwnedBy(c, v)
  PROVE  OwnedBy(c, v)'
<1>1. c \in Running' => OwnedDoc(games'[c], v)
  BY DEF GamesEffect, Written, OwnedBy, Running
<1>2. ASSUME NEW w \in User, req'[w].doc # NONE, req'[w].code = c PROVE OwnedDoc(req'[w].doc, v)
  BY <1>2 DEF GamesEffect, OwnedBy
<1> QED BY <1>1, <1>2 DEF OwnedBy

\* A step with these three effects leaves every invite with its sender.
LEMMA InvitesKept ==
  ASSUME ServerInv, ServerInv', InviteInv, NEW u \in User, GamesEffect(u), MailEffect(u), CodeEffect(u)
  PROVE  InviteInv'
<1>0. NONE \notin Code /\ EMPTY \notin Code BY CodesAssumption
<1>1. ASSUME NEW c, NEW v \in User, OwnCode(c, v) PROVE OwnCode(c, v)'
  BY <1>1, OwnedKept DEF OwnCode, GamesEffect
<1>2. ASSUME NEW w \in User, NEW v \in User, NEW c, c = users'[w].invites[v] PROVE OwnCode(c, v)'
  <2>1. OwnCode(users[w].invites[v], v) BY DEF InviteInv, OwnInvites
  <2>2. req[u].mail # NONE => OwnCode(req[u].mail[v], v) BY DEF InviteInv, OwnInvites
  <2>3. v = u /\ req[u].step = "invite" => OwnCode(req[u].code, v) BY DEF InviteInv
  <2>4. OwnCode(NONE, v) BY <1>0 DEF OwnCode
  <2>5. OwnCode(c, v) BY <1>2, <2>1, <2>2, <2>3, <2>4 DEF MailEffect
  <2> QED BY <1>1, <2>5
<1>3. ASSUME NEW w \in User, req'[w].mail # NONE, NEW v \in User, NEW c, c = req'[w].mail[v]
      PROVE  OwnCode(c, v)'
  <2>1. OwnCode(c, v)
    BY <1>3 DEF MailEffect, GamesEffect, InviteInv, OwnInvites
  <2> QED BY <1>1, <2>1
<1>4. ASSUME NEW w \in User, req'[w].step = "reread", NEW c, c = users'[w].ongoing_game
      PROVE  OwnCode(c, w)'
  <2>1. CASE w = u
    <3>1. req[u].step = "own" /\ users'[u].ongoing_game = req[u].code
      BY <1>4, <2>1 DEF CodeEffect
    <3>2. req[u].code \in drawn /\ req[u].doc = NONE
      BY <3>1 DEF ServerInv, SetupInv, SettingUp, RequestInv, DocSteps
    <3>3. OwnedBy(req[u].code, u)
      BY <3>1, <3>2 DEF ServerInv, SetupInv, SettingUp, OwnedBy, UnjoinedDoc, Unjoined, OwnedDoc
    <3>4. OwnCode(c, u) BY <1>4, <2>1, <3>1, <3>2, <3>3 DEF OwnCode
    <3> QED BY <2>1, <3>4, <1>1
  <2>2. CASE w # u
    <3>1. req[w].step = "reread" /\ c \in {users[w].ongoing_game, EMPTY}
      BY <1>4, <2>2 DEF CodeEffect, GamesEffect
    <3>2. OwnCode(users[w].ongoing_game, w) BY <3>1 DEF InviteInv
    <3>3. OwnCode(EMPTY, w) BY <1>0 DEF OwnCode
    <3> QED BY <1>1, <3>1, <3>2, <3>3
  <2> QED BY <2>1, <2>2
<1>5. ASSUME NEW w \in User, req'[w].step = "invite", NEW c, c = req'[w].code PROVE OwnCode(c, w)'
  <2>1. OwnCode(c, w)
    BY <1>5 DEF CodeEffect, GamesEffect, InviteInv
  <2> QED BY <1>1, <2>1
<1> QED BY <1>2, <1>3, <1>4, <1>5 DEF InviteInv, OwnInvites, OwnCode, OwnedBy, OwnedDoc, Running
-----------------------------------------------------------------------------
\* The three together.
Effects(u) == GamesEffect(u) /\ MailEffect(u) /\ CodeEffect(u)

\* Sending a request writes no document.
LEMMA SendEffects ==
  ASSUME ServerInv, NEW u \in User, Send(u) PROVE Effects(u)
<1>1. PICK route \in Routes, code \in Code \cup {NONE}, peer \in Player \cup {NONE} :
         Ask(u, route, code, peer)
  BY DEF Send, Routes, Player, Machine
<1>2. FirstStep[route] \notin {"reread", "invite"}
  BY DEF FirstStep, Routes
<1>3. UNCHANGED <<users, games, drawn>> /\ \A w \in User : w # u => req'[w] = req[w]
  BY <1>1 DEF Ask, ServerInv, TypeOK
<1>4. req'[u].doc = NONE /\ req'[u].mail = NONE /\ req'[u].step = FirstStep[route]
  BY <1>1 DEF Ask, ServerInv, TypeOK
<1> QED BY <1>2, <1>3, <1>4 DEF Effects, GamesEffect, MailEffect, CodeEffect

\* The request goes on to one of the steps, with what it had or with less.
Goes(u, steps) ==
  /\ \A w \in User \ {u} : req'[w] = req[w]
  /\ req'[u].step \in steps
  /\ req'[u].doc = NONE \/ (req'[u].doc = req[u].doc /\ req'[u].code = req[u].code)
  /\ req'[u].mail \in {NONE, req[u].mail}

\* What the three ways to end a step do with the request.
LEMMA GoesOn ==
  ASSUME ServerInv, NEW u \in User
  PROVE  /\ Reply(u) => Goes(u, {"idle"})
         /\ \A step : Goto(u, step) => Goes(u, {step})
         /\ ReturnTo(u) => Goes(u, {"idle", "dropinvite"})
<1>1. req \in [User -> Request] /\ req[u] \in Request BY DEF ServerInv, TypeOK
<1>2. Reply(u) => Goes(u, {"idle"}) BY <1>1 DEF Reply, Goes, Idle
<1>3. ASSUME NEW step, Goto(u, step) PROVE Goes(u, {step})
  BY <1>1, <1>3 DEF Goto, Goes, Request
<1>4. ReturnTo(u) => Goes(u, {"idle", "dropinvite"})
  BY <1>2, <1>3 DEF ReturnTo, Goes
<1> QED BY <1>2, <1>3, <1>4

\* Steps that leave the invites alone, and take nobody into a game but the user.
Untouched(u) ==
  \A w \in User : /\ users'[w].invites = users[w].invites
                  /\ w # u => users'[w].ongoing_game \in {users[w].ongoing_game, EMPTY}

\* A handler takes its own user into a game, any other user only out of one.
LEMMA OngoingEffect ==
  ASSUME ServerInv, NEW u \in User, NEW w \in User, NEW code \in Code \cup {EMPTY},
         PutOngoing(w, code), w # u => code = EMPTY
  PROVE  Untouched(u) /\ users'[w].ongoing_game = code
<1>1. users \in UserDocs BY RequestFacts
<1> QED BY <1>1 DEF PutOngoing, Untouched, UserDocs

\* Such a step neither invites nor is about to.
LEMMA PlainEffect ==
  ASSUME NEW u \in User, Goes(u, Steps \ {"reread", "invite"}), Untouched(u)
  PROVE  MailEffect(u) /\ CodeEffect(u)
BY DEF Goes, Untouched, MailEffect, CodeEffect

\* A write of the user's game, with a document that was made from one of its versions.
LEMMA GamesWritten ==
  ASSUME ServerInv, NEW u \in User, NEW d, PutGame(u, d) \/ UNCHANGED games, Written(u, d),
         UNCHANGED drawn, Goes(u, Steps)
  PROVE  GamesEffect(u)
<1>1. games \in [Code -> Document \cup {NONE}] /\ drawn \subseteq Code BY DEF ServerInv, TypeOK
<1>2. \A c \in drawn : games'[c] = games[c] \/ (c = req[u].code /\ games'[c] = d)
  BY <1>1 DEF PutGame
<1> QED BY <1>2 DEF GamesEffect, Goes, Written

\* Deleting a game writes no version of it.
LEMMA NothingWritten == ASSUME NEW u \in User PROVE Written(u, NONE)
BY DEF Written
-----------------------------------------------------------------------------
\* The handlers that read a game document.
LEMMA ReadGameEffects ==
  ASSUME ServerInv, NEW u \in User, NEW step \in DocSteps, UNCHANGED <<users, games, drawn>>,
         Exists(u), req[u].code \in Code,
         req' = [req EXCEPT ![u] = [@ EXCEPT !.step = step, !.doc = games[req[u].code]]]
  PROVE  Effects(u)
<1>1. req \in [User -> Request] /\ req[u] \in Request BY DEF ServerInv, TypeOK
<1>2. /\ req'[u].step = step /\ req'[u].doc = games[req[u].code]
      /\ req'[u].code = req[u].code /\ req'[u].mail = req[u].mail
      /\ \A w \in User \ {u} : req'[w] = req[w]
  BY <1>1 DEF Request
<1>3. step \notin {"reread", "invite"} BY DEF DocSteps
<1>4. req[u].code \in Running BY DEF Exists, Running
<1> QED BY <1>2, <1>3, <1>4 DEF Effects, GamesEffect, MailEffect, CodeEffect

\* The steps that write neither games nor invites, nor read any.
LEMMA QuietEffects ==
  ASSUME ServerInv, NEW u \in User, UNCHANGED <<games, drawn>>, Untouched(u),
         \/ Reply(u) \/ ReturnTo(u)
         \/ \E step \in Steps \ {"reread", "invite"} : Goto(u, step)
  PROVE  Effects(u)
<1>1. Goes(u, Steps \ {"reread", "invite"}) BY GoesOn DEF Goes, Steps
<1>2. Goes(u, Steps) BY <1>1 DEF Goes
<1> QED BY <1>1, <1>2, PlainEffect, GamesWritten, NothingWritten DEF Effects

\* The steps of create_new_game: no invite names the game yet.
LEMMA CreateEffects ==
  ASSUME ServerInv, NEW u \in User, Create(u) PROVE Effects(u)
<1>1. req \in [User -> Request] /\ req[u] \in Request /\ games \in [Code -> Document \cup {NONE}]
  BY DEF ServerInv, TypeOK
<1>2. req[u].doc = NONE BY RequestFacts DEF Create, RequestInv, DocSteps
<1>3. /\ req'[u].step = "own" /\ req'[u].doc = NONE /\ req'[u].mail = req[u].mail
      /\ \A w \in User \ {u} : req'[w] = req[w]
  BY <1>1, <1>2 DEF Create, Request
<1>4. drawn \subseteq drawn' /\ \A c \in drawn : games'[c] = games[c]
  BY <1>1, RequestFacts DEF Create
<1> QED BY <1>3, <1>4 DEF Create, Effects, GamesEffect, MailEffect, CodeEffect

LEMMA OwnEffects ==
  ASSUME ServerInv, NEW u \in User, Own(u) PROVE Effects(u)
<1>1. req[u].code \in Code BY RequestFacts DEF Own, RequestInv, GameSteps, SettingUp
<1>2. Untouched(u) /\ users'[u].ongoing_game = req[u].code BY <1>1, OngoingEffect DEF Own
<1>3. CASE Goto(u, "reread")
  <2>1. Goes(u, {"reread"}) BY <1>3, GoesOn
  <2> QED BY <1>2, <2>1 DEF Own, Effects, GamesEffect, MailEffect, CodeEffect, Goes, Untouched
<1>4. CASE Reply(u) \/ Goto(u, "machine")
  BY <1>2, <1>4, QuietEffects DEF Own, Steps
<1> QED BY <1>3, <1>4 DEF Own

\* The handlers that read and write user documents.
LEMMA UserEffects ==
  ASSUME ServerInv, NEW u \in User,
         \/ ReadInvitee(u) \/ ReadToCancel(u) \/ ReadInvites(u) \/ ReadMyGame(u) \/ Reread(u)
  PROVE  Effects(u)
<1>1. req \in [User -> Request] /\ req[u] \in Request BY DEF ServerInv, TypeOK
<1>2. req[u].doc = NONE
  BY RequestFacts DEF ReadInvitee, ReadToCancel, ReadInvites, ReadMyGame, Reread, RequestInv, DocSteps
<1>3. UNCHANGED <<users, games, drawn>>
  BY DEF ReadInvitee, ReadToCancel, ReadInvites, ReadMyGame, Reread
<1>4. CASE Reply(u)
  BY <1>3, <1>4, QuietEffects DEF Untouched
<1> DEFINE Changed == /\ \A w \in User \ {u} : req'[w] = req[w]
                      /\ req'[u].doc = NONE
                      /\ req'[u].mail = req[u].mail
                         \/ \E w \in User : req'[u].mail = users[w].invites
                      /\ req'[u].step # "reread"
                      /\ req'[u].step = "invite" =>
                           req[u].step = "reread" /\ req'[u].code = users[u].ongoing_game
<1>5. Changed => Effects(u)
  BY <1>3 DEF Effects, GamesEffect, MailEffect, CodeEffect
<1>6. ~ReadMyGame(u) => req[u].peer \in User
  BY RequestFacts DEF ReadInvitee, ReadToCancel, ReadInvites, Reread, RequestInv, PeerSteps
<1>7. CASE ReadInvitee(u) /\ ~Reply(u)
  <2> DEFINE mail == users[req[u].peer].invites
  <2>1. req' = [req EXCEPT ![u] = [@ EXCEPT !.step = "inviter", !.mail = mail]] BY <1>7 DEF ReadInvitee
  <2>2. ~ReadMyGame(u) BY <1>7 DEF ReadInvitee, ReadMyGame
  <2>3. \E w \in User : mail = users[w].invites BY <1>6, <2>2
  <2> HIDE DEF mail
  <2>4. Changed BY <1>1, <1>2, <2>1, <2>3 DEF Request
  <2> QED BY <1>5, <2>4
<1>8. CASE ReadToCancel(u) /\ ~Reply(u)
  <2> DEFINE mail == users[req[u].peer].invites
  <2>1. req' = [req EXCEPT ![u] = [@ EXCEPT !.step = "withdraw", !.mail = mail]] BY <1>8 DEF ReadToCancel
  <2>2. ~ReadMyGame(u) BY <1>8 DEF ReadToCancel, ReadMyGame
  <2>3. \E w \in User : mail = users[w].invites BY <1>6, <2>2
  <2> HIDE DEF mail
  <2>4. Changed BY <1>1, <1>2, <2>1, <2>3 DEF Request
  <2> QED BY <1>5, <2>4
<1>9. CASE ReadInvites(u) /\ ~Reply(u)
  <2> DEFINE mail == users[u].invites
             code == mail[req[u].peer]
  <2>1. PICK next \in {"join", "dropinvite", "delete"} :
          req' = [req EXCEPT ![u] = [@ EXCEPT !.step = next, !.code = code, !.mail = mail]]
    BY <1>9 DEF ReadInvites
  <2>2. \E w \in User : mail = users[w].invites OBVIOUS
  <2> HIDE DEF mail, code
  <2>3. Changed BY <1>1, <1>2, <2>1, <2>2 DEF Request
  <2> QED BY <1>5, <2>3
<1>10. CASE ReadMyGame(u) /\ ~Reply(u)
  <2> DEFINE code == users[u].ongoing_game
  <2>1. req' = [req EXCEPT ![u] = [@ EXCEPT !.step = "delete", !.code = code]]
    BY <1>10 DEF ReadMyGame
  <2> HIDE DEF code
  <2>2. Changed BY <1>1, <1>2, <2>1 DEF Request
  <2> QED BY <1>5, <2>2
<1>11. Reread(u) => Changed BY <1>1, <1>2 DEF Reread, Request
<1> QED BY <1>4, <1>5, <1>7, <1>8, <1>9, <1>10, <1>11

\* The three handlers that write a map of invites put in their own or take one out.
LEMMA MailEffects ==
  ASSUME ServerInv, NEW u \in User, Invite(u) \/ Withdraw(u) \/ DropInvite(u)
  PROVE  Effects(u)
<1>1. users \in UserDocs /\ req[u] \in Request /\ RequestInv(req[u]) BY RequestFacts
<1>2. req[u].mail \in Invites /\ req[u].mail # NONE /\ req[u].peer \in User
  BY <1>1 DEF Invite, Withdraw, DropInvite, RequestInv, MailSteps, PeerSteps, Request
<1>3. UNCHANGED <<games, drawn>> /\ Goes(u, {"idle", "mygame"})
  BY GoesOn DEF Invite, Withdraw, DropInvite, Goes
<1>4. GamesEffect(u)
  BY <1>3 DEF GamesEffect, Goes
<1>5. CodeEffect(u)
  BY <1>1, <1>3 DEF Invite, Withdraw, DropInvite, PutInvites, UserDocs, CodeEffect, Goes
<1>6. \E w \in User, mail \in Invites :
        /\ PutInvites(w, mail)
        /\ \A v \in User : \/ mail[v] = NONE \/ mail[v] = req[u].mail[v]
                           \/ v = u /\ req[u].step = "invite" /\ mail[v] = req[u].code
  <2>1. CASE Invite(u)
    <3>1. req[u].code \in Code \cup {EMPTY, NONE} BY <1>1 DEF Request
    <3>2. [req[u].mail EXCEPT ![u] = req[u].code] \in Invites BY <1>2, <3>1 DEF Invites
    <3> QED BY <1>2, <2>1, <3>2 DEF Invite, Invites
  <2>2. CASE Withdraw(u)
    <3>2. [req[u].mail EXCEPT ![u] = NONE] \in Invites BY <1>2 DEF Invites
    <3> QED BY <1>2, <2>2, <3>2 DEF Withdraw, Invites
  <2>3. CASE DropInvite(u)
    <3>2. [req[u].mail EXCEPT ![req[u].peer] = NONE] \in Invites BY <1>2 DEF Invites
    <3> QED BY <1>2, <2>3, <3>2 DEF DropInvite, Invites
  <2> QED BY <2>1, <2>2, <2>3
<1>7. MailEffect(u)
  BY <1>1, <1>2, <1>3, <1>6 DEF PutInvites, UserDocs, MailEffect, Goes
<1> QED BY <1>4, <1>5, <1>7 DEF Effects
-----------------------------------------------------------------------------
\* The documents the handlers write are made from the versions they have.
LEMMA DocumentsWritten ==
  ASSUME ServerInv, NEW u \in User, NEW d, PutGame(u, d), UNCHANGED <<users, drawn>>, Written(u, d),
         Reply(u) \/ ReturnTo(u) \/ Goto(u, "putprev") \/ Goto(u, "leave")
  PROVE  Effects(u)
<1>1. Goes(u, Steps \ {"reread", "invite"}) BY GoesOn DEF Goes, Steps
<1>2. Goes(u, Steps) BY <1>1 DEF Goes
<1>3. Untouched(u) BY DEF Untouched
<1> QED BY <1>1, <1>2, <1>3, PlainEffect, GamesWritten DEF Effects

\* What is known of the owner of a game that is read or held.
LEMMA OwnerKnown ==
  ASSUME ServerInv, NEW u \in User, NEW v, OwnedBy(req[u].code, v)
  PROVE  /\ req[u].doc # NONE => req[u].doc \in Document /\ OwnedDoc(req[u].doc, v)
         /\ req[u].code \in Code /\ Exists(u) =>
              games[req[u].code] \in Document /\ OwnedDoc(games[req[u].code], v)
BY RequestFacts DEF OwnedBy, Running, Exists, Request

\* Each step that writes a document of the game, by the version it is made from.
LEMMA SeatMachineEffects ==
  ASSUME ServerInv, NEW u \in User, SeatMachine(u) PROVE Effects(u)
<1>1. req[u].code \in Code BY RequestFacts DEF SeatMachine, RequestInv, GameSteps, SettingUp
<1>2. CASE Exists(u)
  <2>1. PICK p : games' = [games EXCEPT ![req[u].code].state =
                             [@ EXCEPT !.player2_id = p, !.players_joined = 2]]
    BY <1>2 DEF SeatMachine
  <2> DEFINE g == games[req[u].code]
             d == [g EXCEPT !.state = [@ EXCEPT !.player2_id = p, !.players_joined = 2]]
  <2>2. g \in Document /\ games \in [Code -> Document \cup {NONE}]
    BY <1>1, <1>2, RequestFacts DEF Exists, ServerInv, TypeOK
  <2>3. PutGame(u, d) BY <1>1, <2>1, <2>2 DEF PutGame
  <2>4. ASSUME NEW v \in User, OwnedDoc(g, v) PROVE OwnedDoc(d, v)
    BY <2>2, <2>4 DEF OwnedDoc, Document, Position
  <2>5. Written(u, d) BY <1>1, <1>2, <2>4, OwnerKnown DEF Written
  <2> QED BY <2>3, <2>5, DocumentsWritten DEF SeatMachine
<1>3. CASE ~Exists(u)
  BY <1>3, QuietEffects DEF SeatMachine, Untouched
<1> QED BY <1>2, <1>3

LEMMA SeatEffects ==
  ASSUME ServerInv, NEW u \in User, Seat(u) PROVE Effects(u)
<1> DEFINE d == [req[u].doc EXCEPT !.state = [@ EXCEPT !.player2_id = u, !.players_joined = 2]]
<1>1. req[u].doc # NONE BY RequestFacts DEF Seat, RequestInv, DocSteps
<1>2. ASSUME NEW doc \in Document, NEW v \in User, OwnedDoc(doc, v)
      PROVE  OwnedDoc([doc EXCEPT !.state = [@ EXCEPT !.player2_id = u, !.players_joined = 2]], v)
  BY <1>2 DEF OwnedDoc, Document, Position
<1>3. Written(u, d) BY <1>1, <1>2, OwnerKnown DEF Written
<1> QED BY <1>3, DocumentsWritten DEF Seat

LEMMA PutStatusEffects ==
  ASSUME ServerInv, NEW u \in User, PutStatus(u) PROVE Effects(u)
<1>1. req[u].code \in Code BY RequestFacts DEF PutStatus, RequestInv, GameSteps
<1>2. CASE Exists(u)
  <2> DEFINE g == games[req[u].code]
             status == [kind |-> "R", by |-> u]
             d == [g EXCEPT !.state = [@ EXCEPT !.game_status = status]]
  <2>1. g \in Document /\ games \in [Code -> Document \cup {NONE}]
    BY <1>1, <1>2, RequestFacts DEF Exists, ServerInv, TypeOK
  <2> HIDE DEF status
  <2>2. games' = [games EXCEPT ![req[u].code].state.game_status = status]
    BY <1>2 DEF PutStatus, status
  <2>3. PutGame(u, d) BY <1>1, <2>1, <2>2 DEF PutGame
  <2>4. ASSUME NEW v \in User, OwnedDoc(g, v) PROVE OwnedDoc(d, v)
    BY <2>1, <2>4 DEF OwnedDoc, Document, Position
  <2>5. Written(u, d) BY <1>1, <1>2, <2>4, OwnerKnown DEF Written
  <2> QED BY <1>2, <2>3, <2>5, DocumentsWritten DEF PutStatus
<1>3. CASE ~Exists(u)
  BY <1>3, QuietEffects DEF PutStatus, Untouched
<1> QED BY <1>2, <1>3

LEMMA PutMoveEffects ==
  ASSUME ServerInv, NEW u \in User, PutMove(u) PROVE Effects(u)
<1>1. req[u].doc # NONE BY RequestFacts DEF PutMove, RequestInv, DocSteps
<1>2. PICK mate \in BOOLEAN :
        PutGame(u, [state |-> Moved(req[u].doc.state, req[u].peer, mate), prev_state |-> NONE])
  BY DEF PutMove
<1> DEFINE moved == Moved(req[u].doc.state, req[u].peer, mate)
           d == [state |-> moved, prev_state |-> NONE]
<1>3. req[u].doc.state \in Position BY <1>1, RequestFacts DEF Request, Document
<1>4. moved.player1_id = req[u].doc.state.player1_id BY <1>3 DEF Moved, Position
<1> HIDE DEF moved
<1>5. Written(u, d) BY <1>1, <1>4, OwnerKnown DEF Written, OwnedDoc
<1>6. PutGame(u, d) BY <1>2 DEF moved
<1> QED BY <1>5, <1>6, DocumentsWritten DEF PutMove

LEMMA PutPrevEffects ==
  ASSUME ServerInv, NEW u \in User, PutPrev(u) PROVE Effects(u)
<1>1. req[u].code \in Code /\ req[u].doc # NONE
  BY RequestFacts DEF PutPrev, RequestInv, GameSteps, DocSteps
<1>2. CASE Exists(u)
  <2> DEFINE g == games[req[u].code]
             d == [g EXCEPT !.prev_state = req[u].doc.state]
  <2>1. g \in Document /\ games \in [Code -> Document \cup {NONE}]
    BY <1>1, <1>2, RequestFacts DEF Exists, ServerInv, TypeOK
  <2>2. PutGame(u, d) BY <1>1, <1>2, <2>1 DEF PutGame, PutPrev
  <2>3. ASSUME NEW v \in User, OwnedDoc(g, v), OwnedDoc(req[u].doc, v) PROVE OwnedDoc(d, v)
    BY <2>1, <2>3 DEF OwnedDoc, Document
  <2>4. Written(u, d) BY <1>1, <1>2, <2>3, OwnerKnown DEF Written
  <2> QED BY <2>2, <2>4, DocumentsWritten DEF PutPrev
<1>3. CASE ~Exists(u)
  BY <1>3, QuietEffects DEF PutPrev, Untouched
<1> QED BY <1>2, <1>3

LEMMA RestoreEffects ==
  ASSUME ServerInv, NEW u \in User, Restore(u) PROVE Effects(u)
<1> DEFINE d == [state |-> req[u].doc.prev_state, prev_state |-> NONE]
<1>1. req[u].doc # NONE /\ req[u].doc.prev_state # NONE
  BY RequestFacts DEF Restore, RequestInv, DocSteps
<1>2. Written(u, d) BY <1>1, OwnerKnown DEF Written, OwnedDoc
<1> QED BY <1>2, DocumentsWritten DEF Restore

\* Every access of every handler has the three effects.
LEMMA HandleEffects ==
  ASSUME ServerInv, NEW u \in User, Handle(u) PROVE Effects(u)
<1>1. CASE \/ Create(u) \/ Own(u) \/ SeatMachine(u) \/ Seat(u) \/ PutStatus(u) \/ PutMove(u)
           \/ PutPrev(u) \/ Restore(u)
  BY <1>1, CreateEffects, OwnEffects, SeatMachineEffects, SeatEffects, PutStatusEffects,
     PutMoveEffects, PutPrevEffects, RestoreEffects
<1>2. CASE \/ ReadInvitee(u) \/ ReadToCancel(u) \/ ReadInvites(u) \/ ReadMyGame(u) \/ Reread(u)
           \/ Invite(u) \/ Withdraw(u) \/ DropInvite(u)
  BY <1>2, UserEffects, MailEffects
<1>3. CASE Erase(u)
  BY <1>3, NothingWritten, DocumentsWritten DEF Erase
<1>4. CASE ReadToJoin(u) \/ ReadToDelete(u) \/ ReadToMove(u) \/ ReadPrev(u)
  <2>1. req[u].code \in Code
    BY <1>4, RequestFacts DEF ReadToJoin, ReadToDelete, ReadToMove, ReadPrev, RequestInv, GameSteps
  <2>2. UNCHANGED <<users, games, drawn>> /\ Untouched(u)
    BY <1>4 DEF ReadToJoin, ReadToDelete, ReadToMove, ReadPrev, Untouched
  <2>3. CASE Reply(u) \/ ReturnTo(u) BY <2>2, <2>3, QuietEffects
  <2>4. ASSUME ~(Reply(u) \/ ReturnTo(u))
        PROVE  Exists(u) /\ \E step \in DocSteps :
          req' = [req EXCEPT ![u] = [@ EXCEPT !.step = step, !.doc = games[req[u].code]]]
    BY <1>4, <2>4 DEF ReadToJoin, ReadToDelete, ReadToMove, ReadPrev, DocSteps
  <2> QED BY <2>1, <2>2, <2>3, <2>4, ReadGameEffects
<1>5. CASE Sit(u) \/ ClearFirst(u) \/ ClearSecond(u) \/ Leave(u)
  <2>1. UNCHANGED <<games, drawn>> BY <1>5 DEF Sit, ClearFirst, ClearSecond, Leave
  <2>2. Reply(u) \/ ReturnTo(u) \/ \E step \in Steps \ {"reread", "invite"} : Goto(u, step)
    BY <1>5 DEF Sit, ClearFirst, ClearSecond, Leave, Steps
  <2>3. Untouched(u)
    <3>1. CASE Sit(u)
      <4>1. req[u].code \in Code BY <3>1, RequestFacts DEF Sit, RequestInv, GameSteps
      <4> QED BY <3>1, <4>1, OngoingEffect DEF Sit
    <3>2. CASE ClearFirst(u)
      <4>1. req[u].doc \in Document
        BY <3>2, RequestFacts DEF ClearFirst, RequestInv, DocSteps, Request
      <4>2. req[u].doc.state.player1_id \in User BY <4>1 DEF Document, Position
      <4> QED BY <3>2, <4>2, OngoingEffect DEF ClearFirst
    <3>3. CASE ClearSecond(u)
      BY <3>3, OngoingEffect DEF ClearSecond, Untouched
    <3>4. CASE Leave(u)
      BY <3>4, OngoingEffect DEF Leave
    <3> QED BY <1>5, <3>1, <3>2, <3>3, <3>4
  <2> QED BY <2>1, <2>2, <2>3, QuietEffects
<1>6. CASE ReadInviter(u) \/ ReadToResign(u)
  BY <1>6, QuietEffects DEF ReadInviter, ReadToResign, Untouched, Steps
<1> QED BY <1>1, <1>2, <1>3, <1>4, <1>5, <1>6 DEF Handle

\* An invite never names a game of a third player, nor one in which its sender is a
\* guest, however many invites, games and answers overlap (chess_server.py 386-462).
THEOREM InvitesAlwaysName == Spec => []InviteNamesOwnGame
<1>1. Init => InviteInv
  <2> SUFFICES ASSUME Init PROVE InviteInv OBVIOUS
  <2>1. \A u \in User : req[u].mail = NONE /\ req[u].step = "idle" BY DEF Init, Idle
  <2>2. \A u, v \in User : users[u].invites[v] = NONE BY DEF Init
  <2> QED BY <2>1, <2>2, CodesAssumption DEF InviteInv, OwnInvites, OwnCode
<1>2. ServerInv /\ ServerInv' /\ InviteInv /\ [Next]_vars => InviteInv'
  <2> SUFFICES ASSUME ServerInv, ServerInv', InviteInv, [Next]_vars PROVE InviteInv' OBVIOUS
  <2>1. CASE Next
    BY <2>1, SendEffects, HandleEffects, InvitesKept DEF Next, Effects
  <2>2. CASE UNCHANGED vars
    BY <2>2 DEF vars, InviteInv, OwnInvites, OwnCode, OwnedBy, Running
  <2> QED BY <2>1, <2>2
<1>3. InviteInv => InviteNamesOwnGame
  BY DEF InviteInv, OwnInvites, OwnCode, OwnedBy, OwnedDoc, InviteNamesOwnGame, Running
<1> QED BY <1>1, <1>2, <1>3, ServerInvariant, PTL DEF Spec
=============================================================================
