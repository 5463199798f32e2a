------------------------------- MODULE AppFsm -------------------------------
(***************************************************************************)
(* The control thread of a board (FSM.cpp): one handler per state, called  *)
(* again as long as the state stays, and the threads it adds to poll the   *)
(* server while it waits for an invite, for an invited friend or for an    *)
(* opponent.  The kernel has room for one thread beside the four that main *)
(* adds.  A waiting thread releases its semaphore once and kills itself;   *)
(* the control thread polls the semaphore and the buttons, and kills the   *)
(* waiting thread when the player gives up.                                *)
(*                                                                         *)
(* Of the game and of the server only what the handlers ask about is kept. *)
(***************************************************************************)
EXTENDS Naturals

VARIABLES
  curState,
  pc,              \* how far the handler of curState has got
  isGameRunning, isLocalGame,
  waiter,          \* the thread in the fifth slot: what it waits for, its pc
  tokens,          \* the semaphores inviteSem, waitingForFriendSem, waitingForOpponentSem
  incomingInvite,  \* whether the invite that was last read is one
  game,            \* the kind of the game the board's code stands for, if it stands for one
  ongoing,         \* the kind of the game the server has the board in
  joined,          \* whether the opponent has joined it
  invited,         \* whether somebody's invite waits for an answer
  offered,         \* whether an invite of this player's waits for one
  late,            \* history: a waiting thread was killed after its release
  adrift           \* history: board and server disagree on the game

server == <<ongoing, joined, invited, offered>>
waiting == <<waiter, tokens, incomingInvite>>
flags == <<isGameRunning, isLocalGame>>
vars == <<curState, pc, flags, waiting, game, server, late, adrift>>

Awaited == {"invite", "friend", "opponent"}
Kinds == {"none", "remote", "local", "cpu"}
WaitState == [invite |-> "NOGAME", friend |-> "FRIENDS_SELECT_INVITE", opponent |-> "CREATE"]
Found == [invite |-> "INCOMING_INVITE", friend |-> "DOWNLOAD_CURRENT_GAME",
          opponent |-> "DOWNLOAD_CURRENT_GAME"]
GivenUp == [invite |-> "MAIN_MENU", friend |-> "FRIENDS_SELECT", opponent |-> "JOIN_CREATE"]

\* The menus, with the states their selections lead to and nothing else.
Menus ==
  [JOIN_CREATE |-> {"JOIN", "SELECT_GAME_TYPE", "CPU_GAME", "MAIN_MENU"},
   SELECT_GAME_TYPE |-> {"CREATE", "MAIN_MENU"},
   JOIN |-> {"JOIN_CREATE"},
   FRIENDS |-> {"FRIENDS_ADD", "FRIENDS_SELECT", "MAIN_MENU"},
   FRIENDS_ADD |-> {"FRIENDS"},
   FRIENDS_SELECT |-> {"FRIENDS_SELECT_INVITE", "FRIENDS_SELECT_REMOVE", "FRIENDS"},
   FRIENDS_SELECT_REMOVE |-> {"FRIENDS"},
   SETTINGS |-> {"SETTINGS_BRIGHTNESS", "SETTINGS", "MAIN_MENU"},
   SETTINGS_BRIGHTNESS |-> {"SETTINGS"},
   RESIGN |-> {"INGAME"},
   INGAME |-> {"MAIN_MENU", "RESIGN"}]
AsksFirst == {"INITIAL_CONNECTION", "DOWNLOAD_CURRENT_GAME", "MAIN_MENU", "FRIENDS",
              "FRIENDS_SELECT_INVITE", "CREATE", "CPU_GAME"}
AsksLater == {"JOIN", "FRIENDS_ADD", "FRIENDS_SELECT_REMOVE", "INCOMING_INVITE", "RESIGN", "INGAME"}
State == DOMAIN Menus \cup AsksFirst \cup AsksLater \cup {"NOGAME"}

Entry(s) == CASE s \in AsksFirst -> "asking"
              [] s = "NOGAME" -> "adding"
              [] OTHER -> "choosing"
Enter(s) == curState' = s /\ pc' = Entry(s)
At(s, step) == curState = s /\ pc = step
Goto(step) == pc' = step /\ UNCHANGED curState

\* The kind of game the board was in when it was switched on is the server's.
Init ==
  /\ curState = "INITIAL_CONNECTION" /\ pc = "asking"
  /\ isGameRunning = FALSE /\ isLocalGame = FALSE
  /\ waiter = [awaits |-> "none", pc |-> "dead"]
  /\ tokens = [k \in Awaited |-> 0]
  /\ incomingInvite = FALSE
  /\ game = "none" /\ ongoing \in Kinds
  /\ joined \in BOOLEAN /\ invited \in BOOLEAN /\ offered \in BOOLEAN
  /\ late = FALSE /\ adrift = FALSE
-----------------------------------------------------------------------------
\* InitialConnection; no answer counts as no game.
InitialConnection ==
  /\ At("INITIAL_CONNECTION", "asking")
  /\ \/ ongoing # "none" /\ game' = ongoing /\ Enter("DOWNLOAD_CURRENT_GAME")
     \/ Enter("NOGAME") /\ UNCHANGED game
  /\ UNCHANGED <<flags, waiting, server, late, adrift>>

\* The flag is never reset here, and without an answer the kind of game it is
\* set from is not initialised.
DownloadCurrentGame ==
  /\ At("DOWNLOAD_CURRENT_GAME", "asking")
  /\ \/ isLocalGame' = (isLocalGame \/ game = "local") /\ UNCHANGED adrift
     \/ isLocalGame' \in {isLocalGame, TRUE} /\ adrift' = TRUE
  /\ isGameRunning' = TRUE
  /\ Enter("INGAME")
  /\ UNCHANGED <<waiting, game, server, late>>

Main_Menu ==
  /\ At("MAIN_MENU", "choosing")
  /\ \E s \in IF isGameRunning THEN {"FRIENDS", "SETTINGS", "INGAME"}
              ELSE {"JOIN_CREATE", "FRIENDS", "SETTINGS", "NOGAME"} : Enter(s)
  /\ UNCHANGED <<flags, waiting, game, server, late, adrift>>

Choose ==
  /\ curState \in DOMAIN Menus /\ pc = "choosing"
  /\ \E s \in Menus[curState] : Enter(s)
  /\ UNCHANGED <<flags, waiting, game, server, late, adrift>>

\* What the player selects or does has the handler send a request.
Ask ==
  /\ curState \in AsksLater /\ pc = "choosing"
  /\ \/ Goto("asking")
     \/ curState = "INCOMING_INVITE" /\ Goto("declining")
  /\ UNCHANGED <<flags, waiting, game, server, late, adrift>>

\* Answers that are shown, or lead on whatever they say.
Shown ==
  /\ pc = "asking"
  /\ \/ curState \in {"MAIN_MENU", "FRIENDS", "INGAME"} /\ Goto("choosing")
     \/ curState \in {"FRIENDS", "FRIENDS_ADD"} /\ Enter(curState)
     \/ curState = "FRIENDS_SELECT_REMOVE" /\ Enter("FRIENDS")
  /\ UNCHANGED <<flags, waiting, game, server, late, adrift>>
-----------------------------------------------------------------------------
\* A game the server puts the board in, of which it is told or not.
NewGame(kind, full) ==
  /\ game' = kind /\ ongoing' = kind /\ joined' = full
  /\ UNCHANGED <<invited, offered>>
NoAnswer(kind) ==
  /\ ongoing' \in {ongoing, kind}
  /\ UNCHANGED <<game, joined, invited, offered>>

CreateLocal ==
  /\ At("SELECT_GAME_TYPE", "choosing")
  /\ isLocalGame' = TRUE
  /\ Goto("asking")
  /\ UNCHANGED <<isGameRunning, waiting, game, server, late, adrift>>

LocalCreated ==
  /\ At("SELECT_GAME_TYPE", "asking")
  /\ \/ NewGame("local", TRUE) /\ UNCHANGED adrift
     \/ NoAnswer("local") /\ adrift' = TRUE
  /\ Enter("DOWNLOAD_CURRENT_GAME")
  /\ UNCHANGED <<flags, waiting, late>>

CPUGame ==
  /\ At("CPU_GAME", "asking")
  /\ \/ NewGame("cpu", TRUE) /\ Enter("DOWNLOAD_CURRENT_GAME")
     \/ NoAnswer("cpu") /\ Enter("JOIN_CREATE")
  /\ UNCHANGED <<flags, waiting, late, adrift>>

Create ==
  /\ At("CREATE", "asking")
  /\ \/ NewGame("remote", FALSE) /\ Goto("adding")
     \/ NoAnswer("remote") /\ Enter("JOIN_CREATE")
  /\ UNCHANGED <<flags, waiting, late, adrift>>

\* The server refuses a player whom it has in a game.
FriendsSelectInvite ==
  /\ At("FRIENDS_SELECT_INVITE", "asking")
  /\ \/ /\ ongoing = "none"
        /\ game' = "remote" /\ ongoing' = "remote" /\ joined' = FALSE /\ offered' = TRUE
        /\ Goto("adding")
     \/ /\ \/ UNCHANGED <<ongoing, offered>>
           \/ ongoing = "none" /\ ongoing' = "remote" /\ offered' \in {offered, TRUE}
        /\ Enter("FRIENDS_SELECT")
        /\ UNCHANGED <<game, joined>>
  /\ UNCHANGED <<flags, waiting, invited, late, adrift>>

\* The code that was typed is kept, whatever the answer.
Join ==
  /\ At("JOIN", "asking")
  /\ \/ NewGame("remote", TRUE) /\ Enter("DOWNLOAD_CURRENT_GAME")
     \/ /\ \/ game' = "none" /\ UNCHANGED <<ongoing, joined>>
           \/ game' = "remote" /\ ongoing' = "remote" /\ joined' = TRUE
        /\ Enter("JOIN_CREATE")
        /\ UNCHANGED <<invited, offered>>
  /\ UNCHANGED <<flags, waiting, late, adrift>>

\* A refused answer leaves the question on the display.
AcceptInvite ==
  /\ At("INCOMING_INVITE", "asking")
  /\ \/ /\ invited /\ invited' = FALSE
        /\ game' = "remote" /\ ongoing' \in {ongoing, "remote"} /\ joined' = TRUE
        /\ Enter("DOWNLOAD_CURRENT_GAME")
     \/ /\ invited' \in {invited, FALSE}
        /\ ongoing' \in {ongoing} \cup (IF invited /\ ~invited' THEN {"remote"} ELSE {})
        /\ Goto("choosing")
        /\ UNCHANGED <<game, joined>>
  /\ UNCHANGED <<flags, waiting, offered, late, adrift>>

DeclineInvite ==
  /\ At("INCOMING_INVITE", "declining")
  /\ \/ invited /\ invited' = FALSE /\ Enter("NOGAME")
     \/ Goto("choosing") /\ UNCHANGED invited
  /\ UNCHANGED <<flags, waiting, game, ongoing, joined, offered, late, adrift>>
-----------------------------------------------------------------------------
\* The game is over, or given up: InGame and Resign.
GameOver ==
  /\ At("INGAME", "asking")
  /\ Goto("leaving")
  /\ UNCHANGED <<flags, waiting, game, server, late, adrift>>

Resign ==
  /\ At("RESIGN", "asking")
  /\ Goto("leaving")
  /\ ongoing' = "none"
  /\ UNCHANGED <<flags, waiting, game, joined, invited, offered, late, adrift>>

LeaveGame ==
  /\ pc = "leaving"
  /\ \/ game' = "none" /\ ongoing' = "none"
     \/ ongoing' \in {"none", ongoing} /\ UNCHANGED game
  /\ isGameRunning' = FALSE
  /\ Enter("NOGAME")
  /\ UNCHANGED <<isLocalGame, waiting, joined, invited, offered, late, adrift>>
-----------------------------------------------------------------------------
\* NoGame, Create and FriendsSelectInvite add a thread that polls the server.
\* When there is no room for it the handler is called again.
\* Mutant: the flags are left to the next game.
AddWaiterOnly(k) ==
  /\ At(WaitState[k], "adding")
  /\ IF waiter.awaits = "none"
       THEN waiter' = [awaits |-> k, pc |-> "asleep"] /\ Goto("check")
       ELSE Enter(curState) /\ UNCHANGED waiter
  /\ UNCHANGED <<flags, tokens, incomingInvite, game, server, late, adrift>>

AddWaiter(k) ==
  /\ At(WaitState[k], "adding")
  /\ IF k = "invite" THEN isGameRunning' = FALSE /\ isLocalGame' = FALSE
                      ELSE UNCHANGED flags
  /\ IF waiter.awaits = "none"
       THEN waiter' = [awaits |-> k, pc |-> "asleep"] /\ Goto("check")
       ELSE Enter(curState) /\ UNCHANGED waiter
  /\ UNCHANGED <<tokens, incomingInvite, game, server, late, adrift>>

\* Mutant: the buttons are read before the semaphore.
CheckButtonsFirst(k) ==
  /\ At(WaitState[k], "check")
  /\ \/ /\ tokens[k] > 0
        /\ tokens' = [tokens EXCEPT ![k] = @ - 1]
        /\ Enter(Found[k])
     \/ Goto("buttons") /\ UNCHANGED tokens
  /\ UNCHANGED <<flags, waiter, incomingInvite, game, server, late, adrift>>

\* Mutant: the semaphore is looked at, not acquired.
CheckOnly(k) ==
  /\ At(WaitState[k], "check")
  /\ IF tokens[k] > 0 THEN Enter(Found[k]) ELSE Goto("buttons")
  /\ UNCHANGED <<flags, waiting, game, server, late, adrift>>

Check(k) ==
  /\ At(WaitState[k], "check")
  /\ IF tokens[k] > 0
       THEN tokens' = [tokens EXCEPT ![k] = @ - 1] /\ Enter(Found[k])
       ELSE Goto("buttons") /\ UNCHANGED tokens
  /\ UNCHANGED <<flags, waiter, incomingInvite, game, server, late, adrift>>

ReadButtons(k) ==
  /\ At(WaitState[k], "buttons")
  /\ \/ Goto("check")
     \/ Goto(IF k = "invite" THEN "killing" ELSE "deleting")
  /\ UNCHANGED <<flags, waiting, game, server, late, adrift>>

\* deleteGame.  Of a game that has not been joined the server only forgets
\* that its first player is in it.
DeleteGame ==
  /\ pc = "deleting"
  /\ Goto("killing")
  /\ \/ /\ joined /\ game # "none"
        /\ game' = "none" /\ ongoing' = "none"
     \/ ongoing' \in (IF joined \/ game = "none" THEN {ongoing} ELSE {"none", ongoing})
        /\ UNCHANGED game
  /\ UNCHANGED <<flags, waiting, joined, invited, offered, late, adrift>>

\* Mutant: the thread is left to itself.
LeaveWaiter(k) ==
  /\ At(WaitState[k], "killing")
  /\ late' = (late \/ tokens[k] > 0)
  /\ Enter(GivenUp[k])
  /\ UNCHANGED <<flags, waiting, game, server, adrift>>

KillWaiter(k) ==
  /\ At(WaitState[k], "killing")
  /\ waiter' = [awaits |-> "none", pc |-> "dead"]
  /\ late' = (late \/ tokens[k] > 0)
  /\ Enter(GivenUp[k])
  /\ UNCHANGED <<flags, tokens, incomingInvite, game, server, adrift>>
-----------------------------------------------------------------------------
\* WaitForInvite, WaitForFriend and WaitForOpponent.
Polls(k) == waiter = [awaits |-> k, pc |-> "polling"]
Poll ==
  /\ waiter.pc = "asleep"
  /\ waiter' = [waiter EXCEPT !.pc = "polling"]
  /\ UNCHANGED <<curState, pc, flags, tokens, incomingInvite, game, server, late, adrift>>

\* Mutant: any answer to awaitTurn will do.
ComesAnyhow(k) == IF k = "invite" THEN invited ELSE game # "none"

\* The answer the thread waits for; awaitTurn is about the game whose code
\* the board has, which need not be the one that was created.
Comes(k) == IF k = "invite" THEN invited ELSE game # "none" /\ joined

PollFinds(k) ==
  /\ Polls(k) /\ Comes(k)
  /\ waiter' = [waiter EXCEPT !.pc = "releasing"]
  /\ incomingInvite' = (k = "invite" \/ incomingInvite)
  /\ UNCHANGED <<curState, pc, flags, tokens, game, server, late, adrift>>

PollFails(k) ==
  /\ Polls(k)
  /\ waiter' = [waiter EXCEPT !.pc = "asleep"]
  /\ incomingInvite' = (k # "invite" /\ incomingInvite)
  /\ UNCHANGED <<curState, pc, flags, tokens, game, server, late, adrift>>

\* Mutant: two of the threads release the same semaphore.
ReleaseFriend ==
  /\ waiter.pc = "releasing"
  /\ tokens' = [tokens EXCEPT !["friend"] = @ + 1]
  /\ waiter' = [waiter EXCEPT !.pc = "ending"]
  /\ UNCHANGED <<curState, pc, flags, incomingInvite, game, server, late, adrift>>

Release ==
  /\ waiter.pc = "releasing"
  /\ tokens' = [tokens EXCEPT ![waiter.awaits] = @ + 1]
  /\ waiter' = [waiter EXCEPT !.pc = "ending"]
  /\ UNCHANGED <<curState, pc, flags, incomingInvite, game, server, late, adrift>>

\* Mutant: the thread goes on polling.
PollOn ==
  /\ waiter.pc = "ending"
  /\ waiter' = [waiter EXCEPT !.pc = "asleep"]
  /\ UNCHANGED <<curState, pc, flags, tokens, incomingInvite, game, server, late, adrift>>

KillSelf ==
  /\ waiter.pc = "ending"
  /\ waiter' = [awaits |-> "none", pc |-> "dead"]
  /\ UNCHANGED <<curState, pc, flags, tokens, incomingInvite, game, server, late, adrift>>
-----------------------------------------------------------------------------
\* What others do.  To decline an invite has the server forget the game its
\* sender is in, whichever that is by then.
OpponentJoins ==
  /\ game = "remote" /\ ~joined /\ joined' = TRUE
  /\ UNCHANGED <<curState, pc, flags, waiting, game, ongoing, invited, offered, late, adrift>>

InviteComesOrGoes ==
  /\ invited' = ~invited
  /\ UNCHANGED <<curState, pc, flags, waiting, game, ongoing, joined, offered, late, adrift>>

FriendDeclines ==
  /\ offered /\ offered' = FALSE
  /\ ongoing' = "none"
  /\ adrift' = (adrift \/ ongoing = "local")
  /\ UNCHANGED <<curState, pc, flags, waiting, game, joined, invited, late>>

Waiter == Poll \/ (\E k \in Awaited : PollFinds(k) \/ PollFails(k)) \/ Release \/ KillSelf
Control ==
  \/ InitialConnection \/ DownloadCurrentGame \/ Main_Menu \/ Choose \/ Ask \/ Shown
  \/ CreateLocal \/ LocalCreated \/ CPUGame \/ Create \/ FriendsSelectInvite \/ Join
  \/ AcceptInvite \/ DeclineInvite \/ GameOver \/ Resign \/ LeaveGame \/ DeleteGame
  \/ \E k \in Awaited : AddWaiter(k) \/ Check(k) \/ ReadButtons(k) \/ KillWaiter(k)
Others == OpponentJoins \/ InviteComesOrGoes \/ FriendDeclines

Next == Control \/ Waiter \/ Others
Spec == Init /\ [][Next]_vars

\* Both threads get the CPU, and a poll is not lost forever.
Fairness ==
  /\ \A k \in Awaited : /\ WF_vars(AddWaiter(k) \/ Check(k) \/ ReadButtons(k))
                       /\ SF_vars(PollFinds(k))
  /\ WF_vars(Waiter)
FairSpec == Spec /\ Fairness
-----------------------------------------------------------------------------
TypeOK ==
  /\ curState \in State
  /\ pc \in {"asking", "choosing", "declining", "leaving", "adding", "check", "buttons",
             "deleting", "killing"}
  /\ isGameRunning \in BOOLEAN /\ isLocalGame \in BOOLEAN /\ incomingInvite \in BOOLEAN
  /\ waiter \in [awaits : Awaited, pc : {"asleep", "polling", "releasing", "ending"}]
               \cup {[awaits |-> "none", pc |-> "dead"]}
  /\ tokens \in [Awaited -> 0..2]
  /\ game \in Kinds /\ ongoing \in Kinds
  /\ joined \in BOOLEAN /\ invited \in BOOLEAN /\ offered \in BOOLEAN
  /\ late \in BOOLEAN /\ adrift \in BOOLEAN

\* What a waiting thread has announced, or may still announce.
Pending(k) == tokens[k] + IF waiter.awaits = k /\ waiter.pc # "ending" THEN 1 ELSE 0

\* A thread that is killed too late leaves its release behind, and the next
\* one is left alive; but however often the player gives up waiting, of each
\* kind no more than one of the two is ever left.
NothingPilesUp == \A k \in Awaited : Pending(k) <= IF At(WaitState[k], "check") THEN 2 ELSE 1

\* As long as no thread was killed too late nothing is left behind at all,
\* so the two threads use the client's buffers, which no lock guards, one at
\* a time: but for the request that deletes the game, sent while the thread
\* still polls.
OneRequestAtATime ==
  ~late /\ waiter.pc = "polling" => pc \in {"check", "buttons", "deleting", "killing"}

\* "Semaphore released, opponent joined game": so it is, as long as no thread
\* was killed too late.
OpponentHasJoined ==
  \A k \in {"friend", "opponent"} :
    ~late /\ At(WaitState[k], "check") /\ tokens[k] > 0 => joined

\* The player is asked about an invite that was read.
QuestionNamesInvite == ~late /\ curState = "INCOMING_INVITE" => incomingInvite

\* The flag under which the board plays both sides says what game it is in,
\* through every path of menus, unless a request was lost on the way or a
\* friend declined an earlier invite.
LocalFlagTrue ==
  ~adrift /\ curState = "INGAME" => (isLocalGame <=> game = "local")

\* An invite, a friend or an opponent that the player waits for is noticed.
WaitEnds ==
  \A k \in Awaited :
    (At(WaitState[k], "check") /\ Comes(k)) ~>
      (curState # WaitState[k] \/ pc \in {"deleting", "killing"} \/ ~Comes(k))

\* The handler that waits for invites gets to read the buttons.
NoGameListens == (At("NOGAME", "adding") /\ ~late) ~> (pc # "adding" \/ late)
=============================================================================
