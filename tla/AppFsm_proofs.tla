--------------------------- MODULE AppFsm_proofs ---------------------------
(***************************************************************************)
(* What the waiting threads leave behind, whatever the player, the server  *)
(* and the other players do.  A step either leaves the waiting threads and *)
(* their semaphores alone and begins and ends outside a wait, or it is one *)
(* of the waits' own.  At the end, the flag of a game on one board.        *)
(***************************************************************************)
EXTENDS AppFsm, TLAPS

Waiting == pc \in {"check", "buttons", "deleting", "killing"}

StateTypes ==
  /\ curState \in State
  /\ pc \in {"asking", "choosing", "declining", "leaving", "adding", "check", "buttons",
             "deleting", "killing"}

WaitTypes ==
  /\ waiter \in [awaits : Awaited, pc : {"asleep", "polling", "releasing", "ending"}]
               \cup {[awaits |-> "none", pc |-> "dead"]}
  /\ tokens \in [Awaited -> Nat]
  /\ incomingInvite \in BOOLEAN /\ late \in BOOLEAN

GameTypes ==
  /\ isGameRunning \in BOOLEAN /\ isLocalGame \in BOOLEAN
  /\ game \in Kinds /\ ongoing \in Kinds
  /\ joined \in BOOLEAN /\ invited \in BOOLEAN /\ offered \in BOOLEAN
  /\ adrift \in BOOLEAN

Types == StateTypes /\ WaitTypes /\ GameTypes

\* Who waits in the state of a kind of wait shares it with no other thread
\* than the one it has added.
OwnWaiter ==
  Waiting => \E k \in Awaited : curState = WaitState[k] /\ waiter.awaits \in {k, "none"}

\* As long as no thread was killed too late, threads and tokens are left
\* behind by no wait, and a token says what is so.
InTime ==
  ~late =>
    /\ waiter.pc \in {"asleep", "polling", "releasing"} => Waiting
    /\ \A k \in Awaited : tokens[k] > 0 =>
         /\ Waiting /\ curState = WaitState[k] /\ waiter.pc \in {"ending", "dead"}
         /\ tokens[k] = 1
    /\ \A k \in {"friend", "opponent"} :
         tokens[k] > 0 \/ (waiter.awaits = k /\ waiter.pc = "releasing") => joined
    /\ (\/ tokens["invite"] > 0
        \/ waiter.awaits = "invite" /\ waiter.pc = "releasing"
        \/ curState = "INCOMING_INVITE") => incomingInvite

AppInv == Types /\ OwnWaiter /\ NothingPilesUp /\ InTime

\* A step outside the waits.
Quiet ==
  /\ ~Waiting /\ ~Waiting'
  /\ UNCHANGED <<waiter, tokens, incomingInvite, late>>
  /\ curState' = "INCOMING_INVITE" => curState = "INCOMING_INVITE"
-----------------------------------------------------------------------------
\* No state is entered in the middle of a wait.
LEMMA EntryOutside ==
  ASSUME NEW s PROVE Entry(s) \in {"asking", "adding", "choosing"}
BY DEF Entry

\* The menus lead to states, and to no question.
LEMMA MenusLead ==
  ASSUME NEW m \in DOMAIN Menus PROVE /\ Menus[m] \subseteq State
                                      /\ "INCOMING_INVITE" \notin Menus[m]
BY DEF Menus, State, AsksFirst, AsksLater

LEMMA StatesNamed ==
  /\ {"INITIAL_CONNECTION", "DOWNLOAD_CURRENT_GAME", "MAIN_MENU", "FRIENDS",
      "FRIENDS_SELECT_INVITE", "CREATE", "CPU_GAME", "JOIN", "FRIENDS_ADD",
      "FRIENDS_SELECT_REMOVE", "INCOMING_INVITE", "RESIGN", "INGAME", "NOGAME",
      "JOIN_CREATE", "SELECT_GAME_TYPE", "FRIENDS_SELECT", "SETTINGS"} \subseteq State
  /\ \A k \in Awaited : WaitState[k] \in State /\ Found[k] \in State /\ GivenUp[k] \in State
BY DEF State, Menus, AsksFirst, AsksLater, Awaited, WaitState, Found, GivenUp

\* A step outside the waits preserves what the waits rely on.
LEMMA QuietStep ==
  ASSUME AppInv, Types', Quiet PROVE AppInv'
<1>1. OwnWaiter' BY DEF Quiet, OwnWaiter
<1>2. NothingPilesUp'
  BY DEF AppInv, Quiet, NothingPilesUp, Pending, At, Waiting
<1>3. ASSUME ~late' PROVE InTime'
  <2>1. waiter.pc \notin {"asleep", "polling", "releasing"}
    BY <1>3 DEF AppInv, InTime, Quiet
  <2>2. \A k \in Awaited : ~(tokens[k] > 0)
    BY <1>3 DEF AppInv, InTime, Quiet
  <2>3. curState = "INCOMING_INVITE" => incomingInvite
    BY <1>3 DEF AppInv, InTime, Quiet
  <2>4. {"invite", "friend", "opponent"} = Awaited
    BY DEF Awaited
  <2>5. /\ waiter.pc' \notin {"asleep", "polling", "releasing"}
        /\ \A k \in Awaited : ~(tokens[k] > 0)'
        /\ (curState = "INCOMING_INVITE" => incomingInvite)'
    BY <2>1, <2>2, <2>3 DEF Quiet
  <2>6. QED BY <2>4, <2>5 DEF InTime
<1>4. InTime' BY <1>3 DEF InTime
<1>5. QED BY <1>1, <1>2, <1>4 DEF AppInv
-----------------------------------------------------------------------------
Outside ==
  \/ InitialConnection \/ DownloadCurrentGame \/ Main_Menu \/ Choose \/ Ask
  \/ Shown \/ CreateLocal \/ LocalCreated \/ CPUGame \/ Create
  \/ FriendsSelectInvite \/ Join \/ AcceptInvite \/ DeclineInvite \/ GameOver
  \/ Resign \/ LeaveGame

\* The handlers of menus, questions and answers are outside the waits.
LEMMA OutsideQuiet ==
  ASSUME AppInv, Outside PROVE Types' /\ Quiet
<1> USE DEF Outside, AppInv, Types, At, Goto, Enter, flags, waiting, server, NewGame, NoAnswer
<1>1. CASE InitialConnection
  <2>1. /\ StateTypes' /\ ~Waiting /\ ~Waiting'
        /\ curState' = "INCOMING_INVITE" => curState = "INCOMING_INVITE"
    BY <1>1, EntryOutside, StatesNamed DEF InitialConnection, StateTypes, Waiting
  <2>2. UNCHANGED <<waiter, tokens, incomingInvite, late>> BY <1>1 DEF InitialConnection
  <2>3. GameTypes' BY <1>1 DEF InitialConnection, GameTypes, Kinds
  <2>4. QED BY <2>1, <2>2, <2>3 DEF Quiet, WaitTypes
<1>2. CASE DownloadCurrentGame
  <2>1. /\ StateTypes' /\ ~Waiting /\ ~Waiting'
        /\ curState' = "INCOMING_INVITE" => curState = "INCOMING_INVITE"
    BY <1>2, EntryOutside, StatesNamed DEF DownloadCurrentGame, StateTypes, Waiting
  <2>2. UNCHANGED <<waiter, tokens, incomingInvite, late>> BY <1>2 DEF DownloadCurrentGame
  <2>3. GameTypes' BY <1>2 DEF DownloadCurrentGame, GameTypes, Kinds
  <2>4. QED BY <2>1, <2>2, <2>3 DEF Quiet, WaitTypes
<1>3. CASE Main_Menu
  <2>1. /\ StateTypes' /\ ~Waiting /\ ~Waiting'
        /\ curState' = "INCOMING_INVITE" => curState = "INCOMING_INVITE"
    BY <1>3, EntryOutside, StatesNamed DEF Main_Menu, StateTypes, Waiting
  <2>2. UNCHANGED <<waiter, tokens, incomingInvite, late>> BY <1>3 DEF Main_Menu
  <2>3. GameTypes' BY <1>3 DEF Main_Menu, GameTypes, Kinds
  <2>4. QED BY <2>1, <2>2, <2>3 DEF Quiet, WaitTypes
<1>4. CASE Choose
  <2>1. /\ StateTypes' /\ ~Waiting /\ ~Waiting'
        /\ curState' = "INCOMING_INVITE" => curState = "INCOMING_INVITE"
    BY <1>4, EntryOutside, StatesNamed, MenusLead DEF Choose, StateTypes, Waiting
  <2>2. UNCHANGED <<waiter, tokens, incomingInvite, late>> BY <1>4 DEF Choose
  <2>3. GameTypes' BY <1>4 DEF Choose, GameTypes, Kinds
  <2>4. QED BY <2>1, <2>2, <2>3 DEF Quiet, WaitTypes
<1>5. CASE Ask
  <2>1. /\ StateTypes' /\ ~Waiting /\ ~Waiting'
        /\ curState' = "INCOMING_INVITE" => curState = "INCOMING_INVITE"
    BY <1>5, EntryOutside, StatesNamed DEF Ask, StateTypes, Waiting
  <2>2. UNCHANGED <<waiter, tokens, incomingInvite, late>> BY <1>5 DEF Ask
  <2>3. GameTypes' BY <1>5 DEF Ask, GameTypes, Kinds
  <2>4. QED BY <2>1, <2>2, <2>3 DEF Quiet, WaitTypes
<1>6. CASE Shown
  <2>1. /\ StateTypes' /\ ~Waiting /\ ~Waiting'
        /\ curState' = "INCOMING_INVITE" => curState = "INCOMING_INVITE"
    BY <1>6, EntryOutside, StatesNamed DEF Shown, StateTypes, Waiting
  <2>2. UNCHANGED <<waiter, tokens, incomingInvite, late>> BY <1>6 DEF Shown
  <2>3. GameTypes' BY <1>6 DEF Shown, GameTypes, Kinds
  <2>4. QED BY <2>1, <2>2, <2>3 DEF Quiet, WaitTypes
<1>7. CASE CreateLocal
  <2>1. /\ StateTypes' /\ ~Waiting /\ ~Waiting'
        /\ curState' = "INCOMING_INVITE" => curState = "INCOMING_INVITE"
    BY <1>7, EntryOutside, StatesNamed DEF CreateLocal, StateTypes, Waiting
  <2>2. UNCHANGED <<waiter, tokens, incomingInvite, late>> BY <1>7 DEF CreateLocal
  <2>3. GameTypes' BY <1>7 DEF CreateLocal, GameTypes, Kinds
  <2>4. QED BY <2>1, <2>2, <2>3 DEF Quiet, WaitTypes
<1>8. CASE LocalCreated
  <2>1. /\ StateTypes' /\ ~Waiting /\ ~Waiting'
        /\ curState' = "INCOMING_INVITE" => curState = "INCOMING_INVITE"
    BY <1>8, EntryOutside, StatesNamed DEF LocalCreated, StateTypes, Waiting
  <2>2. UNCHANGED <<waiter, tokens, incomingInvite, late>> BY <1>8 DEF LocalCreated
  <2>3. GameTypes' BY <1>8 DEF LocalCreated, GameTypes, Kinds
  <2>4. QED BY <2>1, <2>2, <2>3 DEF Quiet, WaitTypes
<1>9. CASE CPUGame
  <2>1. /\ StateTypes' /\ ~Waiting /\ ~Waiting'
        /\ curState' = "INCOMING_INVITE" => curState = "INCOMING_INVITE"
    BY <1>9, EntryOutside, StatesNamed DEF CPUGame, StateTypes, Waiting
  <2>2. UNCHANGED <<waiter, tokens, incomingInvite, late>> BY <1>9 DEF CPUGame
  <2>3. GameTypes' BY <1>9 DEF CPUGame, GameTypes, Kinds
  <2>4. QED BY <2>1, <2>2, <2>3 DEF Quiet, WaitTypes
<1>10. CASE Create
  <2>1. /\ StateTypes' /\ ~Waiting /\ ~Waiting'
        /\ curState' = "INCOMING_INVITE" => curState = "INCOMING_INVITE"
    BY <1>10, EntryOutside, StatesNamed DEF Create, StateTypes, Waiting
  <2>2. UNCHANGED <<waiter, tokens, incomingInvite, late>> BY <1>10 DEF Create
  <2>3. GameTypes' BY <1>10 DEF Create, GameTypes, Kinds
  <2>4. QED BY <2>1, <2>2, <2>3 DEF Quiet, WaitTypes
<1>11. CASE FriendsSelectInvite
  <2>1. /\ StateTypes' /\ ~Waiting /\ ~Waiting'
        /\ curState' = "INCOMING_INVITE" => curState = "INCOMING_INVITE"
    BY <1>11, EntryOutside, StatesNamed DEF FriendsSelectInvite, StateTypes, Waiting
  <2>2. UNCHANGED <<waiter, tokens, incomingInvite, late>> BY <1>11 DEF FriendsSelectInvite
  <2>3. GameTypes' BY <1>11 DEF FriendsSelectInvite, GameTypes, Kinds
  <2>4. QED BY <2>1, <2>2, <2>3 DEF Quiet, WaitTypes
<1>12. CASE Join
  <2>1. /\ StateTypes' /\ ~Waiting /\ ~Waiting'
        /\ curState' = "INCOMING_INVITE" => curState = "INCOMING_INVITE"
    BY <1>12, EntryOutside, StatesNamed DEF Join, StateTypes, Waiting
  <2>2. UNCHANGED <<waiter, tokens, incomingInvite, late>> BY <1>12 DEF Join
  <2>3. GameTypes' BY <1>12 DEF Join, GameTypes, Kinds
  <2>4. QED BY <2>1, <2>2, <2>3 DEF Quiet, WaitTypes
<1>13. CASE AcceptInvite
  <2>1. /\ StateTypes' /\ ~Waiting /\ ~Waiting'
        /\ curState' = "INCOMING_INVITE" => curState = "INCOMING_INVITE"
    BY <1>13, EntryOutside, StatesNamed DEF AcceptInvite, StateTypes, Waiting
  <2>2. UNCHANGED <<waiter, tokens, incomingInvite, late>> BY <1>13 DEF AcceptInvite
  <2>3. GameTypes' BY <1>13 DEF AcceptInvite, GameTypes, Kinds
  <2>4. QED BY <2>1, <2>2, <2>3 DEF Quiet, WaitTypes
<1>14. CASE DeclineInvite
  <2>1. /\ StateTypes' /\ ~Waiting /\ ~Waiting'
        /\ curState' = "INCOMING_INVITE" => curState = "INCOMING_INVITE"
    BY <1>14, EntryOutside, StatesNamed DEF DeclineInvite, StateTypes, Waiting
  <2>2. UNCHANGED <<waiter, tokens, incomingInvite, late>> BY <1>14 DEF DeclineInvite
  <2>3. GameTypes' BY <1>14 DEF DeclineInvite, GameTypes, Kinds
  <2>4. QED BY <2>1, <2>2, <2>3 DEF Quiet, WaitTypes
<1>15. CASE GameOver
  <2>1. /\ StateTypes' /\ ~Waiting /\ ~Waiting'
        /\ curState' = "INCOMING_INVITE" => curState = "INCOMING_INVITE"
    BY <1>15, EntryOutside, StatesNamed DEF GameOver, StateTypes, Waiting
  <2>2. UNCHANGED <<waiter, tokens, incomingInvite, late>> BY <1>15 DEF GameOver
  <2>3. GameTypes' BY <1>15 DEF GameOver, GameTypes, Kinds
  <2>4. QED BY <2>1, <2>2, <2>3 DEF Quiet, WaitTypes
<1>16. CASE Resign
  <2>1. /\ StateTypes' /\ ~Waiting /\ ~Waiting'
        /\ curState' = "INCOMING_INVITE" => curState = "INCOMING_INVITE"
    BY <1>16, EntryOutside, StatesNamed DEF Resign, StateTypes, Waiting
  <2>2. UNCHANGED <<waiter, tokens, incomingInvite, late>> BY <1>16 DEF Resign
  <2>3. GameTypes' BY <1>16 DEF Resign, GameTypes, Kinds
  <2>4. QED BY <2>1, <2>2, <2>3 DEF Quiet, WaitTypes
<1>17. CASE LeaveGame
  <2>1. /\ StateTypes' /\ ~Waiting /\ ~Waiting'
        /\ curState' = "INCOMING_INVITE" => curState = "INCOMING_INVITE"
    BY <1>17, EntryOutside, StatesNamed DEF LeaveGame, StateTypes, Waiting
  <2>2. UNCHANGED <<waiter, tokens, incomingInvite, late>> BY <1>17 DEF LeaveGame
  <2>3. GameTypes' BY <1>17 DEF LeaveGame, GameTypes, Kinds
  <2>4. QED BY <2>1, <2>2, <2>3 DEF Quiet, WaitTypes
<1>18. QED BY <1>1, <1>2, <1>3, <1>4, <1>5, <1>6, <1>7, <1>8, <1>9, <1>10, <1>11, <1>12, <1>13, <1>14, <1>15, <1>16, <1>17 DEF Outside
-----------------------------------------------------------------------------
\* Each kind of wait has a state of its own, which is not a question.
LEMMA WaitStatesDiffer ==
  /\ \A j, k \in Awaited : WaitState[j] = WaitState[k] => j = k
  /\ \A k \in Awaited : /\ WaitState[k] # "INCOMING_INVITE"
                        /\ GivenUp[k] # "INCOMING_INVITE"
                        /\ Found[k] = "INCOMING_INVITE" => k = "invite"
BY DEF Awaited, WaitState, GivenUp, Found

LEMMA AddWaiterKeeps ==
  ASSUME AppInv, NEW k \in Awaited, AddWaiter(k) PROVE AppInv'
<1> USE WaitStatesDiffer
    DEF AppInv, Types, At, Goto, Enter, flags, waiting, server, AddWaiter
<1>1. StateTypes' BY EntryOutside, StatesNamed DEF StateTypes
<1>2. WaitTypes' BY DEF WaitTypes, Awaited
<1>3. GameTypes' BY DEF GameTypes, Kinds
<1>4. OwnWaiter' BY EntryOutside DEF OwnWaiter, Waiting, WaitTypes
<1>5. NothingPilesUp' BY EntryOutside DEF NothingPilesUp, Pending, WaitTypes
<1>6. InTime' BY EntryOutside DEF InTime, OwnWaiter, WaitTypes, Waiting
<1>7. QED BY <1>1, <1>2, <1>3, <1>4, <1>5, <1>6

LEMMA CheckKeeps ==
  ASSUME AppInv, NEW k \in Awaited, Check(k) PROVE AppInv'
<1> USE WaitStatesDiffer
    DEF AppInv, Types, At, Goto, Enter, flags, waiting, server, Check
<1>1. StateTypes' BY EntryOutside, StatesNamed DEF StateTypes
<1>2. WaitTypes' BY DEF WaitTypes, Awaited
<1>3. GameTypes' BY DEF GameTypes, Kinds
<1>4. OwnWaiter' BY EntryOutside DEF OwnWaiter, Waiting, WaitTypes
<1>5. NothingPilesUp' BY EntryOutside DEF NothingPilesUp, Pending, WaitTypes
<1>6. ASSUME ~late PROVE InTime'
  <2>1. Waiting /\ curState = WaitState[k] BY DEF Waiting
  <2>2. CASE tokens[k] > 0
    <3>1. waiter.pc \in {"ending", "dead"} /\ tokens[k] = 1
      BY <1>6, <2>2 DEF InTime
    <3>2. \A j \in Awaited : ~(tokens'[j] > 0)
      BY <1>6, <2>1, <2>2, <3>1 DEF InTime, WaitTypes
    <3>3. curState' = "INCOMING_INVITE" => incomingInvite
      BY <1>6, <2>2 DEF InTime
    <3>4. {"friend", "opponent", "invite"} = Awaited BY DEF Awaited
    <3>5. QED BY <3>1, <3>2, <3>3, <3>4 DEF InTime
  <2>3. CASE ~(tokens[k] > 0)
    BY <1>6, <2>1, <2>3 DEF InTime, Waiting
  <2>4. QED BY <2>2, <2>3
<1>7. InTime' BY <1>6 DEF InTime
<1>8. QED BY <1>1, <1>2, <1>3, <1>4, <1>5, <1>7

LEMMA ReadButtonsKeeps ==
  ASSUME AppInv, NEW k \in Awaited, ReadButtons(k) PROVE AppInv'
<1> USE WaitStatesDiffer
    DEF AppInv, Types, At, Goto, Enter, flags, waiting, server, ReadButtons
<1>1. StateTypes' BY EntryOutside, StatesNamed DEF StateTypes
<1>2. WaitTypes' BY DEF WaitTypes, Awaited
<1>3. GameTypes' BY DEF GameTypes, Kinds
<1>4. OwnWaiter' BY EntryOutside DEF OwnWaiter, Waiting, WaitTypes
<1>5. NothingPilesUp' BY EntryOutside DEF NothingPilesUp, Pending, WaitTypes
<1>6. InTime' BY EntryOutside DEF InTime, OwnWaiter, WaitTypes, Waiting
<1>7. QED BY <1>1, <1>2, <1>3, <1>4, <1>5, <1>6

LEMMA DeleteGameKeeps ==
  ASSUME AppInv, DeleteGame PROVE AppInv'
<1> USE WaitStatesDiffer
    DEF AppInv, Types, At, Goto, Enter, flags, waiting, server, DeleteGame
<1>1. StateTypes' BY EntryOutside, StatesNamed DEF StateTypes
<1>2. WaitTypes' BY DEF WaitTypes, Awaited
<1>3. GameTypes' BY DEF GameTypes, Kinds
<1>4. OwnWaiter' BY EntryOutside DEF OwnWaiter, Waiting, WaitTypes
<1>5. NothingPilesUp' BY EntryOutside DEF NothingPilesUp, Pending, WaitTypes
<1>6. InTime' BY EntryOutside DEF InTime, OwnWaiter, WaitTypes, Waiting
<1>7. QED BY <1>1, <1>2, <1>3, <1>4, <1>5, <1>6

LEMMA KillWaiterKeeps ==
  ASSUME AppInv, NEW k \in Awaited, KillWaiter(k) PROVE AppInv'
<1> USE WaitStatesDiffer
    DEF AppInv, Types, At, Goto, Enter, flags, waiting, server, KillWaiter
<1>1. StateTypes' BY EntryOutside, StatesNamed DEF StateTypes
<1>2. WaitTypes' BY DEF WaitTypes, Awaited
<1>3. GameTypes' BY DEF GameTypes, Kinds
<1>4. OwnWaiter' BY EntryOutside DEF OwnWaiter, Waiting, WaitTypes
<1>5. ASSUME NEW j \in Awaited PROVE Pending(j)' <= 1
  <2>1. Pending(j)' = tokens[j] BY DEF Pending, Awaited, WaitTypes
  <2>2. tokens[j] <= Pending(j) BY DEF Pending, WaitTypes
  <2>3. Pending(j) <= 1 BY DEF NothingPilesUp
  <2>4. tokens[j] \in Nat /\ Pending(j) \in Nat BY DEF Pending, WaitTypes
  <2>5. QED BY <2>1, <2>2, <2>3, <2>4
<1>6. InTime' BY EntryOutside DEF InTime, OwnWaiter, WaitTypes, Waiting
<1>7. NothingPilesUp' BY <1>1, <1>5, EntryOutside DEF NothingPilesUp
<1>8. QED BY <1>1, <1>2, <1>3, <1>4, <1>6, <1>7

LEMMA PollKeeps ==
  ASSUME AppInv, Poll PROVE AppInv'
<1> USE WaitStatesDiffer
    DEF AppInv, Types, At, Goto, Enter, flags, waiting, server, Poll
<1>1. StateTypes' BY EntryOutside, StatesNamed DEF StateTypes
<1>2. WaitTypes' BY DEF WaitTypes, Awaited
<1>3. GameTypes' BY DEF GameTypes, Kinds
<1>4. OwnWaiter' BY EntryOutside DEF OwnWaiter, Waiting, WaitTypes
<1>5. NothingPilesUp' BY EntryOutside DEF NothingPilesUp, Pending, WaitTypes
<1>6. InTime' BY EntryOutside DEF InTime, OwnWaiter, WaitTypes, Waiting
<1>7. QED BY <1>1, <1>2, <1>3, <1>4, <1>5, <1>6

LEMMA PollFindsKeeps ==
  ASSUME AppInv, NEW k \in Awaited, PollFinds(k) PROVE AppInv'
<1> USE WaitStatesDiffer
    DEF AppInv, Types, At, Goto, Enter, flags, waiting, server, PollFinds, Polls, Comes
<1>1. StateTypes' BY EntryOutside, StatesNamed DEF StateTypes
<1>2. WaitTypes' BY DEF WaitTypes, Awaited
<1>3. GameTypes' BY DEF GameTypes, Kinds
<1>4. OwnWaiter' BY EntryOutside DEF OwnWaiter, Waiting, WaitTypes
<1>5. NothingPilesUp' BY EntryOutside DEF NothingPilesUp, Pending, WaitTypes
<1>6. InTime' BY EntryOutside DEF InTime, OwnWaiter, WaitTypes, Waiting
<1>7. QED BY <1>1, <1>2, <1>3, <1>4, <1>5, <1>6

LEMMA PollFailsKeeps ==
  ASSUME AppInv, NEW k \in Awaited, PollFails(k) PROVE AppInv'
<1> USE WaitStatesDiffer
    DEF AppInv, Types, At, Goto, Enter, flags, waiting, server, PollFails, Polls
<1>1. StateTypes' BY EntryOutside, StatesNamed DEF StateTypes
<1>2. WaitTypes' BY DEF WaitTypes, Awaited
<1>3. GameTypes' BY DEF GameTypes, Kinds
<1>4. OwnWaiter' BY EntryOutside DEF OwnWaiter, Waiting, WaitTypes
<1>5. NothingPilesUp' BY EntryOutside DEF NothingPilesUp, Pending, WaitTypes
<1>6. InTime' BY EntryOutside DEF InTime, OwnWaiter, WaitTypes, Waiting
<1>7. QED BY <1>1, <1>2, <1>3, <1>4, <1>5, <1>6

LEMMA ReleaseKeeps ==
  ASSUME AppInv, Release PROVE AppInv'
<1> USE WaitStatesDiffer
    DEF AppInv, Types, At, Goto, Enter, flags, waiting, server, Release
<1>1. StateTypes' BY EntryOutside, StatesNamed DEF StateTypes
<1>2. WaitTypes' BY DEF WaitTypes, Awaited
<1>3. GameTypes' BY DEF GameTypes, Kinds
<1>4. OwnWaiter' BY EntryOutside DEF OwnWaiter, Waiting, WaitTypes
<1>5. NothingPilesUp' BY EntryOutside DEF NothingPilesUp, Pending, WaitTypes
<1>6. ASSUME ~late PROVE InTime'
  <2>1. PICK k \in Awaited : waiter = [awaits |-> k, pc |-> "releasing"]
    BY DEF WaitTypes
  <2>2. Waiting /\ curState = WaitState[k]
    BY <1>6, <2>1 DEF InTime, OwnWaiter, Awaited
  <2>3. \A j \in Awaited : ~(tokens[j] > 0)
    BY <1>6, <2>1 DEF InTime
  <2>4. \A j \in Awaited : tokens'[j] = IF j = k THEN 1 ELSE 0
    BY <2>1, <2>3 DEF WaitTypes
  <2>5. \A j \in Awaited : tokens'[j] > 0 => j = k
    BY <2>4
  <2>6. waiter'.pc = "ending" /\ Waiting' /\ curState' = WaitState[k]
    BY <2>1, <2>2 DEF Waiting
  <2>7. k \in {"friend", "opponent"} => joined
    BY <1>6, <2>1 DEF InTime
  <2>8. k = "invite" => incomingInvite
    BY <1>6, <2>1 DEF InTime
  <2>9. {"friend", "opponent", "invite"} = Awaited BY DEF Awaited
  <2>10. QED BY <2>4, <2>5, <2>6, <2>7, <2>8, <2>9 DEF InTime
<1>7. InTime' BY <1>6 DEF InTime
<1>8. QED BY <1>1, <1>2, <1>3, <1>4, <1>5, <1>7

LEMMA KillSelfKeeps ==
  ASSUME AppInv, KillSelf PROVE AppInv'
<1> USE WaitStatesDiffer
    DEF AppInv, Types, At, Goto, Enter, flags, waiting, server, KillSelf
<1>1. StateTypes' BY EntryOutside, StatesNamed DEF StateTypes
<1>2. WaitTypes' BY DEF WaitTypes, Awaited
<1>3. GameTypes' BY DEF GameTypes, Kinds
<1>4. OwnWaiter' BY EntryOutside DEF OwnWaiter, Waiting, WaitTypes
<1>5. NothingPilesUp'
  <2>1. ASSUME NEW j \in Awaited PROVE Pending(j)' = Pending(j)
    BY DEF Pending, WaitTypes, Awaited
  <2>2. QED BY <2>1 DEF NothingPilesUp
<1>6. InTime' BY EntryOutside DEF InTime, OwnWaiter, WaitTypes, Waiting
<1>7. QED BY <1>1, <1>2, <1>3, <1>4, <1>5, <1>6

LEMMA OthersKeeps ==
  ASSUME AppInv, Others PROVE AppInv'
<1> USE WaitStatesDiffer
    DEF AppInv, Types, At, Goto, Enter, flags, waiting, server, Others, OpponentJoins, InviteComesOrGoes, FriendDeclines
<1>1. StateTypes' BY EntryOutside, StatesNamed DEF StateTypes
<1>2. WaitTypes' BY DEF WaitTypes, Awaited
<1>3. GameTypes' BY DEF GameTypes, Kinds
<1>4. OwnWaiter' BY EntryOutside DEF OwnWaiter, Waiting, WaitTypes
<1>5. NothingPilesUp' BY EntryOutside DEF NothingPilesUp, Pending, WaitTypes
<1>6. InTime' BY EntryOutside DEF InTime, OwnWaiter, WaitTypes, Waiting
<1>7. QED BY <1>1, <1>2, <1>3, <1>4, <1>5, <1>6
-----------------------------------------------------------------------------
LEMMA InitStep == Init => AppInv
<1> SUFFICES ASSUME Init PROVE AppInv OBVIOUS
<1>1. StateTypes BY StatesNamed DEF Init, StateTypes
<1>2. WaitTypes BY DEF Init, WaitTypes
<1>3. GameTypes BY DEF Init, GameTypes, Kinds
<1>4. OwnWaiter BY DEF Init, OwnWaiter, Waiting
<1>5. NothingPilesUp BY DEF Init, NothingPilesUp, Pending, At, Awaited
<1>6. InTime BY DEF Init, InTime, Awaited
<1>7. QED BY <1>1, <1>2, <1>3, <1>4, <1>5, <1>6 DEF AppInv, Types

LEMMA NextStep == AppInv /\ [Next]_vars => AppInv'
<1> SUFFICES ASSUME AppInv, [Next]_vars PROVE AppInv' OBVIOUS
<1>1. CASE Outside
  BY <1>1, OutsideQuiet, QuietStep
<1>2. CASE DeleteGame BY <1>2, DeleteGameKeeps
<1>3. ASSUME NEW k \in Awaited, AddWaiter(k) PROVE AppInv' BY <1>3, AddWaiterKeeps
<1>4. ASSUME NEW k \in Awaited, Check(k) PROVE AppInv' BY <1>4, CheckKeeps
<1>5. ASSUME NEW k \in Awaited, ReadButtons(k) PROVE AppInv' BY <1>5, ReadButtonsKeeps
<1>6. ASSUME NEW k \in Awaited, KillWaiter(k) PROVE AppInv' BY <1>6, KillWaiterKeeps
<1>7. CASE Control
  BY <1>1, <1>2, <1>3, <1>4, <1>5, <1>6, <1>7 DEF Control, Outside
<1>8. CASE Waiter
  <2>1. ASSUME NEW k \in Awaited, PollFinds(k) PROVE AppInv' BY <2>1, PollFindsKeeps
  <2>2. ASSUME NEW k \in Awaited, PollFails(k) PROVE AppInv' BY <2>2, PollFailsKeeps
  <2>3. QED BY <1>8, <2>1, <2>2, PollKeeps, ReleaseKeeps, KillSelfKeeps DEF Waiter
<1>9. CASE Others BY <1>9, OthersKeeps
<1>10. CASE UNCHANGED vars
  <2>1. Types' BY <1>10 DEF AppInv, Types, StateTypes, WaitTypes, GameTypes, vars, flags, waiting, server
  <2>2. OwnWaiter' BY <1>10 DEF AppInv, OwnWaiter, Waiting, vars, waiting
  <2>3. NothingPilesUp' BY <1>10 DEF AppInv, NothingPilesUp, Pending, At, vars, waiting
  <2>4. InTime' BY <1>10 DEF AppInv, InTime, Waiting, vars, waiting, server
  <2>5. QED BY <2>1, <2>2, <2>3, <2>4 DEF AppInv
<1>11. QED BY <1>7, <1>8, <1>9, <1>10 DEF Next

\* The invariant above holds in every state of the control thread, the
\* waiting threads and the server.
THEOREM AppInvariant == Spec => []AppInv
BY InitStep, NextStep, PTL DEF Spec

\* No variable leaves its type; above all no semaphore counts more than two.
THEOREM AppTypeCorrect == Spec => []TypeOK
<1>1. ASSUME AppInv PROVE TypeOK
  <2>1. ASSUME NEW k \in Awaited PROVE tokens[k] \in 0..2
    BY <1>1 DEF AppInv, NothingPilesUp, Pending, Types, WaitTypes
  <2>2. tokens \in [Awaited -> 0..2]
    BY <1>1, <2>1 DEF AppInv, Types, WaitTypes
  <2>3. QED BY <1>1, <2>2 DEF AppInv, Types, StateTypes, WaitTypes, GameTypes, TypeOK
<1>2. QED BY <1>1, AppInvariant, PTL

\* However often the player gives up a wait, and whenever a thread is killed,
\* of each kind no more than one announcement is left behind.
THEOREM NothingEverPilesUp == Spec => []NothingPilesUp
<1>1. AppInv => NothingPilesUp BY DEF AppInv
<1>2. QED BY <1>1, AppInvariant, PTL

\* As long as no thread was killed too late, the two threads use the buffers
\* of the client one at a time, but for the request that deletes the game.
THEOREM RequestsOneAtATime == Spec => []OneRequestAtATime
<1>1. AppInv => OneRequestAtATime BY DEF AppInv, InTime, Waiting, OneRequestAtATime
<1>2. QED BY <1>1, AppInvariant, PTL

\* As long as no thread was killed too late, a game that was waited for is
\* entered only when its opponent has joined it.
THEOREM OpponentHasAlwaysJoined == Spec => []OpponentHasJoined
<1>1. AppInv => OpponentHasJoined BY DEF AppInv, InTime, OpponentHasJoined
<1>2. QED BY <1>1, AppInvariant, PTL

\* As long as no thread was killed too late, the player is asked about an
\* invite that was read.
THEOREM QuestionAlwaysNamesInvite == Spec => []QuestionNamesInvite
<1>1. AppInv => QuestionNamesInvite BY DEF AppInv, InTime, QuestionNamesInvite
<1>2. QED BY <1>1, AppInvariant, PTL
-----------------------------------------------------------------------------
\* The states a board is in only while it is in no game.
BeforeGame == {"INITIAL_CONNECTION", "NOGAME", "JOIN_CREATE", "SELECT_GAME_TYPE", "JOIN",
               "CREATE", "CPU_GAME", "INCOMING_INVITE"}

\* The flag is that of the game while one runs; before, it is set for the game
\* on one board that is being created, and may be left over where NoGame resets
\* it.  A friend cannot be invited, nor a game be created, from a game on one
\* board, since the server has the board in that game.
FlagFollows ==
  /\ pc = "leaving" => curState \in {"INGAME", "RESIGN"}
  /\ pc = "deleting" => curState \in {"CREATE", "FRIENDS_SELECT_INVITE"}
  /\ curState \in BeforeGame => ~isGameRunning
  /\ curState \in {"INGAME", "RESIGN"} => isGameRunning
  /\ ~adrift =>
       /\ isGameRunning => (isLocalGame <=> game = "local")
       /\ game = "local" /\ (isGameRunning \/ curState = "DOWNLOAD_CURRENT_GAME") =>
            ongoing = "local" \/ pc = "leaving"
       /\ curState = "DOWNLOAD_CURRENT_GAME" /\ isLocalGame => game = "local"
       /\ ~isGameRunning /\ isLocalGame =>
            \/ curState = "DOWNLOAD_CURRENT_GAME"
            \/ At("NOGAME", "adding") \/ At("SELECT_GAME_TYPE", "asking")
       /\ curState \in {"CREATE", "FRIENDS_SELECT_INVITE"} /\ pc # "asking" => game # "local"

\* What the menus lead to.
LEMMA MenusApart ==
  ASSUME NEW m \in DOMAIN Menus, NEW s \in Menus[m]
  PROVE  /\ s \notin {"DOWNLOAD_CURRENT_GAME", "NOGAME", "INITIAL_CONNECTION"}
         /\ m \notin {"DOWNLOAD_CURRENT_GAME", "NOGAME", "CREATE", "FRIENDS_SELECT_INVITE"}
         /\ s \in BeforeGame => m \in BeforeGame
         /\ s \in {"INGAME", "RESIGN"} => m \in {"INGAME", "RESIGN"}
BY DEF Menus, BeforeGame

LEMMA EntryOf ==
  /\ \A s : Entry(s) \in {"asking", "adding", "choosing"}
  /\ Entry("NOGAME") = "adding" /\ Entry("SELECT_GAME_TYPE") = "choosing"
  /\ Entry("CREATE") = "asking" /\ Entry("FRIENDS_SELECT_INVITE") = "asking"
BY DEF Entry, AsksFirst

LEMMA FlagStep ==
  ASSUME Types, FlagFollows, Control PROVE FlagFollows'
<1> USE EntryOf DEF Types, StateTypes, GameTypes, At, Goto, Enter, flags, waiting, server,
        NewGame, NoAnswer, FlagFollows, BeforeGame
<1>1. CASE InitialConnection BY <1>1 DEF InitialConnection
<1>2. CASE DownloadCurrentGame BY <1>2 DEF DownloadCurrentGame
<1>3. CASE Main_Menu BY <1>3 DEF Main_Menu
<1>4. CASE Choose BY <1>4, MenusApart DEF Choose
<1>5. CASE Ask BY <1>5 DEF Ask, AsksLater
<1>6. CASE Shown BY <1>6 DEF Shown
<1>7. CASE CreateLocal BY <1>7 DEF CreateLocal
<1>8. CASE LocalCreated BY <1>8 DEF LocalCreated
<1>9. CASE CPUGame BY <1>9 DEF CPUGame
<1>10. CASE Create BY <1>10 DEF Create
<1>11. CASE FriendsSelectInvite BY <1>11 DEF FriendsSelectInvite
<1>12. CASE Join BY <1>12 DEF Join
<1>13. CASE AcceptInvite BY <1>13 DEF AcceptInvite
<1>14. CASE DeclineInvite BY <1>14 DEF DeclineInvite
<1>15. CASE GameOver BY <1>15 DEF GameOver
<1>16. CASE Resign BY <1>16 DEF Resign
<1>17. CASE LeaveGame BY <1>17 DEF LeaveGame
<1>18. CASE DeleteGame BY <1>18 DEF DeleteGame
<1>19. ASSUME NEW k \in Awaited, AddWaiter(k) PROVE FlagFollows'
  BY <1>19 DEF AddWaiter, Awaited, WaitState
<1>20. ASSUME NEW k \in Awaited, Check(k) PROVE FlagFollows'
  BY <1>20 DEF Check, Awaited, WaitState, Found
<1>21. ASSUME NEW k \in Awaited, ReadButtons(k) PROVE FlagFollows'
  BY <1>21 DEF ReadButtons, Awaited, WaitState
<1>22. ASSUME NEW k \in Awaited, KillWaiter(k) PROVE FlagFollows'
  BY <1>22 DEF KillWaiter, Awaited, WaitState, GivenUp
<1> QED
  BY <1>1, <1>2, <1>3, <1>4, <1>5, <1>6, <1>7, <1>8, <1>9, <1>10, <1>11, <1>12, <1>13,
     <1>14, <1>15, <1>16, <1>17, <1>18, <1>19, <1>20, <1>21, <1>22 DEF Control

\* Through every path of menus, waits and answers the flag under which the board
\* plays both sides says what game it is in, unless a request was lost on the way
\* or a friend declined an earlier invite (FSM.cpp 157, 573, 724).
THEOREM LocalFlagAlwaysTrue == Spec => []LocalFlagTrue
<1>1. Init => FlagFollows
  BY DEF Init, FlagFollows, At, BeforeGame
<1>2. AppInv /\ FlagFollows /\ [Next]_vars => FlagFollows'
  <2> SUFFICES ASSUME AppInv, FlagFollows, [Next]_vars PROVE FlagFollows' OBVIOUS
  <2>1. Types BY DEF AppInv
  <2>2. CASE Control BY <2>1, <2>2, FlagStep
  <2>3. CASE Waiter
    BY <2>3 DEF Waiter, Poll, PollFinds, PollFails, Release, KillSelf, FlagFollows, At, flags, server
  <2>4. CASE Others
    BY <2>1, <2>4 DEF Types, GameTypes, Others, OpponentJoins, InviteComesOrGoes, FriendDeclines,
                      FlagFollows, At, flags, BeforeGame
  <2>5. CASE UNCHANGED vars
    BY <2>5 DEF vars, flags, server, FlagFollows, At
  <2> QED BY <2>2, <2>3, <2>4, <2>5 DEF Next
<1>3. FlagFollows => LocalFlagTrue
  BY DEF FlagFollows, LocalFlagTrue
<1> QED BY <1>1, <1>2, <1>3, AppInvariant, PTL DEF Spec
=============================================================================
