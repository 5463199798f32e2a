# Remote-Chess: a verification project

Remote-Chess is a physical chessboard that plays over the network. Magnets under
the pieces tell a microcontroller (MSP432, `src/Board`) which squares are taken;
lights, a small display and five buttons talk to the player; a Wi-Fi module sends
requests to a server (`src/Server/chess_server.py`) that keeps the games. The board
runs its own real-time kernel, G8RTOS.

This directory models the layers that carry the program's own logic:

* the **kernel**: thread lists, scheduler, semaphores, critical sections;
* a **board at play**: what `class Board` makes of pieces that are lifted and
  placed, together with the thread that reports them, the thread that talks to the
  server, the server, the opponent and the power switch;
* the **server**: users, games and invites in a database without transactions, and
  the handlers that read, compute and write them;
* **two boards and the server**: games from the first request to the verdict, with
  requests and answers lost and boards switched off;
* the **control thread**: the board's states and menus, and the threads it adds and
  kills while it waits for somebody.

TLC checks them on small instances; TLAPS proves the invariants that matter most for
every value of the constants. `PROJECT.json` lists components, runs, mutants (one bug
per property, which the run must find), the source lines behind each definition,
hazards, findings and theorems.

## 1. Inventory

| Component | State | Operations | Modelled by |
|---|---|---|---|
| Thread lists (`G8RTOS_Structures.c`) | `next`, `previous` of each TCB, `head`, `size` of each list | `tcbll_Insert`, `tcbll_Remove` | `TcbLists`, `ThreadLists` |
| G8RTOS kernel (`G8RTOS_Scheduler.c`, `_Semaphores.c`, `_CriticalSection.s`, `_SchedulerASM.s`) | TCBs, three lists, `currentThread`, `isYielding`, `canContextSwitch`, PRIMASK, pending switch, semaphore counts | scheduler, tick, yield, sleep, add, kill, acquire, release, sections | `G8RTOS` |
| Kernel queues (`Queue.c`) | ring buffer, two semaphores | read, write | not modelled: the board creates no queue |
| Board (`ChessBoard.cpp`) | `fsm`, pieces lifted, placed and attacked, the castle, en passant and promotion under way, flagged squares, last moves, legal moves | `LiftPiece`, `PlacePiece`, `SubmitCurrentLocalMove`, `ReceiveRemoteMove`, `UpdateFromServer`, `UpdateLegalMoves`, ... | `Board`, `BoardPlay` |
| Magnetic sensors (`MagneticSensors.cpp`) | `currentMagnetValues` | scan and report, measure, read | `BoardPlay` |
| Control state machine (`FSM.cpp`, `Menu.cpp`) | `curState`, the flags of the game, the semaphores of the three waiting threads, the invite last read | one handler per state, three waiting threads | `AppFsm`; a game in progress in `BoardPlay` and `RemoteGame` |
| Server client (`chessServer.c`) | the game's code, request and answer buffers shared by threads | one function per request | `RemoteGame` (lost, answered, unreadable), `AppFsm` (who sends when), `BoardPlay` |
| Game server (`chess_server.py`) | users, games, invites in a document database | some 30 routes | `GameServer`, `RemoteGame`; `ChessGame` has the pieces of one game |
| Buttons, display, lights | pins | polling, output | not modelled: pure I/O |
| Small containers (`flat_vector.h`, `flat_unordered_set.h`, `optional.h`) | | | as sets, and as values or `NONE`, where they are used |
| Drivers, Wi-Fi stack, startup code, Stockfish, images | | | not modelled: vendored, generated or data |

**How the parts interact.** `main` adds four threads: MagnetThread (priority 2),
BoardLedUpdateThread (4), ControlThread (7) and Idle (255). MagnetThread scans the
squares every 20 ms; for each that changed it takes `sensorSem`, stores the new
value and calls `LiftPiece` or `PlacePiece`, which take `boardSem`. ControlThread
runs the control state machine: it shows menus, sends requests and, in a game, calls
the operations of `Board`. It starts and kills threads that wait for invites and for
an opponent. Threads share the board under `boardSem`, the sensor values under
`sensorSem` (not everywhere), and the client's buffers under nothing. The server sees
both boards of a game only through requests.

**What is hard.** Interleavings inside kernel calls, since a tick can come between the
end of a critical section and the rest of the call; three lists that share one pair
of links per thread; piece movements, which come one square at a time, in any order,
with corrections, without the identity of the piece, and while moves of the other
side arrive; two locks taken in both orders; requests that are lost; a board
switched off in the middle of anything; handlers that overlap on documents they read
and write without transactions; a thread killed by another in the middle of a request
or just after it has announced what it waited for.

**What makes them correct.** Lists: always single, disjoint rings with the right head
and size. Kernel: every thread is on the list that its flags call for, a thread that
left the running list is about to be switched out, some thread can always run, locks
exclude, sleepers wake, runnable threads run. Board: a flag on a square is true, the
hand holds what was lifted, what is submitted has been made with the pieces, a remote
move counts as followed only when it was, board and server agree on whose turn it is.
Server: the fields of a game agree with each other whatever overlaps, an invite names a
game of its sender. Two boards: a match is opened, joined once, played in turns and
ends once; verdicts are right; a board that waits is told. Control thread: a wait ends,
ends for the right reason, and leaves nothing behind.

## 2. Order of the modules

1. `ThreadOrder` (sequences without repetition), `ThreadLists` (abstract lists),
   `TcbLists` (pointer lists), `ThreadOrder_proofs`, `TcbLists_proofs`.
2. `G8RTOS`, `G8RTOS_proofs`.
3. `ChessGame`, `Board`, `BoardPlay`, `BoardPlay_proofs`, `BoardHands_proofs`,
   `BoardClaims`.
4. `GameServer`, `GameServer_proofs`.
5. `Match` (what is promised of a game between two boards), `RemoteGame` (EXTENDS
   `GameServer`, implements `Match`), `RemoteGame_proofs`.
6. `AppFsm`, `AppFsm_proofs`.

The `MC` modules give instances for TLC. `BoardPlay` has one board with its pieces and
the server as one record; `RemoteGame` has two boards without pieces and the server
access by access; `AppFsm` has one board's control thread and of the game and the
server only what its handlers ask about.

Left: the board's locks with the semaphores as `G8RTOS` really has them; the lists of
friends and the keyboard.

## 3. The kernel

### ThreadOrder, ThreadLists, TcbLists

`TcbLists` is `tcbll_Insert` and `tcbll_Remove` assignment by assignment. The code
does not store which list a TCB is in; the history variable `on` does, and the guard
of `tcbll_Remove` says that callers name the list the TCB is in. That callers do so
is what `G8RTOS` shows (`ListsMatchFlags`, `CurrentOffListOnlyLeaving`).
`ThreadLists` is what the lists promise: each is a sequence, insert appends, remove
takes one out. `ImplementsThreadLists` is the refinement: `order` is what is read by
walking `next` from the head.

### G8RTOS

One action is what the code does between `G8RTOS_StartCriticalSection` and
`G8RTOS_EndCriticalSection`, or one access outside. A thread's `pc` is its place in a
call: `mark` and `pend` are the two halves of `YieldThread`, `load` and `store` the
two halves of the unprotected `s->count--`, `switch` and `die` the request to switch
after a sleep or a kill. `primask`, `pendSV` and `currentThread` decide who executes
(`Runs`). A handler that loops is still one action, but its loop is there turn by turn, as
a recursive function: `Search` is the scheduler's round of the running list
(`G8RTOS_Scheduler.c` 81-102), `Walked` the walk of the tick along the list of sleepers,
from which it takes those that are due while it goes along it (153-174). The tick and the switch are interrupts that are enabled unless `primask`.
`G8RTOS_EndCriticalSection` clears `primask` whatever it was, because the word it
restores from is a constant zero in flash (`G8RTOS_CriticalSection.s` 37).

What threads do between kernel calls is left open: any boot thread but the idle one
makes any call of `Calls`. Threads release only locks they hold and do not acquire
one twice, as in `ChessBoard.cpp` and `MagneticSensors.cpp`. Saved registers and
stacks are left out, and so are periodic and aperiodic threads, which the board never
registers.

### Runs

`MCTcbLists.cfg` uses four TCBs and three lists: enough for rings of one, two and
more, for a removal at the head, in the middle and at the end, and for three lists to
be non-empty at once.

| Run | Instance | Shows |
|---|---|---|
| `tcb_lists` | 4 TCBs, 3 lists | `TypeOK`, `WellFormed`, `ImplementsThreadLists` |
| `kernel` | 4 TCBs, 3 boot threads, up to two threads added, so that a TCB is used again; a lock; sleeps of 1 and 2 ticks, yields, switching turned off | `TypeOK`, `BlockedBeforeTaking`, `YieldPicksBest`, `TicksReachAll`, `ListsMatchFlags`, `CurrentOffListOnlyLeaving`, `SomeThreadRunnable` |
| `kernel_live` | 3 threads, a lock, a signal, sleeps, sections; `FairSpec` | `UnblockedRuns` |
| `kernel_mutex` | 3 threads and a lock | violation of `MutualExclusion` |

Bounds: `MaxIds` threads in all, `MaxDepth` nested sections, `Wrap` values of a
semaphore's count (4 in passing runs, so that the wrap is reached; 256, the real one, in
`kernel_mutex`). Two threads that compete and an idle one are the smallest system in
which each interleaving of the calls occurs.

Fairness (`Fairness` in `G8RTOS`): the tick comes back for ever. It is strongly fair,
because the hardware keeps a tick that arrives while interrupts are masked pending
until the section ends. Pending switches are taken, and the running thread executes
on to the end of its call or section. A thread that stays in a section for ever is
excluded; no such code exists on the board.

## 4. A board at play

### ChessGame

The server's record of one game, seen from one board: who stands where, whose turn it
is, the last move, the number of moves, the status. Which moves a piece has is the
business of python-chess, so `Moves` lists the moves of an instance, and a move is
legal when the squares it needs are taken by the right side. Whether a move is mate is
left open. `Openings` are the positions a modelled game may start from; an instance
starts at the point of a game where the moves it is about are possible.

### Board

The members of `class Board` as one record, and its operations. Each operation holds
`boardSem` throughout and is one step. `LiftPiece` and `PlacePiece` keep every branch
of the code, as named sub-actions: `LiftOnLocalMove`, `LiftInFollowthrough`,
`PlaceAtTarget` and so on. Abstractions: a move to either side castles with "the" rook
(kingside and queenside are one kind of move with different squares); a promotion is
always to a queen; checks and the lights are left out, since they are computed from
this state and never fed back. An empty optional's `to` (`ChessBoard.cpp` 140) is any
square (`TargetOf`).

Mutual exclusion by `boardSem` is assumed here, although the kernel's semaphores do
not guarantee it (`kernel_mutex`): the two findings are kept apart on purpose.

### BoardPlay

* *Player and sensors.* The player may toggle any square at any time; spare pieces
  lie beside the board. `Detect` is the scan that finds and stores a change,
  `Propagate` the report to the board. They are two steps since the sensor thread may
  wait for `boardSem` in between, while a download measures all squares again.
  `overtaken` is a history variable: squares whose change was reported after that.
* *Control thread.* `pc` is its place: `nogame` (menus), `download`, `downloading`
  (in the request, with `boardSem`), `reading` (waiting for `sensorSem`), `legal`
  (in the request for the legal moves), `ingame`, `sending`, `sent` (a local game asks
  whether that was mate), `mated` (a mate has been received, not yet noted).
* *Requests.* `makeMove` may be lost or refused and its result is ignored, as in the
  code. A download may fail, and so may the request for legal moves, which then
  parses the last good answer again. (That it fails before there was any good answer
  is left out: it would parse an empty buffer.)
* *Opponent, switch.* The opponent moves or resigns whenever it is its turn. The board
  may be switched off and on at any moment: all but the pieces and the server's
  record is lost.
* *Uninitialised reads.* After a failed download, or one of a game that was won, the
  turn of a local game is a variable that was never written: either side.

### Properties

* `FlagsAreReal`: a square flagged for a piece that must go back is empty, a square
  flagged for a piece that must go is taken, but for changes still to be reported or
  overtaken by a download (`Unsettled`).
* `HandsAreReal`: the piece in hand is off its square; a piece put down is on its own.
* `SubmittableIsMade`: when the move may be submitted, it has been made with the
  pieces (`PieceMoved`), with the rook of a castle (`RookMoved`) and the captured pawn of
  an en passant (`PawnGone`). Four cases are excepted: the target of a promotion, since
  the pawn may be lifted again before submitting, an en passant without a last move, the
  rook in a position in which the king may castle to either side (`OneCastle`), and the
  pawn where another piece may also take it on its own square (`TakenOnlyInPassing`; see
  the divergences). The instances of the runs are games from one opening. From several,
  pieces moved before a game's legal moves have come can break it (divergences, and
  section 8 for when they cannot).
* `FollowedThrough`: a remote move counts as followed only when its piece left the
  square it came from and its target is taken, or flagged as lifted.
* `NothingInHandWaiting`: the state that `ReceiveRemoteMove` counts on.
* `TurnsAgree`: the board lets its player move, or shows a remote move, only when the
  server awaits this board, and the remote move it shows is the server's last.

### Runs

| Run | Instance | Shows |
|---|---|---|
| `board_capture` | a corridor of 3 squares, a rook each, two moves, one square that changes unseen, played by two boards or on one | `FlagsAreReal`, `HandsAreReal`, `TurnsAgree`, `FollowedThrough` |
| `board_castle` | 5 squares, the player's or the opponent's king and rook | `TypeOK`, `SubmittableIsMade`, `NothingInHandWaiting`, `FollowedThrough` |
| `board_passant` | 5 squares, two moves: a pawn passes, the other captures it; either side | `SubmittableIsMade`, `NothingInHandWaiting` |
| `board_promotion` | 3 squares, two moves: a pawn promotes, capturing or not; either side | `SubmittableIsMade` |
| `board_download` | the corridor, `FairSpec` | violation of `DownloadEnds` |

Bounds: `MaxMoves` moves in a game, `MaxFlags` flagged squares before the player must
correct one (1 or 2; a player who leaves more pieces wrong adds only more of the same
flags), `MaxMissed` squares that change between the last scan and the measurement of a
download. Every handler looks at one square at a time and compares it with at most
five others, so five squares with two spare corrections reach every branch; TLC's
coverage shows that they do, with one exception: a lift during the follow-through of
a move that is no castle, no en passant and no promotion, with both hands full, which
the code has a branch for and which cannot occur.

Fairness of `BoardClaims!FairSpec`: the sensor thread reports a change it has found
when it can, and the control thread goes on when it can, a request being answered or
failing in the end. The player, the opponent and the switch have none.

## 5. The server

### GameServer

The users' and the games' documents, and every handler of `chess_server.py` that
changes one of them on behalf of a game: `newgame`, `newgamecpu`, `newgamelocal`,
`joingame`, `delete`, `sendinvite`, `cancelinvite`, `acceptinvite`, `declineinvite`,
`leavegame`, `resign`, `makemove`, `undo`. One action is one access to a document: a
handler that reads, computes and writes has two, and what it has read is kept in its
request (`req[u].doc`, `req[u].mail`), so that other handlers run in between, as they
do under a threaded web server. `set` writes a whole document, `update` its fields; an
update of a document that does not exist raises. Where a handler catches an exception,
or the server answers it with an error, the action replies. Handlers that call each
other (`sendinvite` creates a game, `acceptinvite` joins one, `declineinvite` and
`cancelinvite` delete one) go through the same steps.

Of chess the documents keep whose turn it is, how many moves were made and whether the
side to move is mated. Codes are drawn and never drawn twice (`drawn`). A user has one
request under way, as a board has. `Send` allows any request about any code.

* `TurnMatchesCount`: the first player is to move exactly after an even number of
  moves. The fields are written together, but from a copy that may be old, over a
  document another handler has replaced, or back from `prev_state` by an undo.
* `WinnerHasMoved`: a game reported won is mated, and the side to move is not the
  winner's.
* `InviteNamesOwnGame`: an invite names a game its sender has opened. `sendinvite`
  reads its own user again after it has created the game. As a user has one request
  under way, the game read there is the one created, or none if somebody has deleted it
  in between. The property does not say that no invite is lost, nor that a declined one
  does not come back (both happen, see the divergences).

### Match, RemoteGame

`RemoteGame` puts boards on `GameServer`: each has a place (`at`), the code of its game
and the number of moves it shows, and sends what the control thread sends there. It
adds no step to the handlers. `is_turn_ready` is two steps since it reads the game
twice. What can go wrong: a request cannot be sent; the answer is not one the board
can read (`sl_Recv`'s result is not looked at); a board is switched off and on and
learns from the server alone which game it is in. `MaxFaults` bounds how often.

`Match` is what a player expects of a game between two boards: opened, joined once,
moves in turns, one end; it may vanish only before the first move. The first player's
board, switched off and on, does not know whether anyone has joined (`FSM.cpp` 824-828,
984-991 do not ask), and what it does alone is a part of `Match` as well: its move gives
the turn to nobody, for good; its resignation leaves a game that a guest joins as one that
has ended; of either and a join that overlap, one may be written over (`MoveAlone`,
`ResignAlone`, `JoinOver`). `MatchPlayed` is the refinement: what `Phase`, `Turn` and `Moves` read in the documents goes through the
steps of `Match`.

* `InStep`: where the board lets its player move, it is that player's turn on the server,
  in the position shown, in a game still going on.
* `VerdictsRight`: "You won" and "You lost" are shown to the right player. One "You lost"
  is excepted (`Overwritten`): that of a player who resigned before anyone had joined, when
  a join that had read the game before writes it back.
* `OpponentArrives`: once the guest's board waits for the first move, the host's stops
  waiting for the guest.
* `NewsArrives`: in a game that both have joined, a board that waits for the opponent's
  move is told of it, or of the end.
  It may be told of a loss by an answer that lacks the move: `garbled` is that place.

Assumed: a board is switched off only when no request of its is under way; only two
boards take part; nobody is mated by a game's first move (the rules exclude it). With three, two
of them may both be told that they have joined: then neither `InStep` nor `MatchPlayed`
holds, and no fault is needed for it.

### Runs

| Run | Instance | Shows |
|---|---|---|
| `server` | 3 users, 2 codes, `MaxRequests` 4 | `TypeOK`, `TurnMatchesCount`, `WinnerHasMoved`, `InviteNamesOwnGame` |
| `remote` | 2 boards, 2 games, `MaxMoves` 3, `MaxFaults` 1; `FairRemoteSpec` | `BoardsOK`, `InStep`, `VerdictsRight`, `OpponentArrives`, `NewsArrives`, `MatchPlayed` |

Four requests are enough for each pair of handlers to overlap on a game that two others
have brought about, or on one that the same pair has; the theorems below need no such
bound. Three moves let each side move, mate and be answered late, also after a move that
a join has undone; one fault hits every request of every such game, or switches any board
off and on. Deadlock is not checked in these two: the users stop after
`MaxRequests`, the boards after `MaxMoves`, and a board may be stuck for good (below).

Fairness (`RemoteGame!Fairness`): the server handles what it was sent, and a board that
waits asks again and again, since the waiting thread and `InGame` are loops. Faults are
finitely many. Players have no fairness.

## 6. The control thread

`AppFsm` has one handler per state of `FSM.cpp`. A handler is called again until it sets
another `nextState`; `pc` is its place: it asks the server, lets the player choose,
adds a thread, checks its semaphore, reads the buttons, deletes the game, kills the
thread. The menus that only lead elsewhere are a table (`Menus`); what they show is left
out. `waiter` is the one thread that fits beside the four of `main` (`MAX_THREADS` is 5):
`WaitForInvite`, `WaitForFriend` or `WaitForOpponent`, with its own `pc`, from its sleep
through its poll and its release to its end. `tokens` are the three semaphores.
Between two accesses of either thread the other may run. Others join, invite, withdraw
and decline at any time, and any answer may be lost.

Two history variables mark what the code does not handle. `late`: the control thread
has killed a waiting thread that had already announced what it waited for. `adrift`: a
request was lost on the way into a game, or a friend has declined an earlier invite,
so that board and server do not have the same game. Properties that are conditional on
them do fail without the condition; it says exactly when they hold.

* `NothingPilesUp`: of each kind at most one announcement is left behind, however many
  waits are given up, `late` or not.
* `OneRequestAtATime`: not `late`, a waiting thread sends only while the control thread
  is in the same wait. The exception that remains is `deleteGame`, which is sent while
  the waiting thread may still poll, with the same buffers.
* `OpponentHasJoined`, `QuestionNamesInvite`: not `late`, a wait that ends has what it
  waited for; see the comments at `FSM.cpp` 608 and 731.
* `LocalFlagTrue`: not `adrift`, `isLocalGame` says in a game whether it is a local one,
  although a download sets the flag and never resets it.
* `WaitEnds`: somebody who has come is noticed unless the player gives up.
* `NoGameListens`: not `late`, `NoGame` gets its thread and reads the buttons.

| Run | Instance | Shows |
|---|---|---|
| `app` | one board, no bound; `FairSpec` | `TypeOK` and the seven above |

The state space is finite as it is. Fairness: both threads get the CPU (the kernel's
`UnblockedRuns`), and a poll that is repeated for ever is answered at some time (strong
fairness of `PollFinds`). The player has none.

## 7. Findings

* `kernel_mutex`: a woken thread decrements the count outside the critical section
  without looking at it again, so two threads can hold one lock.
* `board_download`: a download holds `boardSem` and waits for `sensorSem`, the sensor
  thread the other way round. A piece moved while the answer is awaited stops both
  for good.

### Known divergences without a run

These were seen in TLC's traces while the models were written. The models behave so;
the properties above are stated so that they hold nevertheless.

* A context switch that no yield asked for goes round the list whatever the
  priorities are (`G8RTOS_Scheduler.c` 95); 88 says a lower number is a higher priority.
* The unprotected decrement can lose or wrap a count, so that a free lock is left with
  a count other than 1 (`G8RTOS_Semaphores.c` 59).
* The end of an inner critical section unmasks interrupts
  (`G8RTOS_CriticalSection.s` 37). `MagneticSensors.cpp` 89-111 works only because of it.
* A piece put on the square another was lifted from leaves `placedPiece` behind
  (`ChessBoard.cpp` 128), so that the next piece and that square need not make a move.
* Taking the king up again cancels `currentRookCastleMove`, but not what was noted of
  the rook (`ChessBoard.cpp` 29, "Cancel the previous castling attempt"): a player who
  has made one castle and then puts the king down for the other can submit that one
  with its rook still in the corner.
* Giving up an en passant forgets neither (`ChessBoard.cpp` 29): a player who has lifted
  the pawn, puts another piece down on its square as if to capture it, and then goes on
  with the en passant can submit it with that piece in the pawn's place.
* A piece that was lifted to be captured may stay off the board: with the moving piece
  put on another square the move can be submitted (`ChessBoard.cpp` 65; 505-512 do not
  look at `attackedPiece`).
* A download does not reset the members of a promotion (`ChessBoard.cpp` 358-376).
* Any piece on the rook's target completes a remote castle (`ChessBoard.cpp` 213).
* A download decides by the king's square alone whether a castle was followed through
  (`ChessBoard.cpp` 388): a board that was switched off half-way goes on with the rook
  in its corner.
* A lost `makeMove` is never sent again (`FSM.cpp` 828). The board waits for the
  opponent while the server waits for the board; its next poll is answered "Turn Ready"
  with the opponent's last move, which the board then asks to be made a second time.
* The target of a promotion can be submitted while the pawn is in the hand again
  (`ChessBoard.cpp` 56), and `lastRemoteMove->to` is read without a look at whether
  there is one (140); `SubmittableIsMade` excepts both.
* A failed request for legal moves shows those of an earlier position
  (`ChessBoard.cpp` 284).
* The state of a game and its legal moves come one after the other (`ChessBoard.cpp` 443,
  `FSM.cpp` 863-869), and pieces moved in between are judged by the moves of another
  position. With a second opening TLC finds this: a second game is begun without switching
  the board off, and before its moves have come the player makes a castle that the first
  game allowed and puts a piece back on the king's square. Then the moves come; the piece
  on the rook's target, which may move in this game, is lifted, which begins a move and
  takes nothing back: the board would now submit a move from there to the king's target,
  castle and all, with the rook's target empty.
* A mating move that is followed before the mate is noted gives the player a turn
  without moves in place of the loss (`FSM.cpp` 882).
* After a failed download the control thread enters a game in which nothing is done
  (`FSM.cpp` 155). A board that is shown none stays so until it is switched off
  (`stuck` in `RemoteGame`); that download also leaves the play type uninitialised
  (`ChessBoard.cpp` 453).
* A board that is switched on again before its opponent has joined enters the game and
  lets its player move or resign. The server takes the move and gives the turn to nobody
  (`chess_server.py` 640-647): the guest who then joins is never on turn, neither side can
  move or resign any more, and both boards wait for ever. A join that has read the game
  before the move undoes it, and a move that has read it before the join undoes the join
  (`Match!JoinOver`, `Match!MoveAlone`). A resignation may be undone by a join in the same
  way, after its player was told "You lost".
* "No previous move", the answer to a board that asks for the opponent's move when there
  has been none, is parsed as a move (`chessServer.c` 362). `TurnsAgree` allows for it, as the
  other move a board may show (`NoPreviousMove`).
* To cancel a game nobody has joined has the server forget its creator's game and then
  fail (`chess_server.py` 507-512): the game and the invite stay. A guest who joins at
  that moment plays alone.
* A game whose `joinGame` was answered unreadably cannot be joined again (239, 247).
* Of two boards that join at once both are told that they have joined (239-246).
* Of two invites sent to one user at once one is lost, and one that is declined or
  withdrawn while another is being sent comes back (`chess_server.py` 388-402).
* To decline an invite clears the game its sender is in by then (454), so that the
  sender's next wait for invites meets a player the server takes for free.
* The chess engine is called by a name that is never defined (532), so a game against
  it never gets a move.
* When `is_turn_ready` says "Turn Not Ready" and has read a winner in its second read,
  the client looks for a last move that is not there (`chessServer.c` 361).
* `g_wifiSem` is declared and never acquired (`chessServer.c` 4).
* A thread killed after its release leaves a token: the next wait of the kind ends at
  once, in a game nobody has joined (`FSM.cpp` 608 says otherwise) or a question about
  an earlier invite, and leaves its thread alive. As long as that one polls, `NoGame`
  is called again and again without reading the buttons (726), and `Create` opens a
  game each time (599).
* `IncomingInvite` is left only by an answer that succeeds (688-704): once the invite
  has been withdrawn neither does.

## 8. Proofs

All theorems hold for every value of the constants that meets the named assumptions.

* `ThreadOrder_proofs`: lemmas about lists without repetition (append, removal).
* `TcbLists_proofs`, `ListsAlwaysWellFormed`: `Spec => []WellFormed`, from
  `NullAssumption` and `FiniteAssumption`. `WellFormed` with the types is inductive:
  the sequence a list represents before a step gives the one it represents after it.
  `ListsTypeCorrect`: `Spec => []TypeOK`. `ListsImplementThreadLists`:
  `Spec => ImplementsThreadLists`. The refinement mapping `Walk` reads a list off the
  links, by recursion; that what it reads is the sequence the pointers represent
  (`WalkRepresents`) is shown for the least place where the two could differ
  (`LeastNatural`, from the library's well-founded order on the naturals).
* `G8RTOS_proofs`: `KernelInv` is inductive. It adds to the four invariants that the
  runs check that ids name their TCB, that boot threads stay, and that a thread in the
  middle of an acquire wants a semaphore. `ListsMatchFlags` alone is not inductive:
  that a call takes its thread off the running list is right only because a thread
  that makes a call is on it, which is `CurrentOffListOnlyLeaving`, and that needs to
  know where each thread is in its call. Two are action properties about loops.
  `YieldPicksBest`: the search of the scheduler begins on the list and goes once round it
  (`SearchStartsOnList`, `SearchMeetsAll`, `RingOnList`), so it meets every runnable
  thread, and the one that yielded last of all; after each turn it holds the best of those
  it has met (`SearchTurn`), and so it ends with the best of all (`SearchFindsBest`).
  `TicksReachAll`: the walk of the tick takes threads off the very list it goes along;
  `WalkInv` says where it is in the list as it was before, that what it has left behind has
  been woken or kept as it should be, and what it has yet to meet is untouched
  (`WalkTurn`), so it reaches all (`WalkReachesAll`).
  Theorems `KernelTypeCorrect`, `KernelCorrect`, `YieldAlwaysPicksBest`,
  `TicksAlwaysReachAll`, `ListsAlwaysMatchFlags`, `CurrentAlwaysOnList`, `BlockedAlwaysBeforeTaking` and
  `AlwaysSomeThreadRunnable`, for any number of threads, semaphores and priorities,
  from `BootAssumption`, `PriorityAssumption`, `SemaphoreAssumption`,
  `DurationAssumption` and `BoundAssumption`.
* `BoardPlay_proofs`: theorems `TypeCorrect` (`Spec => []TypeOK`) and
  `FlagsAlwaysReal` (`Spec => []FlagsAreReal`), for any squares, moves, openings and
  bounds, from the assumptions of `ChessGame` and `BoardPlay`. The inductive invariant
  `IInv` adds `GameKnown`: past the menus the server has a game. The lemmas
  `LiftPieceTypes` and `PlacePieceTypes` go through the branches of the two handlers
  and show that each keeps the types and raises at most the flag of its own square; a
  download leaves no flags (`DownloadTypes`); every other step keeps them
  (`KeepsFlags`).
* `BoardHands_proofs`: theorems `HandsAlwaysReal`, `NothingEverInHandWaiting`,
  `TurnsAlwaysAgree`, `AlwaysFollowedThrough` and `SubmittableAlwaysMade`, from the same
  assumptions. `HandsAreReal` is not inductive: a
  flag on the square a piece was lifted from would swallow the report that puts the
  piece back, and so would a second report of the lift. `HandSettled`, `PlacedSettled`
  and `EventSettled` exclude both, since a flag is real (`FlagsAlwaysReal`) and a report
  says something new; `FollowsMove` says that the piece in hand during a remote move is
  the one of that move, which leads somewhere else. `TurnsAgree` needs `Menus` and
  `Sending`, where the control thread is while the player may move, and `GameMoves`, that
  a lost game is the player's turn. `LiftEffect` and `PlaceEffect` sum up what the two
  handlers do to the hands in any state. `FollowedThrough` is about a step, and needs
  `FollowInv` of the state before it: the castle or capture under way is that of the
  remote move itself, and once its piece is down the square it went to is taken,
  flagged as lifted, or has a report to come. That a castling king does not land on a
  square of its rook, and that a castle or a capture in passing has no piece to take
  off first, is in `MovesAssumption` (`Move::Move`, `ChessAbstraction/Move.cpp` 5-34).
  `SubmittedPieceMoved` is the part of `SubmittableIsMade` about the piece itself,
  whatever moves the board goes by.
  `SubmittableAlwaysMade`: `Spec /\ Patient /\ Answered => []SubmittableIsMade`, the rook
  and the captured pawn included, for any squares, moves, openings and bounds. The board
  notes what was done with the rook and the pawn and forgets half of it when a move is
  given up; that this never matters is because no two moves of one position have
  business on the same square of a special move: nothing else moves to the corner of a
  castling rook or from its target, and nothing moves from the captured pawn's square
  (`Together`, shown of the server's legal moves by `LegalMovesTogether` from where the
  men stand). So a square noted as left can become taken again only through the branch
  that takes the note back, or with a flag, and the other way round: `Gone` and `Put` say
  so of what the board has been told (`Told`, which lags behind the sensors by one
  report), and `Noted` of each square it has noted. A move can be submitted only without
  flags, and then `Gone` is empty and `Put` is taken (`NotedIsMade`). `NotedInv` adds why
  the board has the moves of one position: `Link`, that its last remote move is the
  server's last move or the one it has just sent, which also makes the square of a
  captured pawn the right one; `Known`, that the legal moves are there while the player
  is shown a turn; and `Rested`, that the player begins with nothing noted. The theorem
  assumes two things. `Patient`: no change is reported between the board's messages to the
  server about a move. Without it the property is false (see the divergences). `Answered`:
  every request for the legal moves is answered, and a move of a local game is accepted.
  Otherwise the board goes by moves of a position it has left, of which `Together` need not
  hold with its last move; TLC found no violation of the property itself in the small
  instances tried without it. The moves a player may make with the pieces, the requests
  that fail otherwise, the opponent and the switch are not restricted.
* `GameServer_proofs`: `ServerInv` is inductive. It says of every position that is
  stored, kept as the previous one or held by a handler that it is `Good` (turn, count,
  winner and seats agree), and of every request what its handler knows from the
  accesses it has made. The invariants alone are not inductive, since a handler writes
  back what it read before: what is held must be as good as what is stored, and a mover
  must still be on turn in the copy it holds. `SetupInv` is about the game that its
  creator is still setting up as one against a machine: nobody holds it with the creator
  as second player. Theorems `ServerTypeCorrect`, `ServerTurnMatchesCount` and
  `ServerWinnerHasMoved`, for any users, codes and overlapping requests, from
  `PlayersAssumption`, `CodesAssumption` and `NoneAssumption`. `InvitesAlwaysName` adds
  `InviteInv`: a code that an invite names, wherever a copy of it is under way, was given
  to a game that is its sender's in every version stored or held. The lemmas `Effects`
  say once what any access does to games, invites and codes.
* `RemoteGame_proofs`: `RemoteInv` adds to `ServerInv` that a request is under way only
  where the board waits for its answer. `BoardsAreUsers` (`RemoteSpec => Spec`): each
  step of the boards is a request, an access of a handler, or leaves the documents
  alone, so the server's theorems carry over (`RemoteGamesConsistent`), for any number
  of boards, moves and faults. `RemoteBoardsOK`: `RemoteSpec => []BoardsOK`.
  The three theorems about two boards (`TwoBoardsInStep`, `TwoBoardsVerdictsRight`,
  `TwoBoardsPlayMatch`) assume `TwoBoards`, that no three of the users differ, and bound
  neither games nor moves nor faults. None of the three properties is inductive, since
  a handler writes back a document it read earlier; `DuelInv` says why that is harmless.
  `BusyInv`: which request, at which step, belongs to which place of the board.
  `HeldInv`: the document held by a handler that will still write is the stored one, or
  the game is gone, or it is an older one of a game that nobody had joined (`BeforeJoin`:
  what a join may write over is fresh, or what the first player made of it alone, `Adrift`
  or `Dropped`; `BeforeMove`: what such a move may write over is a fresh join).
  `ShownInv`: what the place of a board says of its game, e.g. that a
  board that resigns is on turn or has already resigned. `LeftInv`: a player who resigned
  is in no game any more once the handler is through, so that a board switched on again
  cannot come back to it. `GameInv`: what is so of a game with one and with two players.
  The argument is that only the board on turn changes a game, but for the one that joins
  it, and that what these two may do to each other's writes happens before the first move
  of a game that both have joined (`Writes`, `Respects`): what the other board counts on is left alone
  (`OthersKept`), and what a board does keeps its own part (`BoardKept`). `Writes` also
  lists what a step may do to the documents, and each of those changes is a step of
  `Match` (`SeatsPlays`, `AdvancesPlays`, `ResignsPlays`, `ChangesPlays`).
* `AppFsm_proofs`: `AppInv` is inductive. `OwnWaiter` says that in a wait the fifth
  slot holds that wait's thread or none; `InTime` says what is so as long as no thread
  was killed too late: outside a wait no thread polls and no token is left, and what a
  token or a thread about to release announces is so. A step is either outside the waits
  and leaves them alone (`OutsideQuiet`, `QuietStep`) or has a lemma of its own.
  Theorems for `TypeOK`, `NothingPilesUp`, `OneRequestAtATime`, `OpponentHasJoined` and
  `QuestionNamesInvite`. `LocalFlagAlwaysTrue` needs `FlagFollows`: the flag is already
  right in the states that lead to a game, through the menus (`MenusApart`), the download
  and the leaving of a game, where it may be set while no game runs.

Only model-checked are the liveness properties: `UnblockedRuns` of the kernel; of two
boards `OpponentArrives` and `NewsArrives`; of the control thread `WaitEnds` and
`NoGameListens`.
Liveness under fairness is beyond the proof system used here. So are the induction rules
of its library, which take an operator as a parameter; where a recursive definition had
to be reasoned about (`Walk`), a least counterexample does the work of the induction.

## 9. Not modelled

Most of the lines under `src` are vendored: the microcontroller's driver library
(`BoardSupportPackage`), the network driver (`CC3100SupportPackage`), the chess engine
(`stockfish_13_win_x64`), startup code and build output. The program's own code is about
5000 lines, and a third of it is pins, pixels, texts and parsing.

* `Queue.c`, periodic and aperiodic threads: the board uses none of them.
* Register frames and stacks of the context switch.
* Lights (`UpdateLedMatrix`): computed from the board's state, never fed back.
* Friends and names on the server and in the menus: no game depends on them.
* The keyboard and menus of `Menu.cpp`: a choice, or a text, is any.
* The wording of answers: what the client finds in them is modelled, not how.

## 10. Running

    tlc -config MCG8RTOS_kernel.cfg MCG8RTOS
    tlc -config MCBoardPlay_castle.cfg MCBoardPlay
    tlc -config MCRemoteGame.cfg MCRemoteGame
    tlapm AppFsm_proofs.tla

A `violation` run ends with the trace of its finding. Deadlock is checked in every run
but `server` and `remote`.
