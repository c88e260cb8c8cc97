# Verification of the golden game servers and the forwarding server

TLA+ specifications, TLC configurations and TLAPS proofs for the servers of this
repository. Treated so far: the *golden* (Zha Jin Hua, three-card poker) game of
`src/golden/GameServer/fight`, from the login of a user to the settlement of a
hand; the AllocServer that sends users to its tables; and the forwarding server
`src/switch`, its connections and its memory pool.

1. [The system](#the-system)
2. [Modules](#modules)
3. [How the models correspond to the code](#how-the-models-correspond-to-the-code)
4. [Runs](#runs)
5. [What the code does that its comments do not say](#findings)
6. [Proofs](#proofs)
7. [What is only model-checked, and what is not modelled](#limits)
8. [Plan](#plan)

## The system

The repository holds the servers of several card games. A client connects to a
forwarding gateway (`switch`), is routed to a hall and then, through
`AllocServer`, to a game server. A game server is **one process with one event
loop**: a handler (`process/*.cpp`) or a timer callback (`TableTimer`,
`RoomTimer`) runs to its end before the next starts. There are no threads and
no locks in the game logic; what interleaves is the *order* of messages and
timer expiries, and the wait between a request to MoneyServer and its answer.
The gateway is the opposite: four threads, a mutex for each pair of connections,
one for the free pairs and one for the memory pool.

| component | state it keeps | operations | hard parts | what makes it correct |
|---|---|---|---|---|
| golden fight, **Table** (`model/Table.cpp`) | players by chair, status, round, current player, stake, pool, first speaker, all-in stake, lock, "is over" flag | coming, leaving, dealing, `setPlayerOptype`, `getNextBetPlayer`, `gameOver`, `calcCoin`, reset | first speaker and turn move under folds, leaves and time-outs; pool and accounts change at different times | every player gets his turns, rounds end, coins add up, a decided hand ends |
| golden fight, **TableTimer** | five timers: bet, start, kick, settlement, result of a comparison | one callback each | a timer that outlives what it was set for | only the one whose turn it is times out; no timer of the lobby in a hand |
| golden fight, **Player** | chair, status, cards, coins, bets, all-in, dropped, time-outs | set by the handlers | a robot that logs in again gets a new object | - |
| golden fight, **client messages** (`process/`, `IProcess`) | none | login, leave, logout, ready, call, raise, all-in, fold, look, compare, drop, return | no handler checks that the message was offered | nothing a client sends corrupts a hand |
| golden fight, **Room** (`model/Room.cpp`) | tables, the pool of Player objects, the heartbeat timer | choice of an object and of a table, seating, leaving, heartbeat | the choice is made before and after an asynchronous wait | a user has one object and one chair, and is turned away only when there is no room |
| golden fight, **GameLogic** | none | card types, sorting, comparison, shuffle | the "235" hand makes the order intransitive | the better hand wins |
| golden fight, configuration | configured values | reading | - | - |
| golden fight, AllocServer link | a connection | reports of the server, its tables and their players | a report that is lost or repeated | AllocServer knows the server and its tables |
| **AllocServer** (`src/Common/AllocServer`) | servers, their connections, tables by number of players | register, update, choose a table, lose a server | a server reconnects before the end of its old connection is noticed; either side restarts | a user is sent to a table of a server that is there |
| **switch**, network engine (`src/switch/vsgdb/wsforwardVGDB`) | pairs of connections, the queue of free pairs, mutexes, send buffers | accept, bind, read, write, close, time out | four threads meet at a pair, one of them without its mutex | a pair is in one place, mutexes are given back, nothing half open stays |
| **switch**, memory pool | five linked lists over one block of memory | `poll_alloc`, `poll_free` | splitting and joining chunks; list nodes run out | memory is in one hand, free chunks tile the rest |
| golden hundred, bull, banco, gtexas hundred | a banker's table with bets on areas | bet, become banker, rounds by timers | limits on the sum of bets | the banker can pay |
| gtexas fight | Texas hold'em table | as golden, with side pots | splitting side pots | pots add up |
| show-hand | five-card table | as golden | as golden | as golden |
| BullAllocServer | as AllocServer | as AllocServer | as AllocServer | as AllocServer |
| MahjongLogic, RoomCardMode, MahjongRobotServer | libraries and clients of games that are not here | - | - | - |
| golden robots | a client | answers what optype offers | - | - |
| httpserver, commonsdk, compile | requests; headers of binary libraries; scripts | - | - | - |

`PROJECT.json` lists all of them with their status.

**Interactions.** Clients send requests to the handlers of a game server; the
handlers call methods of `Room`, `Table` and `Player`, start and stop timers and
reply. `IProcess::GameStart` and `IProcess::GameOver` are shared by handlers and
timers. Coins are kept twice: `Player::m_lMoney` at the table and the account at
MoneyServer, which is told of a result when the hand is settled
(`updateDB_UserCoin` in `IProcess::GameOver`) or when a player leaves in its
middle. Robots bring their own coins and have no account. `AllocProc` of the game
server reports the server once a connection stands, then each table whose number
of players changes, and by a timer the load; `ServerManager` and `AllocManager`
of AllocServer keep what they are told and answer requests for a table. The
gateway knows nothing of games: what arrives on one connection of a pair is sent
on the other, and what `send()` does not take waits in a buffer from the pool.

**What is hard.** The game server has no crash recovery and persists nothing of a
hand. Its hazards are orders of events: a player leaves or folds out of turn
while he is the first speaker the round counter relies on; messages arrive
between the decision of a hand and its settlement (1.5 s, or 5 s after a
comparison); the result of a forced comparison is applied 5.5 s later to
whatever the players have done meanwhile; clients drop and return; a hand in
which nobody says anything must end by itself; a second login arrives while the
first waits for MoneyServer. Between the game server and AllocServer messages are
lost with their connection, and both restart. In the gateway threads interleave.
`PROJECT.json` lists the hazards, each at its line, with the properties aimed at
it.

## Modules

| module | what it is |
|---|---|
| `GoldenStrength` | the order of two hands, on their strengths |
| `GoldenTableOps` | the methods of `Table` (and of `Player`, `IProcess`, `GameLogic` they use) as operators on a table record: a method that changes state maps the record before the call to the record after it |
| `GoldenTable` | the variables of one table, one action per message or timer, the specification, the properties |
| `GoldenRounds` | `GoldenTable` with a history variable, who has spoken in this round, for the properties about turns |
| `GoldenHand` | what a table promises about a hand: who holds cards, whose turn it is, which phase |
| `GoldenTableHand` | `GoldenTable` implements `GoldenHand` |
| `GoldenCards` | card types, sorting and comparison of three cards, as `GameLogic` does them |
| `GoldenRoom` | Player objects, tables and the login around the answer of MoneyServer |
| `AllocServer` | a game server's reports, their loss, and what AllocServer makes of them |
| `MemoryPool` | the pool's linked lists in one heap; `poll_alloc` and `poll_free` as functions of heaps |
| `SwitchBuffers` | the send buffers of the connections, over `MemoryPool` |
| `BlockPool` | what the pool promises: runs of blocks that nobody else holds |
| `SwitchEngine` | pairs of connections and the four threads that meet at them |
| `FiniteSums` | lemmas about `Min` and sums over finite sets |
| `MCGoldenTable`, `MCGoldenRounds`, `MCGoldenRoom`, `MCSwitchBuffers` | small instances, constraints and symmetry for TLC |
| `GoldenTable_proofs`, `GoldenTableCoins_proofs`, `GoldenCards_proofs`, `GoldenRoom_proofs`, `AllocServer_proofs`, `SwitchEngine_proofs`, `SwitchBuffers_proofs` | the theorems |

`GoldenTable` and `GoldenRoom` are two views of one server. `GoldenRoom` keeps of a
hand only who plays and that the table is at play; `GoldenTable` keeps of the room
only that a user may be redirected here. They meet in `LoginComing`,
`LoginRedirected` and the leaves.

Operators whose names end in `_Something` and whose comment says "mutated form"
are variants with a plausible mistake; a property of a run is shown to be
violated when the original is replaced by such a form. They are used nowhere
else.

## How the models correspond to the code

### One table: `GoldenTable`

**State.** `table` is the `Table` object with its timers and its players.
Fields keep their meaning under a shorter name:

| field | code |
|---|---|
| `status`, `count`, `round`, `currBet` | `m_nStatus`, `m_nCountPlayer`, `m_bCurrRound`, `m_nCurrBetUid` |
| `betMax`, `maxCard` | `m_lCurrBetMax`, `m_BetMaxCardStatus` (whether it was set by one who had looked) |
| `first`, `preWin` | `m_nFirstIndex`, `m_nPreWinIndex` |
| `pool`, `leaveSum` | `m_lSumPool`, `m_lLeaveSumCoin` |
| `canAllin`, `hasAllin`, `allinCoin` | `m_bSetAllinCoinFlag`, `m_lHasAllInCoin`, the all-in stake of each player |
| `over`, `lock` | `m_bIsOverTimer`, `kicktimeflag` |
| `offer` | optype of the current player |
| `betT`, `startT`, `kickT`, `overT`, `cmpT` | the five timers; `betT` is the user the bet timer was started for |
| `cmp` | `CompareResultInfo` |
| `seat`, `pst`, `card`, `money`, `bet`, `allin`, `rank`, `drop`, `tmo` | fields of the players; `rank` is the strength of the three cards |

`acct` is what MoneyServer has for each user, `crashed` says that the process
followed a NULL pointer. `player_array` is the inverse of `seat`.

**Actions.** Each handler and each timer callback is one action, with all it
calls: a handler that ends with `if (iscanGameOver()) gameOver()` or with
`if (isAllReady() && m_nCountPlayer > 1) GameStart()` has that in the action.
A handler with two quite different bodies is two actions: `LeaveHand` and
`LeaveTable` are the two halves of `LeaveProcess`; `RobotComing` and
`RobotReplaced` those of a robot's login; `LoginComing` and `LoginRedirected`
the two ways `LoginComingProc` chooses a table. An action that an early return
makes a no-op is a step that does not happen.

**Abstractions.**

- A timer is a flag. It may expire in any step after it was started, so the
  configured durations play no part. That the orders used by a finding are
  possible with the durations in the code is said with the finding.
- Hands are strengths. `GoldenCards_proofs` shows that nothing is lost: for all
  hands of three cards `GameLogic::CompareCard` is the order on strengths of
  `GoldenStrength`, strength 0 being the hand 2-3-5 that beats only three equal
  cards. What is dealt is a member of `Deals`.
- A `Player` object is identified with the user logged into it; a new user
  never finds the leftovers of another in a slot of the pool, because login
  calls `Player::init`.
- The wait of a login for MoneyServer is one step, taken when the answer is
  there; the money is the account at that time. `GoldenRoom` has the wait.
- "The network noticed", "the client logged out", "the client asks for the
  details of its table" set or clear `drop` exactly as the handlers do.
- The switches for multiplied stakes, forbidden and changed cards are read by
  the code and set by no handler of this server; they are left out, as are
  the record strings, statistics, coins won from the house and the log.
- Integers are unbounded. The amounts are 64-bit and bounded by coins that
  exist; no sum reached here comes near the width.

**What a client may send.** With `Polite = FALSE` any message in any order,
which is all the server requires. With `Polite = TRUE` bets, raises, all-ins
and comparisons are only those `setPlayerOptype` offered to the one whose turn
it is, which is what the shipped clients do; folding, looking, leaving and
dropping stay free. `Polite` is an *assumption about clients*, and the
properties that need it say so.

**Fairness.** `TimersExpire`: a timer that is never stopped expires. That is
what `CCTimer` delivers in an event loop that runs; nothing is assumed about
clients, and nothing of `HeartTimeOut`. It is the weak fairness of each of the
five timer actions with ENABLED written out: each is enabled exactly while its
timer runs and always stops that timer. (TLC does not share LET values while it
evaluates ENABLED; with `WF_vars` of these actions `hands2` does not finish.)

**What it implements.** `GoldenHand` has three variables: the phase (idle, betting,
settling), the card holders and the turn. A hand is dealt to two or more, is bet on
only while two hold cards, loses at most one holder in a step, keeps the turn when
another folds, and ends by being decided and then settled. `GoldenTableHand` maps
`IsActive`, the flag `over` and the bet timer to it. `PlaysAHand` (steps, any
messages, three players) and `HandIsSettled` (with fairness: a decided hand with a
holder is settled, two players, any number of hands) are that implementation.

### The room: `GoldenRoom`

The Player objects are an array that `getAvailablePlayer` searches from its start;
`idset` maps a user to his object. A login of a human takes the object, sends a
request to MoneyServer and returns; `Answered` is the callback, with everything that
changed meanwhile: a second login of the same user, a restart of the choice of a
table, a table that filled up. The heart beat timer runs on the *object* and frees
one that is at no table (`StraysFound`, which is given weak fairness: it is a timer
that is restarted with every expiry). `NullTable` is the dereference of a NULL table
in the retry loop (`LoginComingProc.cpp:385`); after it the server is down.

### AllocServer

A game server reports itself when its connection stands; what it sends is in flight
on the connection and is lost when that breaks. AllocServer may notice the end of the
old connection after the new one is there. `ServerRestarts` and `AllocRestarts`
lose what the process knew; AllocServer writes the servers it knows to Redis, which
may fail after the server has been entered but before it has a handler. Fairness is
weak for `Connect` (the server tries again every few seconds), `Receive` (TCP
delivers) and `OnClose` (a broken connection is noticed).

### The forwarding server: `SwitchEngine`, `SwitchBuffers`, `MemoryPool`

The model is of `src/switch/vsgdb/wsforwardVGDB/wsforwardVGDB/`;
`src/switch/TCPNetworkEngine.cpp` is an older edit that does not compile.

`SwitchEngine` has a step for each stretch of code between two points where another
thread can see a difference: a call of `CForwardItemMgr` holds its mutex and is one
step, `accept`, `attach`, `connect`, `bind` and the two halves of a close are steps
of their own. Descriptors are numbers and the kernel hands out the lowest free one,
so a closed descriptor comes back at once, in another pair. `overlap` becomes true when
two threads are at work on one pair at the same time, and stays true.

`SwitchBuffers` has one step per call of the pool and one per copy between calls;
`MemoryPool` keeps the linked lists themselves, with their nodes and caches, because
that is where a mistake would be. `BlockPool` says in 40 lines what they are for, and
`HandsOutRuns` that they do it.

`MessagesAssumption` says that no first message takes the whole pool. The chunk
`create_memory_poll` makes is one no block points to; it is cut by the first allocation,
and from then on every chunk is found from its first block. If one allocation took all
of it uncut, `poll_free` would not find the chunk. The pool has 512 MB
(`TCPNetworkEngine.hpp:56`), and the length of a message is an `unsigned short`.

## Runs

The golden runs use the coins `Ante = 1`, stakes 1 and 2, an all-in from round 2 on,
two rounds (`late_allin`: three; `empty_allin`: an all-in from round 1 on) and a limit of two time-outs. With these every action fires, hands end
in each of the four ways (one holder, all all-in, last round, comparison), and
players run out of coins.

| run | instance | distinct states | shows |
|---|---|---|---|
| `hand3` | 3 users with 4 coins, first hand, any messages; two strengths | 135,651 | `TypeOK`, `OneToAChair`, `FirstIsHolder`, `PoolMatchesBets`, `DebtIsAllin`, `HandOnlyAdvances`, `PlaysAHand` |
| `hand3_polite` | 3 users, first hand, polite; a 235, a plain hand, a leopard | 108,171 | `HandHasClock`, `Undecided`, `WealthNeverGrows`, `OnlyBestGains`, `FairRounds`, `OneTurnEach` |
| `hands2` | a player and a robot that may log in again, any number of hands, timers that expire, polite | 134,160 | `CountMatches`, `LedgerAgrees`, `NoCrash`, `ActiveTogether`, `LobbyTimersOff`, `LockHasTimer`, `TurnOwnsTimer`, `HandEnds`, `LockReleased`, `DroppedArePutOut`, `HandIsSettled` |
| `room` | 2 humans with one address, 2 robots, 4 objects, 2 tables of 2 chairs, 2 logins waiting | 257,022 | `ChairsAgree`, `OneObject`, `AddressesApart`, `TurnedAwayWhenFull`, `StraysFreed` |
| `alloc` | 1 game server, 2 connections, 1 table and the one past it, 2 chairs, 2 messages in flight | 1,345,284 | `FiledOnce`, `IdIsServer`, `ServerFound` |
| `pool` | 2 pairs, 2 threads, 5 blocks of 2 bytes, buffers in units of 3, messages of 2 and 3 | 132,717 | `BuffersOwned`, `HeapTiled`, `NodesKept`, `HandsOutRuns` |
| `switch` | 2 pairs, 3 descriptors, 4 threads | 1,455,711 | `PairsConserved`, `LocksGivenBack`, `NoHalfOpen`, `AssertionsHold` |
| `no_winner`, `late_allin`, `empty_allin`, `stake_falls`, `ready_waits` | see the findings | - | one violated property each |

The properties say, in one line each (the full statement is the comment in the
module):

- `FairRounds`, `OneTurnEach`: a round ends only when everybody who can still
  bet has had his turn, and nobody gets a second turn before that. The second
  needs polite clients: one who goes all in without being offered it can leave
  the first speaker among those who are skipped.
- `FirstIsHolder`: the first speaker still holds cards.
- `HandHasClock`, `Undecided`, `HandEnds`: a hand always has a clock, no
  handler forgets to end a decided one, and every hand is settled even when
  nobody says anything.
- `PoolMatchesBets`, `LedgerAgrees`, `WealthNeverGrows`, `DebtIsAllin`: the coins. The
  last says how far a player may owe: only by an all-in, and by one that sets the stake
  of everybody else's.
- `OnlyBestGains`: when every all-in was paid in full (`AllinsPaid`; for the rest see
  `empty_allin`), nobody gains from a settlement who is beaten though some card holder
  is beaten by nobody. With 235, a leopard and a third hand shown together
  each is beaten by another, and the order of the chairs decides
  (`Table.cpp:981`).
- `HandOnlyAdvances`: nothing dealt, bet, folded or looked at in a hand is
  undone in it.
- `CountMatches`, `OneToAChair`, `ActiveTogether`, `LobbyTimersOff`,
  `LockHasTimer`, `TurnOwnsTimer`, `LockReleased`, `DroppedArePutOut`: the table,
  its status, lock and timers stay in step.
- `PlaysAHand`, `HandIsSettled`: the table implements `GoldenHand`.
- `ChairsAgree`, `OneObject`, `AddressesApart`: objects, chairs and counts agree; a
  human has one object however many of his logins wait; two humans with one address
  never share a table.
- `TurnedAwayWhenFull`, `StraysFreed`: a login fails for want of a table, or brings
  the server down, only when no table is empty; the object a failed login leaves
  behind is freed.
- `FiledOnce`, `IdIsServer`: a table is offered under the number of players it is
  listed with, and once; a connection with the id of a server is the one the server
  is known by.
- `ServerFound`: a game server that stays connected is known in the end. It takes
  that the end of its last connection was noticed before it made a new one.
  Otherwise the late end takes the server down, and since an update of a server
  that is not known is answered with 0 (`UpdateMemberProc`), it never reports again.
- `BuffersOwned`, `HeapTiled`, `NodesKept`, `HandsOutRuns`: the chunks tile the pool,
  free ones are joined and listed, no list node is lost, each used chunk is one
  item's buffer, and the pool implements `BlockPool`.
- `PairsConserved`, `LocksGivenBack`: a pair is in the map or in the queue, once;
  a mutex is held by a thread that will give it back.
- `NoHalfOpen`, `AssertionsHold`: an active pair that nobody is at work on has both
  its sockets, both watched; the assertions of the code hold. Both are stated for
  executions in which no two threads were at work on one pair at once. The code does
  not exclude that: a pair is queued as free before its sockets are closed
  (`TCPNetworkEngine.cpp:743`), `attach` and `checkTimeout` work without its mutex
  (`:1220`, `:980`), and then `assert(false)` at `:257` and the comparison at `:1176`
  are reached. `PairsConserved` and `LocksGivenBack` hold with the overlap.

*Why these bounds.* The turn, the first speaker and the rounds need three
players: one who acts, one who is the first speaker, one who is neither. With
three, every operator that walks over the chairs has a choice. What carries
over from hand to hand - coins, accounts, dropped clients, time-outs, the
previous winner - needs several hands but not a third player; `hands2` has no
constraint: a robot brings new coins with each login, but whoever has more than `MaxMoney`
plays no further hand, so its states are finite. `hand3` has four coins because somebody must owe while another can still bet;
with three, an all-in that cannot be paid is the last bet of the hand. `FirstHand`
prunes the `hand3` runs after the first settlement: they explore the
lobby, one whole hand and the step that settles it. It also prunes what follows
a client that drops in a hand, which `hands2` explores. Two tables of two chairs give a full
table, one with a chair left and an empty one; two waiting logins give a login
that is overtaken by another of the same user and by one of another. Two
connections are an old and a new one of a server. Five blocks are enough for a
free chunk before, after and on both sides of the one that is freed. Three
descriptors are one fewer than two pairs need, so a connection fails half way. With
`Bounded` nothing new begins after two threads have overlapped: what has begun runs
to its end.

*Symmetry* is used where it is sound: in the runs over one hand all deals are
enumerated, everybody starts with the same coins, and the properties are invariants,
action properties or safety refinements; in `pool` the two pairs, and the two items
of a pair, are alike. `CHECK_DEADLOCK FALSE` is set where the system may really stop:
users without coins, a server that has crashed, a gateway out of descriptors and
pairs. `pool` and `alloc` are checked for deadlock.

## Findings

Five runs end in a violation on purpose. Each shows a disagreement between the
code and what the code itself says.

- **`no_winner`** (`Table.cpp:986`). A player who wins a comparison with no
  coins left and one opponent remaining is compared with him at once; the
  result is kept and announced by a timer (`COMPARE_NOTIFY_DELAY_TIME`, 5.5 s).
  If one of the two folds before that, the hand is decided and the settlement
  timer starts (1.5 s). When the other is the loser of the kept comparison,
  `CompareResultNotifyTimeOut` discards his cards too, and `calcCoin` finds no
  card holder: `winner` stays NULL and is dereferenced. The order needs a fold
  between 4.0 s and 5.5 s after the comparison, which the bet time of 20 s
  (`BetCoinTime`) allows.
- **`late_allin`** (`Table.cpp:798`). `m_lHasAllInCoin`, the stake of the first all-in, is
  described as the all-in stake "if somebody is all in" (`Table.h:186`).
  `setPlayerlimitcoin` takes it whenever it is not 0. One goes all in and folds while the
  next is on turn: nobody who holds cards is all in any more, the next calls as usual,
  and the third may go all in for the old stake. Then the caller is offered that stake
  with fewer coins left, and `AllinProc` asks only for a purse that is not empty (`:69`).
  With clients that follow `optype`, `NobodyOwes` holds in hands of two rounds; it needs
  three. What holds instead, whatever the clients send, is `DebtIsAllin`.
- **`empty_allin`** (`Table.cpp:25`). When the poorest card holder has no coins left the
  all-in costs nothing (`setPlayerlimitcoin`, `AllinProc.cpp:69`), and `m_lHasAllInCoin`
  stays 0 after it. When that holder folds or leaves, `setPlayerlimitcoin` sets a new
  `m_AllinCoin`, also for the one who is all in already. If he has not looked and loses
  to one who has, `set_loser_coin` gives him back half of that, which he never staked:
  the loser gains, and the winner may lose. This came up when a proof of an earlier
  `OnlyBestGains` failed; in `hand3_polite` all users start with equal purses, where it
  cannot happen.
- **`stake_falls`** (`RaseProcess.cpp:74`). `m_lCurrBetMax` is described as the
  largest amount so far, but a player who has not looked may raise to half of
  the stake set by one who has, and everybody calls the lower stake after it.
- **`ready_waits`** (`StartGameProc.cpp:107`). Players may get ready while a
  hand is being settled; the start timer is started only by a message that
  arrives outside a hand, so two ready players wait for a third who says
  nothing. (The constraint `QuietHand` only shortens the search: the state is
  reached without it too.)

Seen while modelling, and part of the models or named in their comments:

- AllocServer forgets a server whose connection ends but not its tables
  (`delTablesInSvid` has no caller); a table given out of the list may be full;
  `currTabCount` is not bounded by the number of tables, so the index one past the
  last can be given out, which `Room::getTable` accepts (`Room.cpp:132`); a report
  of an unchanged table that has been dropped does not file it again; if Redis fails
  while a server registers, the server is known and nothing can be sent to it.
- With `NumPlayer=2` the second player of a golden table sits on chair 2
  (`Table.cpp:356`), which no loop over the players visits: he is counted and never found.
- The gateway loses the client's descriptor when it cannot make a socket
  (`TCPNetworkEngine.cpp:782`); the accept loop spins while `accept` fails
  (`:1059`).

## Proofs

For all values of the constants that satisfy the named assumptions:

| module | theorem | what holds |
|---|---|---|
| `GoldenTable_proofs` | `CountMatchesHolds` | the count is the number of chairs taken |
| | `ActiveTogetherHolds` | the table is at play exactly while a player at it is |
| | `OverIsTimedHolds` | the table refuses bets exactly while its settlement timer runs |
| | `LobbyTimersOffHolds` | no timer of the lobby runs in a hand |
| | `LockHasTimerHolds` | a locked table has the timer that unlocks it |
| | `TurnOwnsTimerHolds` | the bet timer runs for the active player whose turn it is, and not in a decided hand |
| | `ControlHolds` | the fields that steer the table keep their types; the round stays within `MaxRound`, the count within the chairs |
| | `OneToAChairHolds` | no two players share a chair |
| | `PlaysAHandHolds` | the table implements `GoldenHand`, unless a comparison announced late costs a player on turn his cards while two others hold theirs |
| | `FirstIsHolderHolds` | the first speaker holds cards, unless a comparison announced late costs a player his cards while two others hold theirs |
| | `NoticeFirstSuffices` | both, if no hand is settled before the comparison is announced |
| | `HInvHolds` | whoever is not in a hand holds no cards |
| | `DroppedArePutOutHolds` | only the settlement timer settles a hand, and it puts out the dropped and the timed out |
| | `NoCrashHolds` | a settlement finds a card holder to be the winner, unless a comparison announced in a decided hand takes the last one's cards |
| `GoldenTableCoins_proofs` | `CInvHolds` | who is not in a hand has staked nothing; between two hands no coins are at stake |
| | `LedgerAgreesHolds` | what a user has at the table is what the account holds, less the stake |
| | `PoolMatchesBetsHolds` | the pool is the bets and the forfeits, unless a robot is replaced in a hand |
| | `DInvHolds` | nobody owes more than an all-in covers |
| | `DebtIsAllinHolds` | whoever owes in a hand that is bet on is all in, and everybody's all-in is for the same stake |
| | `TypeOKHolds` | the table keeps its type; no bet, pool or limit is negative |
| | `HandOnlyAdvancesHolds` | nothing dealt, bet, folded or looked at in a hand is undone in it |
| | `WealthNeverGrowsHolds` | without robots, the users never own more together than at first |
| | `KInvHolds` | with polite clients the bet timer of a hand that is bet on runs for a holder who can still bet, unless a comparison announced late costs the player on turn his cards while two others hold theirs |
| | `HandHasClockHolds` | then a hand always has a clock |
| | `UndecidedHolds` | then no handler forgets to end a decided hand |
| | `NoticeFirstClocks` | both, if no hand is settled before the comparison is announced |
| | `FairRoundsHolds` | with any clients, a round ends only when everybody who can still bet has had his turn in it; the hypotheses are `[][RobotsStay]_vars` and `[]LastTwoCompare` |
| | `OneTurnEachHolds` | with polite clients, nobody is asked a second time before the round ends; the hypotheses are `[][RobotsStay]_vars` and `[]OfLastTwo` |
| | `NoticeFirstRounds` | both, if no hand is settled before the comparison is announced and no robot is replaced in a hand |
| | `OnlyBestGainsHolds` | a settlement of paid all-ins pays only card holders nobody beats, wherever there is one, and takes from nobody more than he has bet |
| | `AllinsPaidHolds` | whoever is all in has paid for it, if nobody goes all in for nothing (`[][CoinsAllin]_vars`) |
| | `AllinLoserLosesHolds` | then a loser who is all in loses |
| `GoldenCards_proofs` | `HandsCompareByStrength` | `CompareCard` on any two hands of three cards is the order on their strengths |
| `GoldenRoom_proofs` | `ChairsAgreeHolds` | objects, chairs, ids and counts agree |
| | `OneObjectHolds` | a human has one object, however many of his logins wait |
| | `AddressesApartHolds` | two humans with one address are never at one table |
| | `TurnedAwayWhenFullHolds` | a login fails for want of a table only when no table is empty |
| `AllocServer_proofs` | `FiledOnceHolds` | a table is offered under its number of players, and once |
| | `IdIsServerHolds` | a connection with the id of a server is the one the server is known by |
| `SwitchEngine_proofs` | `PairsConservedHolds` | every pair is in the map or in the queue, once |
| | `TypeCorrect` | the variables keep their types |
| | `LocksGivenBackHolds` | a mutex is held by a thread that will give it back |
| | `SocketInvHolds` | while no two threads have met at a pair, its items, descriptors and events agree |
| | `NoHalfOpenHolds` | then no pair of the map that nobody is at work on has one end only |
| | `AssertionsHoldHolds` | then the assertions of the code hold |
| `SwitchBuffers_proofs` | `BufInvHolds` | the invariant of the pool's lists and of the buffers in it |
| | `BuffersOwnedHolds` | the buffers are the used chunks, each of one item, and large enough |
| | `HeapTiledHolds` | the chunks tile the pool, free ones are joined and listed once |
| | `NodesKeptHolds` | no list node is lost; `used_size` counts what is out |
| | `HandsOutRunsHolds` | the pool implements `BlockPool` |
| | `DisjointHolds` | runs of blocks that `BlockPool` hands out share no block |
| | `NobodysMemoryHolds` | so nobody's memory is anybody else's |

**The table.** The theorems about it hold for any finite set of users, any coins,
deals, robots and clients, and any table of three, four or five chairs (`MaxNum > 2`;
with two, `playerSeatInTab` seats the second player on chair 2, `Table.cpp:356`,
which no loop `i < m_bMaxNum` visits). Besides that they rest on the named
assumptions of `GoldenTableOps` and `GoldenTable`: `User` is finite, `None` is no
user, `MaxNum` is in `2..5` (`SeatAssumption`, the length of `player_array`), rounds
and coins are natural numbers, `Deals` are functions to strengths.

`TableInv == Core /\ TwoIn` is proved inductive. `Core` is the conjunction of the
first six properties as predicates on a table, with the types they need. It is not
inductive by itself: when a player leaves in the middle of a hand he may be the last
who is active, and the table would be left at play with nobody playing. `TwoIn`
excludes that: *a hand that is not being settled has two card holders*. It holds
because every handler that takes a holder away ends with `iscanGameOver`, and because
`setPlayerOptype`, `setNextFirstPlayer`, bets and looks change no holder. A handler
is a composition of operators, and in its middle `TwoIn` fails (the fold has
happened, `iscanGameOver` has not been asked); so each operator has a lemma that it
keeps `Core`, `GameOverIfDecidedInv` restores `TwoIn` at the end, and the lemma of an
action is the chain of these. `Seated` is what is left of `Core` in the middle of a
settlement. `MaxNum > 2` enters in one place only, `ChairIn`: the chair
`playerSeatInTab` finds is one the loops visit.

`Typed` is proved the same way in the second part of the module: types operator by
operator, `Apart` (different chairs) and, from it and `Counted` by the pigeonhole
principle, `count <= MaxNum`.

**The hand.** `HInv` adds to `TableInv` that *whoever is not in the hand holds no cards*
(`NoStray`): that is what makes the card holders of the settlement, which `calcCoin`
finds by their cards, the holders of the hand. `Spoken` and `Dropped` describe what an
operator in the middle of a handler has left of the hand, after the one on turn has acted
or after somebody else has gone; both survive bets, offers and the choice of the next
first speaker, and `EndsSpoken` turns them, at `iscanGameOver`, into `Speak`, `DropOut`
or `Decide`. Handlers outside the hand leave it alone (`Rests`) or deal
(`DealsOrRests`). The one step that need not be a step of `GoldenHand` is
`CompareResultNotifyTimeOut`, which takes the cards of a player without looking whose
turn it is. `PlaysAHandHolds` therefore has the hypothesis `[]LastTwoCompare`: when the
loser is on turn and holds cards, he is one of the last two, so the hand ends.
`HInvHolds` and `DroppedArePutOutHolds` have no such hypothesis.

**The first speaker.** `FInv` adds to `HInv` that *the first speaker of a hand that is bet
on holds cards*. A handler that takes cards calls `setNextFirstPlayer` afterwards, so in its
middle the mark may be on the player who has just given them up (`FirstOr`);
`SetNextFirstLeads` hands it on to the next holder, and `getNextBetPlayer`, which may come
in between, moves no mark. The steps outside a hand take nobody's chair in it
(`PlayersLeaveFirst`), and `gameStart` marks one of those it deals to.
`CompareResultNotifyTimeOut` is the exception again: it takes cards and hands on nothing.
So `FirstIsHolderHolds` has the hypothesis `[]OfLastTwo`, which is `LastTwoCompare` for
every loser, on turn or not: if the announcement takes cards, the hand ends.

`NoticeFirstSuffices` says where the two hypotheses come from. `CompareInv`, *a comparison
waits for its announcement only in a hand of one or two holders*, is inductive together
with `FInv` as long as no hand is settled while the notification timer runs
(`NoticeFirst`): `CompareCardProc` forces a comparison only when two holders are left, and
in a hand holders only become fewer (`HandGoesOn`, which is a lemma about `GoldenHand`).
TLC found no counterexample to `CompareInv` in the million states it reached of three
players' hands before it was proved. The code does not guarantee `NoticeFirst`: the settlement does not stop the
notification timer (`Table.cpp:1192`), and its delay of 5.5 seconds is longer than both
delays of a settlement (`Table.h:19`), so it depends on how fast the hand ends.

**The winner.** `NoCrashHolds` has the opposite of the finding `no_winner` as its hypothesis:
`[]LoserIsNotLast`, no announcement in a decided hand takes the cards of the only one who
holds any. The invariant is `HInv` with `Winnable`, *a hand has a card holder*. Until it is
decided that follows from the abstract hand, of whose two holders a step takes one at most
(`PlayedIsWinnable`); afterwards `over` turns away every message of a player in the hand,
and what is left are the steps around it (`MessageIsAround`), which take nobody's cards. So
the announcement is the only way to a NULL winner.

**The coins.** `CInv` adds to the table's invariant and types that *whoever is not in
the hand has staked nothing* (`Quiet`) and that *between two hands nothing is at stake*
(`Idle`). It needs no hypothesis but `MaxNum > 2`, and `LedgerAgrees` follows from it:
`NextCoins` shows that every action is one of few kinds of step for its coins - one
player stakes some, one leaves the hand and forfeits the bet, one comes with the coins of
the account, a hand is dealt, a hand is settled, or no coins move - and each kind keeps
every user's purse, bet and account in step.

`PoolMatchesBets` and the theorems after it assume `[][RobotsStay]_vars`: no robot is
replaced while it is in a hand. `playerComming` gives the chair of a robot that logs in
again to a fresh object, whose bet, all-in and limit are 0 (`Table.cpp:237`), and the pool
keeps what it had bet; then `PoolMatchesBets` is false. The instances of `hand3` and
`hand3_polite` have no robots, `hands2` has one.

`DInv` is about debts. An all-in may cost more than its player has: `AllinProc` checks
only that the purse is not empty, and the limit is the stake of the first all-in. So a
purse may be negative, and the invariant says when (`Covered`): *a card holder who owes is
all in, an all-in stands, and its stake is the limit of everybody who may still stake*
(`DebtIsAllin` is what it says of a table between two steps). That a player never owes
at all is false, as `late_allin` shows. Then the settlement can take what is owed from the pool, `setPlayerlimitcoin` never offers
a negative stake, and every bet is one of coins that exist. A handler keeps `Covered`, or
the hand is decided when it ends (`PassesSound`): the player who owes without the others
knowing it yet is the last who can bet, or the turn goes to a player whose limit
`setPlayerOptype` has just set. With `Covered`, no count is negative (`TypeOK`), and bets
only grow, which is `HandOnlyAdvances`. `Rich` makes it begin: whoever waits for a hand has
`MinMoney`, so the theorems assume `MinMoney >= Ante`. Nothing in the code ties the two:
both come from Redis, `checkMoney` compares with the one and `gameStart` takes the other
(`CoinConf.cpp:40`). A configuration with a lower `MinMoney` deals hands to players who
cannot pay the ante, and `TypeOK` is false: with `Ante = 2`, `MinMoney = 0` and one coin
each TLC finds a negative all-in limit.

`WealthNeverGrows` is about the sum of the accounts. The results that `calcCoin` books
add up to no more than the forfeits (`BookedAddUp`): the winners share what is left of the
pool after the losers' returns, by a division that rounds down, and the tax is taken from
what is won. It is proved for tables without robots, whose coins MoneyServer does not
keep: with one, a user may win coins that no account has lost.

**The clock.** `KInv` adds to `CInv` that a hand that is bet on `Ticks`: *the bet timer
runs for a card holder who is not all in* (`Timed`), *and he is offered neither a raise
nor a comparison once somebody is all in* (`Offered`). `HandHasClock` and `Undecided`
follow from it, and neither is inductive. Without `Timed` the next to move may have
nothing to say: then `getNextBetPlayer` finds nobody and starts no timer. Without
`Offered` a polite client could raise, or compare, after an all-in. `RaseProcess` does not
call `iscanGameOver`, and `CompareCardProc` takes cards after the choice of the next
player; both are safe only because somebody other than the actor can still bet.
A handler is again judged in its middle: `Passed` says what `getNextBetPlayer` has left
(the hand is over, the clock runs for somebody else, or nobody else can bet), `Decisive`
what must be known of the actor for the first look at `iscanGameOver` to end the hand in
that last case. The steps around a hand leave its clock alone or deal (`Around`), and
whoever is dealt to is not all in, which is `Quiet` of the coin invariant.

The theorems assume `Polite`, the clients of `hand3_polite`: an impolite one goes all in,
or raises, when it was not offered. They have the hypothesis `[]LastTwoCompare` for the
reason given above: `CompareResultNotifyTimeOut` may take the cards of the player on turn
without starting anybody's timer, and looks only whether the hand is decided.
`NoticeFirstClocks` derives it from `NoticeFirst`.

**The rounds.** `getNextBetPlayer` counts a round when it passes `m_nFirstIndex`, and
`setNextFirstPlayer` moves that mark while the round goes on; so it is not obvious that a
round is everybody's turn. The chairs are seen as a circle that begins at the first
speaker (`Off`). `RInv` adds to `CInv` that *every card holder who sits before the player
on turn and can still bet has had his turn* (`InTurn`). The mark is only handed on to whoever
would have been met next, so the others keep their order in the new circle
(`NextFirstInTurn`). `PassesInTurn` says of
`getNextBetPlayer` that it either keeps the order, or counts a round when nobody is left to
speak. In the middle of a handler one player may have given up his cards, or may have gone
all in, and be on turn: `OnTurn` says what holds there, and `Hence` what a walk that began
there has left. The announcement of an older comparison moves neither the mark nor the
turn, and is turned away from the player on turn by `[]LastTwoCompare`; a robot that is
replaced in a hand would forget its all-in, hence `[][RobotsStay]_vars`. `FairRounds`
needs no polite clients.

`OneTurnEach` does. Its invariant (`Once`) is the converse of `InTurn`, *whoever has had his
turn and can still bet sits before the player on turn*, strengthened by *nobody who can
still bet and sits before the player on turn sits behind somebody who is all in*. Without
the strengthening the first speaker could be all in while one who has had his turn can still
bet: `getNextBetPlayer` skips the mark, no round is counted, and he is asked again. It is
kept because with polite clients the first to go all in is on turn, and after him whoever
has the turn goes all in as well (`Call`), folds or leaves (`MayPass`). It also
uses `KInv` (a raise or a comparison is not offered after an all-in) and `FInv` (the mark is
on a card holder, so that the walk does not go past it unnoticed), hence `[]OfLastTwo`. Both
theorems are proved together: `RInv(G)` speaks of the second turn of the players in `G`
only, and `G` is empty for `FairRounds`, all users for `OneTurnEach`, and all but the leaver
in the middle of `LeaveHand`, which passes the turn before it takes the leaver's cards.
TLC found `Once` true of every state of `hand3_polite` before it was proved.

The sums are those of `MapThenSumSet`. The library's induction theorems cannot be
instantiated here, so `FiniteSums` states induction over the subsets of a finite set for
a *set* of subsets (`SubsetInduction`), proves it from the least size of a counterexample,
and derives from it what a sum is when a summand changes, and that it is monotonic and
additive. It also has that `Min` of a set of natural numbers, or of a finite set of
integers, is its least element.

**Who gains.** `calcCoin` looks for the best hand on one walk over the chairs, from the
last card holder on, and whoever beats the best so far replaces it; the hands that draw
with the last one win with it. A walk like that finds the largest of an ordered set, but
235, a leopard and a third hand beat each other in a circle. `BestIsUnbeaten` (at the
end of `GoldenTable_proofs`) says what it still finds: a shown hand, and if there is a hand
`w` that no shown hand beats, a hand of the same strength as `w`. Before the walk comes to
the chair of `w`, nothing matters; there, `w` replaces the best so far or ties with it
(`OneIsBetter`); after it, nobody beats a hand of that strength. The walk is a recursive
function chosen by CHOOSE, so its equations hold only if there is one. Induction over the
chairs is not available to the provers, and `WalkExists` and `WalkOn` use that there are
at most five (`SeatAssumption`).

That the others do not gain is about the sums (`BookedBounds`): a loser gets back half of
his all-in at most, which is covered by his bet as long as the all-in was paid, so what is
left of the pool is at least what the winners bet, and their share is not negative
(`ShareNonNeg`, from `PoolMatchesBets`). The tax leaves a win a win or nothing.
`AllinsPaid` is the condition of `OnlyBestGains`, in each settlement; it was found by the
attempt to prove the property without it, and without it the property is false.

**Paid all-ins.** `AllinsPaidHolds` says when that condition holds: in every run in which
nobody goes all in for nothing (`CoinsAllin`: an `Allin` step finds a stake of one coin at
least). So the empty all-in of `AllinProc.cpp:69` is the only cause of the finding
`empty_allin`; `AllinLoserLosesHolds` is the violated property of that run as a theorem
under this hypothesis. The invariant is `Level`: *everybody who may still stake is asked
for the same; once somebody is all in for one coin or more, for that; and a card holder who
is all in has bet that much*. "Who may still stake" are the card holders and the one on
turn, as in `Covered`. Most of a handler only narrows that set (`NarrowedLevel`);
`setPlayerlimitcoin` asks everybody in it for one new stake, or for the old one if there
was an all-in (`LimitEven`); an all-in, and a call after it, pays it (`PaidAllinEven`).
TLC checked the invariant, `AllinsPaid` and `AllinLoserLoses` before they were proved: on
the instance of `empty_allin` less the all-ins for nothing (99,627 states), and on one
whose clients are not polite.

**The cards.** `SortCardListSorts`: two passes of comparisons leave the values in
descending order. The strength of a hand is its type and three values, read as the
digits of a number to the base 16; `DetailRange` and `DetailDecides` reduce the
comparison of two such numbers to that of the digits, with the pair, the lines (A23 is
the smallest) and the 235 as cases of their own.

**The room.** `RoomInv` adds to the four properties what they need of each other: ids
and objects agree, the counts are those of finite sets, and a locked table has two
players. The last is why a login cannot fail while a table is empty: an empty table is
neither locked nor full nor has it a user of the same address. A login that has waited
needs nothing of the state in which it began, because `doResponse` looks up the object
again; that is why `OneObject` survives the wait, and why `asked` does not occur in the
invariant.

**AllocServer.** `BookInv == TypeInv /\ FiledOnce /\ IdIsServer` is inductive as it
stands. `FiledOnce` depends on updates of a table looking for it under its old count,
which is where it is filed; `IdIsServer` on a connection being given an id only when
the server was not known.

**The gateway.** `PairInv` is `PairsConserved` with the types of the queue; a step takes
a pair from the head of the queue or appends one that is in the map, and no order of
closings does it twice, because `ClientItemToFree` and `ForwardItemToFree` look in the
map under its mutex. `LocksInv == TypeInv /\ LocksGivenBack` holds because a step is
one thread's: the others stay where they are (`Moves`), so only the locks of the thread
that moves are to be looked at. Both hold whatever the threads overlap.

`NoHalfOpen` and `AssertionsHold` are about the time before two threads overlap, and so
is `SocketInv`. It says of the descriptors that *an open item has one that is open, that
no other open item has and that the accepting thread does not hold* (`FdsApart`): without
that, closing one pair would close another's socket. Of each pair it says how far the
closing has come (`HalfClosed`) and what is left when nobody is closing it (`Whole`): in
the map both ends, or the client's alone while the accepting thread connects it; outside
the map no end to the game server. A client may stay open there: when no descriptor is
left for the game server (`NoSocket`), `onEventClientShutdown` is called without closing
the client's own socket, and the pair goes back to the queue with it. A step is judged by
the one pair it is at (`OneThreadOnePair`): who is at work on a pair is alone there, so
what he closes, resets or attaches is still what he saw. That is also why an event or a
timeout that was noted for an earlier connection of the pair does no harm by itself.

**The memory pool.** The theorems hold for any number of blocks, block and buffer sizes,
items, partners and threads, and for messages of any sizes that `MessagesAssumption`
allows. `Spec => []BufInv` is proved in four layers.

1. *Lists.* `List(next, head, s, m, S)` says that `s` numbers the `m` nodes after `head`,
   which are the nodes of `S`; `Shared` that a list and the cache of its unused nodes
   share out one set of nodes. `Entered` and `Left` show what the four calls on lists do:
   a node enters the numbering at a place (`Ins`) or leaves it (`Del`). The links back are
   kept for the list only: the code does not keep them in the caches. `WalkIs` shows
   that the walk the properties use goes along the numbering.
2. *The heap.* `PoolInv` is the invariant between the parts of a call: the chunks, in the
   order of their list, tile the pool (`Tiles`), two free ones never lie side by side
   (`Alternates`), the free list holds each free chunk once (`Indexed`), the first block of
   each points to it (`Owned`), and `used_size` is the sum of the used ones. It has two
   exceptions, for the chunk that is just being freed: `x` is free and not listed yet, and
   `y` may have a free neighbour. `poll_free` opens both (`Releases`), joins at most two
   neighbours (`JoinsPrev`, `JoinsNext`) and closes them (`Listing`, `Settles`).
   `PointLeft` counts the nodes of the free list: free chunks begin two blocks apart, so
   half of the blocks and one more is enough (`free_max_size`).
3. *The calls.* `AllocIs` and `FreeIs`: a call keeps the invariant (`HeapInv`) and adds one
   chunk of the size asked for to the used ones, or takes one away, and leaves the others
   where they are. This is all the buffers see (`Hands`, `Returns`), and all `BlockPool`
   sees (`Moves`).
4. *The buffers.* `BufInv` says that the addresses handed out are exactly the buffers of the
   items, each of one item, and that there is room for the bytes that wait. It is
   inductive because an item that is growing is not closed in between
   (`GrowthKept`): the old buffer would be given back twice. That is what the lock of the
   pair is for (`MayHandle`). `ItemStep` reduces a step to the item it is of.

`HeapInv` quantifies over numberings and is not something TLC evaluates; its parts that
speak of a heap alone are the three invariants of the run `pool`.

## Limits

Only model-checked, because out of the prover's reach: liveness (`HandEnds`,
`LockReleased`, `HandIsSettled`, `StraysFreed`, `ServerFound`) and everything that
reasons about ENABLED.

`PlaysAHand` and `FirstIsHolder` are checked for one hand, and proved for any number of
them on the conditions `LastTwoCompare` and `OfLastTwo` only: a comparison that is kept
across a settlement may, in the next hand, discard the cards of the player whose turn it
is, or of the first speaker.

Not modelled, and why:

- *Private rooms, the shuffle, multiplied stakes and changed cards* of golden fight: no
  handler of this server turns them on, or any outcome is possible (the shuffle).
- *Halls, the detour of a request over UserServer, private tables* in AllocServer: they
  only pass messages on. BullAllocServer is a near copy of AllocServer.
- *The bytes that are forwarded and the WebSocket protocol* of the gateway: data.
- *gtexas fight*: a system of its own, as large as golden fight.
- *The banker games* (golden hundred, bull, banco, gtexas hundred): rounds driven by
  fixed timers, with none of the turn-taking of the table games; systems of their own.
- *show-hand*: the structure of the golden table, with five cards dealt one by one.
- *httpserver*: each request is a sequence of queries to Redis, MySQL and MoneyServer,
  with no state in the process.
- *MahjongLogic, RoomCardMode, MahjongRobotServer, the robots*: libraries and clients;
  a client is covered by the messages the table accepts from anyone.
- *commonsdk, compile*: headers of binary libraries, build scripts.

The repository is much larger than what is modelled: most of it is libraries, headers
and the same server in several editions.

External, modelled from its use: `GameUtil::CalcSysWinMoney` (a percentage of a
win is kept), MoneyServer (an account that is read at login and changed by a
settlement or a leave), `CCTimer` (expires unless stopped), Redis (a write that may
fail), the kernel's descriptors and epoll.

## Plan

Done: the table with its turns, the room, the cards, AllocServer with its restarts, the
gateway with its pool, the abstract hand and the abstract pool, and the theorems above.
What is left, in this order:

1. gtexas fight: the turn and the rounds are golden's; what is new is the division of the
   pool into side pots (`setBottomPool`), the folder whose bets are counted with those
   of the leavers (`setSumPool`), and the window of one second in which the next card is
   sent (`setNextRound`).
2. A banker game (golden hundred): the banker's list, the limit on the sum of bets, and
   that the banker can pay.
3. A run over two hands of three players for the comparison that is kept across a
   settlement.
