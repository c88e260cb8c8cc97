------------------------------ MODULE GoldenTable ------------------------------
(***************************************************************************)
(* One table of the golden game server: the client messages                *)
(* (src/golden/GameServer/fight/src/process) and the timers (TableTimer,   *)
(* RoomTimer) that act on it.  The server is one event loop, so a handler  *)
(* or a timer runs to its end before the next starts: each is one action.  *)
(* What interleaves is the order of messages and timers.                   *)
(*                                                                         *)
(* A timer is a flag of the table record; it may expire in any step after  *)
(* it was started, so every relation between the configured durations is   *)
(* covered.                                                                *)
(***************************************************************************)
EXTENDS GoldenTableOps, Functions

CONSTANTS
    Robots,         \* the users of source 30
    InitAcct,       \* [User -> Nat], the coins MoneyServer starts with
    RobotMoney,     \* the coins a robot may bring
    RaseChoices,    \* the stakes a client may ask for
    Deals,          \* sets of hands that may be dealt, [User -> Nat]
    Polite          \* clients ask only for what optype offers them

ASSUME RobotAssumption == Robots \subseteq User
ASSUME DealAssumption == Deals # {} /\ Deals \subseteq [User -> Nat]
ASSUME MoneyAssumption ==
    /\ InitAcct \in [User -> Nat]
    /\ RobotMoney \subseteq Nat
    /\ RaseChoices \subseteq Nat
    /\ Polite \in BOOLEAN

VARIABLES
    table,          \* the Table object, with its timers and Players
    acct,           \* the coins of each user at MoneyServer
    crashed         \* calcCoin dereferenced a NULL winner

vars == <<table, acct, crashed>>

FreshTable ==
    [status |-> "EMPTY", count |-> 0, round |-> 0, currBet |-> None,
     betMax |-> 0, maxCard |-> "UNKNOWN", first |-> 0, preWin |-> NoSeat,
     pool |-> 0, leaveSum |-> 0, canAllin |-> FALSE, hasAllin |-> 0,
     over |-> FALSE, lock |-> FALSE, offer |-> {},
     betT |-> None, startT |-> FALSE, kickT |-> FALSE, overT |-> FALSE,
     cmpT |-> FALSE, cmp |-> NoCompare,
     seat |-> [u \in User |-> NoSeat], pst |-> [u \in User |-> "LOGOUT"],
     card |-> [u \in User |-> "DISCARD"], money |-> [u \in User |-> 0],
     bet |-> [u \in User |-> 0], allin |-> [u \in User |-> FALSE],
     allinCoin |-> [u \in User |-> 0], rank |-> [u \in User |-> 0],
     drop |-> [u \in User |-> FALSE], tmo |-> [u \in User |-> 0]]

Init ==
    /\ table = FreshTable
    /\ acct = InitAcct
    /\ crashed = FALSE

\* The game server replies to the client; the table alone changes.
TableBecomes(s) ==
    /\ table' = s
    /\ UNCHANGED <<acct, crashed>>

\* A message of a user at the table, while the server is up.
At(u) == ~ crashed /\ u \in InTable(table)
Playing(u) == At(u) /\ table.pst[u] = "ACTIVE"

\* A mutated form: m_bIsOverTimer is not looked at.
InHand_Any(u) == Playing(u)

\* A player of a hand that is not being settled
InHand(u) == Playing(u) /\ ~ table.over

Turn(u) == InHand(u) /\ table.currBet = u

\* A polite client sends only what it was offered.
Asks(u, op) == Polite => (table.currBet = u /\ op \in table.offer)

-----------------------------------------------------------------------------
(* Coming and leaving. *)

\* LoginComingProc::doResponse, for a user the room does not know yet: the
\* table is not locked and has a chair; the money is what MoneyServer answered.
LoginComing(u) ==
    /\ ~ crashed /\ u \notin Robots /\ table.seat[u] = NoSeat
    /\ CheckMoney(acct[u])
    /\ ~ table.lock /\ FreeChairs(table) # {}
    /\ TableBecomes(SetKickTimer(PlayerComming(table, u, acct[u])))

\* The same for a user whose own choice of table was full or had a player with
\* the same address: getAvailableTable(uid, ip) does not look at the lock.
LoginRedirected(u) ==
    /\ ~ crashed /\ u \notin Robots /\ table.seat[u] = NoSeat
    /\ CheckMoney(acct[u])
    /\ table.lock /\ table.count < MaxNum /\ FreeChairs(table) # {}
    /\ TableBecomes(PlayerComming(table, u, acct[u]))

\* LoginComingProc::doRequest for a robot, which brings its own coins: no lock
\* is looked at and no kick timer is set.
RobotComing(u) ==
    /\ ~ crashed /\ u \in Robots /\ table.seat[u] = NoSeat
    /\ FreeChairs(table) # {}
    /\ \E m \in RobotMoney :
         CheckMoney(m) /\ TableBecomes(PlayerComming(table, u, m))

\* The same for a robot that is already at the table: its RobotServer has
\* restarted and logs its robots in again.
RobotReplaced(u) ==
    /\ At(u) /\ u \in Robots
    /\ \E m \in RobotMoney :
         CheckMoney(m) /\ TableBecomes(PlayerReplaced(table, u, m))

\* LeaveProcess for a player in the hand: the bet is forfeited to the pool and
\* taken from the account, the turn passes on, the player goes.
LeaveHand(u) ==
    LET s1 == Forfeit(table, u)
        s2 == IF table.currBet = u THEN GetNextBetPlayer(s1, u) ELSE s1
        s3 == SetNextFirst(Discard(s2, u), u)
        s4 == PlayersLeave(s3, {u})
    IN /\ InHand(u)
       /\ \E d \in Deals :
            table' = IF IsCanGameOver(s4) THEN GameOver(s4)
                     ELSE StartIfAllReady(s4, d)
       /\ acct' = IF u \in Robots THEN acct
                  ELSE [acct EXCEPT ![u] = @ - table.bet[u] - Tax]
       /\ UNCHANGED crashed

\* LeaveProcess for a player outside the hand.
LeaveTable(u) ==
    LET s1 == PlayersLeave(table, {u})
    IN /\ At(u) /\ table.pst[u] # "ACTIVE" /\ ~ table.over
       /\ \E d \in Deals :
            TableBecomes(IF IsCanGameOver(s1) THEN GameOver(s1)
                         ELSE StartIfAllReady(s1, d))

\* LeaveProcess while the settlement is pending: noted, refused.  The network
\* notice of ClientNetStatusProcess notes the same at any time.
Drop(u) ==
    /\ At(u)
    /\ TableBecomes([table EXCEPT !.drop[u] = TRUE])

\* LogoutProcess: a player in the hand stays as a dropped one.
Logout(u) ==
    LET s1 == [table EXCEPT !.drop[u] = TRUE]
        s2 == IF table.pst[u] = "ACTIVE" THEN s1 ELSE PlayersLeave(s1, {u})
    IN /\ At(u)
       /\ \E d \in Deals : TableBecomes(StartIfAllReady(s2, d))

\* GetTableDetailProc: the client is back.
GetTableDetail(u) ==
    /\ At(u)
    /\ TableBecomes([table EXCEPT !.drop[u] = FALSE])

\* RoomTimer::HeartTimeOut puts out the players outside the hand whose clients
\* have been silent for keeplive_time.
HeartTimeOut ==
    \E G \in SUBSET {u \in InTable(table) : table.pst[u] # "ACTIVE"} :
        /\ ~ crashed /\ G # {}
        /\ TableBecomes(PlayersLeave(table, G))

-----------------------------------------------------------------------------
(* Starting a hand. *)

\* StartGameProc: u is ready.
StartGame(u) ==
    LET s1 == [table EXCEPT !.pst[u] = "RSTART"]
        s2 == IF s1.lock THEN s1 ELSE SetKickTimer(s1)
        s3 == IF ~ IsActive(s2) /\ IsCanGameStart(s2)
              THEN [s2 EXCEPT !.startT = TRUE] ELSE s2
    IN /\ At(u) /\ table.pst[u] \notin {"ACTIVE", "RSTART"}
       /\ CheckMoney(table.money[u])
       /\ \E d \in Deals :
            TableBecomes(IF IsAllReady(s1) /\ s1.count > 1
                         THEN GameStart(s1, d) ELSE s3)

\* TableGameStartTimeOut: two are ready; the others are put out.
TableGameStartTimeOut ==
    LET s1 == [table EXCEPT !.startT = FALSE]
        late == {u \in InTable(s1) : s1.pst[u] \in {"COMING", "OVER"}}
    IN /\ ~ crashed /\ table.startT
       /\ \E d \in Deals :
            TableBecomes(IF IsActive(s1) \/ ~ IsCanGameStart(s1) THEN s1
                         ELSE StartIfAllReady(PlayersLeave(s1, late), d))

\* TableKickTimeOut: unlock; put out whoever is not ready.
TableKickTimeOut ==
    LET s1 == [table EXCEPT !.kickT = FALSE, !.lock = FALSE]
        late == InTable(s1) \ Ready(s1)
    IN /\ ~ crashed /\ table.kickT
       /\ \E d \in Deals :
            TableBecomes(IF IsActive(s1) \/ s1.count = 1 THEN s1
                         ELSE StartIfAllReady(PlayersLeave(s1, late), d))

-----------------------------------------------------------------------------
(* Betting. *)

\* A mutated form: whoever has a coin can pay, as AllinProc has it.
CanPay_Some(s, u, coin) == s.money[u] > 0

\* What CallProcess and RaseProcess ask of the purse
CanPay(s, u, coin) == s.money[u] >= coin

\* CallProcess.  Once someone is all in, a call is an all-in.
Call(u) ==
    LET someAllin == HasSomeOneAllin(table)
        coin == IF someAllin THEN table.allinCoin[u] ELSE CallMoney(table, u)
        s1 == [table EXCEPT !.allin[u] = @ \/ someAllin]
    IN /\ Turn(u) /\ Asks(u, IF someAllin THEN "ALLIN" ELSE "CALL")
       /\ CanPay(table, u, coin)
       /\ TableBecomes(GameOverIfDecided(
            GetNextBetPlayer(PlayerBetCoin(s1, u, coin), u)))

\* RaseProcess: u sets the stake to x.  No end of the hand is looked for.
Rase(u, x) ==
    LET coin == IF table.card[u] = "UNKNOWN" THEN x ELSE Doubled(x)
        s1 == [table EXCEPT !.betMax = x, !.maxCard = table.card[u]]
    IN /\ Turn(u) /\ Asks(u, "RASE")
       /\ FormatValue(table.card[u], x, table.maxCard) >= table.betMax
       /\ CanPay(table, u, coin)
       /\ TableBecomes(GetNextBetPlayer(PlayerBetCoin(s1, u, coin), u))

\* AllinProc: u stakes the all-in coins, which become the others' all-in too.
Allin(u) ==
    LET coin == table.allinCoin[u]
        s1 == IF coin > table.betMax
              THEN [table EXCEPT !.betMax = coin, !.maxCard = table.card[u]]
              ELSE table
        s2 == [s1 EXCEPT !.hasAllin = coin, !.allin[u] = TRUE]
    IN /\ Turn(u) /\ Asks(u, "ALLIN")
       /\ table.money[u] > 0 \/ coin <= 0
       /\ TableBecomes(GameOverIfDecided(
            GetNextBetPlayer(PlayerBetCoin(s2, u, coin), u)))

\* ThrowCardProc: u folds, in turn or out of turn.
ThrowCard(u) ==
    LET s1 == Discard(table, u)
        s2 == IF table.currBet = u THEN GetNextBetPlayer(s1, u)
              ELSE IF table.currBet = None THEN s1
              ELSE SetPlayerOptype(s1, table.currBet)
    IN /\ InHand(u) /\ table.card[u] # "DISCARD"
       /\ TableBecomes(GameOverIfDecided(SetNextFirst(s2, u)))

\* CheckProcess: u looks at the cards.
CheckCard(u) ==
    LET s1 == [table EXCEPT !.card[u] = "KNOWN"]
    IN /\ InHand(u) /\ table.card[u] = "UNKNOWN"
       /\ table.round > CheckRound
       /\ TableBecomes(IF table.currBet = u
                       THEN SetPlayerOptype([s1 EXCEPT !.betT = u], u) ELSE s1)

\* BetTimeOut: the one whose turn it is folds.
BetTimeOut ==
    LET u == table.betT
        s1 == [table EXCEPT !.betT = None]
        s2 == Discard([s1 EXCEPT !.tmo[u] = IF s1.round = 1 THEN @ + 1 ELSE @],
                      u)
        s3 == GetNextBetPlayer(s2, u)
        s4 == IF s3.betT = None THEN s3 ELSE SetPlayerOptype(s3, s3.betT)
    IN /\ ~ crashed /\ table.betT # None
       /\ TableBecomes(IF u \in InTable(table) /\ table.currBet = u
                       THEN GameOverIfDecided(SetNextFirst(s4, u)) ELSE s1)

-----------------------------------------------------------------------------
(* Comparing cards. *)

\* ForceCampareCard: the winner u of a comparison has no coins left and faces
\* the one remaining player v: they compare too, and the result is kept for the
\* notification timer.
ForceCompareCard(s, u, v) ==
    [PlayerBetCoin(s, u, s.money[u]) EXCEPT
       !.cmp = [kept |-> TRUE, p1 |-> u, p2 |-> v,
                result |-> CompareCard(s.rank[u], s.rank[v])],
       !.cmpT = TRUE]

\* CompareCardProc, u against v.
CompareCards(u, v) ==
    LET cost == Min({CallMoney(table, u), table.money[u]})
        s1 == PlayerBetCoin(table, u, cost)
        win == CompareCard(table.rank[u], table.rank[v]) = "win"
        won == GetNextBetPlayer(SetNextFirst(Discard(s1, v), v), u)
        forced == /\ won.betT # None /\ won.money[u] = 0
                  /\ Cardinality(Holders(won)) <= 2
        lost == SetNextFirst(GetNextBetPlayer(Discard(s1, u), u), u)
    IN /\ Turn(u) /\ Playing(v) /\ Asks(u, "COMPARE")
       /\ {u, v} \subseteq Holders(table) /\ table.money[u] > 0
       /\ TableBecomes(GameOverIfDecided(
            IF ~ win THEN lost
            ELSE IF forced THEN ForceCompareCard(won, u, won.betT) ELSE won))

\* CompareResultNotifyTimeOut: the loser of the kept comparison folds.
CompareResultNotifyTimeOut ==
    LET c == table.cmp
        s1 == [table EXCEPT !.cmpT = FALSE]
        loser == IF c.result = "win" THEN c.p2 ELSE c.p1
    IN /\ ~ crashed /\ table.cmpT
       /\ TableBecomes(
            IF ~ c.kept THEN s1
            ELSE GameOverIfDecided([(IF loser = None THEN s1
                                     ELSE Discard(s1, loser))
                                      EXCEPT !.cmp = NoCompare]))

\* GameOverTimeOut: settle, and tell MoneyServer.  With no card holder left
\* calcCoin follows a NULL winner.
GameOverTimeOut ==
    LET s1 == HandOver(table)
        final == FinalGetCoin(s1)
        s2 == Settle(s1)
    IN /\ ~ crashed /\ table.overT
       /\ IF Shown(s1) = {}
          THEN crashed' = TRUE /\ UNCHANGED <<table, acct>>
          ELSE /\ table' = s2
               /\ acct' = [u \in User |->
                    IF u \in Played(s1) \ Robots
                    THEN acct[u] + AfterTax(final[u]) ELSE acct[u]]
               /\ UNCHANGED crashed

-----------------------------------------------------------------------------
Message(u) ==
    \/ LoginComing(u) \/ LoginRedirected(u)
    \/ RobotComing(u) \/ RobotReplaced(u)
    \/ LeaveHand(u) \/ LeaveTable(u) \/ Drop(u) \/ Logout(u)
    \/ GetTableDetail(u) \/ StartGame(u)
    \/ Call(u) \/ Allin(u) \/ ThrowCard(u) \/ CheckCard(u)
    \/ \E x \in RaseChoices : Rase(u, x)
    \/ \E v \in User : CompareCards(u, v)

Timer ==
    \/ HeartTimeOut \/ TableGameStartTimeOut \/ TableKickTimeOut
    \/ BetTimeOut \/ CompareResultNotifyTimeOut \/ GameOverTimeOut

Next == Timer \/ \E u \in User : Message(u)

Spec == Init /\ [][Next]_vars

\* CCTimer delivers: a timer that is never stopped expires.  Each timer action
\* is enabled exactly while its timer runs and always stops it, so each conjunct
\* is the weak fairness of the action, with ENABLED written out (TLC needs hours
\* to evaluate ENABLED of such actions).  Nothing is assumed of HeartTimeOut,
\* which waits for clients to fall silent, or of the clients themselves.
TimersExpire ==
    /\ []<>(crashed \/ table.betT = None) \/ []<><<BetTimeOut>>_vars
    /\ []<>(crashed \/ ~ table.overT) \/ []<><<GameOverTimeOut>>_vars
    /\ []<>(crashed \/ ~ table.cmpT) \/ []<><<CompareResultNotifyTimeOut>>_vars
    /\ []<>(crashed \/ ~ table.startT) \/ []<><<TableGameStartTimeOut>>_vars
    /\ []<>(crashed \/ ~ table.kickT) \/ []<><<TableKickTimeOut>>_vars

FairSpec == Spec /\ TimersExpire

-----------------------------------------------------------------------------
(* What the table must keep. *)

\* The fields that steer the table.  The round never passes max_round
\* (getNextBetPlayer), the first speaker sits on a chair of the table.
Control(s) ==
    /\ DOMAIN s = DOMAIN FreshTable
    /\ s.status \in TableStatus
    /\ s.count \in 0..MaxNum
    /\ s.round \in 0..MaxRound
    /\ {s.currBet, s.betT} \subseteq UserOrNone
    /\ s.first \in Seats
    /\ s.preWin \in Seats \cup {NoSeat}
    /\ s.maxCard \in CardStatus
    /\ s.offer \subseteq OpType
    /\ {s.canAllin, s.over, s.lock} \subseteq BOOLEAN
    /\ {s.startT, s.kickT, s.overT, s.cmpT} \subseteq BOOLEAN
    /\ s.cmp \in [kept : BOOLEAN, p1 : UserOrNone, p2 : UserOrNone,
                  result : {"win", "draw", "lose", "none"}]
    /\ s.seat \in [User -> Seats \cup {NoSeat}]
    /\ s.pst \in [User -> PlayerStatus]
    /\ s.card \in [User -> CardStatus]
    /\ s.allin \in [User -> BOOLEAN]
    /\ s.drop \in [User -> BOOLEAN]
    /\ s.rank \in [User -> Nat]
    /\ s.tmo \in [User -> Nat]

\* The fields that count coins
CoinFields(s) ==
    /\ {s.betMax, s.pool, s.leaveSum, s.hasAllin} \subseteq Nat
    /\ s.money \in [User -> Int]
    /\ s.bet \in [User -> Nat]
    /\ s.allinCoin \in [User -> Nat]

\* Every field of the Table object and of its Players stays in its range.
ControlOK == Control(table)
TypeOK ==
    /\ ControlOK
    /\ CoinFields(table)
    /\ acct \in [User -> Int]
    /\ crashed \in BOOLEAN

\* playerSeatInTab gives a chair of player_array only to one: no player is
\* overwritten by a newcomer, whoever comes by whatever way.
OneToAChair ==
    \A u, v \in InTable(table) :
        table.seat[u] = table.seat[v] => u = v

\* m_nCountPlayer, kept by ++ and -- in playerComming and playerLeave, is the
\* number of chairs taken, whoever comes, goes or is put out by a timer.
CountMatches == table.count = Cardinality(InTable(table))

\* The table is at play exactly while some player at it is: no handler leaves a
\* hand without players or players without their hand.
ActiveTogether ==
    IsActive(table) <=> \E u \in InTable(table) : table.pst[u] = "ACTIVE"

\* m_bIsOverTimer, which refuses every bet, is set exactly while the settlement
\* timer of a hand runs; otherwise the table would stay closed for ever, or be
\* settled twice.
OverIsTimed == table.over = table.overT /\ (table.over => IsActive(table))

\* The start and kick timers of the lobby do not run during a hand, where they
\* would put out players or start another hand.
LobbyTimersOff == IsActive(table) => ~ table.startT /\ ~ table.kickT

\* A locked table has the timer that will unlock it.
LockHasTimer == table.lock => table.kickT

\* The bet timer runs for the player whose turn it is, who is in the hand, and
\* never once the hand is to be settled: BetTimeOut folds the right player.
TurnOwnsTimer ==
    table.betT # None =>
        /\ table.betT = table.currBet
        /\ table.betT \in InTable(table)
        /\ table.pst[table.betT] = "ACTIVE"
        /\ ~ table.over

\* The round counts when the turn passes the first speaker, so that one must
\* still hold cards: else the round, the all-in round and the last round never
\* come.
FirstIsHolder ==
    IsActive(table) /\ ~ table.over =>
        \E u \in Holders(table) : table.seat[u] = table.first

\* With clients that follow optype, a hand at play always has a clock: the bet
\* timer of some player or the settlement timer.
HandHasClock == IsActive(table) => table.betT # None \/ table.overT

\* With clients that follow optype, no handler forgets to end a decided hand.
Undecided == IsActive(table) /\ ~ table.over => ~ IsCanGameOver(table)

\* What one who went all in has staked binds the others while he is all in
\* (m_lHasAllInCoin): with clients that follow optype nobody bets more coins
\* than he has.
NobodyOwes == \A u \in InTable(table) : table.money[u] >= 0

\* While the hand is bet on, a card holder who owes has gone all in, and nobody
\* in the hand can go all in for another stake than his: debts do not grow.
DebtIsAllin ==
    IsActive(table) /\ ~ table.over =>
        \A u \in Holders(table) : table.money[u] < 0 =>
            /\ table.allin[u]
            /\ \A v \in Holders(table) : table.allinCoin[v] = table.hasAllin

\* The pool of a hand is what the players at the table and those who left it
\* have bet: leaving, folding and time-outs lose no coin and make none.
PoolMatchesBets ==
    IsActive(table) =>
        table.pool = MapThenSumSet(LAMBDA u : table.bet[u], InTable(table))
                       + table.leaveSum

\* The coins of a player at the table and his account at MoneyServer agree up
\* to the bets of the running hand, across settlements, leaves and returns.
LedgerAgrees ==
    \A u \in InTable(table) \ Robots : table.money[u] + table.bet[u] = acct[u]

\* Settlements and leaves together never make coins: what the accounts hold and
\* what leavers have forfeited to the running hand never exceeds the start.
WealthNeverGrows ==
    MapThenSumSet(LAMBDA u : acct[u], User) + table.leaveSum
      <= MapThenSumSet(LAMBDA u : InitAcct[u], User)

\* calcCoin always finds a card holder to be the winner.
NoCrash == ~ crashed

\* While a hand is played it only advances: no round, bet, fold, look or all-in
\* of a player in it is undone (a hand is never dealt again in its middle).
HandOnlyAdvances ==
    [][IsActive(table) /\ IsActive(table') =>
         /\ table'.round >= table.round
         /\ \A u \in User \ Robots :
              Playing(u) /\ table'.pst[u] = "ACTIVE" =>
                /\ table'.bet[u] >= table.bet[u]
                /\ table.allin[u] => table'.allin[u]
                /\ table.card[u] = "KNOWN" => table'.card[u] # "UNKNOWN"
                /\ table.card[u] = "DISCARD" => table'.card[u] = "DISCARD"]_vars

\* The step settles the hand.
Settles == table.overT /\ ~ table'.overT

\* The holders whose cards no holder's cards beat; none when a 235, a leopard
\* and a hand of another kind are shown together.
Unbeaten ==
    {u \in Holders(table) :
       \A v \in Holders(table) :
          CompareCard(table.rank[v], table.rank[u]) # "win"}

\* Every card holder who is all in has staked what an all-in costs.
AllinsPaid ==
    \A u \in Holders(table) :
        table.allin[u] => table.bet[u] >= table.allinCoin[u]

\* A settlement of paid all-ins pays only card holders, and only those nobody
\* beats wherever there is one: the search from the last chair does not miss
\* him although CompareCard is no order.  It takes from nobody more than he has
\* bet.
OnlyBestGains ==
    [][Settles /\ AllinsPaid =>
         \A u \in User \ Robots :
           /\ acct'[u] > acct[u] =>
                u \in (IF Unbeaten = {} THEN Holders(table) ELSE Unbeaten)
           /\ acct'[u] >= acct[u] - table.bet[u]]_vars

\* A loser who is all in loses, if only half of it (set_loser_coin).
AllinLoserLoses ==
    [][Settles =>
         \A u \in Losers(HandOver(table)) \ Robots :
            table.allin[u] => acct'[u] < acct[u]]_vars

\* Nobody whose client has gone, or who timed out too often, is at the table
\* when a hand has been settled.
DroppedArePutOut ==
    [][Settles => \A u \in InTable(table') :
                    ~ table.drop[u] /\ table.tmo[u] < TimeoutLimit]_vars

\* The stake the others must call never falls during a hand (m_lCurrBetMax).
StakeNeverFalls ==
    [][IsActive(table) /\ IsActive(table') => table'.betMax >= table.betMax]_vars

\* Every hand is settled, by time-outs if by nothing else.
HandEnds == IsActive(table) ~> ~ IsActive(table)

\* A table locked for the players who are about to start is unlocked again.
LockReleased == table.lock ~> ~ table.lock

\* When two players are ready and no hand is played, a timer runs that will start
\* one: they do not wait for a message of somebody else.
ReadyHasTimer ==
    IsCanGameStart(table) /\ ~ IsActive(table) => table.startT \/ table.kickT
=============================================================================
