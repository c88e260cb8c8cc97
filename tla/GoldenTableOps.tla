---------------------------- MODULE GoldenTableOps ----------------------------
(***************************************************************************)
(* The operations of one table of the Zha Jin Hua ("golden") game server,  *)
(* golden/GameServer/fight/src/model/Table.cpp, as operators on a table    *)
(* record.  A method of class Table that changes state is an operator that *)
(* maps the record before the call to the record after it, so a message    *)
(* handler is the composition of the methods it calls, in the order it     *)
(* calls them.  Nothing here is a step: the handlers and the timers are    *)
(* the actions of GoldenTable.                                             *)
(*                                                                         *)
(* A Player object is identified with the user logged into it.  Its fields *)
(* are the functions seat, pst, card, ... of the record; player_array is   *)
(* the inverse of seat.                                                    *)
(***************************************************************************)
EXTENDS GoldenStrength, FiniteSets, FiniteSetsExt

CONSTANTS
    User,           \* the users who may come to the table
    None,           \* "no user": the NULL of a Player pointer
    MaxNum,         \* Configure::numplayer, the seats in use
    Ante,           \* CoinCfg::ante
    Tax,            \* CoinCfg::tax, a percentage
    MaxLimit,       \* CoinCfg::maxlimit
    MaxAllIn,       \* CoinCfg::maxallin
    Rase2, Rase3, Rase4,  \* CoinCfg::rase2, rase3, rase4
    MinMoney,       \* CoinCfg::minmoney
    MaxMoney,       \* CoinCfg::maxmoney, no maximum when it is 0
    CheckRound,     \* CoinCfg::check_round
    CompareRound,   \* CoinCfg::compare_round
    AllinRound,     \* Configure::allin_round
    MaxRound,       \* Configure::max_round
    BetMaxAllin,    \* Configure::betmaxallinflag == 1
    TimeoutLimit    \* Configure::timeoutCount

ASSUME NoneAssumption == None \notin User
ASSUME UserAssumption == IsFiniteSet(User)
ASSUME SeatAssumption == MaxNum \in 2..5
ASSUME CoinAssumption ==
    /\ Ante \in Nat \ {0}
    /\ Tax \in 1..100
    /\ {MaxLimit, MaxAllIn, MinMoney, MaxMoney, Rase2, Rase3, Rase4}
         \subseteq Nat
ASSUME RoundAssumption ==
    /\ {CheckRound, CompareRound, AllinRound} \subseteq Nat
    /\ MaxRound \in Nat \ {0}
    /\ BetMaxAllin \in BOOLEAN
    /\ TimeoutLimit \in Nat \ {0}

UserOrNone == User \cup {None}

\* m_nTabIndex of a Player who sits nowhere
NoSeat == -1

\* The indices the "i < m_bMaxNum" loops visit.
Seats == 0..(MaxNum - 1)

\* playerSeatInTab tries the chairs in this order, the first MaxNum of them:
\* the second player sits opposite to the first.
SeatOrder == <<0, 2, 1, 3, 4>>

TableStatus == {"EMPTY", "READY", "ACTIVE", "OVER"}
PlayerStatus == {"LOGOUT", "COMING", "RSTART", "ACTIVE", "OVER"}
CardStatus == {"DISCARD", "UNKNOWN", "KNOWN"}
OpType == {"CALL", "RASE", "ALLIN", "CHECK", "THROW", "COMPARE"}

\* CompareResultInfo after ClearCompareResultInfo.  kept: the pointers are not
\* NULL.  A pointer to a Player object that sits at no table any more is None.
NoCompare == [kept |-> FALSE, p1 |-> None, p2 |-> None, result |-> "none"]

-----------------------------------------------------------------------------
(* What the const methods of Table read. *)

IsActive(s) == s.status = "ACTIVE"

InTable(s) == {u \in User : s.seat[u] \in Seats}

Ready(s) == {u \in InTable(s) : s.pst[u] = "RSTART"}

\* A mutated form: anybody who is ready will do.
IsAllReady_Some(s) == Ready(s) # {}

\* isAllReady: the count of ready players reaches m_nCountPlayer
IsAllReady(s) == Cardinality(Ready(s)) >= s.count

IsCanGameStart(s) == Cardinality(Ready(s)) >= 2

\* The players still in the hand: active and holding cards.
Holders(s) ==
    {u \in InTable(s) : s.pst[u] = "ACTIVE" /\ s.card[u] # "DISCARD"}

\* A mutated form: the all-in of a player is not noticed.
HasSomeOneAllin_Never(s) == FALSE

HasSomeOneAllin(s) == IsActive(s) /\ \E u \in Holders(s) : s.allin[u]

\* iscanGameOver: every holder is all in, or there is at most one holder.
IsCanGameOver(s) ==
    /\ IsActive(s)
    /\ \/ \A u \in Holders(s) : s.allin[u]
       \/ \A u, v \in Holders(s) : u = v

\* The member of S met first on the seats from - from, from + 1, ... round.
FirstFrom(s, from, S) ==
    CHOOSE v \in S : \A w \in S :
        (s.seat[v] - from) % MaxNum <= (s.seat[w] - from) % MaxNum

\* The member of S met first on the seats after u's.
NextAfter(s, u, S) == FirstFrom(s, s.seat[u] + 1, S)

\* Player::calculateCompMoney: what u pays to call the current stake.
Doubled(x) == IF x = 20 THEN 50 ELSE 2 * x
CallMoney(s, u) ==
    IF s.card[u] = "UNKNOWN" THEN s.betMax ELSE Doubled(s.betMax)

CheckMoney(m) ==
    /\ m # 0
    /\ m >= MinMoney
    /\ MaxMoney > 0 => m <= MaxMoney

-----------------------------------------------------------------------------
(* The fields Table::init and Table::reset both clear. *)

Cleared(s) ==
    [s EXCEPT !.round = 0, !.first = 0, !.betMax = 0, !.pool = 0,
              !.leaveSum = 0, !.canAllin = FALSE, !.hasAllin = 0,
              !.over = FALSE, !.lock = FALSE]

\* Table::init.  stopAllTimer stops the bet, kick and start timers only.
InitTable(s) ==
    [Cleared(s) EXCEPT !.status = "EMPTY", !.count = 0, !.preWin = NoSeat,
                       !.betT = None, !.kickT = FALSE, !.startT = FALSE]

\* Table::reSetInfo: Player::reset on everyone at the table, then Table::reset.
ReSetInfo(s) ==
    LET here == InTable(s)
    IN Cleared([s EXCEPT
         !.card = [u \in User |-> IF u \in here THEN "DISCARD" ELSE @[u]],
         !.bet = [u \in User |-> IF u \in here THEN 0 ELSE @[u]],
         !.allin = [u \in User |-> IF u \in here THEN FALSE ELSE @[u]],
         !.allinCoin = [u \in User |-> IF u \in here THEN 0 ELSE @[u]],
         !.rank = [u \in User |-> IF u \in here THEN 0 ELSE @[u]],
         !.offer = {}])

\* A mutated form: the lock is set and its timer is not.
SetKickTimer_LockOnly(s) ==
    IF IsActive(s) \/ s.count <= 1 THEN s ELSE [s EXCEPT !.lock = TRUE]

\* lockTable and startKickTimer, when the table waits for two or more players
SetKickTimer(s) ==
    IF IsActive(s) \/ s.count <= 1 THEN s
    ELSE [s EXCEPT !.kickT = TRUE, !.lock = TRUE]

\* A mutated form: the chair looked at is not the one that is taken.
FreeChairs_ByIndex(s) == {i \in 1..MaxNum : \A u \in User : s.seat[u] # i - 1}

\* The places in SeatOrder of the chairs that are free
FreeChairs(s) == {i \in 1..MaxNum : \A u \in User : s.seat[u] # SeatOrder[i]}

\* A mutated form: coming to or leaving a table at play stops the play.
WaitingStatus_Always(s) == "READY"

\* playerComming and playerLeave: a table not at play waits for players.
WaitingStatus(s) == IF IsActive(s) THEN s.status ELSE "READY"

\* playerComming for a user who is not at the table and finds a chair.
PlayerComming(s, u, m) ==
    LET chair == SeatOrder[CHOOSE i \in FreeChairs(s) :
                             \A j \in FreeChairs(s) : i <= j]
    IN [s EXCEPT !.seat[u] = chair, !.pst[u] = "COMING", !.money[u] = m,
                 !.count = @ + 1,
                 !.status = WaitingStatus(s)]

\* playerComming for a user who is at the table: a new Player object takes the
\* place of the old one and copies the status, the chair and the cards, but
\* neither the bets nor the all-in of the hand being played.  A comparison that
\* is kept points to the old object.
PlayerReplaced(s, u, m) ==
    [s EXCEPT !.money[u] = m, !.bet[u] = 0, !.allin[u] = FALSE,
              !.allinCoin[u] = 0, !.drop[u] = FALSE, !.tmo[u] = 0,
              !.cmp.p1 = IF @ = u THEN None ELSE @,
              !.cmp.p2 = IF @ = u THEN None ELSE @]

\* A mutated form: of several who leave only one is counted.
CountAfter_One(s, G) == s.count - 1

\* m_nCountPlayer when the players of G have left
CountAfter(s, G) == s.count - Cardinality(G)

\* playerLeave, for each player of G in turn.  The table unlocks when the
\* count comes down to one and is initialised when it comes down to zero.
PlayersLeave(s, G) ==
    LET n == CountAfter(s, G)
        Out(f, x) == [u \in User |-> IF u \in G THEN x ELSE f[u]]
        out == [s EXCEPT
          !.seat = Out(@, NoSeat), !.pst = Out(@, "LOGOUT"),
          !.card = Out(@, "DISCARD"), !.money = Out(@, 0), !.bet = Out(@, 0),
          !.allin = Out(@, FALSE), !.allinCoin = Out(@, 0),
          !.drop = Out(@, FALSE), !.tmo = Out(@, 0), !.rank = Out(@, 0),
          !.count = n, !.status = WaitingStatus(s)]
    IN IF G = {} THEN s
       ELSE IF n = 0 THEN InitTable(out)
       ELSE IF n = 1 THEN [out EXCEPT !.kickT = FALSE, !.lock = FALSE]
       ELSE out

-----------------------------------------------------------------------------
(* The hand. *)

\* FormatValue: the stake x of a player whose cards are as in from, in the
\* terms of one whose cards are as in to.
FormatValue(from, x, to) ==
    IF from = to \/ x = Rase4 THEN x
    ELSE IF from = "UNKNOWN" THEN (IF x = Rase2 THEN Rase3 ELSE 2 * x)
    ELSE (IF x = Rase3 THEN Rase2 ELSE x \div 2)

PlayerBetCoin(s, u, x) ==
    [s EXCEPT !.bet[u] = @ + x, !.money[u] = @ - x, !.pool = @ + x]

\* A mutated form: what the leaver bet is not noted.
Forfeit_Not(s, u) == s

\* LeaveProcess adds the leaver's bets to m_lLeaveSumCoin; the pool keeps them.
Forfeit(s, u) == [s EXCEPT !.leaveSum = @ + s.bet[u]]

Discard(s, u) == [s EXCEPT !.card[u] = "DISCARD"]

\* setPlayerOptype(u): what u may do now (m_nCurrBetUid's optype), and whether
\* the all-in stake is to be computed (m_bSetAllinCoinFlag).
SetPlayerOptype(s, u) ==
    LET someAllin == HasSomeOneAllin(s)
        allinTime == s.round >= AllinRound
                       /\ (BetMaxAllin => s.betMax >= MaxLimit)
        firstPassed == s.round = MaxRound
                       /\ \E w \in InTable(s) \ {u} :
                             s.seat[w] = s.first /\ ~ s.allin[w]
        capped == IF s.card[u] = "UNKNOWN" /\ s.maxCard = "UNKNOWN"
                  THEN s.betMax >= MaxLimit ELSE s.betMax >= 2 * MaxLimit
        broke == ~ someAllin
                   /\ s.money[u] < (IF s.card[u] = "UNKNOWN" THEN s.betMax
                                    ELSE 2 * s.betMax)
        mayCheck == s.card[u] = "UNKNOWN" /\ s.round > CheckRound
        basic == IF someAllin THEN {"ALLIN", "THROW"}
                 ELSE IF allinTime THEN {"CALL", "ALLIN", "THROW", "COMPARE"}
                 ELSE {"CALL", "RASE", "THROW"}
                        \cup {x \in {"COMPARE"} : s.round >= CompareRound}
        removed == {x \in {"ALLIN"} : (firstPassed /\ ~ someAllin) \/ broke}
                     \cup {x \in {"RASE"} : capped \/ broke}
        added == {x \in {"CHECK"} : mayCheck} \cup {x \in {"COMPARE"} : broke}
    IN IF u \notin InTable(s) THEN s
       ELSE IF IsCanGameOver(s) THEN [s EXCEPT !.offer = {}]
       ELSE [s EXCEPT
              !.offer = IF u \notin Holders(s) THEN {}
                        ELSE IF s.allin[u] THEN {"THROW"}
                        ELSE (basic \ removed) \cup added,
              !.canAllin =
                IF firstPassed THEN someAllin
                ELSE @ \/ (u \in Holders(s) /\ (someAllin \/ allinTime))]

\* m_lCanMaxBetCoin: the stake of the first all-in, at first what the poorest
\* holder can pay
AllinStake(s) ==
    IF s.hasAllin > 0 THEN s.hasAllin
    ELSE Min({MaxAllIn} \cup {s.money[u] : u \in Holders(s)})

\* setPlayerlimitcoin: the all-in stake, the same for every holder.
SetPlayerLimitCoin(s) ==
    IF ~ s.canAllin THEN s
    ELSE [s EXCEPT !.allinCoin = [u \in User |->
            IF u \in Holders(s) THEN AllinStake(s) ELSE @[u]]]

\* Mutated forms: the bet timer is not stopped; the settlement timer is not set.
GameOver_Running(s) == [s EXCEPT !.over = TRUE, !.overT = TRUE]
GameOver_NoTimer(s) == [s EXCEPT !.betT = None, !.over = TRUE]

\* gameOver: stop the bet timer and start the settlement timer.
GameOver(s) == [s EXCEPT !.betT = None, !.over = TRUE, !.overT = TRUE]

\* A mutated form: a handler that forgets to look for the end of the hand.
GameOverIfDecided_Never(s) == s

GameOverIfDecided(s) == IF IsCanGameOver(s) THEN GameOver(s) ELSE s

\* Mutated forms: the first speaker is never replaced; it is replaced when
\* anybody goes.
SetNextFirst_Never(s, u) == s
SetNextFirst_Any(s, u) ==
    LET rest == Holders(s) \ {u}
    IN IF rest = {} THEN s
       ELSE [s EXCEPT !.first = s.seat[NextAfter(s, u, rest)]]

\* setNextFirstPlayer, called when u was the first speaker of the round
SetNextFirst(s, u) ==
    LET rest == Holders(s) \ {u}
    IN IF s.seat[u] # s.first \/ rest = {} THEN s
       ELSE [s EXCEPT !.first = s.seat[NextAfter(s, u, rest)]]

\* A mutated form: one round too many.
PastLastRound_Late(r) == r > MaxRound + 1

PastLastRound(r) == r > MaxRound

\* The players the turn may pass to when u has acted
AbleToBet(s, u) == {v \in Holders(s) \ {u} : ~ s.allin[v]}

\* getNextBetPlayer: u has acted; the turn goes to the next holder who is not
\* all in, and passing the first speaker starts a new round.  It returns NULL
\* exactly when it leaves the bet timer stopped.
GetNextBetPlayer(s, u) ==
    LET able == AbleToBet(s, u)
        next == NextAfter(s, u, able)
        r == IF s.seat[next] = s.first THEN s.round + 1 ELSE s.round
        acted == [s EXCEPT !.betT = None,
                           !.tmo[u] = IF s.round # 1 THEN 0 ELSE @]
        turn == [acted EXCEPT !.round = r, !.currBet = next]
    IN IF able = {} THEN SetPlayerOptype(acted, u)
       ELSE IF PastLastRound(r) THEN [GameOver(acted) EXCEPT !.round = MaxRound]
       ELSE SetPlayerLimitCoin([SetPlayerOptype(turn, next)
                                  EXCEPT !.betT = next])

\* Mutated forms: the timers of the lobby, or its lock, outlive it.
CloseLobby_Timers(s) == [s EXCEPT !.lock = FALSE]
CloseLobby_Lock(s) == [s EXCEPT !.startT = FALSE, !.kickT = FALSE]

\* gameStart first stops both timers of the lobby and unlocks the table.
CloseLobby(s) == [s EXCEPT !.startT = FALSE, !.kickT = FALSE, !.lock = FALSE]

\* gameStart with the hands dealt as in d: everyone at the table pays the ante
\* and gets cards; the one after the dealer speaks first.
GameStart(s, d) ==
    LET here == InTable(s)
        dealer == FirstFrom(s, IF s.preWin >= 0 THEN s.preWin ELSE 0, here)
        speaker == NextAfter(s, dealer, here \ {dealer})
        In(f, x) == [u \in User |-> IF u \in here THEN x ELSE f[u]]
        dealt == [CloseLobby(s) EXCEPT
          !.round = 1, !.card = In(@, "UNKNOWN"), !.pst = In(@, "ACTIVE"),
          !.money = [u \in User |-> IF u \in here THEN @[u] - Ante ELSE @[u]],
          !.bet = [u \in User |-> IF u \in here THEN @[u] + Ante ELSE @[u]],
          !.rank = [u \in User |-> IF u \in here THEN d[u] ELSE @[u]],
          !.pool = @ + Ante * Cardinality(here),
          !.betMax = Ante, !.maxCard = "UNKNOWN",
          !.first = s.seat[speaker]]
    IN [SetPlayerLimitCoin(SetPlayerOptype(dealt, speaker)) EXCEPT
          !.status = "ACTIVE", !.currBet = speaker, !.betT = speaker]

\* "if (isAllReady() && m_nCountPlayer > 1) GameStart": what a handler ends with
StartIfAllReady(s, d) ==
    IF IsAllReady(s) /\ s.count > 1 THEN GameStart(s, d) ELSE s

-----------------------------------------------------------------------------
(* Settlement: calcCoin and IProcess::GameOver. *)

\* GameOverTimeOut first turns every active player into one who is over.
HandOver(s) ==
    [s EXCEPT
       !.pst = [u \in User |-> IF u \in InTable(s) /\ @[u] = "ACTIVE"
                               THEN "OVER" ELSE @[u]],
       !.status = "OVER", !.overT = FALSE]

Played(s) == {u \in InTable(s) : s.pst[u] = "OVER"}
Shown(s) == {u \in Played(s) : s.card[u] # "DISCARD"}

LastShown(s) == CHOOSE u \in Shown(s) :
                   \A v \in Shown(s) : s.seat[v] <= s.seat[u]

\* A mutated form: the last card holder wins without a comparison.
Best_Last(s) == LastShown(s)

\* calcCoin's search for the largest hand: from the last card holder, over the
\* seats in ascending order, whoever beats the best hand so far replaces it.
Best(s) ==
    LET best[i \in 0..MaxNum] ==
          IF i = 0 THEN LastShown(s)
          ELSE LET beaten == {u \in Shown(s) : s.seat[u] = i - 1
                     /\ CompareCard(s.rank[u], s.rank[best[i - 1]]) = "win"}
               IN IF beaten = {} THEN best[i - 1] ELSE CHOOSE u \in beaten : TRUE
    IN best[MaxNum]

Winners(s) ==
    {u \in Shown(s) : \/ u = Best(s)
                      \/ CompareCard(s.rank[u], s.rank[Best(s)]) = "draw"}

\* set_loser_coin's return: a blind loser who was all in against a single
\* winner with looked-at cards gets half of the all-in stake back.
Returned(s, u) ==
    IF /\ Cardinality(Shown(s)) > 1 /\ Winners(s) = {Best(s)}
       /\ s.card[Best(s)] = "KNOWN" /\ s.card[u] = "UNKNOWN" /\ s.allin[u]
    THEN s.allinCoin[u] \div 2 ELSE 0

Losers(s) == {u \in Played(s) \ Winners(s) : s.bet[u] # 0}

\* What is left of the pool for the winners once the halves are given back
LeftInPool(s) == s.pool - MapThenSumSet(LAMBDA u : Returned(s, u), Losers(s))

\* A mutated form: what a winner bet himself counts as won.
Share_Stakes(s) == LeftInPool(s) \div Cardinality(Winners(s))

\* What each winner gets beside his own bets
Share(s) ==
    (LeftInPool(s) - MapThenSumSet(LAMBDA u : s.bet[u], Winners(s)))
      \div Cardinality(Winners(s))

\* m_lFinallGetCoin after calcCoin, before tax
FinalGetCoin(s) ==
    LET w == Winners(s)
        l == Losers(s)
        share == Share(s)
    IN [u \in User |-> IF u \in w THEN share
                       ELSE IF u \in l THEN Returned(s, u) - s.bet[u]
                       ELSE 0]

\* GameUtil::CalcSysWinMoney (a library): Tax percent of a win is kept.
AfterTax(x) == IF x > 0 THEN x - (x * Tax) \div 100 ELSE x

\* A mutated form: the bets are not given back.
Refunded_Not(s) == s

\* calcCoin adds the bets to the coins, for the result to be booked against.
Refunded(s) ==
    [s EXCEPT !.money = [u \in User |->
        IF u \in InTable(s) THEN @[u] + s.bet[u] ELSE @[u]]]

\* A mutated form: players whose clients have gone stay.
PutOut_TimedOut(s) == {u \in InTable(s) : s.tmo[u] >= TimeoutLimit}

\* Who goes after the settlement: the dropped and those who often timed out
PutOut(s) == {u \in InTable(s) : s.drop[u] \/ s.tmo[u] >= TimeoutLimit}

\* calcCoin and IProcess::GameOver: the result is booked, some are put out, the
\* table is reset.
Settle(s) ==
    LET final == FinalGetCoin(s)
        won == {u \in Played(s) : final[u] > 0}
        paid == [Refunded(s) EXCEPT
          !.money = [u \in User |->
            IF u \in Played(s) THEN @[u] + AfterTax(final[u]) ELSE @[u]],
          !.preWin = IF won = {} THEN @ ELSE Max({s.seat[u] : u \in won})]
    IN ReSetInfo(PlayersLeave(paid, PutOut(s)))
=============================================================================
