----------------------- MODULE GoldenTableCoins_proofs -----------------------
(***************************************************************************)
(* Proofs about the coins of a table, for every number of users and every  *)
(* configuration of three chairs or more.                                  *)
(*                                                                         *)
(* First, where coins are: what a table holds and what accounts hold stay  *)
(* in step (LedgerAgrees, PoolMatchesBets).  A step is one of few kinds    *)
(* for its coins: it stakes, it takes a player out of the hand, it brings  *)
(* one to the table, it deals, it settles, or it moves no coins at all.    *)
(* NextCoins says so of every action; the invariants are then proved of    *)
(* the kinds.                                                              *)
(*                                                                         *)
(* Then, who owes: an all-in may cost more than its player has.  Covered   *)
(* says when, and that the others then can only stake the same; with it no *)
(* count runs below zero (TypeOK), nothing is taken back within a hand     *)
(* (HandOnlyAdvances), and no settlement makes coins (WealthNeverGrows).   *)
(*                                                                         *)
(* Then, who keeps the hand going: with what is known of who is all in, a  *)
(* hand that is bet on has its bet timer (HandHasClock) and is not yet     *)
(* decided (Undecided).                                                    *)
(*                                                                         *)
(* Then, whose turn it is: the chairs as a circle that starts at the first *)
(* speaker, whose mark moves while the round goes on.  A round is          *)
(* everybody's turn (FairRounds), and nobody's twice (OneTurnEach).        *)
(*                                                                         *)
(* Last, who gains.  A settlement of paid all-ins (AllinsPaid) has its     *)
(* pool for the winners (OnlyBestGains).  The all-ins are paid in every    *)
(* run without an all-in for nothing: Level says that whoever may still    *)
(* stake is asked for the same, and a loser then loses (AllinLoserLoses).  *)
(***************************************************************************)
EXTENDS GoldenTable_proofs, FiniteSums, GoldenRounds

\* The types of what counts coins
Numbers(s) ==
    /\ DOMAIN s = Fields
    /\ s.money \in [User -> Int] /\ s.bet \in [User -> Int]
    /\ s.allinCoin \in [User -> Int]
    /\ s.betMax \in Int /\ s.hasAllin \in Int
    /\ s.pool \in Int /\ s.leaveSum \in Int

\* Who is in the hand, with or without cards
Players(s) == {u \in InTable(s) : s.pst[u] = "ACTIVE"}

\* Whoever is not in the hand has staked nothing.
Quiet(s) ==
    \A u \in User \ Players(s) :
        s.bet[u] = 0 /\ s.allinCoin[u] = 0 /\ s.allin[u] = FALSE

\* Between two hands no coins are at stake.
Idle(s) == ~ IsActive(s) => s.pool = 0 /\ s.leaveSum = 0 /\ s.hasAllin = 0

Coins(s) == Numbers(s) /\ Quiet(s) /\ Idle(s)

\* t has the players and the coins of s; the all-in coins of those in the hand
\* may differ.
SameCoins(s, t) ==
    /\ DOMAIN t = DOMAIN s
    /\ t.status = s.status /\ t.seat = s.seat /\ t.pst = s.pst
    /\ t.money = s.money /\ t.bet = s.bet
    /\ t.pool = s.pool /\ t.leaveSum = s.leaveSum
    /\ t.betMax = s.betMax /\ t.hasAllin = s.hasAllin
    /\ t.allin = s.allin
    /\ t.allinCoin \in [User -> Int]
    /\ \A u \in User \ Players(s) : t.allinCoin[u] = s.allinCoin[u]

\* Who sits and plays at a table depends on its seats and states alone.
LEMMA SamePlayers ==
    ASSUME NEW s, NEW t, t.seat = s.seat, t.pst = s.pst
    PROVE  InTable(t) = InTable(s) /\ Players(t) = Players(s)
BY DEF InTable, Players

\* Keeping the coins is transitive.
LEMMA SameCoinsOn ==
    ASSUME NEW r, NEW s, NEW t, SameCoins(r, s), SameCoins(s, t)
    PROVE  SameCoins(r, t)
<1>1. Players(s) = Players(r)
  BY SamePlayers DEF SameCoins
<1> QED BY <1>1 DEF SameCoins

\* The coin invariant depends on nothing but the coins and the players.
LEMMA CoinsKept ==
    ASSUME NEW s, NEW t, SameCoins(s, t), Coins(s)
    PROVE  Coins(t)
<1>1. Players(t) = Players(s)
  BY SamePlayers DEF SameCoins
<1>2. Numbers(t)
  BY DEF SameCoins, Coins, Numbers
<1>3. Quiet(t)
  BY <1>1 DEF SameCoins, Coins, Quiet
<1>4. Idle(t)
  BY DEF SameCoins, Coins, Idle, IsActive
<1> QED BY <1>2, <1>3, <1>4 DEF Coins

\* So do the types of what counts coins.
LEMMA NumbersKept ==
    ASSUME NEW s, NEW t, SameCoins(s, t), Numbers(s)
    PROVE  Numbers(t)
BY DEF SameCoins, Numbers

\* setPlayerOptype moves no coins.
LEMMA SetPlayerOptypeCoins ==
    ASSUME NEW s, NEW u, Numbers(s)
    PROVE  SameCoins(s, SetPlayerOptype(s, u))
<1> DEFINE t == SetPlayerOptype(s, u)
<1>1. DOMAIN s = Fields
  BY DEF Numbers
<1>2. /\ DOMAIN t = Fields
      /\ t.status = s.status /\ t.seat = s.seat /\ t.pst = s.pst
      /\ t.money = s.money /\ t.bet = s.bet
      /\ t.pool = s.pool /\ t.leaveSum = s.leaveSum
      /\ t.betMax = s.betMax /\ t.hasAllin = s.hasAllin
      /\ t.allin = s.allin /\ t.allinCoin = s.allinCoin
  BY <1>1 DEF SetPlayerOptype, Fields, FreshTable
<1> HIDE DEF t
<1> QED BY <1>1, <1>2 DEF SameCoins, Numbers, t

\* Taking a player's cards moves no coins.
LEMMA DiscardCoins ==
    ASSUME NEW s, NEW u, Numbers(s)
    PROVE  SameCoins(s, Discard(s, u))
<1> DEFINE t == Discard(s, u)
<1>1. DOMAIN s = Fields
  BY DEF Numbers
<1>2. /\ DOMAIN t = Fields
      /\ t.status = s.status /\ t.seat = s.seat /\ t.pst = s.pst
      /\ t.money = s.money /\ t.bet = s.bet
      /\ t.pool = s.pool /\ t.leaveSum = s.leaveSum
      /\ t.betMax = s.betMax /\ t.hasAllin = s.hasAllin
      /\ t.allin = s.allin /\ t.allinCoin = s.allinCoin
  BY <1>1 DEF Discard, Fields, FreshTable
<1> HIDE DEF t
<1> QED BY <1>1, <1>2 DEF SameCoins, Numbers, t

\* What only steers the hand, its end, its first speaker and the kick timer,
\* moves no coins.
LEMMA SteeringCoins ==
    ASSUME NEW s, NEW u, Numbers(s)
    PROVE  /\ SameCoins(s, SetNextFirst(s, u))
           /\ SameCoins(s, GameOver(s))
           /\ SameCoins(s, GameOverIfDecided(s))
           /\ SameCoins(s, SetKickTimer(s))
           /\ SameCoins(s, s)
<1>1. DOMAIN s = Fields
  BY DEF Numbers
<1>2. SameCoins(s, s)
  BY DEF SameCoins, Numbers
<1>3. SameCoins(s, SetNextFirst(s, u))
  <2> DEFINE t == SetNextFirst(s, u)
  <2>1. /\ DOMAIN t = Fields
        /\ t.status = s.status /\ t.seat = s.seat /\ t.pst = s.pst
        /\ t.money = s.money /\ t.bet = s.bet
        /\ t.pool = s.pool /\ t.leaveSum = s.leaveSum
        /\ t.betMax = s.betMax /\ t.hasAllin = s.hasAllin
        /\ t.allin = s.allin /\ t.allinCoin = s.allinCoin
    BY <1>1 DEF SetNextFirst, Fields, FreshTable
  <2> HIDE DEF t
  <2> QED BY <1>1, <2>1 DEF SameCoins, Numbers, t
<1>4. SameCoins(s, GameOver(s))
  <2> DEFINE t == GameOver(s)
  <2>1. /\ DOMAIN t = Fields
        /\ t.status = s.status /\ t.seat = s.seat /\ t.pst = s.pst
        /\ t.money = s.money /\ t.bet = s.bet
        /\ t.pool = s.pool /\ t.leaveSum = s.leaveSum
        /\ t.betMax = s.betMax /\ t.hasAllin = s.hasAllin
        /\ t.allin = s.allin /\ t.allinCoin = s.allinCoin
    BY <1>1 DEF GameOver, Fields, FreshTable
  <2> HIDE DEF t
  <2> QED BY <1>1, <2>1 DEF SameCoins, Numbers, t
<1>5. SameCoins(s, SetKickTimer(s))
  <2> DEFINE t == SetKickTimer(s)
  <2>1. /\ DOMAIN t = Fields
        /\ t.status = s.status /\ t.seat = s.seat /\ t.pst = s.pst
        /\ t.money = s.money /\ t.bet = s.bet
        /\ t.pool = s.pool /\ t.leaveSum = s.leaveSum
        /\ t.betMax = s.betMax /\ t.hasAllin = s.hasAllin
        /\ t.allin = s.allin /\ t.allinCoin = s.allinCoin
    BY <1>1 DEF SetKickTimer, Fields, FreshTable
  <2> HIDE DEF t
  <2> QED BY <1>1, <2>1 DEF SameCoins, Numbers, t
<1> QED BY <1>2, <1>3, <1>4, <1>5 DEF GameOverIfDecided

\* The card holders are finitely many players of the hand.
LEMMA HoldersFinite ==
    ASSUME NEW s
    PROVE  IsFiniteSet(Holders(s)) /\ Holders(s) \subseteq Players(s)
<1>1. Holders(s) \subseteq InTable(s) /\ Holders(s) \subseteq Players(s)
  BY DEF Holders, Players
<1> QED BY <1>1, InTableFinite, FS_Subset

\* What an all-in may stake is a whole number of coins.
LEMMA StakeType ==
    ASSUME NEW s, Numbers(s)
    PROVE  AllinStake(s) \in Int
<1> DEFINE purses == {s.money[u] : u \in Holders(s)}
           S == {MaxAllIn} \cup purses
<1>1. IsFiniteSet(purses)
  BY HoldersFinite, ImageFinite
<1>2. IsFiniteSet(S) /\ S # {}
  <2> HIDE DEF purses
  <2>1. IsFiniteSet({MaxAllIn})
    BY FS_Singleton
  <2> QED BY <1>1, <2>1, FS_Union
<1>3. S \subseteq Int
  BY CoinAssumption DEF Numbers, Holders, InTable
<1> HIDE DEF S
<1>4. Min(S) \in Int
  BY <1>2, <1>3, MinOfInts
<1> QED BY <1>4 DEF AllinStake, Numbers, S

\* setPlayerlimitcoin sets all-in limits of the players in the hand only.
LEMMA SetPlayerLimitCoinCoins ==
    ASSUME NEW s, Numbers(s)
    PROVE  SameCoins(s, SetPlayerLimitCoin(s))
<1> DEFINE new == [u \in User |-> IF u \in Holders(s) THEN AllinStake(s)
                                  ELSE s.allinCoin[u]]
           t == [s EXCEPT !.allinCoin = new]
<1>1. SetPlayerLimitCoin(s) = IF ~ s.canAllin THEN s ELSE t
  BY DEF SetPlayerLimitCoin
<1>2. DOMAIN s = Fields
  BY DEF Numbers
<1>3. /\ new \in [User -> Int]
      /\ \A u \in User \ Players(s) : new[u] = s.allinCoin[u]
  BY StakeType, HoldersFinite DEF Numbers
<1> HIDE DEF new
<1>4. /\ DOMAIN t = Fields
      /\ t.status = s.status /\ t.seat = s.seat /\ t.pst = s.pst
      /\ t.money = s.money /\ t.bet = s.bet
      /\ t.pool = s.pool /\ t.leaveSum = s.leaveSum
      /\ t.betMax = s.betMax /\ t.hasAllin = s.hasAllin
      /\ t.allin = s.allin /\ t.allinCoin = new
  BY <1>2 DEF Fields, FreshTable
<1> HIDE DEF t
<1>5. SameCoins(s, t)
  BY <1>2, <1>3, <1>4 DEF SameCoins
<1>6. SameCoins(s, s)
  BY SteeringCoins
<1> QED BY <1>1, <1>5, <1>6

\* Passing the turn moves no coins.
LEMMA GetNextBetPlayerCoins ==
    ASSUME NEW s, NEW u, Numbers(s)
    PROVE  SameCoins(s, GetNextBetPlayer(s, u))
<1> DEFINE able == AbleToBet(s, u)
           next == NextAfter(s, u, able)
           r == IF s.seat[next] = s.first THEN s.round + 1 ELSE s.round
           acted == [s EXCEPT !.betT = None,
                              !.tmo[u] = IF s.round # 1 THEN 0 ELSE @]
           turn == [acted EXCEPT !.round = r, !.currBet = next]
           asked == SetPlayerOptype(turn, next)
           clocked == [asked EXCEPT !.betT = next]
           over == GameOver(acted)
           late == [over EXCEPT !.round = MaxRound]
<1>1. GetNextBetPlayer(s, u) =
        IF able = {} THEN SetPlayerOptype(acted, u)
        ELSE IF PastLastRound(r) THEN late
        ELSE SetPlayerLimitCoin(clocked)
  BY DEF GetNextBetPlayer
<1> HIDE DEF able, next, r
<1>2. SameCoins(s, acted)
  BY DEF Numbers, SameCoins, Fields, FreshTable
<1>3. Numbers(acted)
  BY <1>2, NumbersKept
<1> HIDE DEF acted
<1>4. SameCoins(acted, turn)
  BY <1>3 DEF Numbers, SameCoins, Fields, FreshTable
<1>5. Numbers(turn)
  BY <1>3, <1>4, NumbersKept
<1> HIDE DEF turn
<1>6. SameCoins(turn, asked) /\ Numbers(asked)
  BY <1>5, SetPlayerOptypeCoins, NumbersKept
<1> HIDE DEF asked
<1>7. SameCoins(asked, clocked)
  BY <1>6 DEF Numbers, SameCoins, Fields, FreshTable
<1>8. Numbers(clocked)
  BY <1>6, <1>7, NumbersKept
<1> HIDE DEF clocked
<1>9. SameCoins(clocked, SetPlayerLimitCoin(clocked))
  BY <1>8, SetPlayerLimitCoinCoins
<1>10. SameCoins(acted, over) /\ Numbers(over)
  BY <1>3, SteeringCoins, NumbersKept
<1> HIDE DEF over
<1>11. SameCoins(over, late)
  BY <1>10 DEF Numbers, SameCoins, Fields, FreshTable
<1> HIDE DEF late
<1>12. SameCoins(s, SetPlayerLimitCoin(clocked))
  BY <1>2, <1>4, <1>6, <1>7, <1>9, SameCoinsOn
<1>13. SameCoins(s, late)
  BY <1>2, <1>10, <1>11, SameCoinsOn
<1>14. SameCoins(s, SetPlayerOptype(acted, u))
  BY <1>2, <1>3, SetPlayerOptypeCoins, SameCoinsOn
<1> QED BY <1>1, <1>12, <1>13, <1>14

-----------------------------------------------------------------------------
(* Betting. *)

\* u has put x of his coins into the pool.
Staked(s, t, u, x) ==
    /\ DOMAIN t = DOMAIN s
    /\ t.status = s.status /\ t.seat = s.seat /\ t.pst = s.pst
    /\ t.money = [s.money EXCEPT ![u] = @ - x]
    /\ t.bet = [s.bet EXCEPT ![u] = @ + x]
    /\ t.pool = s.pool + x /\ t.leaveSum = s.leaveSum
    /\ t.betMax \in Int /\ t.hasAllin \in Int
    /\ t.allinCoin \in [User -> Int]
    /\ \A v \in User \ Players(s) : t.allinCoin[v] = s.allinCoin[v]
    /\ \A v \in User \ {u} : t.allin[v] = s.allin[v]

\* A stake of a player in the hand keeps the coin invariant.
LEMMA StakedCoins ==
    ASSUME NEW s, NEW t, NEW u \in Players(s), NEW x \in Int, Coins(s),
           IsActive(s), Staked(s, t, u, x)
    PROVE  Coins(t)
<1>1. Players(t) = Players(s)
  BY SamePlayers DEF Staked
<1>2. u \in User /\ Numbers(s) /\ Quiet(s)
  BY DEF Players, InTable, Coins
<1>3. Numbers(t)
  BY <1>2 DEF Staked, Numbers
<1>4. Quiet(t)
  BY <1>1, <1>2 DEF Staked, Quiet, Numbers
<1>5. Idle(t)
  BY DEF Staked, Idle, IsActive
<1> QED BY <1>3, <1>4, <1>5 DEF Coins

\* A stake stays that stake behind what moves no coins.
LEMMA StakedOn ==
    ASSUME NEW r, NEW s, NEW t, NEW u, NEW x, Staked(r, s, u, x),
           SameCoins(s, t), Numbers(s)
    PROVE  Staked(r, t, u, x)
<1>1. Players(s) = Players(r)
  BY SamePlayers DEF Staked
<1> QED BY <1>1 DEF Staked, SameCoins, Numbers

\* Two stakes of one player are one stake of their sum.
LEMMA StakedTwice ==
    ASSUME NEW r, NEW s, NEW t, NEW u \in User, NEW x \in Int, NEW y \in Int,
           Numbers(r), Staked(r, s, u, x), Staked(s, t, u, y)
    PROVE  Staked(r, t, u, x + y)
<1>1. Players(s) = Players(r)
  BY SamePlayers DEF Staked
<1>2. t.money = [r.money EXCEPT ![u] = @ - (x + y)]
  BY DEF Staked, Numbers
<1>3. t.bet = [r.bet EXCEPT ![u] = @ + (x + y)]
  BY DEF Staked, Numbers
<1>4. t.pool = r.pool + (x + y)
  BY DEF Staked, Numbers
<1> QED BY <1>1, <1>2, <1>3, <1>4 DEF Staked

\* playerBetCoin moves x coins of u from the purse to the bet and the pool.
LEMMA PlayerBetCoinCoins ==
    ASSUME NEW s, NEW u \in User, NEW x \in Int, Numbers(s)
    PROVE  /\ Staked(s, PlayerBetCoin(s, u, x), u, x)
           /\ Numbers(PlayerBetCoin(s, u, x))
<1> DEFINE t == PlayerBetCoin(s, u, x)
<1>1. /\ DOMAIN t = Fields
      /\ t.status = s.status /\ t.seat = s.seat /\ t.pst = s.pst
      /\ t.money = [s.money EXCEPT ![u] = @ - x]
      /\ t.bet = [s.bet EXCEPT ![u] = @ + x]
      /\ t.pool = s.pool + x /\ t.leaveSum = s.leaveSum
      /\ t.betMax = s.betMax /\ t.hasAllin = s.hasAllin
      /\ t.allin = s.allin /\ t.allinCoin = s.allinCoin
  BY DEF PlayerBetCoin, Numbers, Fields, FreshTable
<1> HIDE DEF t
<1>2. Staked(s, t, u, x)
  BY <1>1 DEF Staked, Numbers
<1>3. Numbers(t)
  BY <1>1 DEF Numbers
<1> QED BY <1>2, <1>3 DEF t

\* What a call costs is a whole number of coins.
LEMMA CallMoneyType ==
    ASSUME NEW s, NEW u, Numbers(s)
    PROVE  CallMoney(s, u) \in Int
BY DEF CallMoney, Doubled, Numbers

\* Min of two integers is one of them, and no greater than either.
LEMMA MinOfTwo ==
    ASSUME NEW x \in Int, NEW y \in Int
    PROVE  Min({x, y}) \in {x, y} /\ Min({x, y}) <= x /\ Min({x, y}) <= y
<1> DEFINE S == {x, y}
<1>1. IsFiniteSet(S)
  <2>1. IsFiniteSet({x}) /\ {x} \cup {y} = {x, y}
    BY FS_Singleton
  <2>2. IsFiniteSet({x} \cup {y})
    BY <2>1, FS_AddElement
  <2> QED BY <2>1, <2>2
<1>2. S # {} /\ S \subseteq Int /\ x \in S /\ y \in S
  OBVIOUS
<1> HIDE DEF S
<1>3. Min(S) \in S /\ \A z \in S : Min(S) <= z
  BY <1>1, <1>2, MinOfInts
<1> QED BY <1>2, <1>3 DEF S

\* A handler that sets the stake, or notes an all-in, stakes nothing by it.
LEMMA NotedCoins ==
    ASSUME NEW s, NEW t, NEW u \in User, Numbers(s), DOMAIN t = DOMAIN s,
           t.status = s.status, t.seat = s.seat, t.pst = s.pst,
           t.money = s.money, t.bet = s.bet,
           t.pool = s.pool, t.leaveSum = s.leaveSum,
           t.betMax \in Int, t.hasAllin \in Int,
           t.allinCoin = s.allinCoin,
           \A v \in User \ {u} : t.allin[v] = s.allin[v]
    PROVE  Staked(s, t, u, 0) /\ Numbers(t)
<1>1. t.money = [s.money EXCEPT ![u] = @ - 0]
  BY DEF Numbers
<1>2. t.bet = [s.bet EXCEPT ![u] = @ + 0]
  BY DEF Numbers
<1>3. t.pool = s.pool + 0
  BY DEF Numbers
<1> QED BY <1>1, <1>2, <1>3 DEF Staked, Numbers

\* A bet, and whatever only passes the turn on after it
LEMMA BetCoins ==
    ASSUME NEW s, NEW u \in User, NEW x \in Int, NEW t,
           Numbers(table), Staked(table, s, u, 0), Numbers(s),
           SameCoins(PlayerBetCoin(s, u, x), t)
    PROVE  Staked(table, t, u, x) /\ Numbers(t)
<1> DEFINE b == PlayerBetCoin(s, u, x)
<1>1. Staked(s, b, u, x) /\ Numbers(b)
  BY PlayerBetCoinCoins
<1> HIDE DEF b
<1>2. Staked(table, b, u, 0 + x)
  BY <1>1, StakedTwice
<1>3. 0 + x = x
  OBVIOUS
<1>4. SameCoins(b, t)
  BY DEF b
<1> QED BY <1>1, <1>2, <1>3, <1>4, StakedOn, NumbersKept

Staking ==
    /\ \/ SameCoins(table, table')
       \/ \E u \in Players(table) : \E x \in Int : Staked(table, table', u, x)
    /\ acct' = acct

\* Passing the turn and looking for the end of the hand move no coins.
LEMMA PassedCoins ==
    ASSUME NEW s, NEW u, Numbers(s)
    PROVE  /\ SameCoins(s, GameOverIfDecided(GetNextBetPlayer(s, u)))
           /\ SameCoins(s, GetNextBetPlayer(s, u))
<1>1. SameCoins(s, GetNextBetPlayer(s, u))
  BY GetNextBetPlayerCoins
<1>2. Numbers(GetNextBetPlayer(s, u))
  BY <1>1, NumbersKept
<1> QED BY <1>1, <1>2, SteeringCoins, SameCoinsOn

\* Who plays at the table is one of the players of its hand.
LEMMA PlayingIn ==
    ASSUME NEW u \in User, Playing(u)
    PROVE  u \in Players(table)
BY DEF Playing, At, Players

\* A call stakes coins of the caller (CallProcess).
LEMMA CallStakes ==
    ASSUME NEW u \in User, TInv, Numbers(table), Call(u)
    PROVE  Staking
<1> DEFINE someAllin == HasSomeOneAllin(table)
           coin == IF someAllin THEN table.allinCoin[u] ELSE CallMoney(table, u)
           s1 == [table EXCEPT !.allin[u] = @ \/ someAllin]
           b == PlayerBetCoin(s1, u, coin)
<1>1. /\ Playing(u) /\ acct' = acct
      /\ table' = GameOverIfDecided(GetNextBetPlayer(b, u))
  BY DEF Call, Turn, InHand, TableBecomes
<1>2. coin \in Int
  BY CallMoneyType DEF Numbers
<1> HIDE DEF coin, someAllin
<1>3. Staked(table, s1, u, 0) /\ Numbers(s1)
  <2>1. /\ DOMAIN s1 = DOMAIN table
        /\ s1.status = table.status /\ s1.seat = table.seat
        /\ s1.pst = table.pst /\ s1.money = table.money /\ s1.bet = table.bet
        /\ s1.pool = table.pool /\ s1.leaveSum = table.leaveSum
        /\ s1.betMax = table.betMax /\ s1.hasAllin = table.hasAllin
        /\ s1.allinCoin = table.allinCoin
        /\ \A v \in User \ {u} : s1.allin[v] = table.allin[v]
    BY DEF Numbers, Fields, FreshTable, TInv, Typed, Notes
  <2> HIDE DEF s1
  <2> QED BY <2>1, NotedCoins DEF Numbers
<1> HIDE DEF s1
<1>4. Numbers(b)
  BY <1>2, <1>3, PlayerBetCoinCoins
<1>5. SameCoins(b, table')
  <2> HIDE DEF b
  <2> QED BY <1>1, <1>4, PassedCoins
<1>6. Staked(table, table', u, coin)
  BY <1>2, <1>3, <1>5, BetCoins
<1> QED BY <1>1, <1>2, <1>6, PlayingIn DEF Staking

\* A raise stakes coins of the raiser (RaseProcess).
LEMMA RaseStakes ==
    ASSUME NEW u \in User, NEW x \in RaseChoices, TInv, Numbers(table),
           Rase(u, x)
    PROVE  Staking
<1> DEFINE coin == IF table.card[u] = "UNKNOWN" THEN x ELSE Doubled(x)
           s1 == [table EXCEPT !.betMax = x, !.maxCard = table.card[u]]
           b == PlayerBetCoin(s1, u, coin)
<1>1. /\ Playing(u) /\ acct' = acct
      /\ table' = GetNextBetPlayer(b, u)
  BY DEF Rase, Turn, InHand, TableBecomes
<1>2. x \in Int /\ coin \in Int
  BY MoneyAssumption DEF Doubled
<1> HIDE DEF coin
<1>3. Staked(table, s1, u, 0) /\ Numbers(s1)
  <2>1. /\ DOMAIN s1 = DOMAIN table
        /\ s1.status = table.status /\ s1.seat = table.seat
        /\ s1.pst = table.pst /\ s1.money = table.money /\ s1.bet = table.bet
        /\ s1.pool = table.pool /\ s1.leaveSum = table.leaveSum
        /\ s1.betMax = x /\ s1.hasAllin = table.hasAllin
        /\ s1.allinCoin = table.allinCoin /\ s1.allin = table.allin
    BY DEF Numbers, Fields, FreshTable
  <2> HIDE DEF s1
  <2> QED BY <1>2, <2>1, NotedCoins DEF Numbers
<1> HIDE DEF s1
<1>4. Numbers(b)
  BY <1>2, <1>3, PlayerBetCoinCoins
<1>5. SameCoins(b, table')
  <2> HIDE DEF b
  <2> QED BY <1>1, <1>4, PassedCoins
<1>6. Staked(table, table', u, coin)
  BY <1>2, <1>3, <1>5, BetCoins
<1> QED BY <1>1, <1>2, <1>6, PlayingIn DEF Staking

\* An all-in stakes coins of the player on turn (AllinProc).
LEMMA AllinStakes ==
    ASSUME NEW u \in User, TInv, Numbers(table), Allin(u)
    PROVE  Staking
<1> DEFINE coin == table.allinCoin[u]
           s1 == IF coin > table.betMax
                 THEN [table EXCEPT !.betMax = coin, !.maxCard = table.card[u]]
                 ELSE table
           s2 == [s1 EXCEPT !.hasAllin = coin, !.allin[u] = TRUE]
           b == PlayerBetCoin(s2, u, coin)
<1>1. /\ Playing(u) /\ acct' = acct
      /\ table' = GameOverIfDecided(GetNextBetPlayer(b, u))
  BY DEF Allin, Turn, InHand, TableBecomes
<1>2. coin \in Int
  BY DEF Numbers
<1> HIDE DEF coin
<1>3. Staked(table, s2, u, 0) /\ Numbers(s2)
  <2>1. /\ DOMAIN s1 = DOMAIN table
        /\ s1.status = table.status /\ s1.seat = table.seat
        /\ s1.pst = table.pst /\ s1.money = table.money /\ s1.bet = table.bet
        /\ s1.pool = table.pool /\ s1.leaveSum = table.leaveSum
        /\ s1.betMax \in {coin, table.betMax}
        /\ s1.allinCoin = table.allinCoin /\ s1.allin = table.allin
    BY DEF Numbers, Fields, FreshTable
  <2> HIDE DEF s1
  <2>2. /\ DOMAIN s2 = DOMAIN table
        /\ s2.status = s1.status /\ s2.seat = s1.seat
        /\ s2.pst = s1.pst /\ s2.money = s1.money /\ s2.bet = s1.bet
        /\ s2.pool = s1.pool /\ s2.leaveSum = s1.leaveSum
        /\ s2.betMax = s1.betMax /\ s2.hasAllin = coin
        /\ s2.allinCoin = s1.allinCoin
        /\ \A v \in User \ {u} : s2.allin[v] = s1.allin[v]
    BY <2>1 DEF Numbers, Fields, FreshTable, TInv, Typed, Notes
  <2> HIDE DEF s2
  <2> QED BY <1>2, <2>1, <2>2, NotedCoins DEF Numbers
<1> HIDE DEF s1, s2
<1>4. Numbers(b)
  BY <1>2, <1>3, PlayerBetCoinCoins
<1>5. SameCoins(b, table')
  <2> HIDE DEF b
  <2> QED BY <1>1, <1>4, PassedCoins
<1>6. Staked(table, table', u, coin)
  BY <1>2, <1>3, <1>5, BetCoins
<1> QED BY <1>1, <1>2, <1>6, PlayingIn DEF Staking

\* A comparison stakes coins of the one who asks for it (CompareCardProc).
LEMMA CompareCardsStakes ==
    ASSUME NEW u \in User, NEW v \in User, Numbers(table), CompareCards(u, v)
    PROVE  Staking
<1> DEFINE cost == Min({CallMoney(table, u), table.money[u]})
           s1 == PlayerBetCoin(table, u, cost)
           win == CompareCard(table.rank[u], table.rank[v]) = "win"
           dv == Discard(s1, v)
           fv == SetNextFirst(dv, v)
           won == GetNextBetPlayer(fv, u)
           forced == /\ won.betT # None /\ won.money[u] = 0
                     /\ Cardinality(Holders(won)) <= 2
           du == Discard(s1, u)
           gu == GetNextBetPlayer(du, u)
           lost == SetNextFirst(gu, u)
           force == ForceCompareCard(won, u, won.betT)
           end == IF ~ win THEN lost ELSE IF forced THEN force ELSE won
<1>1. /\ Playing(u) /\ acct' = acct
      /\ table' = GameOverIfDecided(end)
  BY DEF CompareCards, Turn, InHand, TableBecomes
<1>2. cost \in Int
  <2>1. CallMoney(table, u) \in Int /\ table.money[u] \in Int
    BY CallMoneyType DEF Numbers
  <2>2. cost \in {CallMoney(table, u), table.money[u]}
    BY <2>1, MinOfTwo
  <2> QED BY <2>1, <2>2
<1> HIDE DEF cost, win
<1>3. Staked(table, s1, u, cost) /\ Numbers(s1)
  BY <1>2, PlayerBetCoinCoins
<1> HIDE DEF s1
<1>4. SameCoins(s1, won) /\ Numbers(won)
  <2>1. SameCoins(s1, dv) /\ Numbers(dv)
    BY <1>3, DiscardCoins, NumbersKept
  <2> HIDE DEF dv
  <2>2. SameCoins(dv, fv) /\ Numbers(fv)
    BY <2>1, SteeringCoins, NumbersKept
  <2> HIDE DEF fv
  <2>3. SameCoins(fv, won) /\ Numbers(won)
    BY <2>2, GetNextBetPlayerCoins, NumbersKept
  <2> HIDE DEF won
  <2> QED BY <2>1, <2>2, <2>3, SameCoinsOn
<1>5. SameCoins(s1, lost) /\ Numbers(lost)
  <2>1. SameCoins(s1, du) /\ Numbers(du)
    BY <1>3, DiscardCoins, NumbersKept
  <2> HIDE DEF du
  <2>2. SameCoins(du, gu) /\ Numbers(gu)
    BY <2>1, GetNextBetPlayerCoins, NumbersKept
  <2> HIDE DEF gu
  <2>3. SameCoins(gu, lost) /\ Numbers(lost)
    BY <2>2, SteeringCoins, NumbersKept
  <2> HIDE DEF lost
  <2> QED BY <2>1, <2>2, <2>3, SameCoinsOn
<1> HIDE DEF won, lost
<1>6. Staked(table, won, u, cost) /\ Staked(table, lost, u, cost)
  BY <1>3, <1>4, <1>5, StakedOn
<1>7. PICK y \in Int : Staked(table, force, u, cost + y) /\ Numbers(force)
  <2> DEFINE rest == won.money[u]
             b == PlayerBetCoin(won, u, rest)
  <2>1. rest \in Int
    BY <1>4 DEF Numbers
  <2> HIDE DEF rest
  <2>2. Staked(won, b, u, rest) /\ Numbers(b)
    BY <1>4, <2>1, PlayerBetCoinCoins
  <2>3. force = [b EXCEPT
                   !.cmp = [kept |-> TRUE, p1 |-> u, p2 |-> won.betT,
                            result |-> CompareCard(won.rank[u],
                                                   won.rank[won.betT])],
                   !.cmpT = TRUE]
    BY DEF ForceCompareCard, rest
  <2> HIDE DEF force, b
  <2>4. SameCoins(b, force)
    BY <2>2, <2>3 DEF Numbers, SameCoins, Fields, FreshTable
  <2>5. Staked(won, force, u, rest) /\ Numbers(force)
    BY <2>2, <2>4, StakedOn, NumbersKept
  <2>6. Staked(table, force, u, cost + rest)
    BY <1>2, <1>6, <2>1, <2>5, StakedTwice
  <2> QED BY <2>1, <2>5, <2>6
<1> HIDE DEF force, forced
<1>8. /\ \E x \in Int : Staked(table, end, u, x)
      /\ Numbers(end)
  BY <1>2, <1>4, <1>5, <1>6, <1>7
<1> HIDE DEF end
<1>9. SameCoins(end, table')
  BY <1>1, <1>8, SteeringCoins
<1>10. \E x \in Int : Staked(table, table', u, x)
  BY <1>8, <1>9, StakedOn
<1> QED BY <1>1, <1>10, PlayingIn DEF Staking

\* Folding, looking at the cards, and the timers that fold for a player
LEMMA FoldStakes ==
    ASSUME Numbers(table),
           \/ \E u \in User : ThrowCard(u) \/ CheckCard(u)
           \/ BetTimeOut \/ CompareResultNotifyTimeOut
    PROVE  Staking
<1>1. ASSUME NEW u \in User, ThrowCard(u) PROVE Staking
  <2> DEFINE s1 == Discard(table, u)
             s2 == IF table.currBet = u THEN GetNextBetPlayer(s1, u)
                   ELSE IF table.currBet = None THEN s1
                   ELSE SetPlayerOptype(s1, table.currBet)
             s3 == SetNextFirst(s2, u)
  <2>1. table' = GameOverIfDecided(s3) /\ acct' = acct
    BY <1>1 DEF ThrowCard, TableBecomes
  <2>2. SameCoins(table, s1) /\ Numbers(s1)
    BY DiscardCoins, NumbersKept
  <2> HIDE DEF s1
  <2>3. SameCoins(s1, s2) /\ Numbers(s2)
    BY <2>2, GetNextBetPlayerCoins, SetPlayerOptypeCoins, SteeringCoins,
       NumbersKept
  <2> HIDE DEF s2
  <2>4. SameCoins(s2, s3) /\ Numbers(s3)
    BY <2>3, SteeringCoins, NumbersKept
  <2> HIDE DEF s3
  <2>5. SameCoins(s3, table')
    BY <2>1, <2>4, SteeringCoins
  <2> QED BY <2>1, <2>2, <2>3, <2>4, <2>5, SameCoinsOn DEF Staking
<1>2. ASSUME NEW u \in User, CheckCard(u) PROVE Staking
  <2> DEFINE s1 == [table EXCEPT !.card[u] = "KNOWN"]
             s2 == [s1 EXCEPT !.betT = u]
  <2>1. /\ table' = IF table.currBet = u THEN SetPlayerOptype(s2, u) ELSE s1
        /\ acct' = acct
    BY <1>2 DEF CheckCard, TableBecomes
  <2>2. SameCoins(table, s1)
    BY DEF Numbers, SameCoins, Fields, FreshTable
  <2>3. Numbers(s1)
    BY <2>2, NumbersKept
  <2> HIDE DEF s1
  <2>4. SameCoins(s1, s2)
    BY <2>3 DEF Numbers, SameCoins, Fields, FreshTable
  <2>5. Numbers(s2)
    BY <2>3, <2>4, NumbersKept
  <2> HIDE DEF s2
  <2>6. SameCoins(s1, table')
    BY <2>1, <2>3, <2>4, <2>5, SetPlayerOptypeCoins, SteeringCoins, SameCoinsOn
  <2> QED BY <2>1, <2>2, <2>6, SameCoinsOn DEF Staking
<1>3. CASE BetTimeOut
  <2> DEFINE u == table.betT
             s1 == [table EXCEPT !.betT = None]
             st == [s1 EXCEPT !.tmo[u] = IF s1.round = 1 THEN @ + 1 ELSE @]
             s2 == Discard(st, u)
             s3 == GetNextBetPlayer(s2, u)
             s4 == IF s3.betT = None THEN s3 ELSE SetPlayerOptype(s3, s3.betT)
             s5 == SetNextFirst(s4, u)
  <2>1. /\ acct' = acct
        /\ table' = IF u \in InTable(table) /\ table.currBet = u
                    THEN GameOverIfDecided(s5) ELSE s1
    BY <1>3 DEF BetTimeOut, TableBecomes
  <2> HIDE DEF u
  <2>2. SameCoins(table, s1)
    BY DEF Numbers, SameCoins, Fields, FreshTable
  <2>3. Numbers(s1)
    BY <2>2, NumbersKept
  <2> HIDE DEF s1
  <2>4. SameCoins(s1, st)
    BY <2>3 DEF Numbers, SameCoins, Fields, FreshTable
  <2>5. Numbers(st)
    BY <2>3, <2>4, NumbersKept
  <2> HIDE DEF st
  <2>6. SameCoins(st, s2) /\ Numbers(s2)
    BY <2>5, DiscardCoins, NumbersKept
  <2> HIDE DEF s2
  <2>7. SameCoins(s2, s3) /\ Numbers(s3)
    BY <2>6, GetNextBetPlayerCoins, NumbersKept
  <2> HIDE DEF s3
  <2>8. SameCoins(s3, s4) /\ Numbers(s4)
    BY <2>7, SetPlayerOptypeCoins, SteeringCoins, NumbersKept
  <2> HIDE DEF s4
  <2>9. SameCoins(s4, s5) /\ Numbers(s5)
    BY <2>8, SteeringCoins, NumbersKept
  <2> HIDE DEF s5
  <2>10. SameCoins(s5, GameOverIfDecided(s5))
    BY <2>9, SteeringCoins
  <2>11. SameCoins(s1, GameOverIfDecided(s5))
    BY <2>4, <2>6, <2>7, <2>8, <2>9, <2>10, SameCoinsOn
  <2> QED BY <2>1, <2>2, <2>11, SameCoinsOn DEF Staking
<1>4. CASE CompareResultNotifyTimeOut
  <2> DEFINE c == table.cmp
             s1 == [table EXCEPT !.cmpT = FALSE]
             loser == IF c.result = "win" THEN c.p2 ELSE c.p1
             s2 == IF loser = None THEN s1 ELSE Discard(s1, loser)
             s3 == [s2 EXCEPT !.cmp = NoCompare]
  <2>1. /\ acct' = acct
        /\ table' = IF ~ c.kept THEN s1 ELSE GameOverIfDecided(s3)
    BY <1>4 DEF CompareResultNotifyTimeOut, TableBecomes
  <2> HIDE DEF loser
  <2>2. SameCoins(table, s1)
    BY DEF Numbers, SameCoins, Fields, FreshTable
  <2>3. Numbers(s1)
    BY <2>2, NumbersKept
  <2> HIDE DEF s1
  <2>4. SameCoins(s1, s2) /\ Numbers(s2)
    BY <2>3, DiscardCoins, SteeringCoins, NumbersKept
  <2> HIDE DEF s2
  <2>5. SameCoins(s2, s3)
    BY <2>4 DEF Numbers, SameCoins, Fields, FreshTable
  <2>6. Numbers(s3)
    BY <2>4, <2>5, NumbersKept
  <2> HIDE DEF s3
  <2>7. SameCoins(s3, GameOverIfDecided(s3))
    BY <2>6, SteeringCoins
  <2> QED BY <2>1, <2>2, <2>4, <2>5, <2>7, SameCoinsOn DEF Staking
<1> QED BY <1>1, <1>2, <1>3, <1>4

-----------------------------------------------------------------------------
(* Coming, leaving and dealing. *)

\* t stakes what s stakes: nobody in the hand has come, gone or bet.
SameStakes(s, t) ==
    /\ t.bet = s.bet
    /\ IsActive(t) => /\ IsActive(s)
                      /\ t.pool = s.pool /\ t.leaveSum = s.leaveSum
    /\ t.leaveSum \in {s.leaveSum, 0}

\* playerComming seats u with the m coins of its account and none at stake.
LEMMA PlayerCommingCoins ==
    ASSUME NEW s, NEW u \in User, NEW m \in Int, Typed(s), Coins(s),
           MaxNum > 2, s.seat[u] = NoSeat, FreeChairs(s) # {}
    PROVE  LET t == PlayerComming(s, u, m)
           IN /\ Coins(t) /\ SameStakes(s, t)
              /\ InTable(t) = InTable(s) \cup {u} /\ u \notin InTable(s)
              /\ t.money = [s.money EXCEPT ![u] = m]
<1> DEFINE chair == SeatOrder[CHOOSE i \in FreeChairs(s) :
                                \A j \in FreeChairs(s) : i <= j]
           t == PlayerComming(s, u, m)
<1>1. chair \in Seats
  BY ChairIn
<1> HIDE DEF chair
<1>2. /\ DOMAIN t = Fields
      /\ t.status = WaitingStatus(s)
      /\ t.seat = [s.seat EXCEPT ![u] = chair]
      /\ t.pst = [s.pst EXCEPT ![u] = "COMING"]
      /\ t.money = [s.money EXCEPT ![u] = m] /\ t.bet = s.bet
      /\ t.pool = s.pool /\ t.leaveSum = s.leaveSum
      /\ t.betMax = s.betMax /\ t.hasAllin = s.hasAllin
      /\ t.allin = s.allin /\ t.allinCoin = s.allinCoin
  BY DEF PlayerComming, chair, Coins, Numbers, Fields, FreshTable
<1> HIDE DEF t
<1>3. u \notin InTable(s)
  BY SeatAssumption DEF InTable, NoSeat, Seats
<1>4. InTable(t) = InTable(s) \cup {u}
  BY <1>1, <1>2 DEF InTable, Typed, Shape
<1>5. Players(t) = Players(s)
  BY <1>2, <1>3, <1>4 DEF Players, InTable, Typed, Shape
<1>6. IsActive(t) <=> IsActive(s)
  BY <1>2 DEF IsActive, WaitingStatus
<1>7. Numbers(t) /\ Quiet(t) /\ Idle(t)
  BY <1>2, <1>5, <1>6 DEF Coins, Numbers, Quiet, Idle
<1>8. SameStakes(s, t)
  BY <1>2, <1>6 DEF SameStakes
<1> QED BY <1>2, <1>3, <1>4, <1>7, <1>8 DEF Coins, t

\* What playerLeave leaves of the coins
LEMMA PlayersLeaveFields ==
    ASSUME NEW s, NEW G \in SUBSET InTable(s), Typed(s), Numbers(s)
    PROVE  LET t == PlayersLeave(s, G)
               Out(f, x) == [u \in User |-> IF u \in G THEN x ELSE f[u]]
           IN /\ DOMAIN t = Fields
              /\ t.pst = Out(s.pst, "LOGOUT")
              /\ t.money = Out(s.money, 0) /\ t.bet = Out(s.bet, 0)
              /\ t.allinCoin = Out(s.allinCoin, 0)
              /\ t.allin = Out(s.allin, FALSE)
              /\ t.card = Out(s.card, "DISCARD")
              /\ \/ /\ t.status = "EMPTY" /\ t.betMax = 0
                    /\ t.pool = 0 /\ t.leaveSum = 0 /\ t.hasAllin = 0
                 \/ /\ IsActive(t) <=> IsActive(s)
                    /\ t.betMax = s.betMax /\ t.hasAllin = s.hasAllin
                    /\ t.pool = s.pool /\ t.leaveSum = s.leaveSum
                    /\ t.canAllin = s.canAllin /\ t.round = s.round
                    /\ t.currBet = s.currBet /\ t.over = s.over
<1> DEFINE n == CountAfter(s, G)
           Out(f, x) == [u \in User |-> IF u \in G THEN x ELSE f[u]]
           out == [s EXCEPT
             !.seat = Out(@, NoSeat), !.pst = Out(@, "LOGOUT"),
             !.card = Out(@, "DISCARD"), !.money = Out(@, 0),
             !.bet = Out(@, 0), !.allin = Out(@, FALSE),
             !.allinCoin = Out(@, 0), !.drop = Out(@, FALSE),
             !.tmo = Out(@, 0), !.rank = Out(@, 0),
             !.count = n, !.status = WaitingStatus(s)]
           one == [out EXCEPT !.kickT = FALSE, !.lock = FALSE]
           init == InitTable(out)
           t == PlayersLeave(s, G)
           Gone(r) == /\ DOMAIN r = Fields /\ r.pst = Out(s.pst, "LOGOUT")
                      /\ r.money = Out(s.money, 0) /\ r.bet = Out(s.bet, 0)
                      /\ r.allinCoin = Out(s.allinCoin, 0)
                      /\ r.allin = Out(s.allin, FALSE)
                      /\ r.card = Out(s.card, "DISCARD")
           Kept(r) == /\ r.status = WaitingStatus(s)
                      /\ r.betMax = s.betMax /\ r.hasAllin = s.hasAllin
                      /\ r.pool = s.pool /\ r.leaveSum = s.leaveSum
                      /\ r.canAllin = s.canAllin /\ r.round = s.round
                      /\ r.currBet = s.currBet /\ r.over = s.over
<1>1. t = IF G = {} THEN s ELSE IF n = 0 THEN init
          ELSE IF n = 1 THEN one ELSE out
  BY DEF PlayersLeave
<1>2. DOMAIN s = Fields
  BY DEF Numbers
<1> HIDE DEF n
<1>3. Gone(out) /\ Kept(out)
  BY <1>2, Zenon DEF Fields, FreshTable
<1> HIDE DEF out
<1>4. Gone(one) /\ Kept(one)
  <2>1. /\ DOMAIN one = Fields /\ one.pst = out.pst
        /\ one.money = out.money /\ one.bet = out.bet
        /\ one.allinCoin = out.allinCoin /\ one.allin = out.allin
        /\ one.status = out.status
        /\ one.betMax = out.betMax /\ one.hasAllin = out.hasAllin
        /\ one.pool = out.pool /\ one.leaveSum = out.leaveSum
        /\ one.card = out.card /\ one.canAllin = out.canAllin
        /\ one.round = out.round /\ one.currBet = out.currBet
        /\ one.over = out.over
    BY <1>3 DEF Fields, FreshTable
  <2> HIDE DEF one
  <2> QED BY <1>3, <2>1, Zenon
<1>5. /\ Gone(init) /\ init.status = "EMPTY" /\ init.betMax = 0
      /\ init.pool = 0 /\ init.leaveSum = 0 /\ init.hasAllin = 0
  <2>1. /\ DOMAIN init = Fields /\ init.pst = out.pst
        /\ init.money = out.money /\ init.bet = out.bet
        /\ init.allinCoin = out.allinCoin /\ init.allin = out.allin
        /\ init.card = out.card
    BY <1>3 DEF InitTable, Cleared, Fields, FreshTable
  <2>2. /\ init.status = "EMPTY" /\ init.betMax = 0
        /\ init.pool = 0 /\ init.leaveSum = 0 /\ init.hasAllin = 0
    BY <1>3 DEF InitTable, Cleared, Fields, FreshTable
  <2> HIDE DEF init
  <2> QED BY <1>3, <2>1, <2>2, Zenon
<1>6. \A r : Kept(r) => (IsActive(r) <=> IsActive(s))
  BY DEF IsActive, WaitingStatus
<1>7. CASE G = {}
  <2>1. t = s
    BY <1>1, <1>7
  <2>2. /\ s.pst \in [User -> PlayerStatus] /\ s.money \in [User -> Int]
        /\ s.bet \in [User -> Int] /\ s.allinCoin \in [User -> Int]
        /\ s.allin \in [User -> BOOLEAN] /\ s.card \in [User -> CardStatus]
    BY DEF Typed, Shape, Notes, Numbers
  <2>3. /\ s.pst = Out(s.pst, "LOGOUT") /\ s.money = Out(s.money, 0)
        /\ s.bet = Out(s.bet, 0) /\ s.allinCoin = Out(s.allinCoin, 0)
        /\ s.card = Out(s.card, "DISCARD")
    BY <1>7, <2>2
  <2>4. s.allin = Out(s.allin, FALSE)
    BY <1>7, <2>2, Zenon
  <2> QED BY <1>2, <2>1, <2>3, <2>4, Zenon
<1>8. CASE G # {} /\ n = 0
  <2>1. t = init
    BY <1>1, <1>8
  <2> HIDE DEF t, init
  <2> QED BY <1>5, <2>1 DEF t
<1>9. CASE G # {} /\ n # 0
  <2>1. t = one \/ t = out
    BY <1>1, <1>9
  <2> HIDE DEF t, one, init, Out
  <2>2. Gone(t) /\ Kept(t)
    BY <1>3, <1>4, <2>1
  <2> QED BY <1>6, <2>2 DEF t, Out
<1> QED BY <1>7, <1>8, <1>9

\* The coins of whoever stays do not change when others leave, and nobody takes
\* a bet along who has none.
LEMMA LeaveCoins ==
    ASSUME NEW s, NEW G \in SUBSET InTable(s), Typed(s), Coins(s)
    PROVE  LET t == PlayersLeave(s, G)
           IN /\ Coins(t) /\ InTable(t) = InTable(s) \ G
              /\ t.bet = [u \in User |-> IF u \in G THEN 0 ELSE s.bet[u]]
              /\ \A u \in InTable(t) : t.money[u] = s.money[u]
              /\ IsActive(t) => IsActive(s) /\ t.pool = s.pool
                                            /\ t.leaveSum = s.leaveSum
              /\ t.leaveSum \in {s.leaveSum, 0}
<1> DEFINE t == PlayersLeave(s, G)
           Out(f, x) == [u \in User |-> IF u \in G THEN x ELSE f[u]]
<1>1. InTable(t) = InTable(s) \ G
  BY PlayersLeaveTyped
<1>2. /\ DOMAIN t = Fields
      /\ t.pst = Out(s.pst, "LOGOUT")
      /\ t.money = Out(s.money, 0) /\ t.bet = Out(s.bet, 0)
      /\ t.allinCoin = Out(s.allinCoin, 0)
      /\ t.allin = Out(s.allin, FALSE)
      /\ t.card = Out(s.card, "DISCARD")
      /\ \/ /\ t.status = "EMPTY" /\ t.betMax = 0
            /\ t.pool = 0 /\ t.leaveSum = 0 /\ t.hasAllin = 0
         \/ /\ IsActive(t) <=> IsActive(s)
            /\ t.betMax = s.betMax /\ t.hasAllin = s.hasAllin
            /\ t.pool = s.pool /\ t.leaveSum = s.leaveSum
            /\ t.canAllin = s.canAllin /\ t.round = s.round
            /\ t.currBet = s.currBet /\ t.over = s.over
  <2> HIDE DEF t, Out
  <2>1. Numbers(s)
    BY DEF Coins
  <2> QED BY <2>1, PlayersLeaveFields, ZenonT(40) DEF t, Out
<1> HIDE DEF t
<1>3. Players(s) \ G \subseteq Players(t)
  BY <1>1, <1>2 DEF Players, InTable
<1>4. Numbers(t)
  BY <1>2 DEF Coins, Numbers
<1>5. Quiet(t)
  <2> SUFFICES ASSUME NEW u \in User \ Players(t)
               PROVE  t.bet[u] = 0 /\ t.allinCoin[u] = 0 /\ t.allin[u] = FALSE
    BY DEF Quiet
  <2>1. CASE u \in G
    <3>1. t.bet[u] = 0 /\ t.allinCoin[u] = 0
      BY <1>2, <2>1
    <3>2. t.allin[u] = FALSE
      BY <1>2, <2>1, Zenon
    <3> QED BY <3>1, <3>2
  <2>2. CASE u \notin G
    <3>1. u \notin Players(s)
      BY <1>3, <2>2
    <3>2. t.bet[u] = s.bet[u] /\ t.allinCoin[u] = s.allinCoin[u]
      BY <1>2, <2>2
    <3>3. t.allin[u] = s.allin[u]
      BY <1>2, <2>2, Zenon
    <3>4. s.bet[u] = 0 /\ s.allinCoin[u] = 0 /\ s.allin[u] = FALSE
      BY <3>1 DEF Coins, Quiet
    <3> QED BY <3>2, <3>3, <3>4
  <2> QED BY <2>1, <2>2
<1>6. Idle(t)
  BY <1>2 DEF Coins, Idle, IsActive
<1>7. \A u \in InTable(t) : t.money[u] = s.money[u]
  BY <1>1, <1>2 DEF InTable
<1>8. IsActive(t) => IsActive(s) /\ t.pool = s.pool /\ t.leaveSum = s.leaveSum
  BY <1>2 DEF IsActive
<1> QED BY <1>1, <1>2, <1>4, <1>5, <1>6, <1>7, <1>8 DEF Coins, t

\* The bets of the hand and what leavers have forfeited make the pool.
Balanced(s) == IsActive(s) => s.pool = SumOver(s.bet, User) + s.leaveSum

\* t is s after players have left or a hand has been dealt: the coins and the
\* bets of whoever stays add up to the same.
Moved(s, t) ==
    /\ Coins(t) /\ InTable(t) \subseteq InTable(s)
    /\ Balanced(s) => Balanced(t)
    /\ \A u \in InTable(t) : t.money[u] + t.bet[u] = s.money[u] + s.bet[u]
    /\ t.leaveSum \in {s.leaveSum, 0}

\* Keeping every player's total is transitive.
LEMMA MovedOn ==
    ASSUME NEW r, NEW s, NEW t, Moved(r, s), Moved(s, t)
    PROVE  Moved(r, t)
BY DEF Moved

\* What moves no coins keeps every player's total.
LEMMA MovedSame ==
    ASSUME NEW s, NEW t, Coins(s), SameCoins(s, t)
    PROVE  Moved(s, t)
<1>1. Coins(t) /\ InTable(t) = InTable(s)
  BY CoinsKept, SamePlayers DEF SameCoins
<1> QED BY <1>1 DEF SameCoins, Moved, Balanced, IsActive

\* Players outside the hand leave.
LEMMA MovedLeave ==
    ASSUME NEW s, NEW G \in SUBSET InTable(s), Typed(s), Coins(s),
           \A u \in G : s.pst[u] # "ACTIVE"
    PROVE  Moved(s, PlayersLeave(s, G))
<1> DEFINE t == PlayersLeave(s, G)
<1>1. /\ Coins(t) /\ InTable(t) = InTable(s) \ G
      /\ t.bet = [u \in User |-> IF u \in G THEN 0 ELSE s.bet[u]]
      /\ \A u \in InTable(t) : t.money[u] = s.money[u]
      /\ IsActive(t) => IsActive(s) /\ t.pool = s.pool
                                    /\ t.leaveSum = s.leaveSum
      /\ t.leaveSum \in {s.leaveSum, 0}
  BY LeaveCoins
<1> HIDE DEF t
<1>2. \A u \in G : s.bet[u] = 0
  BY DEF Coins, Quiet, Players, InTable
<1>3. t.bet = s.bet
  BY <1>1, <1>2 DEF Coins, Numbers
<1> QED BY <1>1, <1>3 DEF Moved, Balanced, t

\* gameStart: everyone pays the ante into an empty pool.
LEMMA GameStartMoved ==
    ASSUME NEW s, NEW d, Core(s), Coins(s), ~ IsActive(s)
    PROVE  LET t == GameStart(s, d)
           IN /\ Moved(s, t) /\ Players(t) = InTable(s) /\ t.hasAllin = 0
              /\ InTable(t) = InTable(s) /\ t.leaveSum = 0
              /\ t.bet = [u \in User |-> IF u \in InTable(s) THEN Ante ELSE 0]
              /\ \A u \in InTable(s) : t.money[u] = s.money[u] - Ante
              /\ \A u \in User : t.allin[u] = FALSE
              /\ t.betMax = Ante
<1> DEFINE here == InTable(s)
           dealer == FirstFrom(s, IF s.preWin >= 0 THEN s.preWin ELSE 0, here)
           speaker == NextAfter(s, dealer, here \ {dealer})
           In(f, x) == [u \in User |-> IF u \in here THEN x ELSE f[u]]
           purses == [u \in User |-> IF u \in here THEN s.money[u] - Ante
                                     ELSE s.money[u]]
           stakes == [u \in User |-> IF u \in here THEN s.bet[u] + Ante
                                     ELSE s.bet[u]]
           dealt == [CloseLobby(s) EXCEPT
             !.round = 1, !.card = In(@, "UNKNOWN"), !.pst = In(@, "ACTIVE"),
             !.money = [u \in User |-> IF u \in here THEN @[u] - Ante ELSE @[u]],
             !.bet = [u \in User |-> IF u \in here THEN @[u] + Ante ELSE @[u]],
             !.rank = [u \in User |-> IF u \in here THEN d[u] ELSE @[u]],
             !.pool = @ + Ante * Cardinality(here),
             !.betMax = Ante, !.maxCard = "UNKNOWN",
             !.first = s.seat[speaker]]
           asked == SetPlayerLimitCoin(SetPlayerOptype(dealt, speaker))
           t == [asked EXCEPT
                   !.status = "ACTIVE", !.currBet = speaker, !.betT = speaker]
<1>1. GameStart(s, d) = t
  BY DEF GameStart
<1>2. here \subseteq User /\ IsFiniteSet(here) /\ Cardinality(here) \in Nat
  BY InTableFinite DEF InTable
<1>3. Players(s) = {}
  BY DEF Core, Together, Players
<1>4. Numbers(s) /\ \A u \in User : s.bet[u] = 0 /\ s.allinCoin[u] = 0
                                    /\ s.allin[u] = FALSE
  BY <1>3 DEF Coins, Quiet
<1>5. s.pool = 0 /\ s.leaveSum = 0 /\ s.hasAllin = 0
  BY DEF Coins, Idle
<1> HIDE DEF speaker
<1>6. /\ DOMAIN dealt = Fields
      /\ dealt.status = s.status /\ dealt.seat = s.seat
      /\ dealt.pst = In(s.pst, "ACTIVE")
      /\ dealt.money = purses /\ dealt.bet = stakes
      /\ dealt.pool = s.pool + Ante * Cardinality(here)
      /\ dealt.leaveSum = s.leaveSum
      /\ dealt.betMax = Ante /\ dealt.hasAllin = s.hasAllin
      /\ dealt.allin = s.allin /\ dealt.allinCoin = s.allinCoin
  BY <1>4 DEF CloseLobby, Numbers, Fields, FreshTable
<1>7. /\ purses \in [User -> Int] /\ stakes \in [User -> Int]
      /\ Ante * Cardinality(here) \in Int
  BY <1>2, <1>4, CoinAssumption DEF Numbers
<1> HIDE DEF dealt, here
<1>8. Numbers(dealt)
  BY <1>4, <1>5, <1>6, <1>7, CoinAssumption DEF Numbers
<1>9. SameCoins(dealt, asked) /\ Numbers(asked)
  <2>1. SameCoins(dealt, SetPlayerOptype(dealt, speaker))
        /\ Numbers(SetPlayerOptype(dealt, speaker))
    BY <1>8, SetPlayerOptypeCoins, NumbersKept
  <2> QED BY <2>1, SetPlayerLimitCoinCoins, SameCoinsOn, NumbersKept
<1> HIDE DEF asked
<1>10. /\ DOMAIN t = Fields
       /\ t.status = "ACTIVE" /\ t.seat = asked.seat /\ t.pst = asked.pst
       /\ t.money = asked.money /\ t.bet = asked.bet
       /\ t.pool = asked.pool /\ t.leaveSum = asked.leaveSum
       /\ t.betMax = asked.betMax /\ t.hasAllin = asked.hasAllin
       /\ t.allin = asked.allin /\ t.allinCoin = asked.allinCoin
  BY <1>9 DEF Numbers, Fields, FreshTable
<1> HIDE DEF t
<1>11. /\ t.seat = s.seat /\ t.pst = In(s.pst, "ACTIVE")
       /\ t.money = purses /\ t.bet = stakes
       /\ t.pool = Ante * Cardinality(here) /\ t.leaveSum = 0
       /\ t.betMax = Ante /\ t.hasAllin = 0 /\ t.allin = s.allin
  BY <1>5, <1>6, <1>7, <1>9, <1>10 DEF SameCoins
<1>12. InTable(t) = here
  BY <1>11 DEF InTable, here
<1>13. Players(t) = here
  BY <1>2, <1>11, <1>12 DEF Players
<1>14. Players(dealt) = here
  BY <1>9, <1>10, <1>13, SamePlayers DEF SameCoins
<1>15. Numbers(t)
  BY <1>9, <1>10 DEF Numbers
<1>16. Quiet(t)
  BY <1>4, <1>6, <1>9, <1>10, <1>11, <1>13, <1>14 DEF Quiet, SameCoins
<1>17. Idle(t)
  BY <1>10 DEF Idle, IsActive
<1>18. Balanced(t)
  <2>1. SumOver(t.bet, User) = SumOver(t.bet, here) + SumOver(t.bet, User \ here)
    BY <1>2, <1>15, UserAssumption, SumSplits DEF Numbers
  <2>2. \A u \in here : t.bet[u] = Ante
    BY <1>2, <1>4, <1>11, CoinAssumption
  <2>3. \A u \in User \ here : t.bet[u] = 0
    BY <1>4, <1>11
  <2>4. SumOver(t.bet, here) = Ante * Cardinality(here)
    BY <1>2, <2>2, CoinAssumption, SumOfSame
  <2>5. IsFiniteSet(User \ here)
    BY UserAssumption, FS_Subset
  <2>6. SumOver(t.bet, User \ here) = 0 * Cardinality(User \ here)
    BY <2>3, <2>5, SumOfSame
  <2>7. 0 * Cardinality(User \ here) = 0
    BY <2>5, FS_CardinalityType
  <2> QED BY <1>7, <1>11, <2>1, <2>4, <2>6, <2>7 DEF Balanced
<1>19. \A u \in here : t.money[u] + t.bet[u] = s.money[u] + s.bet[u]
  BY <1>2, <1>4, <1>11, CoinAssumption DEF Numbers
<1>20. Moved(s, t)
  BY <1>5, <1>11, <1>12, <1>15, <1>16, <1>17, <1>18, <1>19
  DEF Moved, Coins, here
<1>21. /\ t.bet = [u \in User |-> IF u \in here THEN Ante ELSE 0]
       /\ \A u \in here : t.money[u] = s.money[u] - Ante
  BY <1>2, <1>4, <1>11, CoinAssumption DEF Numbers
<1>22. \A u \in User : t.allin[u] = FALSE
  BY <1>4, <1>11
<1> QED BY <1>1, <1>11, <1>12, <1>13, <1>20, <1>21, <1>22 DEF here

\* Who waits for a hand has the coins CheckMoney asks for.
Rich(s) == \A u \in InTable(s) : s.pst[u] = "RSTART" => s.money[u] >= MinMoney

\* t plays the hand of s, and nobody in it has done anything.
SameHand(s, t) ==
    /\ IsActive(s) /\ Players(t) = Players(s)
    /\ t.pool = s.pool /\ t.leaveSum = s.leaveSum
    /\ t.betMax = s.betMax /\ t.hasAllin = s.hasAllin
    /\ t.canAllin = s.canAllin /\ t.round = s.round
    /\ t.currBet = s.currBet /\ (s.over => t.over)
    /\ \A u \in Players(s) :
         /\ t.money[u] = s.money[u] /\ t.bet[u] = s.bet[u]
         /\ t.allin[u] = s.allin[u] /\ t.allinCoin[u] = s.allinCoin[u]
         /\ t.card[u] = s.card[u]

\* What is done around a hand leaves it alone.
Rested(s, t) ==
    /\ t.betMax \in {s.betMax, 0}
    /\ Rich(s) => Rich(t)
    /\ IsActive(t) => SameHand(s, t)

\* Leaving the hand alone is transitive.
LEMMA RestedOn ==
    ASSUME NEW r, NEW s, NEW t, Rested(r, s), Rested(s, t)
    PROVE  Rested(r, t)
<1>1. (Rich(r) => Rich(t)) /\ t.betMax \in {r.betMax, 0}
  BY DEF Rested
<1>2. ASSUME IsActive(t) PROVE SameHand(r, t)
  <2>1. SameHand(r, s) /\ SameHand(s, t)
    BY <1>2 DEF Rested, SameHand
  <2>2. Players(s) = Players(r) /\ Players(t) = Players(r)
    BY <2>1 DEF SameHand
  <2>3. ASSUME NEW u \in Players(r)
        PROVE  /\ t.money[u] = r.money[u] /\ t.bet[u] = r.bet[u]
               /\ t.allin[u] = r.allin[u] /\ t.allinCoin[u] = r.allinCoin[u]
               /\ t.card[u] = r.card[u]
    <3>1. u \in Players(s)
      BY <2>2, <2>3
    <3> QED BY <2>1, <2>3, <3>1 DEF SameHand
  <2>4. /\ IsActive(r) /\ t.pool = r.pool /\ t.leaveSum = r.leaveSum
        /\ t.betMax = r.betMax /\ t.hasAllin = r.hasAllin
        /\ t.canAllin = r.canAllin /\ t.round = r.round
        /\ t.currBet = r.currBet /\ (r.over => t.over)
    BY <2>1 DEF SameHand
  <2> QED BY <2>2, <2>3, <2>4 DEF SameHand
<1> QED BY <1>1, <1>2 DEF Rested

\* The two tables differ in nothing the coins and the hand are made of.
AsBefore(s, t) ==
    /\ DOMAIN t = DOMAIN s
    /\ t.status = s.status /\ t.seat = s.seat /\ t.pst = s.pst
    /\ t.money = s.money /\ t.bet = s.bet
    /\ t.pool = s.pool /\ t.leaveSum = s.leaveSum
    /\ t.betMax = s.betMax /\ t.hasAllin = s.hasAllin
    /\ t.allin = s.allin /\ t.allinCoin = s.allinCoin
    /\ t.card = s.card /\ t.canAllin = s.canAllin /\ t.round = s.round
    /\ t.currBet = s.currBet /\ (s.over => t.over)

\* A step that changes neither coins nor cards leaves the hand alone.
LEMMA RestedAsBefore ==
    ASSUME NEW s, NEW t, Coins(s), AsBefore(s, t)
    PROVE  Moved(s, t) /\ Rested(s, t)
<1>1. InTable(t) = InTable(s) /\ Players(t) = Players(s)
  BY SamePlayers DEF AsBefore
<1>2. SameCoins(s, t)
  BY DEF AsBefore, SameCoins, Coins, Numbers
<1>3. Rich(s) => Rich(t)
  BY <1>1 DEF AsBefore, Rich
<1>4. IsActive(t) => SameHand(s, t)
  BY <1>1, Zenon DEF AsBefore, SameHand, IsActive
<1>5. t.betMax \in {s.betMax, 0}
  BY DEF AsBefore
<1> QED BY <1>2, <1>3, <1>4, <1>5, MovedSame DEF Rested

\* Players who are not in the hand leave it alone when they leave
\* (playerLeave).
LEMMA RestedLeave ==
    ASSUME NEW s, NEW G \in SUBSET InTable(s), Typed(s), Coins(s),
           \A u \in G : s.pst[u] # "ACTIVE"
    PROVE  Rested(s, PlayersLeave(s, G))
<1> DEFINE t == PlayersLeave(s, G)
           Out(f, x) == [u \in User |-> IF u \in G THEN x ELSE f[u]]
<1>1. InTable(t) = InTable(s) \ G
  BY PlayersLeaveTyped
<1>2. /\ DOMAIN t = Fields
      /\ t.pst = Out(s.pst, "LOGOUT")
      /\ t.money = Out(s.money, 0) /\ t.bet = Out(s.bet, 0)
      /\ t.allinCoin = Out(s.allinCoin, 0)
      /\ t.allin = Out(s.allin, FALSE)
      /\ t.card = Out(s.card, "DISCARD")
      /\ \/ /\ t.status = "EMPTY" /\ t.betMax = 0
            /\ t.pool = 0 /\ t.leaveSum = 0 /\ t.hasAllin = 0
         \/ /\ IsActive(t) <=> IsActive(s)
            /\ t.betMax = s.betMax /\ t.hasAllin = s.hasAllin
            /\ t.pool = s.pool /\ t.leaveSum = s.leaveSum
            /\ t.canAllin = s.canAllin /\ t.round = s.round
            /\ t.currBet = s.currBet /\ t.over = s.over
  <2> HIDE DEF t, Out
  <2>1. Numbers(s)
    BY DEF Coins
  <2> QED BY <2>1, PlayersLeaveFields, ZenonT(40) DEF t, Out
<1> HIDE DEF t
<1>3. \A u \in InTable(t) : /\ u \in User /\ u \notin G /\ u \in InTable(s)
                            /\ t.pst[u] = s.pst[u] /\ t.money[u] = s.money[u]
  BY <1>1, <1>2 DEF InTable
<1>4. Players(t) = Players(s)
  BY <1>1, <1>3 DEF Players
<1>5. ASSUME NEW u \in Players(s)
      PROVE  /\ t.money[u] = s.money[u] /\ t.bet[u] = s.bet[u]
             /\ t.allinCoin[u] = s.allinCoin[u] /\ t.card[u] = s.card[u]
  BY <1>2 DEF Players, InTable
<1>6. ASSUME NEW u \in Players(s) PROVE t.allin[u] = s.allin[u]
  <2>1. u \in User /\ u \notin G
    BY DEF Players, InTable
  <2> QED BY <1>2, <2>1, Zenon
<1>7. Rich(s) => Rich(t)
  BY <1>3 DEF Rich
<1>8. IsActive(t) => SameHand(s, t)
  <2> SUFFICES ASSUME IsActive(t) PROVE SameHand(s, t)
    OBVIOUS
  <2>1. t.status # "EMPTY"
    BY DEF IsActive
  <2> QED BY <1>2, <1>4, <1>5, <1>6, <2>1 DEF SameHand
<1>9. t.betMax \in {s.betMax, 0}
  BY <1>2
<1> QED BY <1>7, <1>8, <1>9 DEF Rested, t

\* A player who sits down leaves the hand alone.
LEMMA PlayerCommingRested ==
    ASSUME NEW s, NEW u \in User, NEW m \in Int, Typed(s), Coins(s),
           MaxNum > 2, s.seat[u] = NoSeat, FreeChairs(s) # {}
    PROVE  Rested(s, PlayerComming(s, u, m))
<1> DEFINE chair == SeatOrder[CHOOSE i \in FreeChairs(s) :
                                \A j \in FreeChairs(s) : i <= j]
           t == PlayerComming(s, u, m)
<1>1. chair \in Seats
  BY ChairIn
<1> HIDE DEF chair
<1>2. /\ t.status = WaitingStatus(s)
      /\ t.seat = [s.seat EXCEPT ![u] = chair]
      /\ t.pst = [s.pst EXCEPT ![u] = "COMING"]
      /\ t.money = [s.money EXCEPT ![u] = m] /\ t.bet = s.bet
      /\ t.pool = s.pool /\ t.leaveSum = s.leaveSum
      /\ t.betMax = s.betMax /\ t.hasAllin = s.hasAllin
      /\ t.allin = s.allin /\ t.allinCoin = s.allinCoin
      /\ t.card = s.card /\ t.canAllin = s.canAllin /\ t.round = s.round
      /\ t.currBet = s.currBet /\ t.over = s.over
  BY DEF PlayerComming, chair, Coins, Numbers, Fields, FreshTable
<1> HIDE DEF t
<1>3. u \notin InTable(s)
  BY SeatAssumption DEF InTable, NoSeat, Seats
<1>4. InTable(t) = InTable(s) \cup {u}
  BY <1>1, <1>2 DEF InTable, Typed, Shape
<1>5. Players(t) = Players(s)
  BY <1>2, <1>3, <1>4 DEF Players, InTable, Typed, Shape
<1>6. Rich(s) => Rich(t)
  BY <1>2, <1>4 DEF Rich, InTable, Typed, Shape, Coins, Numbers
<1>7. \A v \in Players(s) : t.money[v] = s.money[v]
  BY <1>2, <1>3 DEF Players
<1>8. IsActive(t) => IsActive(s)
  BY <1>2 DEF IsActive, WaitingStatus
<1>9. IsActive(t) => SameHand(s, t)
  BY <1>2, <1>5, <1>7, <1>8, Zenon DEF SameHand
<1>10. t.betMax \in {s.betMax, 0}
  BY <1>2
<1> QED BY <1>6, <1>9, <1>10 DEF Rested, t

\* The robot that playerComming puts in a robot's place brings m coins and has
\* staked none; the coins of the pool stay.
LEMMA ReplacedCoins ==
    ASSUME NEW s, NEW u \in User, NEW m \in Int, Typed(s), Coins(s)
    PROVE  LET t == PlayerReplaced(s, u, m)
           IN /\ Coins(t) /\ InTable(t) = InTable(s)
              /\ t.money = [s.money EXCEPT ![u] = m]
              /\ t.bet = [s.bet EXCEPT ![u] = 0]
              /\ IsActive(t) <=> IsActive(s)
              /\ t.pool = s.pool /\ t.leaveSum = s.leaveSum
              /\ t.betMax = s.betMax
              /\ u \notin Players(s) /\ m >= MinMoney => Rested(s, t)
<1> DEFINE t == PlayerReplaced(s, u, m)
<1>1. /\ DOMAIN t = Fields
      /\ t.status = s.status /\ t.seat = s.seat /\ t.pst = s.pst
      /\ t.money = [s.money EXCEPT ![u] = m]
      /\ t.bet = [s.bet EXCEPT ![u] = 0]
      /\ t.pool = s.pool /\ t.leaveSum = s.leaveSum
      /\ t.betMax = s.betMax /\ t.hasAllin = s.hasAllin
      /\ t.allinCoin = [s.allinCoin EXCEPT ![u] = 0]
      /\ t.card = s.card /\ t.canAllin = s.canAllin /\ t.round = s.round
      /\ t.currBet = s.currBet /\ t.over = s.over
  <2>1. DOMAIN s = Fields
    BY DEF Coins, Numbers
  <2>2. /\ DOMAIN t = Fields
        /\ t.status = s.status /\ t.seat = s.seat /\ t.pst = s.pst
        /\ t.pool = s.pool /\ t.leaveSum = s.leaveSum
        /\ t.betMax = s.betMax /\ t.hasAllin = s.hasAllin
    BY <2>1 DEF PlayerReplaced, Fields, FreshTable
  <2>3. /\ t.card = s.card /\ t.canAllin = s.canAllin /\ t.round = s.round
        /\ t.currBet = s.currBet /\ t.over = s.over
    BY <2>1 DEF PlayerReplaced, Fields, FreshTable
  <2>4. t.money = [s.money EXCEPT ![u] = m]
    BY <2>1 DEF PlayerReplaced, Fields, FreshTable
  <2>5. t.bet = [s.bet EXCEPT ![u] = 0]
    BY <2>1 DEF PlayerReplaced, Fields, FreshTable
  <2>6. t.allinCoin = [s.allinCoin EXCEPT ![u] = 0]
    BY <2>1 DEF PlayerReplaced, Fields, FreshTable
  <2> HIDE DEF t
  <2> QED BY <2>2, <2>3, <2>4, <2>5, <2>6
<1>2. t.allin = [s.allin EXCEPT ![u] = FALSE]
  BY DEF PlayerReplaced, Coins, Numbers, Fields, FreshTable
<1> HIDE DEF t
<1>3. InTable(t) = InTable(s) /\ Players(t) = Players(s)
  BY <1>1, SamePlayers
<1>4. Numbers(t)
  BY <1>1 DEF Coins, Numbers
<1>5. \A v \in User : t.allin[v] = s.allin[v] \/ t.allin[v] = FALSE
  BY <1>2, Zenon DEF Typed, Notes
<1>6. Quiet(t)
  BY <1>1, <1>3, <1>5 DEF Coins, Quiet, Numbers
<1>7. Idle(t)
  BY <1>1 DEF Coins, Idle, IsActive
<1>8. ASSUME u \notin Players(s), m >= MinMoney PROVE Rested(s, t)
  <2>1. Rich(s) => Rich(t)
    BY <1>1, <1>3, <1>8 DEF Rich, InTable, Coins, Numbers
  <2>2. \A v \in Players(s) :
          /\ t.money[v] = s.money[v] /\ t.bet[v] = s.bet[v]
          /\ t.allinCoin[v] = s.allinCoin[v]
    BY <1>1, <1>8 DEF Players, InTable, Coins, Numbers
  <2>3. \A v \in Players(s) : t.allin[v] = s.allin[v]
    BY <1>2, <1>8, Zenon DEF Players, InTable, Typed, Notes
  <2>4. IsActive(t) => SameHand(s, t)
    BY <1>1, <1>3, <2>2, <2>3, Zenon DEF SameHand, IsActive
  <2>5. t.betMax \in {s.betMax, 0}
    BY <1>1
  <2> QED BY <2>1, <2>4, <2>5 DEF Rested
<1>9. IsActive(t) <=> IsActive(s)
  BY <1>1 DEF IsActive
<1> QED BY <1>1, <1>3, <1>4, <1>6, <1>7, <1>8, <1>9 DEF Coins, t

\* What a handler has done that leaves the hand alone
Lobbied(s, t) ==
    /\ TableInv(t) /\ Typed(t) /\ Moved(s, t) /\ Rested(s, t)
    /\ IsActive(t) <=> IsActive(s)

\* Keeping the table's invariants and the hand is transitive.
LEMMA LobbiedOn ==
    ASSUME NEW r, NEW s, NEW t, Lobbied(r, s), Lobbied(s, t)
    PROVE  Lobbied(r, t)
<1>1. Moved(r, t) /\ Rested(r, t)
  BY MovedOn, RestedOn DEF Lobbied
<1> QED BY <1>1 DEF Lobbied

\* Players who are not in the hand keep the invariants and the hand when they
\* leave.
LEMMA LobbiedLeave ==
    ASSUME NEW s, NEW G \in SUBSET InTable(s), TableInv(s), Typed(s), Coins(s),
           \A u \in G : s.pst[u] # "ACTIVE"
    PROVE  Lobbied(s, PlayersLeave(s, G))
<1> DEFINE t == PlayersLeave(s, G)
<1>1. TableInv(t) /\ Typed(t) /\ Moved(s, t) /\ Rested(s, t)
  BY PlayersLeaveInv, PlayersLeaveTyped, MovedLeave, RestedLeave
<1>2. Seated(s) /\ s.betT \notin G
  BY NoneAssumption DEF TableInv, Core, Seated, Clock, InTable
<1>3. IsActive(s) => \E v \in InTable(s) \ G : s.pst[v] = "ACTIVE"
  BY DEF TableInv, Core, Together
<1>4. IsActive(t) <=> IsActive(s)
  BY <1>2, <1>3, PlayersLeaveCore
<1> QED BY <1>1, <1>4 DEF Lobbied

\* So does what changes neither coins nor cards.
LEMMA LobbiedAsBefore ==
    ASSUME NEW s, NEW t, Coins(s), TableInv(t), Typed(t), AsBefore(s, t)
    PROVE  Lobbied(s, t)
BY RestedAsBefore DEF Lobbied, AsBefore, IsActive

\* A hand is dealt at q to players who are all ready.
Opens(q) ==
    /\ ~ IsActive(table) /\ Lobbied(table, q) /\ IsAllReady(q)
    /\ \E d \in Deals : table' = GameStart(q, d)

\* A step around a hand: it leaves the hand alone, or deals one.
Lobbying ==
    /\ acct' = acct
    /\ \/ Moved(table, table') /\ Rested(table, table')
       \/ \E q : Opens(q)

\* A step of the lobby may end in the deal of a hand (gameStart).
LEMMA DealsOrLobbied ==
    ASSUME NEW s, NEW d \in Deals, Lobbied(table, s), acct' = acct,
           \/ table' = StartIfAllReady(s, d)
           \/ table' = GameStart(s, d) /\ IsAllReady(s) /\ s.count > 1
    PROVE  Lobbying
<1>1. CASE table' = GameStart(s, d) /\ IsAllReady(s) /\ s.count > 1
  <2>1. ~ IsActive(s)
    BY <1>1, NotAllReady DEF Lobbied, TableInv
  <2>2. Opens(s)
    BY <1>1, <2>1 DEF Opens, Lobbied
  <2> QED BY <2>2 DEF Lobbying
<1>2. CASE table' = s
  BY <1>2 DEF Lobbying, Lobbied
<1> QED BY <1>1, <1>2 DEF StartIfAllReady

\* Starting and stopping the timers of the lobby, and its lock
LEMMA TimersTyped ==
    ASSUME NEW s, NEW b \in BOOLEAN, Typed(s)
    PROVE  /\ Typed([s EXCEPT !.startT = b])
           /\ Typed([s EXCEPT !.kickT = FALSE, !.lock = FALSE])
<1>1. Typed([s EXCEPT !.startT = b])
  <2> DEFINE t == [s EXCEPT !.startT = b]
  <2>1. SameChairs(s, t)
    BY DEF Typed, Shape, Fields, FreshTable, SameChairs
  <2>2. Shape(t) /\ Steering(t) /\ Notes(t)
    BY DEF Typed, Shape, Steering, Notes, Fields, FreshTable
  <2> QED BY <2>1, <2>2, ChairsKept DEF Typed
<1>2. Typed([s EXCEPT !.kickT = FALSE, !.lock = FALSE])
  <2> DEFINE t == [s EXCEPT !.kickT = FALSE, !.lock = FALSE]
  <2>1. SameChairs(s, t)
    BY DEF Typed, Shape, Fields, FreshTable, SameChairs
  <2>2. Shape(t) /\ Steering(t) /\ Notes(t)
    BY DEF Typed, Shape, Steering, Notes, Fields, FreshTable
  <2> QED BY <2>1, <2>2, ChairsKept DEF Typed
<1> QED BY <1>1, <1>2

\* What the coin proofs are about, and what is known of the table besides
CInv == HInv /\ TInv /\ Coins(table) /\ acct \in [User -> Int]

\* The timers of the lobby keep the coins, but that they may open a hand.
LEMMA LobbyTimerCoins ==
    ASSUME CInv, HeartTimeOut \/ TableGameStartTimeOut \/ TableKickTimeOut
    PROVE  Lobbying
<1>0. TableInv(table) /\ Typed(table) /\ Coins(table)
  BY DEF CInv, HInv, IInv, TInv
<1>1. CASE HeartTimeOut
  <2>1. PICK G \in SUBSET {u \in InTable(table) : table.pst[u] # "ACTIVE"} :
          table' = PlayersLeave(table, G) /\ acct' = acct
    BY <1>1 DEF HeartTimeOut, TableBecomes
  <2>2. G \in SUBSET InTable(table) /\ \A v \in G : table.pst[v] # "ACTIVE"
    OBVIOUS
  <2>3. Lobbied(table, table')
    BY <1>0, <2>1, <2>2, LobbiedLeave
  <2> QED BY <2>1, <2>3 DEF Lobbied, Lobbying
<1>2. CASE TableGameStartTimeOut
  <2> DEFINE s1 == [table EXCEPT !.startT = FALSE]
             late == {u \in InTable(s1) : s1.pst[u] \in {"COMING", "OVER"}}
             s2 == PlayersLeave(s1, late)
  <2>1. acct' = acct /\ \E d \in Deals :
          table' = IF IsActive(s1) \/ ~ IsCanGameStart(s1) THEN s1
                   ELSE StartIfAllReady(s2, d)
    BY <1>2 DEF TableGameStartTimeOut, TableBecomes
  <2>2. /\ AsBefore(table, s1) /\ s1.count = table.count
        /\ s1.preWin = table.preWin /\ s1.overT = table.overT
        /\ s1.over = table.over
        /\ s1.betT = table.betT /\ s1.lock = table.lock
        /\ s1.kickT = table.kickT /\ s1.startT = FALSE
    BY <1>0 DEF Coins, Numbers, Fields, FreshTable, AsBefore
  <2>3. Typed(s1)
    BY <1>0, TimersTyped
  <2> HIDE DEF s1
  <2>4. /\ s1.kickT \in BOOLEAN /\ s1.lock \in BOOLEAN /\ (s1.lock => s1.kickT)
        /\ ~ IsActive(table) \/ (~ s1.startT /\ ~ s1.kickT)
    BY <1>0, <2>2 DEF TableInv, Core, Shape, Lobby
  <2>5. TableInv(s1)
    BY <1>0, <2>2, <2>4, LobbyInv DEF AsBefore
  <2>6. Lobbied(table, s1)
    BY <1>0, <2>2, <2>3, <2>5, LobbiedAsBefore
  <2>7. Lobbied(s1, s2)
    BY <2>6, LobbiedLeave DEF Lobbied, Moved
  <2> HIDE DEF s2
  <2>8. Lobbied(table, s2)
    BY <2>6, <2>7, LobbiedOn
  <2>9. CASE table' = s1
    BY <2>1, <2>6, <2>9 DEF Lobbied, Lobbying
  <2>10. CASE \E d \in Deals : table' = StartIfAllReady(s2, d)
    BY <2>1, <2>8, <2>10, DealsOrLobbied
  <2> QED BY <2>1, <2>9, <2>10
<1>3. CASE TableKickTimeOut
  <2> DEFINE s1 == [table EXCEPT !.kickT = FALSE, !.lock = FALSE]
             late == InTable(s1) \ Ready(s1)
             s2 == PlayersLeave(s1, late)
  <2>1. acct' = acct /\ \E d \in Deals :
          table' = IF IsActive(s1) \/ s1.count = 1 THEN s1
                   ELSE StartIfAllReady(s2, d)
    BY <1>3 DEF TableKickTimeOut, TableBecomes
  <2>2. /\ AsBefore(table, s1) /\ s1.count = table.count
        /\ s1.preWin = table.preWin /\ s1.overT = table.overT
        /\ s1.over = table.over
        /\ s1.betT = table.betT /\ s1.lock = FALSE
        /\ s1.kickT = FALSE /\ s1.startT = table.startT
    BY <1>0 DEF Coins, Numbers, Fields, FreshTable, AsBefore
  <2>3. Typed(s1)
    BY <1>0, TimersTyped
  <2> HIDE DEF s1
  <2>4. /\ s1.startT \in BOOLEAN /\ s1.kickT \in BOOLEAN /\ s1.lock \in BOOLEAN
        /\ s1.lock => s1.kickT
        /\ ~ IsActive(table) \/ (~ s1.startT /\ ~ s1.kickT)
    BY <1>0, <2>2 DEF TableInv, Core, Shape, Lobby
  <2>5. TableInv(s1)
    BY <1>0, <2>2, <2>4, LobbyInv DEF AsBefore
  <2>6. Lobbied(table, s1)
    BY <1>0, <2>2, <2>3, <2>5, LobbiedAsBefore
  <2>7. CASE IsActive(s1) \/ s1.count = 1
    BY <2>1, <2>6, <2>7 DEF Lobbied, Lobbying
  <2>8. CASE ~ (IsActive(s1) \/ s1.count = 1)
    <3>1. late \in SUBSET InTable(s1) /\ \A v \in late : s1.pst[v] # "ACTIVE"
      BY <2>5, <2>8 DEF TableInv, Core, Together
    <3> HIDE DEF late
    <3>2. Lobbied(s1, s2)
      BY <2>6, <3>1, LobbiedLeave DEF Lobbied, Moved
    <3> HIDE DEF s2
    <3>3. Lobbied(table, s2)
      BY <2>6, <3>2, LobbiedOn
    <3> QED BY <2>1, <2>8, <3>3, DealsOrLobbied
  <2> QED BY <2>7, <2>8
<1> QED BY <1>1, <1>2, <1>3

\* So do the ways to leave a table or to look at it.
LEMMA LeavingCoins ==
    ASSUME NEW u \in User, CInv,
           LeaveTable(u) \/ Logout(u) \/ Drop(u) \/ GetTableDetail(u)
    PROVE  Lobbying
<1>0. TableInv(table) /\ Typed(table) /\ Coins(table)
  BY DEF CInv, HInv, IInv, TInv
<1>1. CASE LeaveTable(u)
  <2> DEFINE s == PlayersLeave(table, {u})
  <2>1. /\ {u} \in SUBSET InTable(table)
        /\ \A v \in {u} : table.pst[v] # "ACTIVE"
        /\ acct' = acct
        /\ \E d \in Deals : table' = IF IsCanGameOver(s) THEN GameOver(s)
                                    ELSE StartIfAllReady(s, d)
    BY <1>1 DEF LeaveTable, At, TableBecomes
  <2>2. Lobbied(table, s)
    BY <1>0, <2>1, LobbiedLeave
  <2> HIDE DEF s
  <2>3. CASE IsCanGameOver(s)
    <3>1. AsBefore(s, GameOver(s)) /\ Coins(s)
      BY <2>2 DEF Lobbied, Moved, Coins, Numbers, GameOver, Fields, FreshTable,
                  AsBefore
    <3>2. Moved(s, GameOver(s)) /\ Rested(s, GameOver(s))
      BY <3>1, RestedAsBefore
    <3>3. Moved(table, GameOver(s)) /\ Rested(table, GameOver(s))
      BY <2>2, <3>2, MovedOn, RestedOn DEF Lobbied
    <3> QED BY <2>1, <2>3, <3>3 DEF Lobbying
  <2>4. CASE ~ IsCanGameOver(s)
    BY <2>1, <2>2, <2>4, DealsOrLobbied
  <2> QED BY <2>3, <2>4
<1>2. \A b \in BOOLEAN : Lobbied(table, [table EXCEPT !.drop[u] = b])
  <2> SUFFICES ASSUME NEW b \in BOOLEAN
               PROVE  Lobbied(table, [table EXCEPT !.drop[u] = b])
    OBVIOUS
  <2> DEFINE t == [table EXCEPT !.drop[u] = b]
  <2>1. AsBefore(table, t) /\ Same(table, t)
    BY <1>0 DEF Coins, Numbers, Fields, FreshTable, AsBefore, Same, SameButCards
  <2>2. Typed(t)
    BY NoteTyped DEF CInv
  <2> HIDE DEF t
  <2>3. TableInv(t)
    BY <1>0, <2>1, InvKept
  <2> QED BY <1>0, <2>1, <2>2, <2>3, LobbiedAsBefore DEF t
<1>3. CASE Drop(u) \/ GetTableDetail(u)
  <2>1. acct' = acct
        /\ \E b \in BOOLEAN : table' = [table EXCEPT !.drop[u] = b]
    BY <1>3 DEF Drop, GetTableDetail, TableBecomes
  <2> QED BY <1>2, <2>1 DEF Lobbied, Lobbying
<1>4. CASE Logout(u)
  <2> DEFINE s1 == [table EXCEPT !.drop[u] = TRUE]
             s2 == IF table.pst[u] = "ACTIVE" THEN s1
                   ELSE PlayersLeave(s1, {u})
  <2>1. /\ u \in InTable(table) /\ acct' = acct
        /\ \E d \in Deals : table' = StartIfAllReady(s2, d)
    BY <1>4 DEF Logout, At, TableBecomes
  <2>2. Lobbied(table, s1)
    BY <1>2
  <2>3. s1.seat = table.seat /\ s1.pst = table.pst
    BY <1>0 DEF Coins, Numbers, Fields, FreshTable
  <2> HIDE DEF s1
  <2>4. CASE table.pst[u] = "ACTIVE"
    BY <2>1, <2>2, <2>4, DealsOrLobbied
  <2>5. CASE table.pst[u] # "ACTIVE"
    <3>1. {u} \in SUBSET InTable(s1) /\ \A v \in {u} : s1.pst[v] # "ACTIVE"
      BY <2>1, <2>3, <2>5 DEF InTable
    <3>2. Lobbied(s1, PlayersLeave(s1, {u}))
      BY <2>2, <3>1, LobbiedLeave DEF Lobbied, Moved
    <3>3. Lobbied(table, PlayersLeave(s1, {u}))
      BY <2>2, <3>2, LobbiedOn
    <3> QED BY <2>1, <2>5, <3>3, DealsOrLobbied
  <2> QED BY <2>4, <2>5
<1> QED BY <1>1, <1>3, <1>4

\* So does a player who gets ready (StartGameProc).
LEMMA StartGameCoins ==
    ASSUME NEW u \in User, CInv, StartGame(u)
    PROVE  Lobbying
<1> DEFINE s1 == [table EXCEPT !.pst[u] = "RSTART"]
           s2 == IF s1.lock THEN s1 ELSE SetKickTimer(s1)
           s3 == IF ~ IsActive(s2) /\ IsCanGameStart(s2)
                 THEN [s2 EXCEPT !.startT = TRUE] ELSE s2
<1>0. TableInv(table) /\ Typed(table) /\ Coins(table)
  BY DEF CInv, HInv, IInv, TInv
<1>1. /\ u \in InTable(table) /\ table.pst[u] # "ACTIVE" /\ acct' = acct
      /\ table.money[u] >= MinMoney
      /\ \E d \in Deals : table' = IF IsAllReady(s1) /\ s1.count > 1
                                  THEN GameStart(s1, d) ELSE s3
  BY DEF StartGame, At, TableBecomes, CheckMoney
<1>2. TableInv(s1) /\ Typed(s1)
  BY <1>1, ReadyInv, NoteTyped DEF CInv, HInv
<1>3. /\ DOMAIN s1 = Fields
      /\ s1.status = table.status /\ s1.seat = table.seat
      /\ s1.pst = [table.pst EXCEPT ![u] = "RSTART"]
      /\ s1.money = table.money /\ s1.bet = table.bet
      /\ s1.pool = table.pool /\ s1.leaveSum = table.leaveSum
      /\ s1.betMax = table.betMax /\ s1.hasAllin = table.hasAllin
      /\ s1.allin = table.allin /\ s1.allinCoin = table.allinCoin
      /\ s1.card = table.card /\ s1.canAllin = table.canAllin
      /\ s1.round = table.round
      /\ s1.currBet = table.currBet /\ s1.over = table.over
  BY <1>0 DEF Coins, Numbers, Fields, FreshTable
<1> HIDE DEF s1
<1>4. InTable(s1) = InTable(table) /\ Players(s1) = Players(table)
  BY <1>0, <1>1, <1>3 DEF InTable, Players, Typed, Shape
<1>5. Coins(s1)
  <2>1. Numbers(s1)
    BY <1>0, <1>3 DEF Coins, Numbers
  <2>2. Quiet(s1) /\ Idle(s1)
    BY <1>0, <1>3, <1>4 DEF Coins, Quiet, Idle, IsActive
  <2> QED BY <2>1, <2>2 DEF Coins
<1>6. Moved(table, s1)
  BY <1>3, <1>4, <1>5 DEF Moved, Balanced, IsActive
<1>7. Rested(table, s1)
  <2>1. Rich(table) => Rich(s1)
    BY <1>0, <1>1, <1>3, <1>4 DEF Rich, Typed, Shape, InTable
  <2>2. IsActive(s1) => SameHand(table, s1)
    BY <1>3, <1>4, Zenon DEF SameHand, IsActive
  <2> QED BY <1>3, <2>1, <2>2 DEF Rested
<1>8. Lobbied(table, s1)
  BY <1>2, <1>3, <1>6, <1>7 DEF Lobbied, IsActive
<1>9. CASE IsAllReady(s1) /\ s1.count > 1
  BY <1>1, <1>8, <1>9, DealsOrLobbied
<1>10. CASE ~ (IsAllReady(s1) /\ s1.count > 1)
  <2>1. AsBefore(s1, s2) /\ DOMAIN s2 = Fields
    BY <1>3 DEF SetKickTimer, Fields, FreshTable, AsBefore
  <2> HIDE DEF s2
  <2>2. AsBefore(s2, s3)
    BY <2>1 DEF Fields, FreshTable, AsBefore
  <2> HIDE DEF s3
  <2>3. Moved(s1, s2) /\ Rested(s1, s2)
    BY <1>5, <2>1, RestedAsBefore
  <2>4. Moved(s2, s3) /\ Rested(s2, s3)
    BY <2>2, <2>3, RestedAsBefore DEF Moved
  <2>5. Moved(table, s3) /\ Rested(table, s3)
    BY <1>6, <1>7, <2>3, <2>4, MovedOn, RestedOn
  <2> QED BY <1>1, <1>10, <2>5 DEF Lobbying
<1> QED BY <1>9, <1>10

\* Who leaves a hand leaves the bet behind: leaveSum takes it up
\* (playerLeave).
LEMMA ForfeitCoins ==
    ASSUME NEW s, NEW u \in User, Coins(s), IsActive(s)
    PROVE  LET t == Forfeit(s, u)
           IN /\ Coins(t) /\ t.leaveSum = s.leaveSum + s.bet[u]
              /\ t.pool = s.pool /\ t.bet = s.bet /\ t.money = s.money
              /\ t.seat = s.seat /\ t.pst = s.pst
              /\ t.betMax = s.betMax /\ t.hasAllin = s.hasAllin
              /\ t.allin = s.allin /\ t.allinCoin = s.allinCoin
              /\ t.card = s.card /\ t.canAllin = s.canAllin
              /\ t.round = s.round /\ t.over = s.over
              /\ t.currBet = s.currBet /\ IsActive(t)
<1> DEFINE t == Forfeit(s, u)
<1>1. /\ DOMAIN t = Fields
      /\ t.status = s.status /\ t.seat = s.seat /\ t.pst = s.pst
      /\ t.money = s.money /\ t.bet = s.bet
      /\ t.pool = s.pool /\ t.leaveSum = s.leaveSum + s.bet[u]
      /\ t.betMax = s.betMax /\ t.hasAllin = s.hasAllin
      /\ t.allin = s.allin /\ t.allinCoin = s.allinCoin
      /\ t.card = s.card /\ t.canAllin = s.canAllin /\ t.round = s.round
      /\ t.currBet = s.currBet /\ t.over = s.over
  BY DEF Forfeit, Coins, Numbers, Fields, FreshTable
<1> HIDE DEF t
<1>2. InTable(t) = InTable(s) /\ Players(t) = Players(s)
  BY <1>1, SamePlayers
<1>3. Numbers(t) /\ Quiet(t) /\ Idle(t) /\ IsActive(t)
  BY <1>1, <1>2 DEF Coins, Numbers, Quiet, Idle, IsActive
<1> QED BY <1>1, <1>3 DEF Coins, t

\* What a player takes along who leaves the hand he is in
Left(s, t, u) ==
    /\ Coins(t) /\ IsActive(t) /\ InTable(t) = InTable(s) \ {u}
    /\ t.bet = [s.bet EXCEPT ![u] = 0]
    /\ \A v \in InTable(t) : t.money[v] = s.money[v]
    /\ t.pool = s.pool /\ t.leaveSum = s.leaveSum + s.bet[u]

\* LeaveHand forfeits the bet of one player and takes no other coins.
LEMMA LeaveHandCoins ==
    ASSUME NEW u \in User, CInv, LeaveHand(u)
    PROVE  Left(table, table', u)
<1> DEFINE s1 == Forfeit(table, u)
           s2 == IF table.currBet = u THEN GetNextBetPlayer(s1, u) ELSE s1
           sd == Discard(s2, u)
           s3 == SetNextFirst(sd, u)
           s4 == PlayersLeave(s3, {u})
<1>0. Coins(table) /\ Typed(table) /\ IInv
  BY DEF CInv, HInv, TInv
<1>1. /\ IsActive(s4) /\ table' = GameOverIfDecided(s4)
      /\ u \in InTable(table) /\ IsActive(table)
  BY <1>0, LeaveHandTable DEF InHand, Playing, At
<1>2. /\ Coins(s1) /\ s1.leaveSum = table.leaveSum + table.bet[u]
      /\ s1.pool = table.pool /\ s1.bet = table.bet /\ s1.money = table.money
      /\ s1.seat = table.seat /\ s1.pst = table.pst
  BY <1>0, <1>1, ForfeitCoins
<1>3. Typed(s1)
  BY <1>0, CoinsTyped DEF Forfeit, Typed, Shape, Fields, FreshTable
<1> HIDE DEF s1
<1>4. SameCoins(s1, s2) /\ Numbers(s2) /\ Typed(s2)
  BY <1>2, <1>3, GetNextBetPlayerCoins, SteeringCoins, NumbersKept,
     GetNextBetPlayerTyped DEF Coins
<1> HIDE DEF s2
<1>5. SameCoins(s2, sd) /\ Numbers(sd) /\ Typed(sd)
  BY <1>4, DiscardCoins, NumbersKept, DiscardTyped
<1> HIDE DEF sd
<1>6. SameCoins(sd, s3) /\ Typed(s3)
  BY <1>5, SteeringCoins, SetNextFirstTyped
<1> HIDE DEF s3
<1>7. SameCoins(s1, s3)
  BY <1>4, <1>5, <1>6, SameCoinsOn
<1>8. Coins(s3) /\ InTable(s3) = InTable(table)
  BY <1>2, <1>7, CoinsKept DEF SameCoins, InTable
<1>9. {u} \in SUBSET InTable(s3)
  BY <1>1, <1>8
<1>10. /\ Coins(s4) /\ InTable(s4) = InTable(table) \ {u}
       /\ s4.bet = [v \in User |-> IF v \in {u} THEN 0 ELSE s3.bet[v]]
       /\ \A v \in InTable(s4) : s4.money[v] = s3.money[v]
       /\ s4.pool = s3.pool /\ s4.leaveSum = s3.leaveSum
  BY <1>1, <1>6, <1>8, <1>9, LeaveCoins
<1> HIDE DEF s4
<1>11. s4.bet = [table.bet EXCEPT ![u] = 0]
  BY <1>0, <1>2, <1>7, <1>10 DEF SameCoins, Coins, Numbers
<1>12. Left(table, s4, u)
  BY <1>1, <1>2, <1>7, <1>10, <1>11 DEF Left, SameCoins
<1>13. SameCoins(s4, table')
  BY <1>1, <1>10, SteeringCoins DEF Coins
<1>14. Coins(table') /\ InTable(table') = InTable(s4)
  BY <1>10, <1>13, CoinsKept DEF SameCoins, InTable
<1> QED BY <1>12, <1>13, <1>14 DEF Left, SameCoins, IsActive

\* A forfeit keeps the pool equal to the bets and the forfeits.
LEMMA LeftBalances ==
    ASSUME NEW s, NEW t, NEW u \in User, Coins(s), Left(s, t, u), IsActive(s),
           Balanced(s)
    PROVE  Balanced(t)
<1>1. s.bet \in [User -> Int] /\ t.bet = [s.bet EXCEPT ![u] = 0]
      /\ s.leaveSum \in Int
  BY DEF Coins, Numbers, Left
<1>2. SumOver(s.bet, User) = s.bet[u] + SumOver(s.bet, User \ {u})
  BY <1>1, UserAssumption, SumWithout
<1>3. SumOver(t.bet, User) = t.bet[u] + SumOver(t.bet, User \ {u})
  <2>1. \A v \in User : t.bet[v] \in Int
    BY <1>1
  <2> QED BY <2>1, UserAssumption, SumWithout
<1>4. SumOver(t.bet, User \ {u}) = SumOver(s.bet, User \ {u})
  <2>1. IsFiniteSet(User \ {u})
    BY UserAssumption, FS_Subset
  <2>2. \A v \in User \ {u} : t.bet[v] = s.bet[v]
    BY <1>1
  <2> QED BY <2>1, <2>2, SumSame
<1>5. SumOver(s.bet, User \ {u}) \in Int
  <2>1. IsFiniteSet(User \ {u})
    BY UserAssumption, FS_Subset
  <2> QED BY <1>1, <2>1, SumType
<1> QED BY <1>1, <1>2, <1>3, <1>4, <1>5 DEF Balanced, Left

\* A stake keeps the pool equal to the bets and the forfeits.
LEMMA StakedBalances ==
    ASSUME NEW s, NEW t, NEW u \in User, NEW x \in Int, Coins(s),
           Staked(s, t, u, x), IsActive(s), Balanced(s)
    PROVE  Balanced(t)
<1>1. s.bet \in [User -> Int] /\ t.bet = [s.bet EXCEPT ![u] = @ + x]
      /\ s.leaveSum \in Int
  BY DEF Coins, Numbers, Staked
<1>2. SumOver(s.bet, User) = s.bet[u] + SumOver(s.bet, User \ {u})
  BY <1>1, UserAssumption, SumWithout
<1>3. SumOver(t.bet, User) = t.bet[u] + SumOver(t.bet, User \ {u})
  <2>1. \A v \in User : t.bet[v] \in Int
    BY <1>1
  <2> QED BY <2>1, UserAssumption, SumWithout
<1>4. /\ SumOver(t.bet, User \ {u}) = SumOver(s.bet, User \ {u})
      /\ SumOver(s.bet, User \ {u}) \in Int
  <2>1. IsFiniteSet(User \ {u})
    BY UserAssumption, FS_Subset
  <2>2. \A v \in User \ {u} : t.bet[v] = s.bet[v]
    BY <1>1
  <2> QED BY <1>1, <2>1, <2>2, SumSame, SumType
<1>5. t.bet[u] = s.bet[u] + x
  BY <1>1
<1> QED BY <1>1, <1>2, <1>3, <1>4, <1>5 DEF Balanced, Staked

-----------------------------------------------------------------------------
(* Settling. *)

IsReturn(g, s, L) ==
    g = [z \in SUBSET L |-> IF z = {} THEN 0
                            ELSE Returned(s, One(z)) + g[z \ {One(z)}]]

\* The sum of what a settlement returns is a function of the losers' subsets,
\* as every sum is.
LEMMA ReturnIsChosen ==
    ASSUME NEW s, NEW L
    PROVE  MapThenSumSet(LAMBDA u : Returned(s, u), L)
             = (CHOOSE g : IsReturn(g, s, L))[L]
BY DEF MapThenSumSet, MapThenFoldSet, IsReturn, One

\* What calcCoin gives back to losers is a sum over them.
LEMMA ReturnIsSum ==
    ASSUME NEW s, NEW L \in SUBSET User
    PROVE  MapThenSumSet(LAMBDA u : Returned(s, u), L)
             = SumOver([u \in User |-> Returned(s, u)], L)
<1> DEFINE f == [u \in User |-> Returned(s, u)]
           h == CHOOSE g : IsReturn(g, s, L)
           k == CHOOSE g : IsSum(g, f, L)
<1>1. IsFiniteSet(L)
  BY UserAssumption, FS_Subset
<1>2. \A g : IsReturn(g, s, L) <=> IsSum(g, f, L)
  <2> SUFFICES ASSUME NEW g PROVE IsReturn(g, s, L) <=> IsSum(g, f, L)
    OBVIOUS
  <2> DEFINE R == [z \in SUBSET L |-> IF z = {} THEN 0
                      ELSE Returned(s, One(z)) + g[z \ {One(z)}]]
             S == [z \in SUBSET L |-> IF z = {} THEN 0
                      ELSE f[One(z)] + g[z \ {One(z)}]]
  <2>1. \A z \in SUBSET L : z # {} => One(z) \in User
    BY OneIsIn
  <2>2. \A z \in SUBSET L : z # {} => f[One(z)] = Returned(s, One(z))
    BY <2>1
  <2> HIDE DEF f
  <2>3. R = S
    BY <2>2
  <2> QED BY <2>3, Zenon DEF IsReturn, IsSum, f
<1>3. \E g : IsSum(g, f, L)
  <2> HIDE DEF f
  <2> QED BY <1>1, SumExists
<1> HIDE DEF f
<1>4. IsSum(k, f, L)
  BY <1>3
<1>5. IsReturn(h, s, L)
  BY <1>2, <1>3
<1> HIDE DEF h, k
<1>6. IsSum(h, f, L)
  BY <1>2, <1>5
<1>7. h[L] = k[L]
  <2>1. L \in SUBSET L
    OBVIOUS
  <2> QED BY <1>1, <1>4, <1>6, <2>1, SumsAgree
<1>8. SumOver(f, L) = k[L]
  BY SumIsChosen DEF k
<1> QED BY <1>7, <1>8, ReturnIsChosen DEF h, f

\* What a settlement returns to a player is a whole number of coins.
LEMMA ReturnedType ==
    ASSUME NEW s, NEW u \in User, Numbers(s)
    PROVE  Returned(s, u) \in Int
BY DEF Returned, Numbers

\* What a settlement pays is a whole number of coins to each.
LEMMA FinalType ==
    ASSUME NEW s, Numbers(s)
    PROVE  /\ LeftInPool(s) \in Int
           /\ FinalGetCoin(s) \in [User -> Int]
           /\ \A u \in User : AfterTax(FinalGetCoin(s)[u]) \in Int
<1> DEFINE W == Winners(s)
           L == Losers(s)
           f == [u \in User |-> Returned(s, u)]
<1>1. W \subseteq User /\ L \subseteq User
  BY DEF Winners, Losers, Shown, Played, InTable
<1>2. IsFiniteSet(W) /\ IsFiniteSet(L)
  BY <1>1, UserAssumption, FS_Subset
<1> HIDE DEF W, L
<1>3. \A u \in User : f[u] \in Int
  BY ReturnedType
<1>4. LeftInPool(s) \in Int
  <2>1. LeftInPool(s) = s.pool - SumOver(f, L)
    BY <1>1, ReturnIsSum DEF LeftInPool, L
  <2> HIDE DEF f
  <2>2. SumOver(f, L) \in Int
    BY <1>1, <1>2, <1>3, SumType
  <2> QED BY <2>1, <2>2 DEF Numbers
<1>5. W # {} => Share(s) \in Int
  <2>1. Share(s) = (LeftInPool(s) - SumOver(s.bet, W)) \div Cardinality(W)
    BY DEF Share, SumOver, W
  <2>2. SumOver(s.bet, W) \in Int
    BY <1>1, <1>2, SumType DEF Numbers
  <2>3. W # {} => Cardinality(W) \in Nat /\ Cardinality(W) > 0
    <3>1. Cardinality(W) \in Nat /\ (Cardinality(W) = 0 <=> W = {})
      BY <1>2, FS_CardinalityType, FS_EmptySet
    <3> QED BY <3>1
  <2> QED BY <1>4, <2>1, <2>2, <2>3
<1>6. \A u \in User : Returned(s, u) - s.bet[u] \in Int
  BY ReturnedType DEF Numbers
<1>7. FinalGetCoin(s) \in [User -> Int]
  <2>1. FinalGetCoin(s) =
          [u \in User |-> IF u \in W THEN Share(s)
                          ELSE IF u \in L THEN Returned(s, u) - s.bet[u]
                          ELSE 0]
    BY DEF FinalGetCoin, W, L
  <2> QED BY <1>5, <1>6, <2>1
<1>8. \A x \in Int : AfterTax(x) \in Int
  BY CoinAssumption DEF AfterTax
<1> QED BY <1>4, <1>7, <1>8

\* What calcCoin books: everyone at the table gets the bets back and the result.
Booked(h, u) ==
    IF u \in Played(h) THEN AfterTax(FinalGetCoin(h)[u]) ELSE 0

\* A settlement pays every player in the hand its bet back and its result, and
\* ends the hand (gameOver).
LEMMA PaidCoins ==
    ASSUME NEW s, Typed(s), Coins(s)
    PROVE  LET h == HandOver(s)
               p == Paid(h)
           IN /\ Numbers(h) /\ Numbers(p) /\ InTable(h) = InTable(s)
              /\ InTable(p) = InTable(s)
              /\ h.pst = [u \in User |-> IF u \in Players(s) THEN "OVER"
                                         ELSE s.pst[u]]
              /\ h.bet = s.bet /\ h.pool = s.pool /\ h.card = s.card
              /\ h.allin = s.allin /\ h.allinCoin = s.allinCoin
              /\ p.pst = h.pst /\ p.status = "OVER"
              /\ \A u \in InTable(s) :
                   p.money[u] = s.money[u] + s.bet[u] + Booked(h, u)
<1> DEFINE h == HandOver(s)
           p == Paid(h)
           r == Refunded(h)
           final == FinalGetCoin(h)
           won == {u \in Played(h) : final[u] > 0}
           purses == [u \in User |->
             IF u \in Played(h) THEN r.money[u] + AfterTax(final[u])
             ELSE r.money[u]]
           seat == IF won = {} THEN r.preWin ELSE Max({h.seat[u] : u \in won})
<1>1. /\ DOMAIN h = Fields /\ h.seat = s.seat /\ h.bet = s.bet
      /\ h.pst = [u \in User |-> IF u \in InTable(s) /\ s.pst[u] = "ACTIVE"
                                 THEN "OVER" ELSE s.pst[u]]
      /\ h.money = s.money /\ h.status = "OVER"
      /\ h.pool = s.pool /\ h.leaveSum = s.leaveSum
      /\ h.betMax = s.betMax /\ h.hasAllin = s.hasAllin
      /\ h.allin = s.allin /\ h.allinCoin = s.allinCoin /\ h.card = s.card
  BY DEF HandOver, Coins, Numbers, Fields, FreshTable
<1> HIDE DEF h
<1>2. Numbers(h)
  BY <1>1 DEF Coins, Numbers
<1>3. h.pst = [u \in User |-> IF u \in Players(s) THEN "OVER" ELSE s.pst[u]]
  BY <1>1 DEF Players
<1>4. InTable(h) = InTable(s) /\ InTable(p) = InTable(s)
  BY <1>1, PaidTyped DEF InTable, h
<1>5. /\ DOMAIN r = Fields /\ r.pst = h.pst /\ r.bet = h.bet
      /\ r.money = [u \in User |-> IF u \in InTable(h)
                                   THEN h.money[u] + h.bet[u] ELSE h.money[u]]
      /\ r.status = "OVER" /\ r.pool = h.pool /\ r.leaveSum = h.leaveSum
      /\ r.betMax = h.betMax /\ r.hasAllin = h.hasAllin
      /\ r.allinCoin = h.allinCoin
  BY <1>1, <1>2 DEF Refunded, Numbers, Fields, FreshTable
<1> HIDE DEF r
<1>6. p = [r EXCEPT !.money = purses, !.preWin = seat]
  BY <1>5 DEF Paid, r, Fields, FreshTable
<1> HIDE DEF purses, seat, p
<1>7. /\ DOMAIN p = Fields /\ p.pst = r.pst /\ p.bet = r.bet
      /\ p.money = purses
      /\ p.status = "OVER" /\ p.pool = r.pool /\ p.leaveSum = r.leaveSum
      /\ p.betMax = r.betMax /\ p.hasAllin = r.hasAllin
      /\ p.allinCoin = r.allinCoin
  BY <1>5, <1>6 DEF Fields, FreshTable
<1>8. \A u \in User : AfterTax(final[u]) \in Int
  BY <1>2, FinalType
<1> HIDE DEF final
<1>9. \A u \in User : r.money[u] \in Int
  BY <1>2, <1>5 DEF Numbers
<1>10. purses \in [User -> Int]
  BY <1>8, <1>9 DEF purses
<1>11. Numbers(p)
  BY <1>2, <1>5, <1>7, <1>10 DEF Numbers
<1>12. ASSUME NEW u \in InTable(s)
       PROVE  p.money[u] = s.money[u] + s.bet[u] + Booked(h, u)
  <2>1. u \in User
    BY DEF InTable
  <2>2. s.money[u] + s.bet[u] \in Int
    BY <2>1 DEF Coins, Numbers
  <2>3. r.money[u] = s.money[u] + s.bet[u]
    BY <1>1, <1>4, <1>5, <2>1
  <2> QED BY <1>7, <1>8, <2>1, <2>2, <2>3 DEF Booked, purses, final
<1> QED BY <1>1, <1>2, <1>3, <1>4, <1>5, <1>7, <1>11, <1>12 DEF h, p

\* The settlement: bets are gone, results are booked, no hand is played.
Settled(s, t) ==
    /\ Coins(t) /\ ~ IsActive(t) /\ InTable(t) \subseteq InTable(s)
    /\ \A u \in User : t.bet[u] = 0
    /\ \A u \in InTable(t) :
         t.money[u] = s.money[u] + s.bet[u] + Booked(HandOver(s), u)
    /\ t.leaveSum = 0 /\ t.pool = 0 /\ t.hasAllin = 0 /\ t.betMax = 0

\* A settlement leaves a table whose coins are at rest, and whoever stays can
\* pay for the next hand.
LEMMA SettleCoins ==
    ASSUME NEW s, Typed(s), Coins(s)
    PROVE  /\ Settled(s, Settle(HandOver(s)))
           /\ Rich(s) => Rich(Settle(HandOver(s)))
<1> DEFINE h == HandOver(s)
           p == Paid(h)
           G == PutOut(h)
           left == PlayersLeave(p, G)
           here == InTable(left)
           reset == [left EXCEPT
             !.card = [u \in User |-> IF u \in here THEN "DISCARD" ELSE @[u]],
             !.bet = [u \in User |-> IF u \in here THEN 0 ELSE @[u]],
             !.allin = [u \in User |-> IF u \in here THEN FALSE ELSE @[u]],
             !.allinCoin = [u \in User |-> IF u \in here THEN 0 ELSE @[u]],
             !.rank = [u \in User |-> IF u \in here THEN 0 ELSE @[u]],
             !.offer = {}]
           t == Cleared(reset)
<1>1. Settle(h) = t
  BY DEF Settle, ReSetInfo, Paid
<1>2. /\ Numbers(h) /\ Numbers(p) /\ InTable(h) = InTable(s)
      /\ InTable(p) = InTable(s)
      /\ h.pst = [u \in User |-> IF u \in Players(s) THEN "OVER" ELSE s.pst[u]]
      /\ h.bet = s.bet /\ h.allin = s.allin /\ h.allinCoin = s.allinCoin
      /\ p.pst = h.pst /\ p.status = "OVER"
      /\ \A u \in InTable(s) :
           p.money[u] = s.money[u] + s.bet[u] + Booked(h, u)
  BY PaidCoins
<1>3. Typed(p)
  BY PaidTyped
<1>4. /\ p.bet = s.bet /\ p.allin = s.allin /\ p.allinCoin = s.allinCoin
  BY <1>2 DEF Paid, Refunded, Numbers, Fields, FreshTable
<1>5. G \in SUBSET InTable(p)
  BY <1>2 DEF PutOut
<1> HIDE DEF h, p, G
<1>6. /\ DOMAIN left = Fields
      /\ left.pst = [u \in User |-> IF u \in G THEN "LOGOUT" ELSE p.pst[u]]
      /\ left.money = [u \in User |-> IF u \in G THEN 0 ELSE p.money[u]]
      /\ left.bet = [u \in User |-> IF u \in G THEN 0 ELSE p.bet[u]]
      /\ left.allinCoin = [u \in User |-> IF u \in G THEN 0 ELSE p.allinCoin[u]]
      /\ left.allin = [u \in User |-> IF u \in G THEN FALSE ELSE p.allin[u]]
      /\ left.status # "ACTIVE"
      /\ InTable(left) = InTable(p) \ G
  <2> DEFINE Out(f, x) == [u \in User |-> IF u \in G THEN x ELSE f[u]]
  <2> HIDE DEF left, Out
  <2>1. /\ DOMAIN left = Fields
        /\ left.pst = Out(p.pst, "LOGOUT")
        /\ left.money = Out(p.money, 0) /\ left.bet = Out(p.bet, 0)
        /\ left.allinCoin = Out(p.allinCoin, 0)
        /\ left.allin = Out(p.allin, FALSE)
        /\ left.card = Out(p.card, "DISCARD")
        /\ \/ /\ left.status = "EMPTY" /\ left.betMax = 0
              /\ left.pool = 0 /\ left.leaveSum = 0 /\ left.hasAllin = 0
           \/ /\ IsActive(left) <=> IsActive(p)
              /\ left.betMax = p.betMax /\ left.hasAllin = p.hasAllin
              /\ left.pool = p.pool /\ left.leaveSum = p.leaveSum
              /\ left.canAllin = p.canAllin /\ left.round = p.round
              /\ left.currBet = p.currBet /\ left.over = p.over
    <3>1. Numbers(p)
      BY <1>2
    <3> QED BY <1>3, <1>5, <3>1, PlayersLeaveFields, ZenonT(40) DEF left, Out
  <2>2. InTable(left) = InTable(p) \ G
    BY <1>3, <1>5, PlayersLeaveTyped DEF left
  <2> QED BY <1>2, <2>1, <2>2 DEF IsActive, Out
<1> HIDE DEF left, here
<1>8. /\ DOMAIN t = Fields /\ t.seat = left.seat /\ t.pst = left.pst
      /\ t.status = left.status
      /\ t.money = left.money
      /\ t.bet = [u \in User |-> IF u \in here THEN 0 ELSE left.bet[u]]
      /\ t.allin = [u \in User |-> IF u \in here THEN FALSE ELSE left.allin[u]]
      /\ t.allinCoin =
           [u \in User |-> IF u \in here THEN 0 ELSE left.allinCoin[u]]
      /\ t.pool = 0 /\ t.leaveSum = 0 /\ t.hasAllin = 0 /\ t.betMax = 0
  BY <1>6 DEF Cleared, Fields, FreshTable
<1> HIDE DEF t
<1>9. InTable(t) = here /\ here = InTable(s) \ G
  BY <1>2, <1>6, <1>8 DEF InTable, here
<1>10. \A u \in User \ InTable(s) :
         s.bet[u] = 0 /\ s.allinCoin[u] = 0 /\ s.allin[u] = FALSE
  BY DEF Coins, Quiet, Players
<1>11. \A u \in User : t.bet[u] = 0 /\ t.allinCoin[u] = 0
  BY <1>4, <1>6, <1>8, <1>9, <1>10
<1>12. \A u \in User : t.allin[u] = FALSE
  <2> SUFFICES ASSUME NEW u \in User PROVE t.allin[u] = FALSE
    OBVIOUS
  <2>1. CASE u \in here
    BY <1>8, <2>1, Zenon
  <2>2. CASE u \in G
    BY <1>6, <1>8, <2>2, Zenon
  <2>3. CASE u \notin InTable(s) /\ u \notin G /\ u \notin here
    <3>1. t.allin[u] = left.allin[u]
      BY <1>8, <2>3, Zenon
    <3>2. left.allin[u] = p.allin[u]
      BY <1>6, <2>3, Zenon
    <3>3. s.allin[u] = FALSE
      BY <1>10, <2>3
    <3> QED BY <1>4, <3>1, <3>2, <3>3, Zenon
  <2> QED BY <1>9, <2>1, <2>2, <2>3
<1>13. t.money \in [User -> Int]
  BY <1>2, <1>6, <1>8 DEF Numbers
<1>14. /\ t.bet = [u \in User |-> 0] /\ t.allinCoin = [u \in User |-> 0]
  BY <1>8, <1>11
<1>15. Numbers(t)
  BY <1>8, <1>13, <1>14 DEF Numbers
<1>16. Coins(t)
  BY <1>8, <1>11, <1>12, <1>15 DEF Coins, Quiet, Idle
<1>17. ASSUME NEW u \in InTable(t)
       PROVE  /\ t.money[u] = s.money[u] + s.bet[u] + Booked(h, u)
              /\ t.pst[u] = h.pst[u] /\ u \in InTable(s) /\ u \in User
  <2>1. u \in InTable(s) /\ u \notin G /\ u \in User
    BY <1>9 DEF InTable
  <2> QED BY <1>2, <1>6, <1>8, <2>1
<1>18. Settled(s, t)
  BY <1>6, <1>8, <1>9, <1>11, <1>16, <1>17 DEF Settled, IsActive, h
<1>19. ASSUME Rich(s) PROVE Rich(t)
  <2> SUFFICES ASSUME NEW u \in InTable(t), t.pst[u] = "RSTART"
               PROVE  t.money[u] >= MinMoney
    BY DEF Rich
  <2>1. /\ u \in InTable(s) /\ u \in User /\ u \notin Players(s)
        /\ s.pst[u] = "RSTART" /\ u \notin Played(h)
    BY <1>2, <1>17 DEF Played
  <2>2. s.bet[u] = 0 /\ s.money[u] \in Int
    BY <2>1 DEF Coins, Quiet, Numbers
  <2>3. t.money[u] = s.money[u]
    BY <1>17, <2>1, <2>2 DEF Booked
  <2> QED BY <1>19, <2>1, <2>3 DEF Rich
<1> QED BY <1>1, <1>18, <1>19 DEF h

-----------------------------------------------------------------------------
(* Coming, and the step as a whole. *)

\* u has come to the table with m coins.
Came(s, t, u, m) ==
    /\ Coins(t) /\ SameStakes(s, t) /\ Rested(s, t)
    /\ InTable(t) = InTable(s) \cup {u} /\ u \notin InTable(s)
    /\ t.money = [s.money EXCEPT ![u] = m]

\* Whoever comes to a table has the coins CheckMoney asks for, a user those of
\* its account.
LEMMA ComingCoins ==
    ASSUME NEW u \in User, CInv, MaxNum > 2,
           LoginComing(u) \/ LoginRedirected(u) \/ RobotComing(u)
    PROVE  /\ acct' = acct
           /\ \E m \in Int : /\ Came(table, table', u, m) /\ m >= MinMoney
                             /\ u \notin Robots => m = acct[u]
<1>0. Typed(table) /\ Coins(table) /\ acct[u] \in Int
  BY DEF CInv, TInv
<1>1. PICK m \in Int :
        /\ m >= MinMoney /\ (u \notin Robots => m = acct[u])
        /\ table.seat[u] = NoSeat /\ FreeChairs(table) # {} /\ acct' = acct
        /\ \/ table' = PlayerComming(table, u, m)
           \/ table' = SetKickTimer(PlayerComming(table, u, m))
  BY <1>0, MoneyAssumption
  DEF LoginComing, LoginRedirected, RobotComing, TableBecomes, CheckMoney
<1> DEFINE s == PlayerComming(table, u, m)
<1>2. /\ Coins(s) /\ SameStakes(table, s)
      /\ InTable(s) = InTable(table) \cup {u} /\ u \notin InTable(table)
      /\ s.money = [table.money EXCEPT ![u] = m]
  BY <1>0, <1>1, PlayerCommingCoins
<1>3. Rested(table, s)
  BY <1>0, <1>1, PlayerCommingRested
<1> HIDE DEF s
<1>4. Came(table, s, u, m)
  BY <1>2, <1>3 DEF Came
<1>5. Came(table, SetKickTimer(s), u, m)
  <2> DEFINE t == SetKickTimer(s)
  <2>1. AsBefore(s, t)
    BY <1>2 DEF SetKickTimer, Coins, Numbers, Fields, FreshTable, AsBefore
  <2> HIDE DEF t
  <2>2. Moved(s, t) /\ Rested(table, t)
    BY <1>2, <1>3, <2>1, RestedAsBefore, RestedOn
  <2>3. InTable(t) = InTable(s)
    BY <2>1 DEF AsBefore, InTable
  <2>4. SameStakes(table, t)
    BY <1>2, <2>1 DEF AsBefore, SameStakes, IsActive
  <2> QED BY <1>2, <2>1, <2>2, <2>3, <2>4 DEF Came, AsBefore, Moved, t
<1> QED BY <1>1, <1>4, <1>5 DEF s

\* The GameOver timer settles the hand, and books each result in the account;
\* else nothing is moved.
LEMMA GameOverCoins ==
    ASSUME CInv, GameOverTimeOut
    PROVE  \/ table' = table /\ acct' = acct
           \/ /\ Shown(HandOver(table)) # {}
              /\ Settled(table, table') /\ (Rich(table) => Rich(table'))
              /\ acct' \in [User -> Int]
              /\ \A u \in User :
                   acct'[u] = IF u \notin Robots
                              THEN acct[u] + Booked(HandOver(table), u)
                              ELSE acct[u]
<1> DEFINE h == HandOver(table)
<1>0. Typed(table) /\ Coins(table) /\ acct \in [User -> Int]
  BY DEF CInv, TInv
<1>1. \/ table' = table /\ acct' = acct
      \/ /\ Shown(h) # {}
         /\ table' = Settle(h)
         /\ acct' = [u \in User |-> IF u \in Played(h) \ Robots
                       THEN acct[u] + AfterTax(FinalGetCoin(h)[u])
                       ELSE acct[u]]
  BY DEF GameOverTimeOut
<1>2. Settled(table, Settle(h)) /\ (Rich(table) => Rich(Settle(h)))
  BY <1>0, SettleCoins
<1>3. Numbers(h)
  BY <1>0, PaidCoins
<1> HIDE DEF h
<1>4. \A u \in User : AfterTax(FinalGetCoin(h)[u]) \in Int
  BY <1>3, FinalType
<1>5. CASE table' = table /\ acct' = acct
  BY <1>5
<1>6. CASE acct' = [u \in User |-> IF u \in Played(h) \ Robots
                      THEN acct[u] + AfterTax(FinalGetCoin(h)[u])
                      ELSE acct[u]]
  <2>1. \A u \in User :
          acct'[u] = IF u \notin Robots THEN acct[u] + Booked(h, u) ELSE acct[u]
    BY <1>0, <1>6 DEF Booked
  <2>2. acct' \in [User -> Int]
    BY <1>0, <1>4, <1>6
  <2> QED BY <1>1, <1>2, <2>1, <2>2 DEF h
<1> QED BY <1>1, <1>5, <1>6

\* The steps of the table, as far as coins and accounts go.
Leaving ==
    \E u \in Players(table) :
       /\ Left(table, table', u) /\ IsActive(table)
       /\ acct' = IF u \in Robots THEN acct
                  ELSE [acct EXCEPT ![u] = @ - table.bet[u] - Tax]

Coming ==
    /\ acct' = acct
    /\ \E u \in User : \E m \in Int :
         /\ Came(table, table', u, m) /\ m >= MinMoney
         /\ u \notin Robots => m = acct[u]

Replacing ==
    /\ acct' = acct
    /\ \E u \in Robots : \E m \in Int :
         /\ RobotReplaced(u) /\ m >= MinMoney
         /\ table' = PlayerReplaced(table, u, m)

Settlement ==
    /\ Shown(HandOver(table)) # {}
    /\ Settled(table, table') /\ (Rich(table) => Rich(table'))
    /\ acct' \in [User -> Int]
    /\ \A u \in User :
         acct'[u] = IF u \notin Robots
                    THEN acct[u] + Booked(HandOver(table), u) ELSE acct[u]

CoinStep ==
    Staking \/ Lobbying \/ Leaving \/ Coming \/ Replacing \/ Settlement

\* A step that changes nothing stakes nothing.
LEMMA IdleStep ==
    ASSUME CInv, table' = table, acct' = acct
    PROVE  Staking
BY SteeringCoins DEF CInv, Coins, Staking

\* Every message is one of the steps that coins can make.
LEMMA MessageCoins ==
    ASSUME NEW u \in User, CInv, MaxNum > 2, Message(u)
    PROVE  CoinStep
<1>0. TInv /\ Numbers(table)
  BY DEF CInv, Coins
<1>1. CASE LoginComing(u) \/ LoginRedirected(u) \/ RobotComing(u)
  <2>1. Coming
    BY <1>1, ComingCoins DEF Coming
  <2> QED BY <2>1 DEF CoinStep
<1>2. CASE RobotReplaced(u)
  <2>1. PICK m \in RobotMoney :
          CheckMoney(m) /\ TableBecomes(PlayerReplaced(table, u, m))
    BY <1>2 DEF RobotReplaced
  <2>2. m \in Int /\ m >= MinMoney /\ u \in Robots
    BY <1>2, <2>1, MoneyAssumption DEF CheckMoney, RobotReplaced
  <2>3. Replacing
    BY <1>2, <2>1, <2>2 DEF Replacing, TableBecomes
  <2> QED BY <2>3 DEF CoinStep
<1>3. CASE LeaveHand(u)
  <2>1. u \in Players(table)
    BY <1>3, PlayingIn DEF LeaveHand, InHand
  <2>2. IsActive(table)
    BY <1>3, LeaveHandTable DEF CInv, HInv
  <2>3. /\ Left(table, table', u)
        /\ acct' = IF u \in Robots THEN acct
                   ELSE [acct EXCEPT ![u] = @ - table.bet[u] - Tax]
    BY <1>3, LeaveHandCoins DEF LeaveHand
  <2>4. Leaving
    BY <2>1, <2>2, <2>3 DEF Leaving
  <2> QED BY <2>4 DEF CoinStep
<1>4. CASE LeaveTable(u) \/ Drop(u) \/ Logout(u) \/ GetTableDetail(u)
  BY <1>4, LeavingCoins DEF CoinStep
<1>5. CASE StartGame(u)
  BY <1>5, StartGameCoins DEF CoinStep
<1>6. CASE Call(u) \/ Allin(u) \/ \E x \in RaseChoices : Rase(u, x)
  BY <1>0, <1>6, CallStakes, AllinStakes, RaseStakes DEF CoinStep
<1>7. CASE ThrowCard(u) \/ CheckCard(u)
  BY <1>0, <1>7, FoldStakes DEF CoinStep
<1>8. CASE \E v \in User : CompareCards(u, v)
  BY <1>0, <1>8, CompareCardsStakes DEF CoinStep
<1> QED BY <1>1, <1>2, <1>3, <1>4, <1>5, <1>6, <1>7, <1>8 DEF Message

\* So is every step of the table.
LEMMA NextCoins ==
    ASSUME CInv, MaxNum > 2, [Next]_vars
    PROVE  CoinStep
<1>1. CASE \E u \in User : Message(u)
  BY <1>1, MessageCoins
<1>2. CASE HeartTimeOut \/ TableGameStartTimeOut \/ TableKickTimeOut
  BY <1>2, LobbyTimerCoins DEF CoinStep
<1>3. CASE BetTimeOut \/ CompareResultNotifyTimeOut
  <2>1. Numbers(table)
    BY DEF CInv, Coins
  <2> QED BY <1>3, <2>1, FoldStakes DEF CoinStep
<1>4. CASE GameOverTimeOut
  BY <1>4, GameOverCoins, IdleStep DEF CoinStep, Settlement
<1>5. CASE UNCHANGED vars
  BY <1>5, IdleStep DEF vars, CoinStep
<1> QED BY <1>1, <1>2, <1>3, <1>4, <1>5 DEF Next, Timer

\* A hand that opens: the players have paid the ante, nobody has done more.
LEMMA OpensMoved ==
    ASSUME NEW q, Opens(q)
    PROVE  Moved(table, table')
<1>1. PICK d \in Deals : table' = GameStart(q, d)
  BY DEF Opens
<1>2. Core(q) /\ Coins(q) /\ ~ IsActive(q) /\ Moved(table, q)
  BY DEF Opens, Lobbied, TableInv, Moved
<1>3. Moved(q, GameStart(q, d))
  BY <1>2, GameStartMoved
<1> QED BY <1>1, <1>2, <1>3, MovedOn

\* A step of the lobby keeps every player's total.
LEMMA LobbyingMoved ==
    ASSUME Lobbying
    PROVE  Moved(table, table')
BY OpensMoved DEF Lobbying

\* Only an active table has players in a hand.
LEMMA StakingActive ==
    ASSUME CInv, NEW u \in Players(table)
    PROVE  IsActive(table)
BY DEF CInv, HInv, IInv, TableInv, Core, Together, Players

\* Each of these steps keeps the coin invariant and the types of the accounts.
LEMMA CoinStepCoins ==
    ASSUME CInv, CoinStep
    PROVE  Coins(table') /\ acct' \in [User -> Int]
<1>0. Typed(table) /\ Coins(table) /\ acct \in [User -> Int]
  BY DEF CInv, TInv
<1>1. CASE Staking
  <2>1. CASE SameCoins(table, table')
    BY <1>0, <1>1, <2>1, CoinsKept DEF Staking
  <2>2. CASE \E u \in Players(table) : \E x \in Int : Staked(table, table', u, x)
    BY <1>0, <1>1, <2>2, StakedCoins, StakingActive DEF Staking
  <2> QED BY <1>1, <2>1, <2>2 DEF Staking
<1>2. CASE Lobbying
  BY <1>0, <1>2, LobbyingMoved DEF Moved, Lobbying
<1>3. CASE Leaving
  <2>1. PICK u \in Players(table) :
          /\ Left(table, table', u)
          /\ acct' = IF u \in Robots THEN acct
                     ELSE [acct EXCEPT ![u] = @ - table.bet[u] - Tax]
    BY <1>3 DEF Leaving
  <2>2. u \in User /\ table.bet[u] \in Int /\ Tax \in Int
    BY <1>0, CoinAssumption DEF Coins, Numbers, Players, InTable
  <2>3. acct[u] - table.bet[u] - Tax \in Int
    BY <1>0, <2>2
  <2>4. acct' \in [User -> Int]
    BY <1>0, <2>1, <2>3
  <2> QED BY <2>1, <2>4 DEF Left
<1>4. CASE Coming
  BY <1>0, <1>4 DEF Coming, Came
<1>5. CASE Replacing
  <2>1. PICK u \in Robots, m \in Int : table' = PlayerReplaced(table, u, m)
    BY <1>5 DEF Replacing
  <2> QED BY <1>0, <1>5, <2>1, ReplacedCoins, RobotAssumption DEF Replacing
<1>6. CASE Settlement
  BY <1>6 DEF Settlement, Settled
<1> QED BY <1>1, <1>2, <1>3, <1>4, <1>5, <1>6 DEF CoinStep

\* A fresh table has no coins.
LEMMA InitCoins ==
    ASSUME Init
    PROVE  CInv
<1>1. HInv /\ TInv
  BY InitInv, InitHand, InitTyped DEF HInv
<1>2. Numbers(table) /\ Quiet(table) /\ Idle(table)
  BY DEF Init, FreshTable, Fields, Numbers, Quiet, Idle
<1>3. acct \in [User -> Int]
  BY MoneyAssumption DEF Init
<1> QED BY <1>1, <1>2, <1>3 DEF CInv, Coins

\* Every step keeps the coin invariant.
LEMMA NextCInv ==
    ASSUME CInv, MaxNum > 2, [Next]_vars
    PROVE  CInv'
<1>1. HInv' /\ TInv'
  BY NextPlays, NextTyped DEF CInv
<1>2. Coins(table') /\ acct' \in [User -> Int]
  BY NextCoins, CoinStepCoins
<1> QED BY <1>1, <1>2 DEF CInv

\* Coins are whole numbers throughout, whoever is not in the hand has staked
\* none, and between two hands there is no pool.
THEOREM CInvHolds ==
    ASSUME MaxNum > 2
    PROVE  Spec => []CInv
<1>1. CInv /\ [Next]_vars => CInv'
  BY NextCInv
<1>2. Init => CInv
  BY InitCoins
<1> QED BY <1>1, <1>2, PTL DEF Spec

-----------------------------------------------------------------------------
(* The coins of a player and his account. *)

\* Each of these steps keeps purse and account of every user together.
LEMMA StepLedger ==
    ASSUME CInv, CoinStep, LedgerAgrees
    PROVE  LedgerAgrees'
<1> DEFINE Agree(v) == table'.money[v] + table'.bet[v] = acct'[v]
<1> SUFFICES ASSUME NEW v \in InTable(table') \ Robots PROVE Agree(v)
  BY DEF LedgerAgrees
<1>0. /\ Coins(table) /\ acct \in [User -> Int] /\ v \in User
      /\ table.money[v] \in Int /\ table.bet[v] \in Int
      /\ Coins(table')
  BY CoinStepCoins DEF CInv, InTable, Coins, Numbers
<1>1. v \in InTable(table) => table.money[v] + table.bet[v] = acct[v]
  BY DEF LedgerAgrees
<1>2. CASE Staking
  <2>1. CASE SameCoins(table, table')
    BY <1>1, <1>2, <2>1 DEF Staking, SameCoins, InTable
  <2>2. CASE \E u \in Players(table) : \E x \in Int : Staked(table, table', u, x)
    <3>1. PICK u \in Players(table), x \in Int : Staked(table, table', u, x)
      BY <2>2
    <3>2. /\ table'.money = [table.money EXCEPT ![u] = @ - x]
          /\ table'.bet = [table.bet EXCEPT ![u] = @ + x]
          /\ v \in InTable(table)
      BY <3>1 DEF Staked, InTable
    <3>3. table'.money[v] + table'.bet[v] = table.money[v] + table.bet[v]
      BY <1>0, <3>2 DEF Coins, Numbers
    <3> QED BY <1>1, <1>2, <3>2, <3>3 DEF Staking
  <2> QED BY <1>2, <2>1, <2>2 DEF Staking
<1>3. CASE Lobbying
  <2>1. Moved(table, table')
    BY <1>3, LobbyingMoved
  <2> QED BY <1>1, <1>3, <2>1 DEF Moved, Lobbying
<1>4. CASE Leaving
  <2>1. PICK u \in Players(table) :
          /\ Left(table, table', u)
          /\ acct' = IF u \in Robots THEN acct
                     ELSE [acct EXCEPT ![u] = @ - table.bet[u] - Tax]
    BY <1>4 DEF Leaving
  <2>2. v # u /\ v \in InTable(table)
    BY <2>1 DEF Left
  <2>3. table'.money[v] = table.money[v] /\ table'.bet[v] = table.bet[v]
    BY <1>0, <2>1, <2>2 DEF Left, Coins, Numbers
  <2>4. acct'[v] = acct[v]
    BY <1>0, <2>1, <2>2
  <2> QED BY <1>1, <2>2, <2>3, <2>4
<1>5. CASE Coming
  <2>1. PICK u \in User, m \in Int :
          /\ Came(table, table', u, m) /\ (u \notin Robots => m = acct[u])
    BY <1>5 DEF Coming
  <2>2. /\ table'.money = [table.money EXCEPT ![u] = m]
        /\ table'.bet = table.bet /\ u \notin InTable(table)
        /\ InTable(table') = InTable(table) \cup {u}
    BY <2>1 DEF Came, SameStakes
  <2>3. acct' = acct
    BY <1>5 DEF Coming
  <2>4. CASE v = u
    <3>1. table.bet[v] = 0
      BY <1>0, <2>2, <2>4 DEF Coins, Quiet, Players
    <3>2. table'.money[v] = acct[v]
      BY <1>0, <2>1, <2>2, <2>4 DEF Coins, Numbers
    <3> QED BY <1>0, <2>2, <2>3, <3>1, <3>2
  <2>5. CASE v # u
    BY <1>0, <1>1, <2>2, <2>3, <2>5 DEF Coins, Numbers
  <2> QED BY <2>4, <2>5
<1>6. CASE Replacing
  <2>1. PICK u \in Robots, m \in Int : table' = PlayerReplaced(table, u, m)
    BY <1>6 DEF Replacing
  <2>2. /\ InTable(table') = InTable(table)
        /\ table'.money = [table.money EXCEPT ![u] = m]
        /\ table'.bet = [table.bet EXCEPT ![u] = 0]
    <3>1. u \in User /\ Typed(table)
      BY RobotAssumption DEF CInv, TInv
    <3> QED BY <1>0, <2>1, <3>1, ReplacedCoins
  <2> QED BY <1>0, <1>1, <1>6, <2>2 DEF Replacing, Coins, Numbers
<1>7. CASE Settlement
  <2>1. /\ InTable(table') \subseteq InTable(table) /\ table'.bet[v] = 0
        /\ table'.money[v] = table.money[v] + table.bet[v]
                               + Booked(HandOver(table), v)
    BY <1>0, <1>7 DEF Settlement, Settled
  <2>2. acct'[v] = acct[v] + Booked(HandOver(table), v)
    BY <1>0, <1>7 DEF Settlement
  <2>3. table'.money[v] \in Int
    BY <1>0 DEF Coins, Numbers
  <2> QED BY <1>1, <2>1, <2>2, <2>3
<1> QED BY <1>2, <1>3, <1>4, <1>5, <1>6, <1>7 DEF CoinStep

\* What a player has at the table, with what he has bet on the running hand, is
\* what MoneyServer has of him: every bet, ante, fold, leave and settlement is
\* booked on both sides alike (playerBetCoin, LeaveProcess, calcCoin).
THEOREM LedgerAgreesHolds ==
    ASSUME MaxNum > 2
    PROVE  Spec => []LedgerAgrees
<1>1. Init => LedgerAgrees
  BY SeatAssumption DEF Init, FreshTable, LedgerAgrees, InTable, Seats, NoSeat
<1>2. CInv /\ LedgerAgrees /\ [Next]_vars => LedgerAgrees'
  BY NextCoins, StepLedger
<1>3. Spec => []CInv
  BY CInvHolds
<1> QED BY <1>1, <1>2, <1>3, PTL DEF Spec

-----------------------------------------------------------------------------
(* The pool and the bets. *)

\* No robot's server restarts while the robot is in a hand.
RobotsStay == \A u \in Robots : ~ (Playing(u) /\ RobotReplaced(u))

\* Each of these steps keeps the pool equal to the bets and the forfeits,
\* unless it replaces a robot in the hand.
LEMMA StepBalanced ==
    ASSUME CInv, CoinStep, RobotsStay, Balanced(table)
    PROVE  Balanced(table')
<1>0. Coins(table) /\ Typed(table)
  BY DEF CInv, TInv
<1>1. CASE Staking
  <2>1. CASE SameCoins(table, table')
    BY <2>1 DEF SameCoins, Balanced, IsActive
  <2>2. CASE \E u \in Players(table) : \E x \in Int : Staked(table, table', u, x)
    <3>1. PICK u \in Players(table), x \in Int : Staked(table, table', u, x)
      BY <2>2
    <3>2. IsActive(table) /\ u \in User
      BY <3>1, StakingActive DEF Players, InTable
    <3> QED BY <1>0, <3>1, <3>2, StakedBalances
  <2> QED BY <1>1, <2>1, <2>2 DEF Staking
<1>2. CASE Lobbying
  BY <1>2, LobbyingMoved DEF Moved
<1>3. CASE Leaving
  <2>1. PICK u \in Players(table) : Left(table, table', u) /\ IsActive(table)
    BY <1>3 DEF Leaving
  <2>2. u \in User
    BY DEF Players, InTable
  <2> QED BY <1>0, <2>1, <2>2, LeftBalances
<1>4. CASE Coming
  BY <1>4 DEF Coming, Came, SameStakes, Balanced
<1>5. CASE Replacing
  <2>1. PICK u \in Robots, m \in Int :
          RobotReplaced(u) /\ table' = PlayerReplaced(table, u, m)
    BY <1>5 DEF Replacing
  <2>2. u \in User /\ u \notin Players(table)
    BY <2>1, RobotAssumption DEF RobotsStay, Playing, RobotReplaced, Players
  <2>3. /\ table'.bet = [table.bet EXCEPT ![u] = 0]
        /\ IsActive(table') <=> IsActive(table)
        /\ table'.pool = table.pool /\ table'.leaveSum = table.leaveSum
    BY <1>0, <2>1, <2>2, ReplacedCoins
  <2>4. table'.bet = table.bet
    BY <1>0, <2>2, <2>3 DEF Coins, Quiet, Numbers
  <2> QED BY <2>3, <2>4 DEF Balanced
<1>6. CASE Settlement
  BY <1>6 DEF Settlement, Settled, Balanced
<1> QED BY <1>1, <1>2, <1>3, <1>4, <1>5, <1>6 DEF CoinStep

\* Nobody has a bet but those at the table.
LEMMA BetsAtTable ==
    ASSUME NEW s, Coins(s)
    PROVE  SumOver(s.bet, User) = SumOver(s.bet, InTable(s))
<1> DEFINE here == InTable(s)
<1>1. IsFiniteSet(here) /\ here \subseteq User
  BY InTableFinite DEF InTable
<1>2. \A u \in User \ here : s.bet[u] = 0
  BY DEF Coins, Quiet, Players
<1> HIDE DEF here
<1>3. IsFiniteSet(User \ here)
  BY UserAssumption, FS_Subset
<1>4. /\ SumOver(s.bet, User)
           = SumOver(s.bet, here) + SumOver(s.bet, User \ here)
      /\ SumOver(s.bet, here) \in Int
  BY <1>1, UserAssumption, SumSplits, SumType DEF Coins, Numbers
<1>5. SumOver(s.bet, User \ here) = 0 * Cardinality(User \ here)
  BY <1>2, <1>3, SumOfSame
<1>6. 0 * Cardinality(User \ here) = 0
  BY <1>3, FS_CardinalityType
<1> QED BY <1>4, <1>5, <1>6 DEF here

\* m_lCurrSumbetCoin is the sum of what the players at the table and those who
\* left the hand have bet: no fold, leave, time-out or login loses a coin of it
\* or makes one (playerBetCoin, LeaveProcess, gameStart).  A robot whose server
\* restarts in a hand is the one exception (playerComming copies no bets).
THEOREM PoolMatchesBetsHolds ==
    ASSUME MaxNum > 2
    PROVE  Spec /\ [][RobotsStay]_vars => []PoolMatchesBets
<1>1. Init => Balanced(table)
  BY DEF Init, FreshTable, Balanced, IsActive
<1>2. CInv /\ Balanced(table) /\ [Next]_vars /\ [RobotsStay]_vars
        => Balanced(table)'
  <2> SUFFICES ASSUME CInv, Balanced(table), [Next]_vars, [RobotsStay]_vars
               PROVE  Balanced(table')
    OBVIOUS
  <2>1. CASE UNCHANGED vars
    BY <2>1 DEF vars
  <2>2. CASE RobotsStay
    BY <2>2, NextCoins, StepBalanced
  <2> QED BY <2>1, <2>2
<1>3. CInv /\ Balanced(table) => PoolMatchesBets
  <2>1. CInv => SumOver(table.bet, User) = SumOver(table.bet, InTable(table))
    BY BetsAtTable DEF CInv
  <2> QED BY <2>1 DEF PoolMatchesBets, Balanced, SumOver
<1>4. Spec => []CInv
  BY CInvHolds
<1> QED BY <1>1, <1>2, <1>3, <1>4, PTL DEF Spec

-----------------------------------------------------------------------------
(* Debts: only an all-in may cost more coins than a player has. *)

NonNeg(s) ==
    /\ \A u \in User : s.bet[u] >= 0 /\ s.allinCoin[u] >= 0
    /\ s.betMax >= 0 /\ s.hasAllin >= 0 /\ s.pool >= 0 /\ s.leaveSum >= 0

\* Who may still stake: the card holders, and the one whose turn it is.
Stakers(s) == Holders(s) \cup {v \in Players(s) : v = s.currBet}

\* A card holder who owes is all in, and the stake of that all-in is everybody's.
Covered(s) ==
    \A v \in Holders(s) : s.money[v] < 0 =>
        /\ s.allin[v] /\ s.hasAllin > 0 /\ s.canAllin
        /\ \A w \in Stakers(s) : s.allinCoin[w] = s.hasAllin

\* The types these proofs need of a hand that is bet on
Playable(s) ==
    /\ Numbers(s) /\ IsActive(s)
    /\ s.round \in 0..MaxRound
    /\ s.seat \in [User -> Seats \cup {NoSeat}]
    /\ s.card \in [User -> CardStatus] /\ s.allin \in [User -> BOOLEAN]
    /\ NonNeg(s)

Sound(s) == Playable(s) /\ Covered(s)

\* What a player has done, and what the round has come to, stands.
Onward(s, t) ==
    /\ t.round >= s.round
    /\ t.seat = s.seat /\ t.pst = s.pst /\ t.status = s.status
    /\ \A u \in User :
         /\ t.bet[u] >= s.bet[u]
         /\ s.allin[u] => t.allin[u]
         /\ s.card[u] = "KNOWN" => t.card[u] # "UNKNOWN"
         /\ s.card[u] = "DISCARD" => t.card[u] = "DISCARD"

\* The two tables differ at most in what canAllin, the offers, the timers and
\* the notes are.
AsPlayed(s, t) ==
    /\ DOMAIN t = DOMAIN s
    /\ t.status = s.status /\ t.seat = s.seat /\ t.pst = s.pst
    /\ t.money = s.money /\ t.bet = s.bet
    /\ t.pool = s.pool /\ t.leaveSum = s.leaveSum
    /\ t.betMax = s.betMax /\ t.hasAllin = s.hasAllin
    /\ t.allin = s.allin /\ t.allinCoin = s.allinCoin
    /\ t.card = s.card /\ t.round = s.round /\ t.currBet = s.currBet

\* Going on in a hand is transitive.
LEMMA OnwardOn ==
    ASSUME NEW r, NEW s, NEW t, Playable(r), Playable(s), Playable(t),
           Onward(r, s), Onward(s, t)
    PROVE  Onward(r, t)
<1>1. t.round >= r.round
  BY DEF Onward, Playable
<1>2. \A u \in User : t.bet[u] >= r.bet[u]
  BY DEF Onward, Playable, Numbers
<1>3. \A u \in User : r.allin[u] => t.allin[u]
  BY Zenon DEF Onward
<1>4. \A u \in User : /\ r.card[u] = "KNOWN" => t.card[u] # "UNKNOWN"
                      /\ r.card[u] = "DISCARD" => t.card[u] = "DISCARD"
  <2> SUFFICES ASSUME NEW u \in User
               PROVE  /\ r.card[u] = "KNOWN" => t.card[u] # "UNKNOWN"
                      /\ r.card[u] = "DISCARD" => t.card[u] = "DISCARD"
    OBVIOUS
  <2>1. s.card[u] \in {"DISCARD", "UNKNOWN", "KNOWN"}
    BY DEF Playable, CardStatus
  <2>2. /\ r.card[u] = "KNOWN" => s.card[u] # "UNKNOWN"
        /\ r.card[u] = "DISCARD" => s.card[u] = "DISCARD"
        /\ s.card[u] = "KNOWN" => t.card[u] # "UNKNOWN"
        /\ s.card[u] = "DISCARD" => t.card[u] = "DISCARD"
    BY Zenon DEF Onward
  <2>3. s.card[u] = "DISCARD" => t.card[u] # "UNKNOWN"
    BY <2>2
  <2> QED BY <2>1, <2>2, <2>3
<1>5. t.seat = r.seat /\ t.pst = r.pst /\ t.status = r.status
  BY DEF Onward
<1> QED BY <1>1, <1>2, <1>3, <1>4, <1>5, Zenon DEF Onward

\* What changes no coins and no cards goes on in the hand.
LEMMA AsPlayedPlayable ==
    ASSUME NEW s, NEW t, Playable(s), AsPlayed(s, t)
    PROVE  /\ Playable(t) /\ Onward(s, t)
           /\ Holders(t) = Holders(s) /\ Stakers(t) = Stakers(s)
<1>1. Holders(t) = Holders(s) /\ Players(t) = Players(s)
  BY SamePlayers DEF AsPlayed, Holders
<1>2. NonNeg(t) /\ Numbers(t) /\ IsActive(t)
  BY DEF Playable, AsPlayed, NonNeg, Numbers, IsActive
<1>3. Playable(t)
  BY <1>2 DEF Playable, AsPlayed
<1>4. t.round >= s.round /\ \A u \in User : t.bet[u] >= s.bet[u]
  BY DEF Playable, AsPlayed, Numbers
<1>5. \A u \in User : /\ s.allin[u] => t.allin[u]
                      /\ s.card[u] = "KNOWN" => t.card[u] # "UNKNOWN"
                      /\ s.card[u] = "DISCARD" => t.card[u] = "DISCARD"
  BY DEF AsPlayed
<1>6. Onward(s, t)
  BY <1>4, <1>5 DEF Onward, AsPlayed
<1> QED BY <1>1, <1>3, <1>6 DEF Stakers, AsPlayed

\* It keeps the debts covered as well, unless it takes an all-in back.
LEMMA AsPlayedSound ==
    ASSUME NEW s, NEW t, Sound(s), AsPlayed(s, t),
           HasSomeOneAllin(s) /\ s.canAllin => t.canAllin
    PROVE  Sound(t) /\ Onward(s, t)
<1>1. /\ Playable(t) /\ Onward(s, t)
      /\ Holders(t) = Holders(s) /\ Stakers(t) = Stakers(s)
  BY AsPlayedPlayable DEF Sound
<1>2. Covered(t)
  <2> SUFFICES ASSUME NEW v \in Holders(s), s.money[v] < 0
               PROVE  /\ t.allin[v] /\ t.hasAllin > 0 /\ t.canAllin
                      /\ \A w \in Stakers(s) : t.allinCoin[w] = t.hasAllin
    BY <1>1 DEF Covered, AsPlayed
  <2>1. /\ s.allin[v] /\ s.hasAllin > 0 /\ s.canAllin
        /\ \A w \in Stakers(s) : s.allinCoin[w] = s.hasAllin
    BY DEF Sound, Covered
  <2>2. HasSomeOneAllin(s)
    BY <2>1, Zenon DEF HasSomeOneAllin, Sound, Playable
  <2>3. t.canAllin
    BY <2>1, <2>2
  <2>4. t.allin[v]
    BY <2>1, Zenon DEF AsPlayed
  <2> QED BY <2>1, <2>3, <2>4 DEF AsPlayed
<1> QED BY <1>1, <1>2 DEF Sound

\* setPlayerOptype changes offers only, and canAllin only where no all-in
\* stands.
LEMMA SetPlayerOptypePlayed ==
    ASSUME NEW s, NEW u, Numbers(s)
    PROVE  LET t == SetPlayerOptype(s, u)
           IN /\ AsPlayed(s, t)
              /\ HasSomeOneAllin(s) /\ s.canAllin => t.canAllin
              /\ HasSomeOneAllin(s) /\ u \in Holders(s) /\ ~ IsCanGameOver(s)
                   => t.canAllin
<1> DEFINE t == SetPlayerOptype(s, u)
<1>1. AsPlayed(s, t)
  BY DEF SetPlayerOptype, Numbers, Fields, FreshTable, AsPlayed
<1>2. \/ t.canAllin = s.canAllin /\ (u \notin InTable(s) \/ IsCanGameOver(s))
      \/ t.canAllin = HasSomeOneAllin(s)
      \/ t.canAllin = (s.canAllin \/ (u \in Holders(s)
                         /\ (HasSomeOneAllin(s)
                             \/ (s.round >= AllinRound
                                 /\ (BetMaxAllin => s.betMax >= MaxLimit)))))
  BY DEF SetPlayerOptype, Numbers, Fields, FreshTable
<1>3. Holders(s) \subseteq InTable(s)
  BY DEF Holders
<1> HIDE DEF t
<1>4. HasSomeOneAllin(s) /\ s.canAllin => t.canAllin
  BY <1>2
<1>5. HasSomeOneAllin(s) /\ u \in Holders(s) /\ ~ IsCanGameOver(s)
        => t.canAllin
  BY <1>2, <1>3
<1> QED BY <1>1, <1>4, <1>5 DEF t

\* setPlayerOptype keeps the debts covered.
LEMMA SetPlayerOptypeSound ==
    ASSUME NEW s, NEW u, Sound(s)
    PROVE  Sound(SetPlayerOptype(s, u)) /\ Onward(s, SetPlayerOptype(s, u))
<1>1. Numbers(s)
  BY DEF Sound, Playable
<1> QED BY <1>1, SetPlayerOptypePlayed, AsPlayedSound

\* The stake of an all-in is never negative, and once somebody is all in it is
\* that all-in's.
LEMMA StakeNonNeg ==
    ASSUME NEW s, Numbers(s), s.hasAllin >= 0, Covered(s)
    PROVE  /\ AllinStake(s) \in Int /\ AllinStake(s) >= 0
           /\ s.hasAllin > 0 => AllinStake(s) = s.hasAllin
<1> DEFINE purses == {s.money[u] : u \in Holders(s)}
           S == {MaxAllIn} \cup purses
<1>1. CASE s.hasAllin > 0
  BY <1>1 DEF AllinStake, Numbers
<1>2. CASE ~ (s.hasAllin > 0)
  <2>1. IsFiniteSet(purses)
    BY HoldersFinite, ImageFinite
  <2>2. IsFiniteSet(S) /\ S # {}
    <3> HIDE DEF purses
    <3>1. IsFiniteSet({MaxAllIn})
      BY FS_Singleton
    <3> QED BY <2>1, <3>1, FS_Union
  <2>3. \A x \in S : x \in Int /\ x >= 0
    BY <1>2, CoinAssumption
    DEF Covered, Numbers, Holders, InTable
  <2> HIDE DEF S
  <2>4. Min(S) \in S
    BY <2>2, <2>3, MinOfInts
  <2>5. AllinStake(s) = Min(S)
    BY <1>2 DEF AllinStake, S
  <2> QED BY <1>2, <2>3, <2>4, <2>5
<1> QED BY <1>1, <1>2

\* setPlayerlimitcoin keeps the debts covered.
LEMMA SetPlayerLimitCoinSound ==
    ASSUME NEW s, Sound(s)
    PROVE  LET t == SetPlayerLimitCoin(s)
           IN Sound(t) /\ Onward(s, t)
<1> DEFINE new == [u \in User |-> IF u \in Holders(s) THEN AllinStake(s)
                                  ELSE s.allinCoin[u]]
           t == [s EXCEPT !.allinCoin = new]
<1>1. SetPlayerLimitCoin(s) = IF ~ s.canAllin THEN s ELSE t
  BY DEF SetPlayerLimitCoin
<1>2. Numbers(s) /\ DOMAIN s = Fields /\ NonNeg(s) /\ Playable(s)
  BY DEF Sound, Playable, Numbers
<1>3. /\ new \in [User -> Int] /\ \A u \in User : new[u] >= 0
      /\ \A u \in User : s.allinCoin[u] = s.hasAllin /\ s.hasAllin > 0
                           => new[u] = s.hasAllin
  BY <1>2, StakeNonNeg DEF Sound, Numbers, NonNeg
<1> HIDE DEF new
<1>4. /\ DOMAIN t = Fields
      /\ t.status = s.status /\ t.seat = s.seat /\ t.pst = s.pst
      /\ t.money = s.money /\ t.bet = s.bet
      /\ t.pool = s.pool /\ t.leaveSum = s.leaveSum
      /\ t.betMax = s.betMax /\ t.hasAllin = s.hasAllin
      /\ t.allin = s.allin /\ t.allinCoin = new /\ t.canAllin = s.canAllin
      /\ t.card = s.card /\ t.round = s.round /\ t.currBet = s.currBet
  BY <1>2 DEF Fields, FreshTable
<1> HIDE DEF t
<1>5. Holders(t) = Holders(s) /\ Stakers(t) = Stakers(s)
  BY <1>4 DEF Holders, Stakers, Players, InTable
<1>6. Playable(t)
  <2>1. Numbers(t) /\ NonNeg(t) /\ IsActive(t)
    BY <1>2, <1>3, <1>4 DEF Numbers, NonNeg, IsActive, Playable
  <2> QED BY <1>2, <1>4, <2>1 DEF Playable
<1>7. Covered(t)
  <2> SUFFICES ASSUME NEW v \in Holders(s), s.money[v] < 0
               PROVE  /\ t.allin[v] /\ t.hasAllin > 0 /\ t.canAllin
                      /\ \A w \in Stakers(s) : t.allinCoin[w] = t.hasAllin
    BY <1>4, <1>5 DEF Covered
  <2>1. /\ s.allin[v] /\ s.hasAllin > 0 /\ s.canAllin
        /\ \A w \in Stakers(s) : s.allinCoin[w] = s.hasAllin
    BY DEF Sound, Covered
  <2>2. Stakers(s) \subseteq User
    BY DEF Stakers, Holders, Players, InTable
  <2>3. \A w \in Stakers(s) : new[w] = s.hasAllin
    BY <1>3, <2>1, <2>2
  <2>4. t.allin[v] /\ t.canAllin
    BY <1>4, <2>1, Zenon
  <2> QED BY <1>4, <2>1, <2>3, <2>4
<1>8. Onward(s, t)
  <2>1. t.round >= s.round /\ \A u \in User : t.bet[u] >= s.bet[u]
    BY <1>2, <1>4 DEF Playable, Numbers
  <2>2. \A u \in User : /\ s.allin[u] => t.allin[u]
                        /\ s.card[u] = "KNOWN" => t.card[u] # "UNKNOWN"
                        /\ s.card[u] = "DISCARD" => t.card[u] = "DISCARD"
    BY <1>4
  <2> QED BY <1>4, <2>1, <2>2 DEF Onward
<1>9. Onward(s, s)
  <2>1. AsPlayed(s, s)
    BY DEF AsPlayed
  <2> QED BY <1>2, <2>1, AsPlayedPlayable
<1>10. Sound(t)
  BY <1>6, <1>7 DEF Sound
<1> QED BY <1>1, <1>8, <1>9, <1>10 DEF t, new

\* A player who loses the cards goes on in the hand, and the debts of the
\* others stay covered.
LEMMA DiscardPlayable ==
    ASSUME NEW s, NEW u, Playable(s)
    PROVE  LET t == Discard(s, u)
           IN Playable(t) /\ Onward(s, t) /\ (Covered(s) => Covered(t))
<1> DEFINE t == Discard(s, u)
<1>1. Numbers(s) /\ Playable(s) /\ s.card \in [User -> CardStatus]
  BY DEF Playable
<1>2. /\ DOMAIN t = DOMAIN s
      /\ t.status = s.status /\ t.seat = s.seat /\ t.pst = s.pst
      /\ t.money = s.money /\ t.bet = s.bet
      /\ t.pool = s.pool /\ t.leaveSum = s.leaveSum
      /\ t.betMax = s.betMax /\ t.hasAllin = s.hasAllin
      /\ t.allin = s.allin /\ t.allinCoin = s.allinCoin
      /\ t.canAllin = s.canAllin
      /\ t.round = s.round /\ t.currBet = s.currBet
      /\ t.card = [s.card EXCEPT ![u] = "DISCARD"]
  BY <1>1 DEF Discard, Numbers, Fields, FreshTable
<1> HIDE DEF t
<1>3. /\ t.card \in [User -> CardStatus]
      /\ \A v \in User : t.card[v] = s.card[v] \/ t.card[v] = "DISCARD"
  BY <1>1, <1>2 DEF CardStatus
<1>4. Holders(t) \subseteq Holders(s) /\ Stakers(t) \subseteq Stakers(s)
  BY <1>2, <1>3 DEF Holders, Stakers, Players, InTable
<1>5. Playable(t)
  <2>1. Numbers(t) /\ NonNeg(t) /\ IsActive(t)
    BY <1>1, <1>2 DEF Numbers, NonNeg, IsActive, Playable
  <2> QED BY <1>1, <1>2, <1>3, <2>1 DEF Playable
<1>6. ASSUME Covered(s) PROVE Covered(t)
  <2> SUFFICES ASSUME NEW v \in Holders(t), s.money[v] < 0
               PROVE  /\ t.allin[v] /\ t.hasAllin > 0 /\ t.canAllin
                      /\ \A w \in Stakers(t) : t.allinCoin[w] = t.hasAllin
    BY <1>2 DEF Covered
  <2>1. /\ s.allin[v] /\ s.hasAllin > 0 /\ s.canAllin
        /\ \A w \in Stakers(s) : s.allinCoin[w] = s.hasAllin
    BY <1>4, <1>6 DEF Covered
  <2>2. t.allin[v] /\ t.canAllin
    BY <1>2, <2>1, Zenon
  <2> QED BY <1>2, <1>4, <2>1, <2>2
<1>7. Onward(s, t)
  <2>1. t.round >= s.round /\ \A v \in User : t.bet[v] >= s.bet[v]
    BY <1>1, <1>2 DEF Playable, Numbers
  <2>2. \A v \in User : s.allin[v] => t.allin[v]
    BY <1>2
  <2>3. \A v \in User : /\ s.card[v] = "KNOWN" => t.card[v] # "UNKNOWN"
                        /\ s.card[v] = "DISCARD" => t.card[v] = "DISCARD"
    BY <1>3
  <2> QED BY <1>2, <2>1, <2>2, <2>3, Zenon DEF Onward
<1> QED BY <1>5, <1>6, <1>7 DEF t

\* Taking a player's cards keeps the debts covered.
LEMMA DiscardSound ==
    ASSUME NEW s, NEW u, Sound(s)
    PROVE  LET t == Discard(s, u)
           IN Sound(t) /\ Onward(s, t)
BY DiscardPlayable DEF Sound

\* What only steers the hand keeps the debts covered.
LEMMA SteeringSound ==
    ASSUME NEW s, NEW u, Sound(s)
    PROVE  /\ Sound(SetNextFirst(s, u)) /\ Onward(s, SetNextFirst(s, u))
           /\ Sound(GameOver(s)) /\ Onward(s, GameOver(s))
           /\ Sound(GameOverIfDecided(s)) /\ Onward(s, GameOverIfDecided(s))
<1>1. Numbers(s)
  BY DEF Sound, Playable
<1>2. /\ AsPlayed(s, SetNextFirst(s, u))
      /\ SetNextFirst(s, u).canAllin = s.canAllin
  BY <1>1 DEF SetNextFirst, Numbers, Fields, FreshTable, AsPlayed
<1>3. AsPlayed(s, GameOver(s)) /\ GameOver(s).canAllin = s.canAllin
  BY <1>1 DEF GameOver, Numbers, Fields, FreshTable, AsPlayed
<1>4. Sound(s) /\ Onward(s, s)
  <2>1. AsPlayed(s, s)
    BY DEF AsPlayed
  <2> QED BY <2>1, AsPlayedSound
<1>5. Sound(SetNextFirst(s, u)) /\ Onward(s, SetNextFirst(s, u))
  BY <1>2, AsPlayedSound
<1>6. Sound(GameOver(s)) /\ Onward(s, GameOver(s))
  BY <1>3, AsPlayedSound
<1> QED BY <1>4, <1>5, <1>6 DEF GameOverIfDecided

\* The turn, and maybe the round, has passed on.
Turned(s, t) ==
    /\ DOMAIN t = DOMAIN s
    /\ t.status = s.status /\ t.seat = s.seat /\ t.pst = s.pst
    /\ t.money = s.money /\ t.bet = s.bet
    /\ t.pool = s.pool /\ t.leaveSum = s.leaveSum
    /\ t.betMax = s.betMax /\ t.hasAllin = s.hasAllin
    /\ t.allin = s.allin /\ t.allinCoin = s.allinCoin
    /\ t.card = s.card /\ t.canAllin = s.canAllin
    /\ t.round \in 0..MaxRound /\ t.round >= s.round

\* Handing on the turn keeps the debts covered while no one else gets to
\* stake.
LEMMA TurnedSound ==
    ASSUME NEW s, NEW t, Playable(s), Turned(s, t)
    PROVE  /\ Playable(t) /\ Onward(s, t) /\ Holders(t) = Holders(s)
           /\ Covered(s) /\ Stakers(t) \subseteq Stakers(s) => Covered(t)
<1>1. Holders(t) = Holders(s)
  BY DEF Turned, Holders, InTable
<1>2. Numbers(t) /\ NonNeg(t) /\ IsActive(t)
  BY DEF Turned, Numbers, NonNeg, IsActive, Playable
<1>3. Playable(t)
  BY <1>2 DEF Playable, Turned
<1>4. \A v \in User : t.bet[v] >= s.bet[v]
  BY DEF Playable, Numbers, Turned
<1>5. \A v \in User : /\ s.allin[v] => t.allin[v]
                      /\ s.card[v] = "KNOWN" => t.card[v] # "UNKNOWN"
                      /\ s.card[v] = "DISCARD" => t.card[v] = "DISCARD"
  BY DEF Turned
<1>6. Onward(s, t)
  BY <1>4, <1>5 DEF Onward, Turned
<1>7. ASSUME Covered(s), Stakers(t) \subseteq Stakers(s) PROVE Covered(t)
  <2> SUFFICES ASSUME NEW v \in Holders(s), s.money[v] < 0
               PROVE  /\ t.allin[v] /\ t.hasAllin > 0 /\ t.canAllin
                      /\ \A w \in Stakers(t) : t.allinCoin[w] = t.hasAllin
    BY <1>1 DEF Covered, Turned
  <2>1. /\ s.allin[v] /\ s.hasAllin > 0 /\ s.canAllin
        /\ \A w \in Stakers(s) : s.allinCoin[w] = s.hasAllin
    BY <1>7 DEF Covered
  <2>2. t.allin[v] /\ t.canAllin
    BY <2>1, Zenon DEF Turned
  <2> QED BY <1>7, <2>1, <2>2 DEF Turned
<1> QED BY <1>1, <1>3, <1>6, <1>7

\* u has gone all in with more than he had, and the others do not know it yet.
Owing(s, u) ==
    /\ u \in Holders(s) /\ s.allin[u] /\ s.hasAllin > 0
    /\ \A v \in Holders(s) : s.money[v] < 0 => s.allin[v]

\* The turn passes: a debt is covered, or becomes so, or ends the hand.
LEMMA GetNextBetPlayerSound ==
    ASSUME NEW s, NEW u \in User, Playable(s), Covered(s) \/ Owing(s, u)
    PROVE  LET t == GetNextBetPlayer(s, u)
           IN /\ Playable(t) /\ Onward(s, t)
              /\ Covered(s) => Covered(t)
              /\ Covered(t) \/ t.over \/ IsCanGameOver(t)
<1> DEFINE able == AbleToBet(s, u)
           next == NextAfter(s, u, able)
           r == IF s.seat[next] = s.first THEN s.round + 1 ELSE s.round
           acted == [s EXCEPT !.betT = None,
                              !.tmo[u] = IF s.round # 1 THEN 0 ELSE @]
           turn == [acted EXCEPT !.round = r, !.currBet = next]
           asked == SetPlayerOptype(turn, next)
           clocked == [asked EXCEPT !.betT = next]
           last == SetPlayerOptype(acted, u)
           over == GameOver(acted)
           late == [over EXCEPT !.round = MaxRound]
           t == GetNextBetPlayer(s, u)
<1>1. t = IF able = {} THEN last
          ELSE IF PastLastRound(r) THEN late
          ELSE SetPlayerLimitCoin(clocked)
  BY DEF GetNextBetPlayer
<1>2. /\ Numbers(s) /\ DOMAIN s = Fields /\ IsActive(s) /\ MaxRound \in Nat
      /\ s.round \in 0..MaxRound
  BY RoundAssumption DEF Playable, Numbers
<1>3. able # {} => next \in able
  <2>1. \A v \in User : s.seat[v] \in Int
    BY SeatAssumption DEF Playable, Seats, NoSeat
  <2>2. able \subseteq User
    BY DEF AbleToBet, Holders, InTable
  <2> HIDE DEF able
  <2> QED BY <2>1, <2>2, FirstFromIn DEF NextAfter
<1>4. /\ \A v \in Holders(s) \ {u} : v \in able \/ s.allin[v]
      /\ able \subseteq Holders(s)
  BY DEF AbleToBet
<1> HIDE DEF able, next
<1>5. AsPlayed(s, acted) /\ acted.canAllin = s.canAllin
  BY <1>2 DEF AsPlayed, Fields, FreshTable
<1> HIDE DEF acted, t
<1>6. /\ Playable(acted) /\ Onward(s, acted)
      /\ Holders(acted) = Holders(s) /\ Stakers(acted) = Stakers(s)
  BY <1>5, AsPlayedPlayable
<1>7. Covered(s) => Sound(acted)
  BY <1>5, AsPlayedSound DEF Sound
<1>8. Owing(s, u) => Owing(acted, u)
  BY <1>5, <1>6, Zenon DEF Owing, AsPlayed
<1>9. CASE able = {}
  <2>1. AsPlayed(acted, last)
    BY <1>6, SetPlayerOptypePlayed DEF Playable
  <2>2. /\ Playable(last) /\ Onward(acted, last)
        /\ Holders(last) = Holders(acted)
    BY <1>6, <2>1, AsPlayedPlayable
  <2>3. Covered(s) => Covered(last)
    BY <1>7, SetPlayerOptypeSound DEF Sound
  <2> HIDE DEF last
  <2>4. ASSUME Owing(s, u) PROVE IsCanGameOver(last)
    <3>1. \A v \in Holders(s) : s.allin[v]
      BY <1>4, <1>9, <2>4, Zenon DEF Owing
    <3>2. last.allin = s.allin /\ Holders(last) = Holders(s)
      BY <1>5, <1>6, <2>1, <2>2 DEF AsPlayed
    <3> QED BY <2>2, <3>1, <3>2, Zenon DEF IsCanGameOver, Playable
  <2> QED BY <1>1, <1>6, <1>9, <2>2, <2>3, <2>4, OnwardOn DEF t
<1>10. CASE able # {} /\ PastLastRound(r)
  <2>1. AsPlayed(acted, over) /\ over.canAllin = acted.canAllin /\ over.over
    BY <1>6 DEF GameOver, AsPlayed, Playable, Numbers, Fields, FreshTable
  <2>2. Playable(over) /\ Onward(acted, over) /\ DOMAIN over = Fields
    BY <1>6, <2>1, AsPlayedPlayable DEF AsPlayed, Playable, Numbers
  <2>3. Covered(s) => Sound(over)
    BY <1>7, <2>1, AsPlayedSound
  <2> HIDE DEF over
  <2>4. /\ Turned(over, late) /\ Stakers(late) \subseteq Stakers(over)
        /\ late.over
    <3>1. /\ DOMAIN late = DOMAIN over
          /\ late.status = over.status /\ late.seat = over.seat
          /\ late.pst = over.pst
          /\ late.money = over.money /\ late.bet = over.bet
          /\ late.pool = over.pool /\ late.leaveSum = over.leaveSum
          /\ late.betMax = over.betMax /\ late.hasAllin = over.hasAllin
          /\ late.allin = over.allin /\ late.allinCoin = over.allinCoin
          /\ late.card = over.card /\ late.canAllin = over.canAllin
          /\ late.round = MaxRound /\ late.currBet = over.currBet
          /\ late.over = over.over
      BY <2>2 DEF Fields, FreshTable
    <3> HIDE DEF late
    <3>2. MaxRound \in 0..MaxRound /\ MaxRound >= over.round
      BY <1>2, <2>2 DEF Playable
    <3>3. Stakers(late) = Stakers(over)
      BY <3>1 DEF Stakers, Holders, Players, InTable
    <3> QED BY <2>1, <3>1, <3>2, <3>3 DEF Turned
  <2> HIDE DEF late
  <2>5. /\ Playable(late) /\ Onward(over, late)
        /\ Covered(s) => Covered(late)
    BY <2>2, <2>3, <2>4, TurnedSound DEF Sound
  <2>6. Onward(s, late)
    BY <1>6, <2>2, <2>5, OnwardOn
  <2> QED BY <1>1, <1>10, <2>4, <2>5, <2>6 DEF t
<1>11. CASE able # {} /\ ~ PastLastRound(r)
  <2>0. /\ next \in Holders(s)
        /\ r \in 0..MaxRound /\ r >= s.round
    BY <1>2, <1>3, <1>4, <1>11 DEF PastLastRound
  <2> HIDE DEF r
  <2>1. /\ DOMAIN turn = DOMAIN acted
        /\ turn.status = acted.status /\ turn.seat = acted.seat
        /\ turn.pst = acted.pst
        /\ turn.money = acted.money /\ turn.bet = acted.bet
        /\ turn.pool = acted.pool /\ turn.leaveSum = acted.leaveSum
        /\ turn.betMax = acted.betMax /\ turn.hasAllin = acted.hasAllin
        /\ turn.allin = acted.allin /\ turn.allinCoin = acted.allinCoin
        /\ turn.card = acted.card /\ turn.canAllin = acted.canAllin
        /\ turn.round = r /\ turn.currBet = next
    BY <1>6 DEF Playable, Numbers, Fields, FreshTable
  <2> HIDE DEF turn
  <2>2. Turned(acted, turn)
    BY <1>5, <2>0, <2>1 DEF Turned, AsPlayed
  <2>3. Playable(turn) /\ Onward(acted, turn) /\ Holders(turn) = Holders(s)
    BY <1>6, <2>2, TurnedSound
  <2>4. Stakers(turn) = Holders(s)
    BY <2>0, <2>1, <2>3 DEF Stakers, Holders, Players
  <2>5. Covered(s) => Sound(turn)
    <3>1. Stakers(turn) \subseteq Stakers(acted)
      BY <1>6, <2>4 DEF Stakers
    <3> QED BY <1>6, <1>7, <2>2, <2>3, <3>1, TurnedSound DEF Sound
  <2>6. AsPlayed(turn, asked)
    BY <2>3, SetPlayerOptypePlayed DEF Playable
  <2>7. Playable(asked) /\ Onward(turn, asked) /\ Holders(asked) = Holders(s)
    BY <2>3, <2>6, AsPlayedPlayable
  <2>8. Covered(s) => Sound(asked)
    BY <2>5, SetPlayerOptypeSound
  <2>9. ASSUME Owing(s, u) PROVE asked.canAllin \/ IsCanGameOver(turn)
    <3>1. HasSomeOneAllin(turn)
      BY <1>5, <2>1, <2>3, <2>9, Zenon
      DEF HasSomeOneAllin, Owing, AsPlayed, Playable
    <3>2. Numbers(turn) /\ next \in Holders(turn)
      BY <2>0, <2>3 DEF Playable
    <3> QED BY <3>1, <3>2, SetPlayerOptypePlayed
  <2> HIDE DEF asked
  <2>10. AsPlayed(asked, clocked) /\ clocked.canAllin = asked.canAllin
    BY <2>7 DEF AsPlayed, Playable, Numbers, Fields, FreshTable
  <2> HIDE DEF clocked
  <2>11. /\ Playable(clocked) /\ Onward(asked, clocked)
         /\ Holders(clocked) = Holders(s)
    BY <2>7, <2>10, AsPlayedPlayable
  <2>12. Covered(s) => Sound(clocked)
    BY <2>8, <2>10, AsPlayedSound
  <2>13. Onward(s, clocked)
    BY <1>6, <2>3, <2>7, <2>11, OnwardOn
  <2> DEFINE fin == SetPlayerLimitCoin(clocked)
  <2>14. CASE Covered(s)
    <3>1. Sound(fin) /\ Onward(clocked, fin)
      BY <2>12, <2>14, SetPlayerLimitCoinSound
    <3> HIDE DEF fin
    <3>2. Onward(s, fin)
      BY <2>11, <2>13, <3>1, OnwardOn DEF Sound
    <3> QED BY <1>1, <1>11, <3>1, <3>2 DEF Sound, fin, t
  <2>15. CASE ~ Covered(s) /\ Owing(s, u)
    <3>1. /\ clocked.hasAllin = s.hasAllin /\ clocked.hasAllin > 0
          /\ clocked.allin = s.allin /\ clocked.money = s.money
          /\ clocked.currBet = next
      BY <1>5, <2>1, <2>6, <2>10, <2>15 DEF AsPlayed, Owing
    <3>2. AllinStake(clocked) = s.hasAllin
      BY <3>1 DEF AllinStake
    <3> DEFINE new == [v \in User |-> IF v \in Holders(clocked)
                         THEN AllinStake(clocked) ELSE clocked.allinCoin[v]]
               raised == [clocked EXCEPT !.allinCoin = new]
    <3>3. fin = IF ~ clocked.canAllin THEN clocked ELSE raised
      BY DEF SetPlayerLimitCoin
    <3>4. CASE ~ clocked.canAllin
      <4>1. IsCanGameOver(turn)
        BY <2>9, <2>10, <2>15, <3>4
      <4>2. clocked.allin = turn.allin /\ Holders(clocked) = Holders(turn)
        BY <2>3, <2>6, <2>10, <2>11 DEF AsPlayed
      <4>3. IsCanGameOver(clocked)
        BY <2>11, <4>1, <4>2, Zenon DEF IsCanGameOver, Playable
      <4> QED BY <1>1, <1>11, <2>11, <2>13, <2>15, <3>3, <3>4, <4>3 DEF t
    <3>5. CASE clocked.canAllin
      <4>1. /\ new \in [User -> Int] /\ \A v \in User : new[v] >= 0
            /\ \A v \in Holders(s) : new[v] = s.hasAllin
        BY <2>11, <3>1, <3>2
        DEF Playable, Numbers, NonNeg, Holders, InTable
      <4> HIDE DEF new
      <4>2. /\ DOMAIN raised = Fields
            /\ raised.status = clocked.status /\ raised.seat = clocked.seat
            /\ raised.pst = clocked.pst
            /\ raised.money = clocked.money /\ raised.bet = clocked.bet
            /\ raised.pool = clocked.pool
            /\ raised.leaveSum = clocked.leaveSum
            /\ raised.betMax = clocked.betMax
            /\ raised.hasAllin = clocked.hasAllin
            /\ raised.allin = clocked.allin /\ raised.allinCoin = new
            /\ raised.canAllin = clocked.canAllin
            /\ raised.card = clocked.card /\ raised.round = clocked.round
            /\ raised.currBet = clocked.currBet
        BY <2>11 DEF Playable, Numbers, Fields, FreshTable
      <4> HIDE DEF raised
      <4>3. Holders(raised) = Holders(s) /\ InTable(raised) = InTable(clocked)
        BY <2>11, <4>2 DEF Holders, InTable
      <4>4. Stakers(raised) = Holders(s)
        BY <2>0, <3>1, <4>2, <4>3 DEF Stakers, Holders, Players
      <4>5. Playable(raised)
        <5>1. Numbers(raised) /\ NonNeg(raised) /\ IsActive(raised)
          BY <2>11, <4>1, <4>2 DEF Numbers, NonNeg, IsActive, Playable
        <5> QED BY <2>11, <4>2, <5>1 DEF Playable
      <4>6. Onward(clocked, raised)
        <5>1. /\ raised.round >= clocked.round
              /\ \A v \in User : raised.bet[v] >= clocked.bet[v]
          BY <2>11, <4>2 DEF Playable, Numbers
        <5>2. \A v \in User :
                /\ clocked.allin[v] => raised.allin[v]
                /\ clocked.card[v] = "KNOWN" => raised.card[v] # "UNKNOWN"
                /\ clocked.card[v] = "DISCARD" => raised.card[v] = "DISCARD"
          BY <4>2
        <5> QED BY <4>2, <5>1, <5>2 DEF Onward
      <4>7. \A v \in Holders(s) : s.money[v] < 0 => s.allin[v]
        BY <2>15 DEF Owing
      <4>8. \A v \in Holders(raised) : raised.money[v] < 0 => raised.allin[v]
        BY <3>1, <4>2, <4>3, <4>7, Zenon
      <4>9. Covered(raised)
        BY <3>1, <3>5, <4>1, <4>2, <4>4, <4>8 DEF Covered
      <4>10. Onward(s, raised)
        BY <2>11, <2>13, <4>5, <4>6, OnwardOn
      <4>11. t = raised
        BY <1>1, <1>11, <3>3, <3>5 DEF t
      <4> QED BY <4>5, <4>9, <4>10, <4>11 DEF t
    <3> QED BY <3>4, <3>5
  <2> QED BY <2>14, <2>15
<1> QED BY <1>9, <1>10, <1>11

\* playerBetCoin goes on in the hand.
LEMMA StakePlayable ==
    ASSUME NEW s, NEW u \in User, NEW x \in Int, x >= 0, Playable(s)
    PROVE  LET t == PlayerBetCoin(s, u, x)
           IN /\ Playable(t) /\ Onward(s, t)
              /\ Holders(t) = Holders(s) /\ Stakers(t) = Stakers(s)
              /\ t.money = [s.money EXCEPT ![u] = @ - x]
              /\ t.allin = s.allin /\ t.allinCoin = s.allinCoin
              /\ t.hasAllin = s.hasAllin /\ t.canAllin = s.canAllin
<1> DEFINE t == PlayerBetCoin(s, u, x)
<1>1. /\ Numbers(s) /\ NonNeg(s) /\ IsActive(s) /\ s.money[u] - x \in Int
      /\ s.bet[u] + x \in Int /\ s.round \in 0..MaxRound
  BY DEF Playable, Numbers
<1>2. /\ DOMAIN t = Fields
      /\ t.status = s.status /\ t.seat = s.seat /\ t.pst = s.pst
      /\ t.money = [s.money EXCEPT ![u] = @ - x]
      /\ t.bet = [s.bet EXCEPT ![u] = @ + x]
      /\ t.pool = s.pool + x /\ t.leaveSum = s.leaveSum
      /\ t.betMax = s.betMax /\ t.hasAllin = s.hasAllin
      /\ t.allin = s.allin /\ t.allinCoin = s.allinCoin
      /\ t.canAllin = s.canAllin
      /\ t.card = s.card /\ t.round = s.round /\ t.currBet = s.currBet
  BY <1>1 DEF PlayerBetCoin, Numbers, Fields, FreshTable
<1> HIDE DEF t
<1>3. Holders(t) = Holders(s) /\ Stakers(t) = Stakers(s)
  BY <1>2 DEF Holders, Stakers, Players, InTable
<1>4. \A v \in User : t.bet[v] >= s.bet[v] /\ t.bet[v] >= 0
  BY <1>1, <1>2 DEF Numbers, NonNeg
<1>5. Numbers(t) /\ NonNeg(t) /\ IsActive(t)
  BY <1>1, <1>2, <1>4 DEF Numbers, NonNeg, IsActive
<1>6. Playable(t)
  BY <1>2, <1>5 DEF Playable
<1>7. \A v \in User : /\ s.allin[v] => t.allin[v]
                      /\ s.card[v] = "KNOWN" => t.card[v] # "UNKNOWN"
                      /\ s.card[v] = "DISCARD" => t.card[v] = "DISCARD"
  BY <1>2
<1>8. Onward(s, t)
  BY <1>1, <1>2, <1>4, <1>7 DEF Onward
<1> QED BY <1>2, <1>3, <1>6, <1>8 DEF t

\* A stake that the player can pay keeps the debts covered.
LEMMA StakeSound ==
    ASSUME NEW s, NEW u \in User, NEW x \in Int, x >= 0, Sound(s),
           s.money[u] >= x
    PROVE  LET t == PlayerBetCoin(s, u, x)
           IN Sound(t) /\ Onward(s, t)
<1> DEFINE t == PlayerBetCoin(s, u, x)
<1>1. /\ Playable(t) /\ Onward(s, t)
      /\ Holders(t) = Holders(s) /\ Stakers(t) = Stakers(s)
      /\ t.money = [s.money EXCEPT ![u] = @ - x]
      /\ t.allin = s.allin /\ t.allinCoin = s.allinCoin
      /\ t.hasAllin = s.hasAllin /\ t.canAllin = s.canAllin
  BY StakePlayable DEF Sound
<1> HIDE DEF t
<1>2. \A v \in User : t.money[v] < 0 => s.money[v] < 0
  BY <1>1 DEF Sound, Playable, Numbers
<1>3. Covered(t)
  <2> SUFFICES ASSUME NEW v \in Holders(s), s.money[v] < 0
               PROVE  /\ t.allin[v] /\ t.hasAllin > 0 /\ t.canAllin
                      /\ \A w \in Stakers(s) : t.allinCoin[w] = t.hasAllin
    BY <1>1, <1>2 DEF Covered, Holders, InTable
  <2>1. /\ s.allin[v] /\ s.hasAllin > 0 /\ s.canAllin
        /\ \A w \in Stakers(s) : s.allinCoin[w] = s.hasAllin
    BY DEF Sound, Covered
  <2>2. t.allin[v] /\ t.canAllin
    BY <1>1, <2>1, Zenon
  <2> QED BY <1>1, <2>1, <2>2
<1> QED BY <1>1, <1>3 DEF Sound, t

\* Somebody goes all in, or the stake is set anew.
Raised(s, t) ==
    /\ DOMAIN t = DOMAIN s
    /\ t.status = s.status /\ t.seat = s.seat /\ t.pst = s.pst
    /\ t.money = s.money /\ t.bet = s.bet
    /\ t.pool = s.pool /\ t.leaveSum = s.leaveSum
    /\ t.betMax \in Int /\ t.betMax >= 0
    /\ t.hasAllin \in Int /\ t.hasAllin >= 0
    /\ t.allin \in [User -> BOOLEAN]
    /\ \A v \in User : s.allin[v] => t.allin[v]
    /\ t.allinCoin = s.allinCoin /\ t.canAllin = s.canAllin
    /\ t.card = s.card /\ t.round = s.round /\ t.currBet = s.currBet

\* A new stake or a new all-in goes on in the hand; while the all-in stands
\* the debts stay covered.
LEMMA RaisedSound ==
    ASSUME NEW s, NEW t, Playable(s), Raised(s, t)
    PROVE  /\ Playable(t) /\ Onward(s, t)
           /\ Holders(t) = Holders(s) /\ Stakers(t) = Stakers(s)
           /\ Covered(s) /\ t.hasAllin = s.hasAllin => Covered(t)
<1>1. Holders(t) = Holders(s) /\ Stakers(t) = Stakers(s)
  BY DEF Raised, Holders, Stakers, Players, InTable
<1>2. Numbers(t) /\ NonNeg(t) /\ IsActive(t)
  BY DEF Raised, Numbers, NonNeg, IsActive, Playable
<1>3. Playable(t)
  BY <1>2 DEF Playable, Raised
<1>4. t.round >= s.round /\ \A v \in User : t.bet[v] >= s.bet[v]
  BY DEF Playable, Numbers, Raised
<1>5. \A v \in User : /\ s.allin[v] => t.allin[v]
                      /\ s.card[v] = "KNOWN" => t.card[v] # "UNKNOWN"
                      /\ s.card[v] = "DISCARD" => t.card[v] = "DISCARD"
  BY DEF Raised
<1>6. Onward(s, t)
  BY <1>4, <1>5 DEF Onward, Raised
<1>7. ASSUME Covered(s), t.hasAllin = s.hasAllin PROVE Covered(t)
  <2> SUFFICES ASSUME NEW v \in Holders(s), s.money[v] < 0
               PROVE  /\ t.allin[v] /\ t.hasAllin > 0 /\ t.canAllin
                      /\ \A w \in Stakers(s) : t.allinCoin[w] = t.hasAllin
    BY <1>1 DEF Covered, Raised
  <2>1. /\ s.allin[v] /\ s.hasAllin > 0 /\ s.canAllin
        /\ \A w \in Stakers(s) : s.allinCoin[w] = s.hasAllin
    BY <1>7 DEF Covered
  <2>2. v \in User
    BY DEF Holders, InTable
  <2>3. t.allin[v] /\ t.canAllin
    BY <2>1, <2>2, Zenon DEF Raised
  <2> QED BY <1>7, <2>1, <2>3 DEF Raised
<1> QED BY <1>1, <1>3, <1>6, <1>7

\* No coins are negative, and while a hand is bet on its debts are covered.
Solvent(s) == NonNeg(s) /\ (Betting(s) => Covered(s))

\* After a player has acted
Acted(s, t) == Playable(t) /\ Solvent(t) /\ Onward(s, t)

\* A handler that ends with iscanGameOver's question has acted: the debts are
\* covered, or the hand is decided.
LEMMA EndsSound ==
    ASSUME NEW r, NEW s, Playable(r), Playable(s), Onward(r, s),
           Covered(s) \/ s.over \/ IsCanGameOver(s)
    PROVE  Acted(r, GameOverIfDecided(s))
<1> DEFINE t == GameOver(s)
<1>1. AsPlayed(s, t) /\ t.over
  BY DEF GameOver, Playable, Numbers, Fields, FreshTable, AsPlayed
<1>2. Playable(t) /\ Onward(s, t)
  BY <1>1, AsPlayedPlayable
<1>3. Onward(r, t)
  BY <1>2, OnwardOn
<1>4. Acted(r, t)
  BY <1>1, <1>2, <1>3 DEF Acted, Solvent, Betting, Playable
<1>5. CASE ~ IsCanGameOver(s)
  BY <1>5 DEF GameOverIfDecided, Acted, Solvent, Betting, Playable
<1> QED BY <1>4, <1>5 DEF GameOverIfDecided

\* A handler that passes the turn has acted: a player who owes without an all-
\* in to cover it is the last to hold cards.
LEMMA PassesSound ==
    ASSUME NEW r, NEW s, NEW u \in User, Playable(r), Playable(s), Onward(r, s),
           Covered(s) \/ Owing(s, u)
    PROVE  Acted(r, GameOverIfDecided(GetNextBetPlayer(s, u)))
<1> DEFINE t == GetNextBetPlayer(s, u)
<1>1. /\ Playable(t) /\ Onward(s, t)
      /\ Covered(t) \/ t.over \/ IsCanGameOver(t)
  BY GetNextBetPlayerSound
<1> HIDE DEF t
<1>2. Onward(r, t)
  BY <1>1, OnwardOn
<1> QED BY <1>1, <1>2, EndsSound DEF t

\* While a hand is bet on, the invariant covers its debts.
LEMMA SoundTable ==
    ASSUME CInv, Solvent(table), Betting(table)
    PROVE  Sound(table)
BY DEF CInv, TInv, Coins, Solvent, Sound, Playable, Betting, Typed, Shape,
       Steering, Notes

\* Who is on turn plays in a hand that is bet on.
LEMMA InHandBetting ==
    ASSUME NEW u \in User, CInv, InHand(u)
    PROVE  Betting(table) /\ u \in Players(table)
BY PlayingIn, StakingActive DEF InHand, Betting

\* A call never costs less than nothing.
LEMMA CallMoneyNonNeg ==
    ASSUME NEW s, NEW u, Numbers(s), s.betMax >= 0
    PROVE  CallMoney(s, u) \in Int /\ CallMoney(s, u) >= 0
BY DEF CallMoney, Doubled, Numbers

\* A call covers the caller's debt, or decides the hand (CallProcess).
LEMMA CallActs ==
    ASSUME NEW u \in User, CInv, Solvent(table), Call(u)
    PROVE  Acted(table, table')
<1> DEFINE someAllin == HasSomeOneAllin(table)
           coin == IF someAllin THEN table.allinCoin[u] ELSE CallMoney(table, u)
           s1 == [table EXCEPT !.allin[u] = @ \/ someAllin]
           b == PlayerBetCoin(s1, u, coin)
<1>1. /\ InHand(u) /\ table.money[u] >= coin
      /\ table' = GameOverIfDecided(GetNextBetPlayer(b, u))
  BY DEF Call, CanPay, Turn, TableBecomes
<1>2. Sound(table) /\ Playable(table)
  BY <1>1, InHandBetting, SoundTable DEF Sound
<1>3. coin \in Int /\ coin >= 0
  BY <1>2, CallMoneyNonNeg DEF Playable, Numbers, NonNeg
<1> HIDE DEF coin, someAllin
<1>4. Raised(table, s1) /\ s1.hasAllin = table.hasAllin
  <2>1. /\ DOMAIN s1 = DOMAIN table
        /\ s1.status = table.status /\ s1.seat = table.seat
        /\ s1.pst = table.pst /\ s1.money = table.money /\ s1.bet = table.bet
        /\ s1.pool = table.pool /\ s1.leaveSum = table.leaveSum
        /\ s1.betMax = table.betMax /\ s1.hasAllin = table.hasAllin
        /\ s1.allin = [table.allin EXCEPT ![u] = @ \/ someAllin]
        /\ s1.allinCoin = table.allinCoin /\ s1.canAllin = table.canAllin
        /\ s1.card = table.card /\ s1.round = table.round
        /\ s1.currBet = table.currBet
    BY <1>2 DEF Playable, Numbers, Fields, FreshTable
  <2> HIDE DEF s1
  <2>2. table.allin \in [User -> BOOLEAN]
    BY <1>2 DEF Playable
  <2>3. s1.allin \in [User -> BOOLEAN]
    BY <2>1, <2>2, Zenon
  <2>4. \A v \in User : table.allin[v] => s1.allin[v]
    BY <2>1, <2>2, Zenon
  <2> QED BY <1>2, <2>1, <2>3, <2>4 DEF Raised, Playable, Numbers, NonNeg
<1>5. Sound(s1) /\ Onward(table, s1) /\ s1.money = table.money
  BY <1>2, <1>4, RaisedSound DEF Sound, Raised
<1> HIDE DEF s1
<1>6. Sound(b) /\ Onward(s1, b)
  BY <1>1, <1>3, <1>5, StakeSound
<1> HIDE DEF b
<1>7. Onward(table, b)
  BY <1>2, <1>5, <1>6, OnwardOn DEF Sound
<1> QED BY <1>1, <1>2, <1>6, <1>7, PassesSound DEF Sound

\* A raise costs coins the raiser has (RaseProcess).
LEMMA RaseActs ==
    ASSUME NEW u \in User, NEW x \in RaseChoices, CInv, Solvent(table),
           Rase(u, x)
    PROVE  Acted(table, table')
<1> DEFINE coin == IF table.card[u] = "UNKNOWN" THEN x ELSE Doubled(x)
           s1 == [table EXCEPT !.betMax = x, !.maxCard = table.card[u]]
           b == PlayerBetCoin(s1, u, coin)
           t == GetNextBetPlayer(b, u)
<1>1. InHand(u) /\ table.money[u] >= coin /\ table' = t
  BY DEF Rase, CanPay, Turn, TableBecomes
<1>2. Sound(table) /\ Playable(table)
  BY <1>1, InHandBetting, SoundTable DEF Sound
<1>3. x \in Int /\ x >= 0 /\ coin \in Int /\ coin >= 0
  BY MoneyAssumption DEF Doubled
<1> HIDE DEF coin
<1>4. Raised(table, s1) /\ s1.hasAllin = table.hasAllin
  <2>1. /\ DOMAIN s1 = DOMAIN table
        /\ s1.status = table.status /\ s1.seat = table.seat
        /\ s1.pst = table.pst /\ s1.money = table.money /\ s1.bet = table.bet
        /\ s1.pool = table.pool /\ s1.leaveSum = table.leaveSum
        /\ s1.betMax = x /\ s1.hasAllin = table.hasAllin
        /\ s1.allin = table.allin
        /\ s1.allinCoin = table.allinCoin /\ s1.canAllin = table.canAllin
        /\ s1.card = table.card /\ s1.round = table.round
        /\ s1.currBet = table.currBet
    BY <1>2 DEF Playable, Numbers, Fields, FreshTable
  <2> HIDE DEF s1
  <2>2. table.allin \in [User -> BOOLEAN]
    BY <1>2 DEF Playable
  <2>3. \A v \in User : table.allin[v] => s1.allin[v]
    BY <2>1, Zenon
  <2> QED BY <1>2, <1>3, <2>1, <2>2, <2>3
          DEF Raised, Playable, Numbers, NonNeg
<1> HIDE DEF s1
<1>5. Sound(s1) /\ Onward(table, s1) /\ s1.money = table.money
  <2>1. Playable(s1) /\ Onward(table, s1) /\ Covered(s1)
    BY <1>2, <1>4, RaisedSound, Zenon DEF Sound
  <2> QED BY <1>4, <2>1 DEF Sound, Raised
<1>6. Sound(b) /\ Onward(s1, b)
  BY <1>1, <1>3, <1>5, StakeSound
<1> HIDE DEF b
<1>7. Playable(t) /\ Onward(b, t) /\ Covered(t)
  BY <1>6, GetNextBetPlayerSound DEF Sound
<1> HIDE DEF t
<1>8. Onward(table, t)
  BY <1>2, <1>5, <1>6, <1>7, OnwardOn DEF Sound
<1> QED BY <1>1, <1>7, <1>8 DEF Acted, Solvent, Playable

\* An all-in may cost more than its player has: it becomes the stake of all,
\* which covers the debt, or decides the hand (AllinProc).
LEMMA AllinActs ==
    ASSUME NEW u \in User, CInv, Solvent(table), Allin(u)
    PROVE  Acted(table, table')
<1> DEFINE coin == table.allinCoin[u]
           s1 == IF coin > table.betMax
                 THEN [table EXCEPT !.betMax = coin, !.maxCard = table.card[u]]
                 ELSE table
           s2 == [s1 EXCEPT !.hasAllin = coin, !.allin[u] = TRUE]
           b == PlayerBetCoin(s2, u, coin)
<1>1. /\ InHand(u) /\ table.currBet = u
      /\ table' = GameOverIfDecided(GetNextBetPlayer(b, u))
  BY DEF Allin, Turn, TableBecomes
<1>2. Sound(table) /\ Playable(table) /\ u \in Players(table)
  BY <1>1, InHandBetting, SoundTable DEF Sound
<1>3. coin \in Int /\ coin >= 0
  BY <1>2 DEF Playable, Numbers, NonNeg
<1>4. u \in Stakers(table)
  BY <1>1, <1>2 DEF Stakers
<1>5. \A v \in Holders(table) : table.money[v] < 0 =>
        table.allin[v] /\ table.hasAllin = coin /\ coin > 0
  BY <1>2, <1>4 DEF Sound, Covered
<1> HIDE DEF coin
<1>6. Raised(table, s2) /\ s2.hasAllin = coin /\ s2.allin[u]
  <2>1. /\ DOMAIN s1 = DOMAIN table
        /\ s1.status = table.status /\ s1.seat = table.seat
        /\ s1.pst = table.pst /\ s1.money = table.money /\ s1.bet = table.bet
        /\ s1.pool = table.pool /\ s1.leaveSum = table.leaveSum
        /\ s1.betMax \in {coin, table.betMax}
        /\ s1.allinCoin = table.allinCoin /\ s1.allin = table.allin
        /\ s1.canAllin = table.canAllin
        /\ s1.card = table.card /\ s1.round = table.round
        /\ s1.currBet = table.currBet
    BY <1>2 DEF Playable, Numbers, Fields, FreshTable
  <2> HIDE DEF s1
  <2>2. /\ DOMAIN s2 = DOMAIN table
        /\ s2.status = s1.status /\ s2.seat = s1.seat
        /\ s2.pst = s1.pst /\ s2.money = s1.money /\ s2.bet = s1.bet
        /\ s2.pool = s1.pool /\ s2.leaveSum = s1.leaveSum
        /\ s2.betMax = s1.betMax /\ s2.hasAllin = coin
        /\ s2.allin = [s1.allin EXCEPT ![u] = TRUE]
        /\ s2.allinCoin = s1.allinCoin
        /\ s2.canAllin = s1.canAllin
        /\ s2.card = s1.card /\ s2.round = s1.round
        /\ s2.currBet = s1.currBet
    BY <1>2, <2>1 DEF Playable, Numbers, Fields, FreshTable
  <2> HIDE DEF s2
  <2>3. table.allin \in [User -> BOOLEAN]
    BY <1>2 DEF Playable
  <2>4. s2.allin = [table.allin EXCEPT ![u] = TRUE]
    BY <2>1, <2>2
  <2>5. /\ s2.allin \in [User -> BOOLEAN] /\ s2.allin[u]
        /\ \A v \in User : table.allin[v] => s2.allin[v]
    BY <2>3, <2>4, Zenon
  <2>6. s2.betMax \in Int /\ s2.betMax >= 0
    BY <1>2, <1>3, <2>1, <2>2 DEF Playable, Numbers, NonNeg
  <2> QED BY <1>3, <2>1, <2>2, <2>5, <2>6 DEF Raised
<1> HIDE DEF s1, s2
<1>7. /\ Playable(s2) /\ Onward(table, s2)
      /\ Holders(s2) = Holders(table) /\ s2.money = table.money
      /\ table.hasAllin = coin => Covered(s2)
  BY <1>2, <1>6, RaisedSound DEF Sound, Raised
<1>8. /\ Playable(b) /\ Onward(s2, b)
      /\ Holders(b) = Holders(s2) /\ Stakers(b) = Stakers(s2)
      /\ b.money = [s2.money EXCEPT ![u] = @ - coin]
      /\ b.allin = s2.allin /\ b.allinCoin = s2.allinCoin
      /\ b.hasAllin = s2.hasAllin /\ b.canAllin = s2.canAllin
  BY <1>3, <1>7, StakePlayable
<1> HIDE DEF b
<1>9. Onward(table, b)
  BY <1>2, <1>7, <1>8, OnwardOn
<1>10. table.money \in [User -> Int]
  BY <1>2 DEF Playable, Numbers
<1>11. Covered(b) \/ Owing(b, u)
  <2>1. CASE \E v \in Holders(table) : table.money[v] < 0
    <3>1. table.hasAllin = coin /\ coin > 0 /\ Covered(s2)
      BY <1>5, <1>7, <2>1
    <3>2. PICK v \in Holders(table) : table.money[v] < 0
      BY <2>1
    <3>3. /\ s2.canAllin /\ s2.hasAllin > 0
          /\ \A w \in Stakers(s2) : s2.allinCoin[w] = s2.hasAllin
      BY <1>7, <3>1, <3>2 DEF Covered
    <3>4. \A w \in Holders(b) : b.money[w] < 0 => b.allin[w]
      <4> SUFFICES ASSUME NEW w \in Holders(b), b.money[w] < 0
                   PROVE  b.allin[w]
        OBVIOUS
      <4>1. CASE w = u
        BY <1>6, <1>8, <4>1, Zenon
      <4>2. CASE w # u
        <5>1. s2.money[w] < 0 /\ w \in Holders(s2)
          BY <1>7, <1>8, <4>2
        <5>2. s2.allin[w]
          BY <3>1, <5>1 DEF Covered
        <5> QED BY <1>8, <5>2, Zenon
      <4> QED BY <4>1, <4>2
    <3>5. b.canAllin
      BY <1>8, <3>3, Zenon
    <3>6. Covered(b)
      BY <1>8, <3>3, <3>4, <3>5 DEF Covered
    <3> QED BY <3>6
  <2>2. CASE \A v \in Holders(table) : ~ (table.money[v] < 0)
    <3>1. \A w \in Holders(b) : b.money[w] < 0 => w = u /\ coin > 0
      BY <1>3, <1>7, <1>8, <1>10, <2>2 DEF Holders, InTable
    <3>2. CASE \A w \in Holders(b) : ~ (b.money[w] < 0)
      BY <3>2 DEF Covered
    <3>3. CASE \E w \in Holders(b) : b.money[w] < 0
      <4>1. u \in Holders(b) /\ coin > 0
        BY <3>1, <3>3
      <4>2. b.allin[u]
        BY <1>6, <1>8, Zenon
      <4>3. \A w \in Holders(b) : b.money[w] < 0 => b.allin[w]
        BY <3>1, <4>2
      <4> QED BY <1>6, <1>8, <4>1, <4>2, <4>3 DEF Owing
    <3> QED BY <3>2, <3>3
  <2> QED BY <2>1, <2>2
<1> QED BY <1>1, <1>2, <1>8, <1>9, <1>11, PassesSound

\* Going on with covered debts is transitive.
LEMMA SoundOn ==
    ASSUME NEW r, NEW s, NEW t, Sound(r), Sound(s), Onward(r, s),
           Sound(t) /\ Onward(s, t)
    PROVE  Sound(t) /\ Onward(r, t)
BY OnwardOn DEF Sound

\* A handler that keeps the debts covered has acted.
LEMMA SoundActs ==
    ASSUME NEW r, NEW s, Playable(r), Sound(s), Onward(r, s)
    PROVE  Acted(r, s) /\ Acted(r, GameOverIfDecided(s))
<1>1. Acted(r, s)
  BY DEF Acted, Solvent, Sound, Playable
<1>2. Acted(r, GameOverIfDecided(s))
  BY EndsSound DEF Sound
<1> QED BY <1>1, <1>2

\* A comparison costs no more than u has.
LEMMA CompareCostIsPaid ==
    ASSUME NEW s, NEW u \in User, Playable(s), s.money[u] > 0
    PROVE  LET cost == Min({CallMoney(s, u), s.money[u]})
           IN cost \in Int /\ cost >= 0 /\ s.money[u] >= cost
<1> DEFINE call == CallMoney(s, u)
           m == s.money[u]
<1>1. call \in Int /\ call >= 0 /\ m \in Int /\ m > 0
  BY CallMoneyNonNeg DEF Playable, Numbers, NonNeg
<1> HIDE DEF call, m
<1>2. Min({call, m}) \in {call, m} /\ Min({call, m}) <= m
  BY <1>1, MinOfTwo
<1>3. Min({call, m}) \in Int /\ Min({call, m}) >= 0 /\ m >= Min({call, m})
  BY <1>1, <1>2
<1> QED BY <1>3 DEF call, m

\* A comparison costs coins its asker has, or is forced by an all-in
\* (CompareCardProc).
LEMMA CompareCardsActs ==
    ASSUME NEW u \in User, NEW v \in User, CInv, Solvent(table),
           CompareCards(u, v)
    PROVE  Acted(table, table')
<1> DEFINE cost == Min({CallMoney(table, u), table.money[u]})
           s1 == PlayerBetCoin(table, u, cost)
           win == CompareCard(table.rank[u], table.rank[v]) = "win"
           dv == Discard(s1, v)
           fv == SetNextFirst(dv, v)
           won == GetNextBetPlayer(fv, u)
           forced == /\ won.betT # None /\ won.money[u] = 0
                     /\ Cardinality(Holders(won)) <= 2
           du == Discard(s1, u)
           gu == GetNextBetPlayer(du, u)
           lost == SetNextFirst(gu, u)
           force == ForceCompareCard(won, u, won.betT)
           end == IF ~ win THEN lost ELSE IF forced THEN force ELSE won
<1>1. /\ InHand(u) /\ table.money[u] > 0
      /\ table' = GameOverIfDecided(end)
  BY DEF CompareCards, Turn, TableBecomes
<1>2. Sound(table) /\ Playable(table)
  BY <1>1, InHandBetting, SoundTable DEF Sound
<1>3. cost \in Int /\ cost >= 0 /\ table.money[u] >= cost
  BY <1>1, <1>2, CompareCostIsPaid
<1> HIDE DEF cost, win
<1>4. Sound(s1) /\ Onward(table, s1)
  BY <1>2, <1>3, StakeSound
<1> HIDE DEF s1
<1>5. Sound(won) /\ Onward(table, won)
  <2>1. Sound(dv) /\ Onward(table, dv)
    <3>1. Sound(dv) /\ Onward(s1, dv)
      BY <1>4, DiscardSound
    <3> QED BY <1>2, <1>4, <3>1, SoundOn
  <2> HIDE DEF dv
  <2>2. Sound(fv) /\ Onward(table, fv)
    <3>1. Sound(fv) /\ Onward(dv, fv)
      BY <2>1, SteeringSound
    <3> QED BY <1>2, <2>1, <3>1, SoundOn
  <2> HIDE DEF fv
  <2>3. Sound(won) /\ Onward(fv, won)
    BY <2>2, GetNextBetPlayerSound DEF Sound
  <2> HIDE DEF won
  <2> QED BY <1>2, <2>2, <2>3, SoundOn
<1>6. Sound(lost) /\ Onward(table, lost)
  <2>1. Sound(du) /\ Onward(table, du)
    <3>1. Sound(du) /\ Onward(s1, du)
      BY <1>4, DiscardSound
    <3> QED BY <1>2, <1>4, <3>1, SoundOn
  <2> HIDE DEF du
  <2>2. Sound(gu) /\ Onward(table, gu)
    <3>1. Sound(gu) /\ Onward(du, gu)
      BY <2>1, GetNextBetPlayerSound DEF Sound
    <3> QED BY <1>2, <2>1, <3>1, SoundOn
  <2> HIDE DEF gu
  <2>3. Sound(lost) /\ Onward(gu, lost)
    BY <2>2, SteeringSound
  <2> HIDE DEF lost
  <2> QED BY <1>2, <2>2, <2>3, SoundOn
<1> HIDE DEF won, lost
<1>7. forced => Sound(force) /\ Onward(table, force)
  <2> SUFFICES ASSUME forced PROVE Sound(force) /\ Onward(table, force)
    OBVIOUS
  <2> DEFINE b == PlayerBetCoin(won, u, won.money[u])
             res == [kept |-> TRUE, p1 |-> u, p2 |-> won.betT,
                     result |-> CompareCard(won.rank[u], won.rank[won.betT])]
  <2>1. won.money[u] = 0
    BY DEF forced
  <2>2. Sound(b) /\ Onward(won, b)
    BY <1>5, <2>1, StakeSound
  <2>3. force = [b EXCEPT !.cmp = res, !.cmpT = TRUE]
    BY DEF ForceCompareCard
  <2> HIDE DEF b, res, force
  <2>4. AsPlayed(b, force) /\ force.canAllin = b.canAllin
    BY <2>2, <2>3 DEF Sound, Playable, Numbers, AsPlayed, Fields, FreshTable
  <2>5. Sound(force) /\ Onward(b, force)
    BY <2>2, <2>4, AsPlayedSound
  <2>6. Sound(b) /\ Onward(table, b)
    BY <1>2, <1>5, <2>2, SoundOn
  <2> QED BY <1>2, <2>5, <2>6, SoundOn
<1> HIDE DEF force, forced
<1>8. Sound(end) /\ Onward(table, end)
  BY <1>5, <1>6, <1>7
<1> HIDE DEF end
<1> QED BY <1>1, <1>2, <1>8, SoundActs

\* u looks at the cards.
LEMMA LookSound ==
    ASSUME NEW s, NEW u \in User, Sound(s), s.card[u] = "UNKNOWN"
    PROVE  LET t == [s EXCEPT !.card[u] = "KNOWN"]
           IN Sound(t) /\ Onward(s, t)
<1> DEFINE t == [s EXCEPT !.card[u] = "KNOWN"]
<1>1. Numbers(s) /\ Playable(s) /\ s.card \in [User -> CardStatus]
  BY DEF Sound, Playable
<1>2. /\ DOMAIN t = DOMAIN s
      /\ t.status = s.status /\ t.seat = s.seat /\ t.pst = s.pst
      /\ t.money = s.money /\ t.bet = s.bet
      /\ t.pool = s.pool /\ t.leaveSum = s.leaveSum
      /\ t.betMax = s.betMax /\ t.hasAllin = s.hasAllin
      /\ t.allin = s.allin /\ t.allinCoin = s.allinCoin
      /\ t.canAllin = s.canAllin
      /\ t.round = s.round /\ t.currBet = s.currBet
      /\ t.card = [s.card EXCEPT ![u] = "KNOWN"]
  BY <1>1 DEF Numbers, Fields, FreshTable
<1> HIDE DEF t
<1>3. /\ t.card \in [User -> CardStatus]
      /\ \A v \in User : t.card[v] = "DISCARD" <=> s.card[v] = "DISCARD"
      /\ \A v \in User : s.card[v] = "KNOWN" => t.card[v] # "UNKNOWN"
  BY <1>1, <1>2 DEF CardStatus
<1>4. Holders(t) = Holders(s) /\ Stakers(t) = Stakers(s)
  BY <1>2, <1>3 DEF Holders, Stakers, Players, InTable
<1>5. Playable(t)
  <2>1. Numbers(t) /\ NonNeg(t) /\ IsActive(t)
    BY <1>1, <1>2 DEF Numbers, NonNeg, IsActive, Playable
  <2> QED BY <1>1, <1>2, <1>3, <2>1 DEF Playable
<1>6. Covered(t)
  <2> SUFFICES ASSUME NEW v \in Holders(s), s.money[v] < 0
               PROVE  /\ t.allin[v] /\ t.hasAllin > 0 /\ t.canAllin
                      /\ \A w \in Stakers(s) : t.allinCoin[w] = t.hasAllin
    BY <1>2, <1>4 DEF Covered
  <2>1. /\ s.allin[v] /\ s.hasAllin > 0 /\ s.canAllin
        /\ \A w \in Stakers(s) : s.allinCoin[w] = s.hasAllin
    BY DEF Sound, Covered
  <2>2. t.allin[v] /\ t.canAllin
    BY <1>2, <2>1, Zenon
  <2> QED BY <1>2, <2>1, <2>2
<1>7. Onward(s, t)
  <2>1. t.round >= s.round /\ \A v \in User : t.bet[v] >= s.bet[v]
    BY <1>1, <1>2 DEF Playable, Numbers
  <2>2. \A v \in User : s.allin[v] => t.allin[v]
    BY <1>2
  <2>3. \A v \in User : /\ s.card[v] = "KNOWN" => t.card[v] # "UNKNOWN"
                        /\ s.card[v] = "DISCARD" => t.card[v] = "DISCARD"
    BY <1>3
  <2> QED BY <1>2, <2>1, <2>2, <2>3, Zenon DEF Onward
<1> QED BY <1>5, <1>6, <1>7 DEF Sound, t

\* Throwing the cards keeps the debts covered (ThrowCardProc).
LEMMA ThrowCardActs ==
    ASSUME NEW u \in User, CInv, Solvent(table), ThrowCard(u)
    PROVE  Acted(table, table')
<1> DEFINE s1 == Discard(table, u)
           s2 == IF table.currBet = u THEN GetNextBetPlayer(s1, u)
                 ELSE IF table.currBet = None THEN s1
                 ELSE SetPlayerOptype(s1, table.currBet)
           s3 == SetNextFirst(s2, u)
<1>1. InHand(u) /\ table' = GameOverIfDecided(s3)
  BY DEF ThrowCard, TableBecomes
<1>2. Sound(table) /\ Playable(table)
  BY <1>1, InHandBetting, SoundTable DEF Sound
<1>3. Sound(s1) /\ Onward(table, s1)
  BY <1>2, DiscardSound
<1> HIDE DEF s1
<1>4. Sound(s2) /\ Onward(table, s2)
  <2>1. CASE table.currBet = u
    <3>1. s2 = GetNextBetPlayer(s1, u)
      BY <2>1
    <3>2. Sound(s2) /\ Onward(s1, s2)
      BY <1>3, <3>1, GetNextBetPlayerSound DEF Sound
    <3> QED BY <1>2, <1>3, <3>2, SoundOn
  <2>2. CASE table.currBet # u /\ table.currBet = None
    BY <1>3, <2>2
  <2>3. CASE table.currBet # u /\ table.currBet # None
    <3>1. s2 = SetPlayerOptype(s1, table.currBet)
      BY <2>3
    <3>2. Sound(s2) /\ Onward(s1, s2)
      BY <1>3, <3>1, SetPlayerOptypeSound
    <3> QED BY <1>2, <1>3, <3>2, SoundOn
  <2> QED BY <2>1, <2>2, <2>3
<1> HIDE DEF s2
<1>5. Sound(s3) /\ Onward(table, s3)
  <2>1. Sound(s3) /\ Onward(s2, s3)
    BY <1>4, SteeringSound
  <2> QED BY <1>2, <1>4, <2>1, SoundOn
<1> HIDE DEF s3
<1> QED BY <1>1, <1>2, <1>5, SoundActs

\* Looking at the cards keeps the debts covered (CheckProcess).
LEMMA CheckCardActs ==
    ASSUME NEW u \in User, CInv, Solvent(table), CheckCard(u)
    PROVE  Acted(table, table')
<1> DEFINE s1 == [table EXCEPT !.card[u] = "KNOWN"]
           s2 == [s1 EXCEPT !.betT = u]
           s3 == SetPlayerOptype(s2, u)
<1>1. /\ InHand(u) /\ table.card[u] = "UNKNOWN"
      /\ table' = IF table.currBet = u THEN s3 ELSE s1
  BY DEF CheckCard, TableBecomes
<1>2. Sound(table) /\ Playable(table)
  BY <1>1, InHandBetting, SoundTable DEF Sound
<1>3. Sound(s1) /\ Onward(table, s1)
  BY <1>1, <1>2, LookSound
<1> HIDE DEF s1
<1>4. AsPlayed(s1, s2) /\ s2.canAllin = s1.canAllin
  BY <1>3 DEF Sound, Playable, Numbers, AsPlayed, Fields, FreshTable
<1> HIDE DEF s2
<1>5. Sound(s2) /\ Onward(table, s2)
  <2>1. Sound(s2) /\ Onward(s1, s2)
    BY <1>3, <1>4, AsPlayedSound
  <2> QED BY <1>2, <1>3, <2>1, SoundOn
<1>6. Sound(s3) /\ Onward(table, s3)
  <2>1. Sound(s3) /\ Onward(s2, s3)
    BY <1>5, SetPlayerOptypeSound
  <2> QED BY <1>2, <1>5, <2>1, SoundOn
<1> HIDE DEF s3
<1> QED BY <1>1, <1>2, <1>3, <1>6, SoundActs

\* The bet timer takes the cards of the player on turn, which keeps the debts
\* covered (BetTimeOut).
LEMMA BetTimeOutActs ==
    ASSUME CInv, Solvent(table), BetTimeOut
    PROVE  Acted(table, table')
<1> DEFINE u == table.betT
           s1 == [table EXCEPT !.betT = None]
           st == [s1 EXCEPT !.tmo[u] = IF s1.round = 1 THEN @ + 1 ELSE @]
           s2 == Discard(st, u)
           s3 == GetNextBetPlayer(s2, u)
           s4 == IF s3.betT = None THEN s3 ELSE SetPlayerOptype(s3, s3.betT)
           s5 == SetNextFirst(s4, u)
<1>1. /\ table.betT # None
      /\ table' = IF u \in InTable(table) /\ table.currBet = u
                  THEN GameOverIfDecided(s5) ELSE s1
  BY DEF BetTimeOut, TableBecomes
<1>2. u \in Players(table) /\ u \in User /\ ~ table.over
  BY <1>1 DEF CInv, HInv, IInv, TableInv, Core, Clock, Players, InTable
<1>3. Sound(table) /\ Playable(table)
  BY <1>2, SoundTable, StakingActive DEF Sound, Betting
<1> HIDE DEF u
<1>4. AsPlayed(table, s1) /\ s1.canAllin = table.canAllin
  BY <1>3 DEF Playable, Numbers, AsPlayed, Fields, FreshTable
<1>5. Sound(s1) /\ Onward(table, s1)
  BY <1>3, <1>4, AsPlayedSound
<1> HIDE DEF s1
<1>6. AsPlayed(s1, st) /\ st.canAllin = s1.canAllin
  BY <1>5 DEF Sound, Playable, Numbers, AsPlayed, Fields, FreshTable
<1> HIDE DEF st
<1>7. Sound(st) /\ Onward(table, st)
  <2>1. Sound(st) /\ Onward(s1, st)
    BY <1>5, <1>6, AsPlayedSound
  <2> QED BY <1>3, <1>5, <2>1, SoundOn
<1>8. Sound(s2) /\ Onward(table, s2)
  <2>1. Sound(s2) /\ Onward(st, s2)
    BY <1>7, DiscardSound
  <2> QED BY <1>3, <1>7, <2>1, SoundOn
<1> HIDE DEF s2
<1>9. Sound(s3) /\ Onward(table, s3)
  <2>1. Sound(s3) /\ Onward(s2, s3)
    BY <1>2, <1>8, GetNextBetPlayerSound DEF Sound
  <2> QED BY <1>3, <1>8, <2>1, SoundOn
<1> HIDE DEF s3
<1>10. Sound(s4) /\ Onward(table, s4)
  <2>1. CASE s3.betT = None
    BY <1>9, <2>1
  <2>2. CASE s3.betT # None
    <3>1. s4 = SetPlayerOptype(s3, s3.betT)
      BY <2>2
    <3>2. Sound(s4) /\ Onward(s3, s4)
      BY <1>9, <3>1, SetPlayerOptypeSound
    <3> QED BY <1>3, <1>9, <3>2, SoundOn
  <2> QED BY <2>1, <2>2
<1> HIDE DEF s4
<1>11. Sound(s5) /\ Onward(table, s5)
  <2>1. Sound(s5) /\ Onward(s4, s5)
    BY <1>10, SteeringSound
  <2> QED BY <1>3, <1>10, <2>1, SoundOn
<1> HIDE DEF s5
<1> QED BY <1>1, <1>3, <1>5, <1>11, SoundActs

\* The loser of a kept comparison folds, whatever has become of the hand.
LEMMA CompareResultActs ==
    ASSUME CInv, Solvent(table), CompareResultNotifyTimeOut
    PROVE  Solvent(table') /\ (IsActive(table) => Acted(table, table'))
<1> DEFINE c == table.cmp
           s1 == [table EXCEPT !.cmpT = FALSE]
           loser == IF c.result = "win" THEN c.p2 ELSE c.p1
           s2 == IF loser = None THEN s1 ELSE Discard(s1, loser)
           s3 == [s2 EXCEPT !.cmp = NoCompare]
<1>1. table' = IF ~ c.kept THEN s1 ELSE GameOverIfDecided(s3)
  BY DEF CompareResultNotifyTimeOut, TableBecomes
<1>2. Numbers(table)
  BY DEF CInv, Coins
<1> HIDE DEF loser
<1>3. AsPlayed(table, s1) /\ s1.canAllin = table.canAllin /\ s1.over = table.over
  BY <1>2 DEF Numbers, AsPlayed, Fields, FreshTable
<1> HIDE DEF s1
<1>4. CASE IsActive(table)
  <2>1. Playable(table)
    BY <1>4 DEF CInv, TInv, Coins, Solvent, Playable, Typed, Shape, Steering,
                Notes
  <2>2. Covered(table) \/ table.over
    BY <1>4 DEF Solvent, Betting
  <2>3. Playable(s1) /\ Onward(table, s1) /\ (Covered(s1) \/ s1.over)
    <3>1. Playable(s1) /\ Onward(table, s1)
      BY <1>3, <2>1, AsPlayedPlayable
    <3>2. Covered(table) => Covered(s1)
      BY <1>3, <2>1, AsPlayedSound DEF Sound
    <3> QED BY <1>3, <2>2, <3>1, <3>2
  <2>4. Playable(s2) /\ Onward(table, s2) /\ (Covered(s2) \/ s2.over)
    <3>1. LET t == Discard(s1, loser)
          IN /\ Playable(t) /\ Onward(s1, t) /\ (Covered(s1) => Covered(t))
             /\ t.over = s1.over
      <4>1. Discard(s1, loser).over = s1.over
        BY <2>3 DEF Playable, Numbers, Discard, Fields, FreshTable
      <4> QED BY <2>3, <4>1, DiscardPlayable
    <3> DEFINE t == Discard(s1, loser)
    <3> HIDE DEF t
    <3>2. Onward(table, t)
      BY <2>1, <2>3, <3>1, OnwardOn DEF t
    <3>3. s2 = s1 \/ s2 = t
      BY DEF t
    <3> HIDE DEF s2
    <3> QED BY <2>3, <3>1, <3>2, <3>3 DEF t
  <2> HIDE DEF s2
  <2>5. AsPlayed(s2, s3) /\ s3.canAllin = s2.canAllin /\ s3.over = s2.over
    BY <2>4 DEF Playable, Numbers, AsPlayed, Fields, FreshTable
  <2> HIDE DEF s3
  <2>6. Playable(s3) /\ Onward(table, s3) /\ (Covered(s3) \/ s3.over)
    <3>1. Playable(s3) /\ Onward(s2, s3)
      BY <2>4, <2>5, AsPlayedPlayable
    <3>2. Covered(s2) => Covered(s3)
      BY <2>4, <2>5, AsPlayedSound DEF Sound
    <3>3. Onward(table, s3)
      BY <2>1, <2>4, <3>1, OnwardOn
    <3> QED BY <2>4, <2>5, <3>1, <3>2, <3>3
  <2>7. Acted(table, GameOverIfDecided(s3))
    BY <2>1, <2>6, EndsSound
  <2>8. Acted(table, s1)
    BY <2>3 DEF Acted, Solvent, Betting, Playable
  <2> QED BY <1>1, <2>7, <2>8 DEF Acted
<1>5. CASE ~ IsActive(table)
  <2>1. ~ IsActive(s1) /\ NonNeg(s1) /\ DOMAIN s1 = Fields
    BY <1>2, <1>3, <1>5 DEF AsPlayed, IsActive, NonNeg, Solvent, Numbers
  <2>2. ~ IsActive(s2) /\ NonNeg(s2) /\ DOMAIN s2 = Fields
    <3>1. LET t == Discard(s1, loser)
          IN ~ IsActive(t) /\ NonNeg(t) /\ DOMAIN t = Fields
      BY <2>1 DEF Discard, IsActive, NonNeg, Fields, FreshTable
    <3> QED BY <2>1, <3>1
  <2> HIDE DEF s2
  <2>3. ~ IsActive(s3) /\ NonNeg(s3)
    BY <2>2 DEF IsActive, NonNeg, Fields, FreshTable
  <2> HIDE DEF s3
  <2>4. table' = s1 \/ table' = s3
    BY <1>1, <2>3 DEF GameOverIfDecided, IsCanGameOver
  <2> QED BY <1>5, <2>1, <2>3, <2>4 DEF Solvent, Betting
<1> QED BY <1>4, <1>5

\* For whoever is in the hand before and after, what he has done stands.
Advanced(s, t) ==
    /\ t.round >= s.round
    /\ \A v \in Players(s) : t.pst[v] = "ACTIVE" =>
         /\ t.bet[v] >= s.bet[v]
         /\ s.allin[v] => t.allin[v]
         /\ s.card[v] = "KNOWN" => t.card[v] # "UNKNOWN"
         /\ s.card[v] = "DISCARD" => t.card[v] = "DISCARD"

\* Looks and folds of one player stand over two steps if they stand over each.
LEMMA CardsStand ==
    ASSUME NEW a \in CardStatus, NEW b \in CardStatus, NEW c \in CardStatus,
           a = "KNOWN" => b # "UNKNOWN", a = "DISCARD" => b = "DISCARD",
           b = "KNOWN" => c # "UNKNOWN", b = "DISCARD" => c = "DISCARD"
    PROVE  (a = "KNOWN" => c # "UNKNOWN") /\ (a = "DISCARD" => c = "DISCARD")
BY DEF CardStatus

\* Going on in a hand takes nothing back of it.
LEMMA OnwardAdvances ==
    ASSUME NEW s, NEW t, Onward(s, t)
    PROVE  Advanced(s, t)
BY DEF Onward, Advanced, Players, InTable

\* Advancing after going on is advancing.
LEMMA OnwardAdvanced ==
    ASSUME NEW r, NEW s, NEW t, Playable(r), Playable(s), Playable(t),
           Onward(r, s), Advanced(s, t)
    PROVE  Advanced(r, t)
<1>1. t.round >= r.round
  BY DEF Onward, Advanced, Playable
<1>2. ASSUME NEW v \in Players(r), t.pst[v] = "ACTIVE"
      PROVE  /\ t.bet[v] >= r.bet[v]
             /\ r.allin[v] => t.allin[v]
             /\ r.card[v] = "KNOWN" => t.card[v] # "UNKNOWN"
             /\ r.card[v] = "DISCARD" => t.card[v] = "DISCARD"
  <2>1. v \in Players(s) /\ v \in User
    BY SamePlayers DEF Onward, Players, InTable
  <2>2. /\ t.bet[v] >= s.bet[v]
        /\ s.allin[v] => t.allin[v]
        /\ s.card[v] = "KNOWN" => t.card[v] # "UNKNOWN"
        /\ s.card[v] = "DISCARD" => t.card[v] = "DISCARD"
    BY <1>2, <2>1, Zenon DEF Advanced
  <2>3. /\ s.bet[v] >= r.bet[v]
        /\ r.allin[v] => s.allin[v]
        /\ r.card[v] = "KNOWN" => s.card[v] # "UNKNOWN"
        /\ r.card[v] = "DISCARD" => s.card[v] = "DISCARD"
    BY <2>1, Zenon DEF Onward
  <2>4. t.bet[v] >= r.bet[v]
    BY <2>1, <2>2, <2>3 DEF Playable, Numbers
  <2>5. r.card[v] \in CardStatus /\ s.card[v] \in CardStatus
        /\ t.card[v] \in CardStatus
    BY <2>1 DEF Playable
  <2>6. /\ r.card[v] = "KNOWN" => t.card[v] # "UNKNOWN"
        /\ r.card[v] = "DISCARD" => t.card[v] = "DISCARD"
    BY <2>2, <2>3, <2>5, CardsStand
  <2>7. r.allin[v] => t.allin[v]
    BY <2>2, <2>3
  <2> QED BY <2>4, <2>6, <2>7
<1> QED BY <1>1, <1>2, Zenon DEF Advanced

\* Going on after advancing is advancing.
LEMMA AdvancedOnward ==
    ASSUME NEW r, NEW s, NEW t, Playable(r), Playable(s), Playable(t),
           Advanced(r, s), Onward(s, t)
    PROVE  Advanced(r, t)
<1>1. t.round >= r.round
  BY DEF Onward, Advanced, Playable
<1>2. ASSUME NEW v \in Players(r), t.pst[v] = "ACTIVE"
      PROVE  /\ t.bet[v] >= r.bet[v]
             /\ r.allin[v] => t.allin[v]
             /\ r.card[v] = "KNOWN" => t.card[v] # "UNKNOWN"
             /\ r.card[v] = "DISCARD" => t.card[v] = "DISCARD"
  <2>1. s.pst[v] = "ACTIVE" /\ v \in User
    BY <1>2 DEF Onward, Players, InTable
  <2>2. /\ s.bet[v] >= r.bet[v]
        /\ r.allin[v] => s.allin[v]
        /\ r.card[v] = "KNOWN" => s.card[v] # "UNKNOWN"
        /\ r.card[v] = "DISCARD" => s.card[v] = "DISCARD"
    BY <1>2, <2>1, Zenon DEF Advanced
  <2>3. /\ t.bet[v] >= s.bet[v]
        /\ s.allin[v] => t.allin[v]
        /\ s.card[v] = "KNOWN" => t.card[v] # "UNKNOWN"
        /\ s.card[v] = "DISCARD" => t.card[v] = "DISCARD"
    BY <2>1, Zenon DEF Onward
  <2>4. t.bet[v] >= r.bet[v]
    BY <2>1, <2>2, <2>3 DEF Playable, Numbers
  <2>5. r.card[v] \in CardStatus /\ s.card[v] \in CardStatus
        /\ t.card[v] \in CardStatus
    BY <2>1 DEF Playable
  <2>6. /\ r.card[v] = "KNOWN" => t.card[v] # "UNKNOWN"
        /\ r.card[v] = "DISCARD" => t.card[v] = "DISCARD"
    BY <2>2, <2>3, <2>5, CardsStand
  <2>7. r.allin[v] => t.allin[v]
    BY <2>2, <2>3
  <2> QED BY <2>4, <2>6, <2>7
<1> QED BY <1>1, <1>2, Zenon DEF Advanced

\* The leaver's bets are noted.
LEMMA ForfeitSound ==
    ASSUME NEW s, NEW u \in User, Sound(s), Coins(s)
    PROVE  LET t == Forfeit(s, u)
           IN Sound(t) /\ Onward(s, t)
<1> DEFINE t == Forfeit(s, u)
<1>1. IsActive(s) /\ Numbers(s) /\ NonNeg(s)
  BY DEF Sound, Playable
<1>2. /\ Coins(t) /\ t.leaveSum = s.leaveSum + s.bet[u]
      /\ t.pool = s.pool /\ t.bet = s.bet /\ t.money = s.money
      /\ t.seat = s.seat /\ t.pst = s.pst
      /\ t.betMax = s.betMax /\ t.hasAllin = s.hasAllin
      /\ t.allin = s.allin /\ t.allinCoin = s.allinCoin
      /\ t.card = s.card /\ t.canAllin = s.canAllin
      /\ t.round = s.round /\ t.over = s.over
      /\ t.currBet = s.currBet /\ IsActive(t)
  BY <1>1, ForfeitCoins
<1> HIDE DEF t
<1>3. t.leaveSum >= 0
  BY <1>1, <1>2 DEF Numbers, NonNeg
<1>4. NonNeg(t)
  BY <1>1, <1>2, <1>3 DEF NonNeg
<1>5. Playable(t)
  BY <1>2, <1>4 DEF Coins, Sound, Playable
<1>6. Holders(t) = Holders(s) /\ Stakers(t) = Stakers(s)
  BY <1>2 DEF Holders, Stakers, Players, InTable
<1>7. Covered(t)
  <2> SUFFICES ASSUME NEW v \in Holders(s), s.money[v] < 0
               PROVE  /\ t.allin[v] /\ t.hasAllin > 0 /\ t.canAllin
                      /\ \A w \in Stakers(s) : t.allinCoin[w] = t.hasAllin
    BY <1>2, <1>6 DEF Covered
  <2>1. /\ s.allin[v] /\ s.hasAllin > 0 /\ s.canAllin
        /\ \A w \in Stakers(s) : s.allinCoin[w] = s.hasAllin
    BY DEF Sound, Covered
  <2>2. t.allin[v] /\ t.canAllin
    BY <1>2, <2>1, Zenon
  <2> QED BY <1>2, <2>1, <2>2
<1>8. Onward(s, t)
  <2>1. t.round >= s.round /\ \A v \in User : t.bet[v] >= s.bet[v]
    BY <1>1, <1>2 DEF Sound, Playable, Numbers
  <2>2. \A v \in User : /\ s.allin[v] => t.allin[v]
                        /\ s.card[v] = "KNOWN" => t.card[v] # "UNKNOWN"
                        /\ s.card[v] = "DISCARD" => t.card[v] = "DISCARD"
    BY <1>2
  <2>3. t.status = s.status
    BY <1>1, <1>2 DEF IsActive
  <2> QED BY <1>2, <2>1, <2>2, <2>3 DEF Onward
<1> QED BY <1>5, <1>7, <1>8 DEF Sound, t

\* The hand goes on without the leavers.
LEMMA LeaveSound ==
    ASSUME NEW s, NEW G \in SUBSET InTable(s), Typed(s), Coins(s), Sound(s),
           IsActive(PlayersLeave(s, G))
    PROVE  LET t == PlayersLeave(s, G)
           IN Sound(t) /\ Advanced(s, t) /\ (Rich(s) => Rich(t))
<1> DEFINE t == PlayersLeave(s, G)
           Out(f, x) == [u \in User |-> IF u \in G THEN x ELSE f[u]]
<1>1. InTable(t) = InTable(s) \ G /\ Typed(t) /\ Coins(t)
  BY PlayersLeaveTyped, LeaveCoins
<1>2. /\ DOMAIN t = Fields
      /\ t.pst = Out(s.pst, "LOGOUT")
      /\ t.money = Out(s.money, 0) /\ t.bet = Out(s.bet, 0)
      /\ t.allinCoin = Out(s.allinCoin, 0)
      /\ t.allin = Out(s.allin, FALSE)
      /\ t.card = Out(s.card, "DISCARD")
      /\ \/ /\ t.status = "EMPTY" /\ t.betMax = 0
            /\ t.pool = 0 /\ t.leaveSum = 0 /\ t.hasAllin = 0
         \/ /\ IsActive(t) <=> IsActive(s)
            /\ t.betMax = s.betMax /\ t.hasAllin = s.hasAllin
            /\ t.pool = s.pool /\ t.leaveSum = s.leaveSum
            /\ t.canAllin = s.canAllin /\ t.round = s.round
            /\ t.currBet = s.currBet /\ t.over = s.over
  <2> HIDE DEF t, Out
  <2>1. Numbers(s)
    BY DEF Coins
  <2> QED BY <2>1, PlayersLeaveFields, ZenonT(40) DEF t, Out
<1> HIDE DEF t
<1>3. IsActive(t) /\ t.status # "EMPTY"
  BY DEF IsActive, t
<1>4. /\ t.betMax = s.betMax /\ t.hasAllin = s.hasAllin
      /\ t.pool = s.pool /\ t.leaveSum = s.leaveSum
      /\ t.canAllin = s.canAllin /\ t.round = s.round
      /\ t.currBet = s.currBet
  BY <1>2, <1>3
<1>5. NonNeg(t)
  BY <1>2, <1>4 DEF Sound, Playable, NonNeg
<1>6. Playable(t)
  BY <1>1, <1>3, <1>5 DEF Playable, Coins, Typed, Shape, Steering, Notes
<1>7. ASSUME NEW v \in InTable(t)
      PROVE  /\ v \in InTable(s) /\ v \in User /\ v \notin G
             /\ t.pst[v] = s.pst[v] /\ t.money[v] = s.money[v]
             /\ t.allinCoin[v] = s.allinCoin[v] /\ t.card[v] = s.card[v]
  BY <1>1, <1>2 DEF InTable
<1>8. Holders(t) \subseteq Holders(s) /\ Stakers(t) \subseteq Stakers(s)
  BY <1>4, <1>7 DEF Holders, Stakers, Players
<1>9. Covered(t)
  <2> SUFFICES ASSUME NEW v \in Holders(t), t.money[v] < 0
               PROVE  /\ t.allin[v] /\ t.hasAllin > 0 /\ t.canAllin
                      /\ \A w \in Stakers(t) : t.allinCoin[w] = t.hasAllin
    BY DEF Covered
  <2>1. v \in Holders(s) /\ s.money[v] < 0 /\ v \in User /\ v \notin G
    BY <1>7, <1>8 DEF Holders
  <2>2. /\ s.allin[v] /\ s.hasAllin > 0 /\ s.canAllin
        /\ \A w \in Stakers(s) : s.allinCoin[w] = s.hasAllin
    BY <2>1 DEF Sound, Covered
  <2>3. t.allin[v]
    BY <1>2, <2>1, <2>2, Zenon
  <2>4. t.canAllin /\ t.hasAllin > 0
    BY <1>4, <2>2
  <2>5. \A w \in Stakers(t) : w \in InTable(t)
    BY DEF Stakers, Holders, Players
  <2>6. \A w \in Stakers(t) : t.allinCoin[w] = t.hasAllin
    BY <1>4, <1>7, <1>8, <2>2, <2>5
  <2> QED BY <2>3, <2>4, <2>6
<1>10. Advanced(s, t)
  <2>1. t.round >= s.round
    BY <1>4 DEF Sound, Playable
  <2>2. ASSUME NEW v \in User, t.pst[v] = "ACTIVE"
        PROVE  /\ t.bet[v] >= s.bet[v]
               /\ s.card[v] = "KNOWN" => t.card[v] # "UNKNOWN"
               /\ s.card[v] = "DISCARD" => t.card[v] = "DISCARD"
    BY <1>2, <2>2 DEF Sound, Playable, Numbers
  <2>3. ASSUME NEW v \in User, t.pst[v] = "ACTIVE"
        PROVE  s.allin[v] => t.allin[v]
    <3>1. v \notin G
      BY <1>2, <2>3
    <3> QED BY <1>2, <3>1, Zenon
  <2> QED BY <2>1, <2>2, <2>3 DEF Advanced, Players, InTable
<1>11. Rich(s) => Rich(t)
  BY <1>7 DEF Rich
<1> QED BY <1>6, <1>9, <1>10, <1>11 DEF Sound, t

\* Whoever waits for a hand keeps the coins for it while purse and state stay.
LEMMA RichKept ==
    ASSUME NEW s, NEW t, Rich(s), InTable(t) = InTable(s),
           \A v \in InTable(s) : /\ t.pst[v] = s.pst[v]
                                 /\ s.pst[v] = "RSTART" => t.money[v] = s.money[v]
    PROVE  Rich(t)
BY DEF Rich

\* Leaving a hand owes nothing to those who stay, and takes nothing of theirs
\* back.
LEMMA LeaveHandActs ==
    ASSUME NEW u \in User, CInv, Solvent(table), LeaveHand(u)
    PROVE  /\ Solvent(table') /\ Advanced(table, table')
           /\ Rich(table) => Rich(table')
<1> DEFINE s1 == Forfeit(table, u)
           s2 == IF table.currBet = u THEN GetNextBetPlayer(s1, u) ELSE s1
           sd == Discard(s2, u)
           s3 == SetNextFirst(sd, u)
           s4 == PlayersLeave(s3, {u})
<1>1. /\ IsActive(s4) /\ table' = GameOverIfDecided(s4)
      /\ u \in InTable(table) /\ InHand(u)
  BY LeaveHandTable DEF InHand, Playing, At, CInv, HInv, LeaveHand
<1>2. Sound(table) /\ Playable(table) /\ Coins(table) /\ Typed(table)
  BY <1>1, InHandBetting, SoundTable DEF Sound, CInv, TInv
<1>3. /\ Sound(s1) /\ Onward(table, s1) /\ Coins(s1) /\ s1.money = table.money
      /\ Typed(s1)
  <2>1. Sound(s1) /\ Onward(table, s1)
    BY <1>2, ForfeitSound
  <2>2. Coins(s1) /\ s1.money = table.money
    BY <1>2, ForfeitCoins DEF Playable
  <2>3. Typed(s1)
    BY <1>2, CoinsTyped DEF Forfeit, Typed, Shape, Fields, FreshTable
  <2> QED BY <2>1, <2>2, <2>3
<1> HIDE DEF s1
<1>4. /\ Sound(s2) /\ Onward(table, s2) /\ SameCoins(s1, s2) /\ Numbers(s2)
      /\ Typed(s2)
  <2>1. CASE table.currBet = u
    <3>1. s2 = GetNextBetPlayer(s1, u)
      BY <2>1
    <3>2. Sound(s2) /\ Onward(s1, s2)
      BY <1>3, <3>1, GetNextBetPlayerSound DEF Sound
    <3>3. SameCoins(s1, s2) /\ Numbers(s2) /\ Typed(s2)
      BY <1>3, <3>1, GetNextBetPlayerCoins, NumbersKept, GetNextBetPlayerTyped
      DEF Coins
    <3> QED BY <1>2, <1>3, <3>2, <3>3, SoundOn
  <2>2. CASE table.currBet # u
    BY <1>3, <2>2, SteeringCoins DEF Coins
  <2> QED BY <2>1, <2>2
<1> HIDE DEF s2
<1>5. /\ Sound(sd) /\ Onward(table, sd) /\ SameCoins(s2, sd) /\ Numbers(sd)
      /\ Typed(sd)
  <2>1. Sound(sd) /\ Onward(s2, sd)
    BY <1>4, DiscardSound
  <2>2. Sound(sd) /\ Onward(table, sd)
    BY <1>2, <1>4, <2>1, SoundOn
  <2> QED BY <1>4, <2>2, DiscardCoins, NumbersKept, DiscardTyped
<1> HIDE DEF sd
<1>6. /\ Sound(s3) /\ Onward(table, s3) /\ SameCoins(sd, s3) /\ Typed(s3)
  <2>1. Sound(s3) /\ Onward(sd, s3)
    BY <1>5, SteeringSound
  <2>2. Sound(s3) /\ Onward(table, s3)
    BY <1>2, <1>5, <2>1, SoundOn
  <2> QED BY <1>5, <2>2, SteeringCoins, SetNextFirstTyped
<1> HIDE DEF s3
<1>7. SameCoins(s1, s3)
  BY <1>4, <1>5, <1>6, SameCoinsOn
<1>8. Coins(s3) /\ InTable(s3) = InTable(table) /\ s3.money = table.money
  BY <1>3, <1>6, <1>7, CoinsKept DEF SameCoins, InTable, Onward
<1>9. {u} \in SUBSET InTable(s3)
  BY <1>1, <1>8
<1>10. /\ Sound(s4) /\ Advanced(s3, s4)
       /\ Rich(s3) => Rich(s4)
  BY <1>1, <1>6, <1>8, <1>9, LeaveSound
<1> HIDE DEF s4
<1>11. Advanced(table, s4)
  BY <1>2, <1>6, <1>10, OnwardAdvanced DEF Sound
<1>12. Sound(table') /\ Onward(s4, table')
  BY <1>1, <1>10, SteeringSound
<1>13. Advanced(table, table')
  BY <1>2, <1>10, <1>11, <1>12, AdvancedOnward DEF Sound
<1>14. Solvent(table')
  BY <1>12 DEF Solvent, Sound, Playable
<1>15. Rich(table) => Rich(s3)
  BY <1>6, <1>8, RichKept DEF Onward
<1>16. Rich(s4) => Rich(table')
  BY <1>1 DEF GameOverIfDecided, GameOver, Rich, InTable, Sound, Playable,
              Numbers, Fields, FreshTable
<1> QED BY <1>10, <1>13, <1>14, <1>15, <1>16

\* A hand that is left alone owes no more than before.
LEMMA RestedSolvent ==
    ASSUME CInv, CInv', Solvent(table), Rested(table, table')
    PROVE  Solvent(table') /\ (IsActive(table') => Advanced(table, table'))
<1>1. Coins(table) /\ Coins(table') /\ Numbers(table) /\ Numbers(table')
  BY DEF CInv, Coins
<1>2. table'.betMax \in {table.betMax, 0} /\ table.betMax >= 0
  BY DEF Rested, Solvent, NonNeg
<1>3. CASE ~ IsActive(table')
  <2>1. Players(table') = {}
    BY <1>3 DEF CInv, HInv, IInv, TableInv, Core, Together, Players
  <2>2. NonNeg(table')
    BY <1>1, <1>2, <1>3, <2>1 DEF Coins, Quiet, Idle, NonNeg
  <2> QED BY <1>3, <2>2 DEF Solvent, Betting
<1>4. CASE IsActive(table')
  <2>1. /\ IsActive(table) /\ Players(table') = Players(table)
        /\ table'.pool = table.pool /\ table'.leaveSum = table.leaveSum
        /\ table'.betMax = table.betMax /\ table'.hasAllin = table.hasAllin
        /\ table'.canAllin = table.canAllin /\ table'.round = table.round
        /\ table'.currBet = table.currBet /\ (table.over => table'.over)
    BY <1>4, Zenon DEF Rested, SameHand
  <2>2. \A u \in Players(table) :
          /\ table'.money[u] = table.money[u] /\ table'.bet[u] = table.bet[u]
          /\ table'.allin[u] = table.allin[u]
          /\ table'.allinCoin[u] = table.allinCoin[u]
          /\ table'.card[u] = table.card[u]
    BY <1>4, Zenon DEF Rested, SameHand
  <2>3. NonNeg(table')
    <3>1. \A u \in User : table'.bet[u] >= 0 /\ table'.allinCoin[u] >= 0
      BY <1>1, <2>1, <2>2 DEF Coins, Quiet, Solvent, NonNeg
    <3> QED BY <2>1, <3>1 DEF Solvent, NonNeg
  <2>4. Holders(table') = Holders(table) /\ Holders(table) \subseteq Players(table)
    BY <2>1, <2>2 DEF Holders, Players, InTable
  <2>5. Stakers(table') = Stakers(table) /\ Stakers(table) \subseteq Players(table)
    BY <2>1, <2>4 DEF Stakers
  <2>6. Betting(table') => Covered(table')
    <3> SUFFICES ASSUME Betting(table'),
                        NEW v \in Holders(table'), table'.money[v] < 0
                 PROVE  /\ table'.allin[v] /\ table'.hasAllin > 0
                        /\ table'.canAllin
                        /\ \A w \in Stakers(table') :
                             table'.allinCoin[w] = table'.hasAllin
      BY DEF Covered
    <3>1. Covered(table) /\ v \in Holders(table) /\ table.money[v] < 0
      BY <2>1, <2>2, <2>4 DEF Solvent, Betting
    <3>2. /\ table.allin[v] /\ table.hasAllin > 0 /\ table.canAllin
          /\ \A w \in Stakers(table) : table.allinCoin[w] = table.hasAllin
      BY <3>1 DEF Covered
    <3>3. table'.allin[v] /\ table'.canAllin
      BY <2>1, <2>2, <2>4, <3>1, <3>2, Zenon
    <3> QED BY <2>1, <2>2, <2>5, <3>2, <3>3
  <2>7. Advanced(table, table')
    <3>1. table'.round >= table.round
      BY <2>1 DEF CInv, TInv, Typed, Steering
    <3>2. \A v \in Players(table) :
            /\ table'.bet[v] >= table.bet[v]
            /\ table.card[v] = "KNOWN" => table'.card[v] # "UNKNOWN"
            /\ table.card[v] = "DISCARD" => table'.card[v] = "DISCARD"
      BY <1>1, <2>2 DEF Numbers, Players, InTable
    <3>3. \A v \in Players(table) : table.allin[v] => table'.allin[v]
      BY <2>2
    <3> QED BY <3>1, <3>2, <3>3 DEF Advanced
  <2> QED BY <2>3, <2>6, <2>7 DEF Solvent
<1> QED BY <1>3, <1>4

\* A hand is dealt to players who can pay the ante: nobody owes.
LEMMA GameStartSolvent ==
    ASSUME NEW s, NEW d, Core(s), Coins(s), ~ IsActive(s),
           \A u \in InTable(s) : s.money[u] >= Ante
    PROVE  Solvent(GameStart(s, d)) /\ Rich(GameStart(s, d))
<1> DEFINE here == InTable(s)
           dealer == FirstFrom(s, IF s.preWin >= 0 THEN s.preWin ELSE 0, here)
           speaker == NextAfter(s, dealer, here \ {dealer})
           In(f, x) == [u \in User |-> IF u \in here THEN x ELSE f[u]]
           purses == [u \in User |-> IF u \in here THEN s.money[u] - Ante
                                     ELSE s.money[u]]
           stakes == [u \in User |-> IF u \in here THEN s.bet[u] + Ante
                                     ELSE s.bet[u]]
           dealt == [CloseLobby(s) EXCEPT
             !.round = 1, !.card = In(@, "UNKNOWN"), !.pst = In(@, "ACTIVE"),
             !.money = [u \in User |-> IF u \in here THEN @[u] - Ante ELSE @[u]],
             !.bet = [u \in User |-> IF u \in here THEN @[u] + Ante ELSE @[u]],
             !.rank = [u \in User |-> IF u \in here THEN d[u] ELSE @[u]],
             !.pool = @ + Ante * Cardinality(here),
             !.betMax = Ante, !.maxCard = "UNKNOWN",
             !.first = s.seat[speaker]]
           asked == SetPlayerOptype(dealt, speaker)
           limited == SetPlayerLimitCoin(asked)
           t == [limited EXCEPT
                   !.status = "ACTIVE", !.currBet = speaker, !.betT = speaker]
<1>1. GameStart(s, d) = t
  BY DEF GameStart
<1>2. /\ Moved(s, t) /\ Players(t) = here /\ t.hasAllin = 0
      /\ InTable(t) = here /\ t.leaveSum = 0
      /\ t.bet = [u \in User |-> IF u \in here THEN Ante ELSE 0]
      /\ \A u \in here : t.money[u] = s.money[u] - Ante
      /\ t.betMax = Ante
  <2> DEFINE g == GameStart(s, d)
  <2>1. /\ Moved(s, g) /\ Players(g) = InTable(s) /\ g.hasAllin = 0
        /\ InTable(g) = InTable(s) /\ g.leaveSum = 0
        /\ g.bet = [u \in User |-> IF u \in InTable(s) THEN Ante ELSE 0]
        /\ \A u \in InTable(s) : g.money[u] = s.money[u] - Ante
        /\ g.betMax = Ante
    <3> HIDE DEF here, t, dealer, speaker, In, purses, stakes, dealt, asked,
                 limited
    <3> QED BY GameStartMoved, ZenonT(40)
  <2>2. t = g
    BY <1>1
  <2> HIDE DEF t, g
  <2> QED BY <2>1, <2>2, Zenon
<1>3. Players(s) = {}
  BY DEF Core, Together, Players
<1>4. /\ Numbers(s) /\ s.pool = 0 /\ s.leaveSum = 0 /\ s.hasAllin = 0
      /\ \A u \in User : s.bet[u] = 0 /\ s.allinCoin[u] = 0
  BY <1>3 DEF Coins, Quiet, Idle
<1>5. here \subseteq User /\ Cardinality(here) \in Nat
  BY InTableFinite, FS_CardinalityType DEF InTable
<1> HIDE DEF speaker
<1>6. /\ DOMAIN dealt = Fields
      /\ dealt.status = s.status /\ dealt.seat = s.seat
      /\ dealt.money = purses /\ dealt.bet = stakes
      /\ dealt.pool = s.pool + Ante * Cardinality(here)
      /\ dealt.leaveSum = s.leaveSum
      /\ dealt.betMax = Ante /\ dealt.hasAllin = s.hasAllin
      /\ dealt.allin = s.allin /\ dealt.allinCoin = s.allinCoin
  BY <1>4 DEF CloseLobby, Numbers, Fields, FreshTable
<1>7. /\ purses \in [User -> Int] /\ stakes \in [User -> Int]
      /\ \A u \in here : purses[u] >= 0
      /\ Ante * Cardinality(here) \in Int /\ Ante * Cardinality(here) >= 0
  <2>1. Ante * Cardinality(here) \in Nat
    BY <1>5, CoinAssumption
  <2> QED BY <1>4, <1>5, <2>1, CoinAssumption DEF Numbers
<1> HIDE DEF dealt, here
<1>8. Numbers(dealt)
  BY <1>4, <1>6, <1>7, CoinAssumption DEF Numbers
<1> HIDE DEF purses, stakes
<1>9. AsPlayed(dealt, asked) /\ Numbers(asked)
  <2>1. AsPlayed(dealt, asked)
    BY <1>8, SetPlayerOptypePlayed
  <2> QED BY <1>8, <2>1 DEF AsPlayed, Numbers
<1> HIDE DEF asked
<1>10. Covered(asked) /\ asked.hasAllin = 0
       /\ \A u \in User : asked.allinCoin[u] = 0
  <2>1. asked.money = purses /\ asked.seat = s.seat
        /\ asked.hasAllin = s.hasAllin /\ asked.allinCoin = s.allinCoin
    BY <1>6, <1>9 DEF AsPlayed
  <2>2. Holders(asked) \subseteq here
    BY <2>1 DEF Holders, InTable, here
  <2> QED BY <1>4, <1>5, <1>7, <2>1, <2>2 DEF Covered
<1>11. /\ DOMAIN limited = Fields /\ limited.pool = asked.pool
       /\ \A u \in User : limited.allinCoin[u] >= 0
  <2>1. AllinStake(asked) \in Int /\ AllinStake(asked) >= 0
    BY <1>9, <1>10, StakeNonNeg
  <2> DEFINE new == [u \in User |-> IF u \in Holders(asked)
                                    THEN AllinStake(asked)
                                    ELSE asked.allinCoin[u]]
             lim == [asked EXCEPT !.allinCoin = new]
  <2>2. \A u \in User : new[u] >= 0
    BY <1>10, <2>1
  <2> HIDE DEF new
  <2>3. DOMAIN lim = Fields /\ lim.pool = asked.pool /\ lim.allinCoin = new
    BY <1>9 DEF Numbers, Fields, FreshTable
  <2>4. limited = asked \/ limited = lim
    BY DEF SetPlayerLimitCoin, new
  <2> HIDE DEF lim, limited
  <2> QED BY <1>9, <1>10, <2>2, <2>3, <2>4 DEF Numbers
<1> HIDE DEF limited
<1>12. /\ t.pool = limited.pool /\ t.allinCoin = limited.allinCoin
  BY <1>11 DEF Fields, FreshTable
<1>13. t.pool >= 0
  BY <1>4, <1>6, <1>7, <1>9, <1>11, <1>12 DEF AsPlayed
<1> HIDE DEF t
<1>14. NonNeg(t)
  BY <1>2, <1>11, <1>12, <1>13, CoinAssumption DEF NonNeg
<1>15. Covered(t)
  <2>1. Holders(t) \subseteq here
    BY <1>2 DEF Holders
  <2>2. \A u \in here : t.money[u] >= 0
    BY <1>2, <1>4, <1>5, CoinAssumption DEF Numbers, here
  <2>3. t.money \in [User -> Int]
    BY <1>2 DEF Moved, Coins, Numbers
  <2> QED BY <1>5, <2>1, <2>2, <2>3 DEF Covered
<1>16. Rich(t)
  BY <1>2 DEF Rich, Players
<1> QED BY <1>1, <1>14, <1>15, <1>16 DEF Solvent, t

\* Everyone at a table that is all ready has the coins CheckMoney asks for.
LEMMA AllReadyRich ==
    ASSUME NEW q, Core(q), IsAllReady(q), Rich(q)
    PROVE  \A u \in InTable(q) : q.money[u] >= MinMoney
<1>1. IsFiniteSet(InTable(q)) /\ Ready(q) \subseteq InTable(q)
  BY InTableFinite DEF Ready
<1>2. Cardinality(Ready(q)) >= Cardinality(InTable(q))
  BY DEF IsAllReady, Core, Counted
<1>3. /\ IsFiniteSet(Ready(q))
      /\ Cardinality(Ready(q)) <= Cardinality(InTable(q))
      /\ Cardinality(Ready(q)) = Cardinality(InTable(q)) => Ready(q) = InTable(q)
  BY <1>1, FS_Subset
<1>4. Cardinality(Ready(q)) \in Nat /\ Cardinality(InTable(q)) \in Nat
  BY <1>1, <1>3, FS_CardinalityType
<1>5. Ready(q) = InTable(q)
  BY <1>2, <1>3, <1>4
<1> QED BY <1>5 DEF Ready, Rich

\* A hand opens with nobody in debt: whoever waits for it has MinMoney, which
\* pays the ante.
LEMMA OpensSolvent ==
    ASSUME NEW q, CInv, MinMoney >= Ante, Opens(q), Rich(table)
    PROVE  Solvent(table') /\ Rich(table')
<1>1. PICK d \in Deals : table' = GameStart(q, d)
  BY DEF Opens
<1>2. Core(q) /\ Coins(q) /\ ~ IsActive(q) /\ IsAllReady(q) /\ Rich(q)
  BY DEF Opens, Lobbied, TableInv, Moved, Rested
<1>3. \A u \in InTable(q) : q.money[u] >= Ante
  <2>1. \A u \in InTable(q) : q.money[u] >= MinMoney /\ q.money[u] \in Int
    BY <1>2, AllReadyRich DEF Coins, Numbers, InTable
  <2> QED BY <2>1, CoinAssumption
<1> QED BY <1>1, <1>2, <1>3, GameStartSolvent

-----------------------------------------------------------------------------
(* The step as a whole. *)

\* The inductive invariant of the debts
DInv == CInv /\ Rich(table) /\ Solvent(table)

\* What a step leaves of it
Sane ==
    /\ Solvent(table') /\ Rich(table')
    /\ IsActive(table) /\ IsActive(table') => Advanced(table, table')

\* Those who wait do not stake.
LEMMA RichStaking ==
    ASSUME CInv, Rich(table), Staking
    PROVE  Rich(table')
<1>1. InTable(table') = InTable(table) /\ table'.pst = table.pst
  BY SamePlayers DEF Staking, SameCoins, Staked
<1>2. ASSUME NEW v \in InTable(table), table.pst[v] = "RSTART"
      PROVE  table'.money[v] = table.money[v]
  <2>1. CASE SameCoins(table, table')
    BY <2>1 DEF SameCoins
  <2>2. CASE \E u \in Players(table) : \E x \in Int : Staked(table, table', u, x)
    <3>1. PICK u \in Players(table), x \in Int : Staked(table, table', u, x)
      BY <2>2
    <3>2. u # v /\ v \in User
      BY <1>2, <3>1 DEF Players, InTable
    <3> QED BY <3>1, <3>2 DEF Staked, CInv, Coins, Numbers
  <2> QED BY <2>1, <2>2 DEF Staking
<1> QED BY <1>1, <1>2, RichKept

\* A handler of the hand that has acted keeps the invariant.
LEMMA ActedSane ==
    ASSUME DInv, Staking, Solvent(table'),
           IsActive(table) => Acted(table, table')
    PROVE  Sane
BY RichStaking, OnwardAdvances DEF DInv, Sane, Acted

\* So does what leaves the hand alone,
LEMMA RestedSane ==
    ASSUME DInv, CInv', Rested(table, table')
    PROVE  Sane
<1>1. Rich(table')
  BY DEF DInv, Rested
<1> QED BY <1>1, RestedSolvent DEF DInv, Sane

\* and what changes nothing,
LEMMA SameSane ==
    ASSUME DInv, CInv', table' = table
    PROVE  Sane
<1>1. AsBefore(table, table')
  BY DEF AsBefore
<1>2. Coins(table)
  BY DEF DInv, CInv
<1>3. Rested(table, table')
  BY <1>1, <1>2, RestedAsBefore
<1> QED BY <1>3, RestedSane

\* and a settlement,
LEMMA SettledSane ==
    ASSUME DInv, CInv', Settled(table, table'), Rich(table')
    PROVE  Sane
<1>1. /\ ~ IsActive(table') /\ \A u \in User : table'.bet[u] = 0
      /\ table'.leaveSum = 0 /\ table'.pool = 0
      /\ table'.hasAllin = 0 /\ table'.betMax = 0
  BY DEF Settled
<1>2. Players(table') = {}
  BY <1>1 DEF CInv, HInv, IInv, TableInv, Core, Together, Players
<1>3. \A u \in User : table'.allinCoin[u] = 0
  BY <1>2 DEF CInv, Coins, Quiet
<1> QED BY <1>1, <1>3 DEF Sane, Solvent, NonNeg, Betting

\* and a step of the lobby,
LEMMA LobbyingSane ==
    ASSUME DInv, CInv', MinMoney >= Ante, Lobbying
    PROVE  Sane
<1>1. CASE Rested(table, table')
  BY <1>1, RestedSane
<1>2. CASE \E q : Opens(q)
  <2>1. PICK q : Opens(q)
    BY <1>2
  <2>2. ~ IsActive(table)
    BY <2>1 DEF Opens
  <2>3. Solvent(table') /\ Rich(table')
    BY <2>1, OpensSolvent DEF DInv
  <2> QED BY <2>2, <2>3 DEF Sane
<1> QED BY <1>1, <1>2 DEF Lobbying

\* and a message of a player in the hand,
LEMMA BettingSane ==
    ASSUME DInv, NEW u \in User,
           \/ Call(u) \/ Allin(u) \/ ThrowCard(u) \/ CheckCard(u)
           \/ \E x \in RaseChoices : Rase(u, x)
           \/ \E v \in User : CompareCards(u, v)
    PROVE  Sane
<1>1. CInv /\ TInv /\ Solvent(table) /\ Numbers(table)
  BY DEF DInv, CInv, Coins
<1>2. Acted(table, table')
  BY <1>1, CallActs, AllinActs, ThrowCardActs, CheckCardActs, RaseActs,
     CompareCardsActs
<1>3. Staking
  <2>1. CASE Call(u) \/ Allin(u) \/ \E x \in RaseChoices : Rase(u, x)
    BY <1>1, <2>1, CallStakes, AllinStakes, RaseStakes
  <2>2. CASE ThrowCard(u) \/ CheckCard(u)
    BY <1>1, <2>2, FoldStakes
  <2>3. CASE \E v \in User : CompareCards(u, v)
    BY <1>1, <2>3, CompareCardsStakes
  <2> QED BY <2>1, <2>2, <2>3
<1> QED BY <1>2, <1>3, ActedSane DEF Acted

\* and any message of a player,
LEMMA MessageSane ==
    ASSUME DInv, CInv', MaxNum > 2, MinMoney >= Ante, RobotsStay,
           NEW u \in User, Message(u)
    PROVE  Sane
<1>0. CInv /\ Solvent(table) /\ Rich(table)
  BY DEF DInv
<1>1. CASE LoginComing(u) \/ LoginRedirected(u) \/ RobotComing(u)
  <2>1. Rested(table, table')
    BY <1>0, <1>1, ComingCoins DEF Came
  <2> QED BY <2>1, RestedSane
<1>2. CASE RobotReplaced(u)
  <2>1. PICK m \in RobotMoney :
          CheckMoney(m) /\ TableBecomes(PlayerReplaced(table, u, m))
    BY <1>2 DEF RobotReplaced
  <2>2. m \in Int /\ m >= MinMoney /\ u \in Robots
    BY <1>2, <2>1, MoneyAssumption DEF CheckMoney, RobotReplaced
  <2>3. u \notin Players(table)
    BY <1>2, <2>2 DEF RobotsStay, Playing, RobotReplaced, Players
  <2>4. Typed(table) /\ Coins(table)
    BY <1>0 DEF CInv, TInv
  <2>5. Rested(table, PlayerReplaced(table, u, m))
    <3>1. u \in User
      BY <2>2, RobotAssumption
    <3> QED BY <2>2, <2>3, <2>4, <3>1, ReplacedCoins
  <2> QED BY <2>1, <2>5, RestedSane DEF TableBecomes
<1>3. CASE LeaveHand(u)
  BY <1>0, <1>3, LeaveHandActs DEF Sane
<1>4. CASE LeaveTable(u) \/ Drop(u) \/ Logout(u) \/ GetTableDetail(u)
  BY <1>0, <1>4, LeavingCoins, LobbyingSane
<1>5. CASE StartGame(u)
  BY <1>0, <1>5, StartGameCoins, LobbyingSane
<1>6. CASE \/ Call(u) \/ Allin(u) \/ ThrowCard(u) \/ CheckCard(u)
           \/ \E x \in RaseChoices : Rase(u, x)
           \/ \E v \in User : CompareCards(u, v)
  BY <1>6, BettingSane
<1> QED BY <1>1, <1>2, <1>3, <1>4, <1>5, <1>6 DEF Message

\* and any step at all.
LEMMA NextSane ==
    ASSUME DInv, CInv', MaxNum > 2, MinMoney >= Ante, RobotsStay, Next
    PROVE  Sane
<1>0. CInv /\ Solvent(table) /\ Numbers(table)
  BY DEF DInv, CInv, Coins
<1>1. CASE \E u \in User : Message(u)
  BY <1>1, MessageSane
<1>2. CASE HeartTimeOut \/ TableGameStartTimeOut \/ TableKickTimeOut
  BY <1>0, <1>2, LobbyTimerCoins, LobbyingSane
<1>3. CASE BetTimeOut
  BY <1>0, <1>3, BetTimeOutActs, FoldStakes, ActedSane DEF Acted
<1>4. CASE CompareResultNotifyTimeOut
  BY <1>0, <1>4, CompareResultActs, FoldStakes, ActedSane
<1>5. CASE GameOverTimeOut
  <2>1. CASE table' = table
    BY <2>1, SameSane
  <2>2. CASE Settled(table, table') /\ (Rich(table) => Rich(table'))
    BY <2>2, SettledSane DEF DInv
  <2> QED BY <1>0, <1>5, <2>1, <2>2, GameOverCoins
<1> QED BY <1>1, <1>2, <1>3, <1>4, <1>5 DEF Next, Timer

\* Every step keeps DInv and only advances the hand.
LEMMA NextDInv ==
    ASSUME DInv, MaxNum > 2, MinMoney >= Ante, [Next]_vars, [RobotsStay]_vars
    PROVE  DInv' /\ Sane
<1>1. CInv'
  BY NextCInv DEF DInv
<1>2. Sane
  <2>1. CASE UNCHANGED vars
    BY <1>1, <2>1, SameSane DEF vars
  <2>2. CASE Next /\ RobotsStay
    BY <1>1, <2>2, NextSane
  <2> QED BY <2>1, <2>2
<1> QED BY <1>1, <1>2 DEF DInv, Sane

\* A fresh table owes nothing.
LEMMA InitDInv ==
    ASSUME Init
    PROVE  DInv
<1>1. CInv
  BY InitCoins
<1>2. InTable(table) = {}
  BY SeatAssumption DEF Init, FreshTable, InTable, Seats, NoSeat
<1>3. NonNeg(table) /\ ~ Betting(table)
  BY DEF Init, FreshTable, NonNeg, Betting, IsActive
<1> QED BY <1>1, <1>2, <1>3 DEF DInv, Rich, Solvent

\* Nobody owes more than an all-in covers, at any time. MinMoney, which
\* CheckMoney asks for, must pay the ante, and no robot is replaced in a hand:
\* playerComming forgets what the robot staked.
THEOREM DInvHolds ==
    ASSUME MaxNum > 2, MinMoney >= Ante
    PROVE  Spec /\ [][RobotsStay]_vars => []DInv
<1>1. DInv /\ [Next]_vars /\ [RobotsStay]_vars => DInv'
  BY NextDInv
<1>2. Init => DInv
  BY InitDInv
<1> QED BY <1>1, <1>2, PTL DEF Spec

\* A debt is an all-in (AllinProc asks only for a purse that is not empty), and
\* setPlayerlimitcoin asks the same stake of everybody after it.
THEOREM DebtIsAllinHolds ==
    ASSUME MaxNum > 2, MinMoney >= Ante
    PROVE  Spec /\ [][RobotsStay]_vars => []DebtIsAllin
<1>1. DInv => DebtIsAllin
  BY DEF DInv, Solvent, Covered, Stakers, DebtIsAllin, Betting
<1> QED BY <1>1, DInvHolds, PTL

\* The whole table has its type at any time, under the same assumptions: no
\* purse, bet, pool or all-in limit runs below zero where TypeOK says it does
\* not.
THEOREM TypeOKHolds ==
    ASSUME MaxNum > 2, MinMoney >= Ante
    PROVE  Spec /\ [][RobotsStay]_vars => []TypeOK
<1>1. Init => crashed \in BOOLEAN
  BY DEF Init
<1>2. crashed \in BOOLEAN /\ [Next]_vars => (crashed \in BOOLEAN)'
  <2> SUFFICES ASSUME crashed \in BOOLEAN, [Next]_vars PROVE crashed' \in BOOLEAN
    OBVIOUS
  <2>1. ASSUME NEW u \in User, Message(u) PROVE crashed' \in BOOLEAN
    BY <2>1 DEF Message, TableBecomes, LoginComing, LoginRedirected, RobotComing,
         RobotReplaced, LeaveHand, LeaveTable, Drop, Logout, GetTableDetail,
         StartGame, Call, Allin, ThrowCard, CheckCard, Rase, CompareCards
  <2>2. CASE Timer
    BY <2>2 DEF Timer, TableBecomes, LeaveHand, LeaveTable, ThrowCard,
         HeartTimeOut, TableGameStartTimeOut, TableKickTimeOut, BetTimeOut,
         CompareResultNotifyTimeOut, GameOverTimeOut
  <2>3. CASE UNCHANGED vars
    BY <2>3 DEF vars
  <2> QED BY <2>1, <2>2, <2>3 DEF Next
<1>3. Spec => [](crashed \in BOOLEAN)
  BY <1>1, <1>2, PTL DEF Spec
<1>4. DInv => CoinFields(table) /\ acct \in [User -> Int]
  BY DEF DInv, CInv, Coins, Numbers, Solvent, NonNeg, CoinFields
<1>5. DInv /\ ControlOK /\ crashed \in BOOLEAN => TypeOK
  BY <1>4 DEF TypeOK
<1> QED BY <1>3, <1>5, DInvHolds, ControlHolds, PTL

\* Within a hand nothing is taken back: rounds and bets only grow, an all-in
\* stands, seen cards stay seen and thrown cards thrown, whatever messages and
\* timers come in whatever order.
THEOREM HandOnlyAdvancesHolds ==
    ASSUME MaxNum > 2, MinMoney >= Ante
    PROVE  Spec /\ [][RobotsStay]_vars => HandOnlyAdvances
<1> DEFINE Hands ==
             IsActive(table) /\ IsActive(table') =>
               /\ table'.round >= table.round
               /\ \A u \in User \ Robots :
                    Playing(u) /\ table'.pst[u] = "ACTIVE" =>
                      /\ table'.bet[u] >= table.bet[u]
                      /\ table.allin[u] => table'.allin[u]
                      /\ table.card[u] = "KNOWN" => table'.card[u] # "UNKNOWN"
                      /\ table.card[u] = "DISCARD" => table'.card[u] = "DISCARD"
<1>1. DInv /\ [Next]_vars /\ [RobotsStay]_vars => [Hands]_vars
  <2> SUFFICES ASSUME DInv, [Next]_vars, [RobotsStay]_vars PROVE Hands
    OBVIOUS
  <2>1. Sane
    BY NextDInv
  <2> QED BY <2>1, PlayingIn, Zenon DEF Sane, Advanced
<1> QED BY <1>1, DInvHolds, PTL DEF Spec, HandOnlyAdvances

-----------------------------------------------------------------------------
(* The coins of all. *)

\* n times the quotient by n is no more than the dividend.
LEMMA FloorOfQuotient ==
    ASSUME NEW x \in Int, NEW n \in Nat, n > 0
    PROVE  n * (x \div n) <= x
OBVIOUS

\* The tax on a win never adds to it, and a loss is not taxed.
LEMMA TaxTakes ==
    ASSUME NEW x \in Int
    PROVE  AfterTax(x) \in Int /\ AfterTax(x) <= x
<1>1. CASE x > 0
  <2>1. x * Tax \in Nat
    BY <1>1, CoinAssumption
  <2>2. (x * Tax) \div 100 \in Nat
    BY <2>1
  <2> QED BY <1>1, <2>2 DEF AfterTax
<1>2. CASE ~ (x > 0)
  BY <1>2 DEF AfterTax
<1> QED BY <1>1, <1>2

\* No bets, no sum
LEMMA SumOfZeros ==
    ASSUME NEW f, NEW X, IsFiniteSet(X), \A x \in X : f[x] = 0
    PROVE  SumOver(f, X) = 0
<1>1. SumOver(f, X) = 0 * Cardinality(X)
  BY SumOfSame
<1>2. Cardinality(X) \in Nat
  BY FS_CardinalityType
<1> QED BY <1>1, <1>2

\* A sum of summands none of which is negative is not negative.
LEMMA SumNonNeg ==
    ASSUME NEW f, NEW X, IsFiniteSet(X), \A x \in X : f[x] \in Int /\ f[x] >= 0
    PROVE  SumOver(f, X) >= 0
<1> DEFINE zero == [x \in X |-> 0]
<1>1. \A x \in X : zero[x] = 0
  OBVIOUS
<1> HIDE DEF zero
<1>2. SumOver(zero, X) = 0
  BY <1>1, SumOfZeros
<1>3. SumOver(zero, X) <= SumOver(f, X)
  BY <1>1, SumMonotone
<1>4. SumOver(f, X) \in Int
  BY SumType
<1> QED BY <1>2, <1>3, <1>4

\* What the winners get, what is given back and what the losers lose adds up to
\* at most what the leavers of the hand have forfeited.
LEMMA ResultsAddUp ==
    ASSUME NEW h, Numbers(h), h.leaveSum >= 0, \A u \in User : h.bet[u] >= 0,
           h.pool = SumOver(h.bet, User) + h.leaveSum,
           \A u \in User \ Played(h) : h.bet[u] = 0
    PROVE  SumOver(FinalGetCoin(h), User) <= h.leaveSum
<1> DEFINE W == Winners(h)
           L == Losers(h)
           R == User \ W
           fin == FinalGetCoin(h)
           ret == [u \in User |-> Returned(h, u)]
           back == [u \in User |-> IF u \in L THEN Returned(h, u) ELSE 0]
           n == Cardinality(W)
           X == LeftInPool(h) - SumOver(h.bet, W)
<1>1. W \subseteq Played(h) /\ Played(h) \subseteq User
  BY DEF Winners, Shown, Played, InTable
<1>2. L \subseteq R /\ L \subseteq User /\ W \subseteq User
  BY <1>1 DEF Losers
<1>3. IsFiniteSet(W) /\ IsFiniteSet(L) /\ IsFiniteSet(R) /\ IsFiniteSet(User)
      /\ IsFiniteSet(R \ L)
  BY <1>2, UserAssumption, FS_Subset
<1>4. fin \in [User -> Int] /\ LeftInPool(h) \in Int
  BY FinalType
<1>5. \A u \in User : ret[u] = Returned(h, u) /\ ret[u] \in Int
  BY ReturnedType
<1>6. \A u \in User : h.bet[u] \in Int
  BY DEF Numbers
<1>7. \A u \in W : fin[u] = Share(h)
  BY <1>2 DEF FinalGetCoin
<1>8. \A u \in L : fin[u] = ret[u] - h.bet[u] /\ back[u] = ret[u]
  BY <1>2 DEF FinalGetCoin
<1>9. \A u \in R \ L : fin[u] = 0 /\ h.bet[u] = 0 /\ back[u] = 0
  <2>1. \A u \in R \ L : fin[u] = 0 /\ back[u] = 0
    BY DEF FinalGetCoin
  <2>2. \A u \in R \ L : h.bet[u] = 0
    BY DEF Losers
  <2> QED BY <2>1, <2>2
<1>10. LeftInPool(h) = h.pool - SumOver(ret, L)
  BY <1>2, ReturnIsSum DEF LeftInPool
<1>11. Share(h) = X \div n
  BY DEF Share, SumOver
<1> HIDE DEF W, L, fin, ret, back, n, X
<1>12. \A u \in R : /\ fin[u] \in Int /\ h.bet[u] \in Int
                    /\ back[u] = fin[u] + h.bet[u]
  BY <1>2, <1>4, <1>5, <1>6, <1>8, <1>9
<1> HIDE DEF R
<1>13. SumOver(fin, User) = SumOver(fin, W) + SumOver(fin, R)
  BY <1>2, <1>3, <1>4, SumSplits DEF R
<1>14. SumOver(h.bet, User) = SumOver(h.bet, W) + SumOver(h.bet, R)
  BY <1>2, <1>3, <1>6, SumSplits DEF R
<1>15. SumOver(back, R) = SumOver(fin, R) + SumOver(h.bet, R)
  BY <1>3, <1>12, SumAdds
<1>16. SumOver(back, R) = SumOver(ret, L)
  <2>1. \A u \in R : back[u] \in Int
    BY <1>12
  <2>2. SumOver(back, R) = SumOver(back, L) + SumOver(back, R \ L)
    BY <1>2, <1>3, <2>1, SumSplits
  <2>3. SumOver(back, R \ L) = 0
    BY <1>3, <1>9, SumOfZeros
  <2>4. SumOver(back, L) = SumOver(ret, L)
    BY <1>3, <1>8, SumSame
  <2>5. SumOver(ret, L) \in Int
    BY <1>2, <1>3, <1>5, SumType
  <2> QED BY <2>2, <2>3, <2>4, <2>5
<1>17. /\ SumOver(fin, W) \in Int /\ SumOver(fin, R) \in Int
       /\ SumOver(h.bet, W) \in Int /\ SumOver(h.bet, R) \in Int
       /\ SumOver(ret, L) \in Int
  <2>1. R \subseteq User
    BY DEF R
  <2> QED BY <1>2, <1>3, <1>4, <1>5, <1>6, <2>1, SumType
<1>18. CASE W # {}
  <2>1. n \in Nat /\ n > 0
    <3>1. n \in Nat /\ (n = 0 <=> W = {})
      BY <1>3, FS_CardinalityType, FS_EmptySet DEF n
    <3> QED BY <1>18, <3>1
  <2>2. X \in Int
    BY <1>4, <1>17 DEF X
  <2>3. Share(h) \in Int
    BY <1>11, <2>1, <2>2
  <2>4. SumOver(fin, W) = Share(h) * n
    BY <1>3, <1>7, <2>3, SumOfSame DEF n
  <2>5. n * (X \div n) <= X
    BY <2>1, <2>2, FloorOfQuotient
  <2>6. Share(h) * n = n * (X \div n)
    BY <1>11, <2>1, <2>3
  <2>7. SumOver(fin, W) <= X
    BY <2>4, <2>5, <2>6
  <2>8. X = h.pool - SumOver(ret, L) - SumOver(h.bet, W)
    BY <1>10 DEF X
  <2> QED BY <1>13, <1>14, <1>15, <1>16, <1>17, <2>7, <2>8 DEF fin, Numbers
<1>19. CASE W = {}
  <2>1. \A u \in User : ret[u] = 0
    BY <1>19 DEF ret, W, Returned
  <2>2. SumOver(ret, L) = 0
    BY <1>2, <1>3, <2>1, SumOfZeros
  <2>3. SumOver(fin, W) = 0
    BY <1>19, SumOfNone
  <2>4. SumOver(h.bet, R) >= 0
    BY <1>3, <1>6, SumNonNeg DEF R
  <2> QED BY <1>13, <1>15, <1>16, <1>17, <2>2, <2>3, <2>4 DEF fin, Numbers
<1> QED BY <1>18, <1>19

\* The results that a settlement books add up to no more than what the players
\* who left have forfeited: what one wins another has lost, and the tax only
\* takes.
LEMMA BookedAddUp ==
    ASSUME NEW h, Numbers(h), h.leaveSum >= 0, \A u \in User : h.bet[u] >= 0,
           h.pool = SumOver(h.bet, User) + h.leaveSum,
           \A u \in User \ Played(h) : h.bet[u] = 0
    PROVE  /\ \A u \in User : Booked(h, u) \in Int
           /\ SumOver([u \in User |-> Booked(h, u)], User) <= h.leaveSum
<1> DEFINE fin == FinalGetCoin(h)
           book == [u \in User |-> Booked(h, u)]
<1>1. fin \in [User -> Int]
  BY FinalType
<1>2. \A u \in User \ Played(h) : fin[u] = 0
  BY DEF FinalGetCoin, Winners, Losers, Shown
<1>3. SumOver(fin, User) <= h.leaveSum
  BY ResultsAddUp
<1> HIDE DEF fin
<1>4. \A u \in User : /\ book[u] = Booked(h, u) /\ book[u] \in Int
                      /\ book[u] <= fin[u]
  BY <1>1, <1>2, TaxTakes DEF Booked, fin
<1> HIDE DEF book
<1>5. SumOver(book, User) <= SumOver(fin, User)
  BY <1>1, <1>4, UserAssumption, SumMonotone
<1>6. SumOver(book, User) \in Int /\ SumOver(fin, User) \in Int
  BY <1>1, <1>4, UserAssumption, SumType
<1>7. SumOver(book, User) <= h.leaveSum
  BY <1>3, <1>5, <1>6 DEF Numbers
<1> QED BY <1>4, <1>7 DEF book

\* The pool is the bets of all users and the forfeits.
LEMMA AllBetsBalanced ==
    ASSUME CInv, Balanced(table)
    PROVE  table.pool = SumOver(table.bet, User) + table.leaveSum
<1>1. CASE IsActive(table)
  BY <1>1 DEF Balanced
<1>2. CASE ~ IsActive(table)
  <2>1. Players(table) = {}
    BY <1>2, StakingActive
  <2>2. \A u \in User : table.bet[u] = 0
    BY <2>1 DEF CInv, Coins, Quiet
  <2>3. SumOver(table.bet, User) = 0
    BY <2>2, UserAssumption, SumOfZeros
  <2> QED BY <1>2, <2>3 DEF CInv, Coins, Idle
<1> QED BY <1>1, <1>2

\* A leaver pays what he has bet and a fee.
LEMMA LeavingWealth ==
    ASSUME CInv, Leaving, Robots = {}, acct' \in [User -> Int]
    PROVE  SumOver(acct', User) + table'.leaveSum
             <= SumOver(acct, User) + table.leaveSum
<1>1. PICK u \in Players(table) :
        /\ Left(table, table', u)
        /\ acct' = IF u \in Robots THEN acct
                   ELSE [acct EXCEPT ![u] = @ - table.bet[u] - Tax]
  BY DEF Leaving
<1>2. u \in User /\ acct \in [User -> Int] /\ Numbers(table)
  BY DEF Players, InTable, CInv, Coins
<1>3. /\ acct'[u] = acct[u] - table.bet[u] - Tax
      /\ \A v \in User \ {u} : acct'[v] = acct[v]
  BY <1>1, <1>2
<1>4. IsFiniteSet(User \ {u}) /\ IsFiniteSet(User)
  BY UserAssumption, FS_Subset
<1>5. SumOver(acct, User) = acct[u] + SumOver(acct, User \ {u})
  BY <1>2, <1>4, SumWithout
<1>6. SumOver(acct', User) = acct'[u] + SumOver(acct', User \ {u})
  BY <1>2, <1>4, SumWithout
<1>7. SumOver(acct', User \ {u}) = SumOver(acct, User \ {u})
  BY <1>3, <1>4, SumSame
<1>8. SumOver(acct, User \ {u}) \in Int
  BY <1>2, <1>4, SumType
<1>9. /\ table'.leaveSum = table.leaveSum + table.bet[u]
      /\ table.leaveSum \in Int /\ table.bet[u] \in Int /\ acct[u] \in Int
      /\ Tax \in Nat
  BY <1>1, <1>2, CoinAssumption DEF Left, Numbers
<1> QED BY <1>3, <1>5, <1>6, <1>7, <1>8, <1>9

\* A settlement adds nothing to the accounts and the forfeits together.
LEMMA SettlementWealth ==
    ASSUME DInv, Balanced(table), Settlement, Robots = {}
    PROVE  SumOver(acct', User) + table'.leaveSum
             <= SumOver(acct, User) + table.leaveSum
<1> DEFINE h == HandOver(table)
           book == [u \in User |-> Booked(h, u)]
<1>1. Typed(table) /\ Coins(table) /\ CInv /\ NonNeg(table)
      /\ acct \in [User -> Int]
  BY DEF DInv, CInv, TInv, Solvent
<1>2. /\ Numbers(h) /\ InTable(h) = InTable(table)
      /\ h.pst = [u \in User |-> IF u \in Players(table) THEN "OVER"
                                 ELSE table.pst[u]]
      /\ h.bet = table.bet /\ h.pool = table.pool
  BY <1>1, PaidCoins
<1>3. h.leaveSum = table.leaveSum
  BY <1>1 DEF HandOver, Coins, Numbers, Fields, FreshTable
<1> HIDE DEF h
<1>4. \A u \in User \ Played(h) : h.bet[u] = 0
  <2>1. Players(table) \subseteq Played(h)
    BY <1>2 DEF Played, Players, InTable
  <2> QED BY <1>1, <1>2, <2>1 DEF Coins, Quiet
<1>5. h.pool = SumOver(h.bet, User) + h.leaveSum
  BY <1>1, <1>2, <1>3, AllBetsBalanced
<1>6. h.leaveSum >= 0 /\ \A u \in User : h.bet[u] >= 0
  BY <1>1, <1>2, <1>3 DEF NonNeg
<1>7. /\ \A u \in User : Booked(h, u) \in Int
      /\ SumOver(book, User) <= h.leaveSum
  BY <1>2, <1>4, <1>5, <1>6, BookedAddUp
<1>8. \A u \in User : book[u] = Booked(h, u)
  OBVIOUS
<1> HIDE DEF book
<1>9. \A u \in User : /\ acct[u] \in Int /\ book[u] \in Int
                      /\ acct'[u] = acct[u] + book[u]
  BY <1>1, <1>7, <1>8 DEF Settlement, h
<1>10. SumOver(acct', User) = SumOver(acct, User) + SumOver(book, User)
  BY <1>9, UserAssumption, SumAdds
<1>11. SumOver(acct, User) \in Int /\ SumOver(book, User) \in Int
  BY <1>9, UserAssumption, SumType
<1>12. table'.leaveSum = 0 /\ table.leaveSum \in Int
  BY <1>1 DEF Settlement, Settled, Coins, Numbers
<1> QED BY <1>3, <1>7, <1>10, <1>11, <1>12

\* No step does.
LEMMA StepWealth ==
    ASSUME DInv, Balanced(table), CoinStep, Robots = {}
    PROVE  SumOver(acct', User) + table'.leaveSum
             <= SumOver(acct, User) + table.leaveSum
<1>0. /\ CInv /\ NonNeg(table) /\ acct' \in [User -> Int]
      /\ SumOver(acct, User) \in Int /\ table.leaveSum \in Int
      /\ table.leaveSum >= 0
  <2>1. CInv /\ NonNeg(table) /\ acct \in [User -> Int] /\ Numbers(table)
    BY DEF DInv, CInv, Coins, Solvent
  <2>2. SumOver(acct, User) \in Int
    BY <2>1, UserAssumption, SumType
  <2> QED BY <2>1, <2>2, CoinStepCoins DEF Numbers, NonNeg
<1>1. CASE acct' = acct /\ table'.leaveSum \in {table.leaveSum, 0}
  BY <1>0, <1>1
<1>2. CASE Staking
  BY <1>1, <1>2 DEF Staking, SameCoins, Staked
<1>3. CASE Lobbying
  BY <1>1, <1>3, LobbyingMoved DEF Lobbying, Moved
<1>4. CASE Leaving
  BY <1>0, <1>4, LeavingWealth
<1>5. CASE Coming
  BY <1>1, <1>5 DEF Coming, Came, SameStakes
<1>6. CASE Replacing
  BY <1>6 DEF Replacing
<1>7. CASE Settlement
  BY <1>7, SettlementWealth
<1> QED BY <1>2, <1>3, <1>4, <1>5, <1>6, <1>7 DEF CoinStep

\* The inductive invariant of the coins of all
WInv ==
    /\ DInv /\ Balanced(table)
    /\ SumOver(acct, User) + table.leaveSum <= SumOver(InitAcct, User)

\* With no robots, whose accounts MoneyServer does not keep, the users never
\* own more together than they came with: no hand, settlement, forfeit or
\* departure makes coins.
THEOREM WealthNeverGrowsHolds ==
    ASSUME MaxNum > 2, MinMoney >= Ante, Robots = {}
    PROVE  Spec => []WealthNeverGrows
<1>1. Init => WInv
  <2> SUFFICES ASSUME Init PROVE WInv
    OBVIOUS
  <2>1. table.leaveSum = 0 /\ acct = InitAcct /\ Balanced(table)
    BY DEF Init, FreshTable, Balanced, IsActive
  <2>2. SumOver(InitAcct, User) \in Int
    BY UserAssumption, MoneyAssumption, SumType
  <2> QED BY <2>1, <2>2, InitDInv DEF WInv
<1>2. WInv /\ [Next]_vars => WInv'
  <2> SUFFICES ASSUME WInv, [Next]_vars PROVE WInv'
    OBVIOUS
  <2>1. RobotsStay
    BY DEF RobotsStay
  <2>2. DInv' /\ CoinStep
    BY <2>1, NextDInv, NextCoins DEF WInv, DInv
  <2>3. Balanced(table')
    BY <2>1, <2>2, StepBalanced DEF WInv, DInv
  <2>4. SumOver(acct', User) + table'.leaveSum
          <= SumOver(acct, User) + table.leaveSum
    BY <2>2, StepWealth DEF WInv
  <2>5. /\ SumOver(acct', User) \in Int /\ SumOver(acct, User) \in Int
        /\ SumOver(InitAcct, User) \in Int
    BY <2>2, UserAssumption, MoneyAssumption, SumType DEF WInv, DInv, CInv
  <2>6. table.leaveSum \in Int /\ table'.leaveSum \in Int
    BY <2>2 DEF WInv, DInv, CInv, Coins, Numbers
  <2>7. SumOver(acct', User) + table'.leaveSum <= SumOver(InitAcct, User)
    BY <2>4, <2>5, <2>6 DEF WInv
  <2> QED BY <2>2, <2>3, <2>7 DEF WInv
<1>3. WInv => WealthNeverGrows
  BY DEF WInv, WealthNeverGrows, SumOver
<1> QED BY <1>1, <1>2, <1>3, PTL DEF Spec

-----------------------------------------------------------------------------
(* The clock of a hand. *)

\* Somebody in the hand is all in.
SomeAllin(s) == \E v \in Holders(s) : s.allin[v]

\* setPlayerOptype offers no comparison and no raise once somebody is all in.
Offered(s) == SomeAllin(s) => s.offer \cap {"COMPARE", "RASE"} = {}

\* The bet timer runs for a card holder who can still bet.
Timed(s) == s.betT \in Holders(s) /\ ~ s.allin[s.betT]

\* A hand that is bet on has its clock.
Ticks(s) == Betting(s) => Timed(s) /\ Offered(s)

\* The inductive invariant
KInv == CInv /\ Ticks(table)

\* The two tables agree on everything Ticks looks at.
Alike(s, t) ==
    /\ DOMAIN t = DOMAIN s /\ t.status = s.status /\ t.over = s.over
    /\ t.betT = s.betT /\ t.offer = s.offer /\ t.allin = s.allin
    /\ Holders(t) = Holders(s)

\* What getNextBetPlayer leaves when u has acted: the hand is over, somebody
\* else has the turn, or nobody else can bet.
Passed(t, u) ==
    \/ t.over
    \/ Timed(t) /\ Offered(t) /\ t.betT # u
    \/ \A v \in Holders(t) \ {u} : t.allin[v]

\* ... and then the hand is decided, or somebody else can bet.
Decisive(t, u) ==
    \/ u \notin Holders(t) \/ t.allin[u] \/ Holders(t) \subseteq {u}
    \/ \E v \in Holders(t) \ {u} : ~ t.allin[v]

\* Alike tables tick alike.
LEMMA AlikeTicks ==
    ASSUME NEW s, NEW t, NEW u, Alike(s, t)
    PROVE  /\ Ticks(s) => Ticks(t)
           /\ Passed(s, u) => Passed(t, u)
           /\ Decisive(s, u) => Decisive(t, u)
           /\ Betting(t) <=> Betting(s)
<1>1. (Timed(t) <=> Timed(s)) /\ (Offered(t) <=> Offered(s))
  BY DEF Alike, Timed, Offered, SomeAllin
<1>2. Betting(t) <=> Betting(s)
  BY DEF Alike, Betting, IsActive
<1>3. Passed(s, u) => Passed(t, u)
  BY <1>1 DEF Alike, Passed
<1>4. Decisive(s, u) => Decisive(t, u)
  BY DEF Alike, Decisive
<1> QED BY <1>1, <1>2, <1>3, <1>4 DEF Ticks

\* Being alike is a chain.
LEMMA AlikeOn ==
    ASSUME NEW r, NEW s, NEW t, Alike(r, s), Alike(s, t)
    PROVE  Alike(r, t)
BY DEF Alike

\* What moves coins or marks only leaves the table alike.
LEMMA AlikeBySame ==
    ASSUME NEW s, NEW t, Same(s, t), t.offer = s.offer, t.allin = s.allin
    PROVE  Alike(s, t)
BY HoldersKept DEF Alike, Same, SameButCards

\* A stake (playerBetCoin) moves coins only.
LEMMA PlayerBetCoinAlike ==
    ASSUME NEW s, NEW u, NEW x, Shape(s)
    PROVE  Alike(s, PlayerBetCoin(s, u, x))
<1>1. /\ PlayerBetCoin(s, u, x).offer = s.offer
      /\ PlayerBetCoin(s, u, x).allin = s.allin
  BY DEF PlayerBetCoin, Shape, Fields, FreshTable
<1> QED BY <1>1, PlayerBetCoinSame, AlikeBySame

\* The mark of the first speaker (setNextFirst) is none of the clock's business.
LEMMA SetNextFirstAlike ==
    ASSUME NEW s, NEW u, Shape(s)
    PROVE  Alike(s, SetNextFirst(s, u))
<1>1. /\ SetNextFirst(s, u).offer = s.offer
      /\ SetNextFirst(s, u).allin = s.allin
  BY DEF SetNextFirst, Shape, Fields, FreshTable
<1> QED BY <1>1, SetNextFirstSame, AlikeBySame

\* Neither is the limit of a raise (setPlayerlimitcoin).
LEMMA SetPlayerLimitCoinAlike ==
    ASSUME NEW s, Shape(s)
    PROVE  Alike(s, SetPlayerLimitCoin(s))
<1>1. /\ SetPlayerLimitCoin(s).offer = s.offer
      /\ SetPlayerLimitCoin(s).allin = s.allin
  BY DEF SetPlayerLimitCoin, Shape, Fields, FreshTable
<1> QED BY <1>1, SetPlayerLimitCoinSame, AlikeBySame

\* setPlayerOptype changes the offer only, and offers what is sound.
LEMMA SetPlayerOptypeOffers ==
    ASSUME NEW s, NEW u, Shape(s)
    PROVE  LET t == SetPlayerOptype(s, u)
           IN /\ Same(s, t) /\ t.allin = s.allin /\ Holders(t) = Holders(s)
              /\ IsActive(s) /\ u \in InTable(s) => Offered(t)
              /\ IsActive(s) /\ Offered(s) => Offered(t)
<1> DEFINE t == SetPlayerOptype(s, u)
<1>1. Same(s, t) /\ Holders(t) = Holders(s)
  BY SetPlayerOptypeSame, HoldersKept
<1>2. t.allin = s.allin
  BY DEF SetPlayerOptype, Shape, Fields, FreshTable
<1>3. ASSUME IsActive(s), SomeAllin(s), u \in InTable(s)
      PROVE  t.offer \cap {"COMPARE", "RASE"} = {}
  <2>1. HasSomeOneAllin(s) = TRUE
    BY <1>3 DEF HasSomeOneAllin, SomeAllin
  <2>2. t.offer \subseteq {"ALLIN", "THROW", "CHECK"}
    BY <1>3, <2>1 DEF SetPlayerOptype, Shape, Fields, FreshTable
  <2> QED BY <2>2
<1>4. u \notin InTable(s) => t = s
  BY DEF SetPlayerOptype
<1> HIDE DEF t
<1>5. SomeAllin(t) <=> SomeAllin(s)
  BY <1>1, <1>2 DEF SomeAllin
<1>6. IsActive(s) /\ u \in InTable(s) => Offered(t)
  BY <1>3, <1>5 DEF Offered
<1>7. IsActive(s) /\ Offered(s) => Offered(t)
  BY <1>4, <1>6
<1> QED BY <1>1, <1>2, <1>6, <1>7 DEF t

\* getNextBetPlayer starts the clock of somebody else who can bet, or ends the
\* hand, or finds nobody.
LEMMA GetNextBetPlayerPasses ==
    ASSUME NEW s, NEW u \in User, Core(s), Betting(s)
    PROVE  LET t == GetNextBetPlayer(s, u)
           IN /\ Passed(t, u) /\ t.allin = s.allin /\ Holders(t) = Holders(s)
              /\ Core(t) /\ IsActive(t)
<1> DEFINE able == AbleToBet(s, u)
           next == NextAfter(s, u, able)
           r == IF s.seat[next] = s.first THEN s.round + 1 ELSE s.round
           acted == [s EXCEPT !.betT = None,
                              !.tmo[u] = IF s.round # 1 THEN 0 ELSE @]
           turn == [acted EXCEPT !.round = r, !.currBet = next]
           asked == SetPlayerOptype(turn, next)
           clocked == [asked EXCEPT !.betT = next]
           over == GameOver(acted)
           last == [over EXCEPT !.round = MaxRound]
           stop == SetPlayerOptype(acted, u)
           go == SetPlayerLimitCoin(clocked)
           t == GetNextBetPlayer(s, u)
<1>1. Core(t) /\ IsActive(t) /\ Holders(t) = Holders(s)
  <2>1. Core(t) /\ IsActive(t)
        /\ t.seat = s.seat /\ t.pst = s.pst /\ t.card = s.card
    BY GetNextBetPlayerCore DEF Betting
  <2> HIDE DEF t
  <2> QED BY <2>1 DEF Holders, InTable
<1>2. t = IF able = {} THEN stop ELSE IF PastLastRound(r) THEN last ELSE go
  BY DEF GetNextBetPlayer
<1>3. /\ able \subseteq Holders(s) \ {u} /\ able \subseteq User
      /\ \A v \in Holders(s) \ {u} : s.allin[v] \/ v \in able
      /\ \A v \in able : ~ s.allin[v]
  BY DEF AbleToBet, Holders, InTable
<1>5. DOMAIN acted = Fields /\ acted.allin = s.allin
  BY DEF Core, Shape, Fields, FreshTable
<1>6. CASE able = {}
  <2>1. t = stop
    BY <1>2, <1>6
  <2> HIDE DEF acted
  <2>2. stop.allin = s.allin
    BY <1>5 DEF SetPlayerOptype, Fields, FreshTable
  <2> HIDE DEF stop, t
  <2>3. \A v \in Holders(t) \ {u} : t.allin[v]
    BY <1>1, <1>3, <1>6, <2>1, <2>2
  <2> QED BY <1>1, <2>1, <2>2, <2>3 DEF Passed, t
<1>7. CASE able # {} /\ PastLastRound(r)
  <2>1. t = last
    BY <1>2, <1>7
  <2> HIDE DEF acted
  <2>2. last.over = TRUE /\ last.allin = s.allin
    BY <1>5 DEF GameOver, Fields, FreshTable
  <2> HIDE DEF last, t
  <2> QED BY <1>1, <2>1, <2>2 DEF Passed, t
<1>8. CASE able # {} /\ ~ PastLastRound(r)
  <2>1. t = go
    BY <1>2, <1>8
  <2>2. next \in able
    BY <1>3, <1>8, NextAfterIn DEF Core
  <2> HIDE DEF able, next, r
  <2>3. /\ Shape(turn) /\ turn.allin = s.allin /\ turn.seat = s.seat
        /\ turn.pst = s.pst /\ turn.card = s.card /\ turn.status = s.status
    BY DEF Core, Shape, Fields, FreshTable
  <2> HIDE DEF turn
  <2>4. /\ Holders(turn) = Holders(s) /\ InTable(turn) = InTable(s)
        /\ IsActive(turn)
    BY <2>3 DEF Holders, InTable, IsActive, Betting
  <2>5. next \in InTable(turn) /\ next \in Holders(s) \ {u} /\ ~ s.allin[next]
    BY <1>3, <2>2, <2>4 DEF Holders
  <2>6. /\ Same(turn, asked) /\ asked.allin = turn.allin
        /\ Holders(asked) = Holders(turn) /\ Offered(asked)
    BY <2>3, <2>4, <2>5, SetPlayerOptypeOffers
  <2> HIDE DEF asked
  <2>7. /\ Shape(clocked) /\ clocked.betT = next
        /\ clocked.allin = asked.allin /\ clocked.offer = asked.offer
        /\ clocked.seat = asked.seat /\ clocked.pst = asked.pst
        /\ clocked.card = asked.card
    <3>1. Shape(asked)
      BY <2>3, <2>6 DEF Same, SameButCards, Shape
    <3>2. next \in User
      BY <1>3, <2>2
    <3> QED BY <3>1, <3>2 DEF Shape, Fields, FreshTable
  <2> HIDE DEF clocked
  <2>8. Holders(clocked) = Holders(asked)
    BY <2>7 DEF Holders, InTable
  <2>9. Alike(clocked, go)
    BY <2>7, SetPlayerLimitCoinAlike
  <2> HIDE DEF go, t
  <2>10. /\ t.allin = s.allin /\ t.betT = next
         /\ t.offer = asked.offer /\ Holders(t) = Holders(asked)
    BY <2>1, <2>3, <2>6, <2>7, <2>8, <2>9 DEF Alike
  <2>11. Timed(t) /\ t.betT # u
    BY <2>4, <2>5, <2>6, <2>10 DEF Timed
  <2>12. Offered(t)
    BY <2>3, <2>6, <2>10 DEF Offered, SomeAllin
  <2> QED BY <1>1, <2>10, <2>11, <2>12 DEF Passed, t
<1> QED BY <1>6, <1>7, <1>8

\* Whoever has acted may go, or what he may do may change.
LEMMA PassedOn ==
    ASSUME NEW s, NEW t, NEW u, Passed(s, u), t.over = s.over,
           t.betT = s.betT, t.offer = s.offer,
           Holders(t) = Holders(s) \/ Holders(t) = Holders(s) \ {u},
           \A v \in Holders(t) : t.allin[v] = s.allin[v]
    PROVE  Passed(t, u)
<1>1. CASE s.over
  BY <1>1 DEF Passed
<1>2. CASE Timed(s) /\ Offered(s) /\ s.betT # u
  BY <1>2 DEF Passed, Timed, Offered, SomeAllin
<1>3. CASE \A v \in Holders(s) \ {u} : s.allin[v]
  BY <1>3 DEF Passed
<1> QED BY <1>1, <1>2, <1>3 DEF Passed

\* A handler that looks for the end of the hand leaves it over or ticking.
LEMMA EndsTick ==
    ASSUME NEW t, NEW u, DOMAIN t = Fields, Passed(t, u), Decisive(t, u),
           table' = GameOverIfDecided(t)
    PROVE  Ticks(table')
<1>1. CASE IsCanGameOver(t)
  <2>1. table'.over = TRUE
    BY <1>1 DEF GameOverIfDecided, GameOver, Fields, FreshTable
  <2> QED BY <2>1 DEF Ticks, Betting
<1>2. CASE ~ IsCanGameOver(t)
  <2>1. table' = t
    BY <1>2 DEF GameOverIfDecided
  <2>2. ASSUME Betting(t), \A v \in Holders(t) \ {u} : t.allin[v]
        PROVE  FALSE
    <3>1. PICK v \in Holders(t) : ~ t.allin[v]
      BY <1>2, <2>2 DEF IsCanGameOver, Betting
    <3>2. PICK x, y \in Holders(t) : x # y
      BY <1>2, <2>2 DEF IsCanGameOver, Betting
    <3> QED BY <2>2, <3>1, <3>2 DEF Decisive
  <2> QED BY <2>1, <2>2 DEF Ticks, Passed, Betting
<1> QED BY <1>1, <1>2

\* A handler that looks for the end of the hand last (iscanGameOver) leaves it
\* with its clock, or over.
LEMMA TicksEnd ==
    ASSUME NEW t, DOMAIN t = Fields, Ticks(t), table' = GameOverIfDecided(t)
    PROVE  Ticks(table')
<1>1. CASE IsCanGameOver(t)
  <2>1. table'.over = TRUE
    BY <1>1 DEF GameOverIfDecided, GameOver, Fields, FreshTable
  <2> QED BY <2>1 DEF Ticks, Betting
<1>2. CASE ~ IsCanGameOver(t)
  BY <1>2 DEF GameOverIfDecided
<1> QED BY <1>1, <1>2

\* Somebody whose turn it is not gives up the cards: the clock runs on.
LEMMA TicksOn ==
    ASSUME NEW s, NEW t, Ticks(s), Betting(t) => Betting(s),
           t.betT = s.betT, t.offer = s.offer,
           Holders(t) \subseteq Holders(s),
           Betting(t) => s.betT \in Holders(t),
           \A v \in Holders(t) : t.allin[v] => s.allin[v]
    PROVE  Ticks(t)
BY DEF Ticks, Timed, Offered, SomeAllin

-----------------------------------------------------------------------------
(* The clock: the steps of a hand. *)

\* Whoever acts in a hand finds its clock running, for himself if it is his
\* turn.
LEMMA ActorTicks ==
    ASSUME NEW u \in User, KInv, InHand(u)
    PROVE  /\ Core(table) /\ Betting(table) /\ Timed(table)
           /\ Offered(table) /\ table.betT = table.currBet
           /\ table.betT \in User
           /\ u \in InTable(table) /\ table.pst[u] = "ACTIVE"
           /\ table.allin \in [User -> BOOLEAN]
<1>1. Core(table) /\ Betting(table) /\ u \in InTable(table)
      /\ table.pst[u] = "ACTIVE"
  BY ActorTurn DEF KInv, CInv, HInv, InHand, Playing, At
<1>2. Timed(table) /\ Offered(table)
  BY <1>1 DEF KInv, Ticks
<1>3. table.betT \in User /\ table.betT # None
  BY <1>2, NoneAssumption DEF Timed, Holders, InTable
<1>4. table.betT = table.currBet
  BY <1>1, <1>3 DEF Core, Clock
<1>5. table.allin \in [User -> BOOLEAN]
  BY DEF KInv, CInv, TInv, Typed, Notes
<1> QED BY <1>1, <1>2, <1>3, <1>4, <1>5

\* Somebody else holds cards.
LEMMA OtherIn ==
    ASSUME KInv, Betting(table), NEW u
    PROVE  \E v \in Holders(table) \ {u} : TRUE
<1>1. PICK x, y \in Holders(table) : x # y
  BY DEF KInv, CInv, HInv, IInv, TableInv, TwoIn, Betting
<1> QED BY <1>1

\* A client that follows optype does not raise or compare once somebody is all
\* in.
LEMMA PoliteAsk ==
    ASSUME NEW u, NEW op \in {"COMPARE", "RASE"}, Polite, Offered(table),
           Asks(u, op)
    PROVE  ~ SomeAllin(table)
BY DEF Offered, Asks

\* The turn passes on after a bet, which takes nobody's cards.
LEMMA BetPasses ==
    ASSUME NEW u \in User, NEW s, NEW x, KInv, Turn(u), Same(table, s)
    PROVE  LET t == GetNextBetPlayer(PlayerBetCoin(s, u, x), u)
           IN /\ DOMAIN t = Fields /\ Passed(t, u)
              /\ t.allin = s.allin /\ Holders(t) = Holders(table)
<1> DEFINE b == PlayerBetCoin(s, u, x)
           t == GetNextBetPlayer(b, u)
<1>1. Core(table) /\ Betting(table)
  BY ActorTicks DEF Turn
<1>2. Core(s)
  BY <1>1, CoreKept DEF Same, Core, Shape
<1>3. Betting(s) /\ Holders(s) = Holders(table)
  BY <1>1, HoldersKept DEF Same, SameButCards, Betting, IsActive
<1>4. Same(s, b) /\ Alike(s, b)
  BY <1>2, PlayerBetCoinSame, PlayerBetCoinAlike DEF Core
<1> HIDE DEF b
<1>5. Core(b)
  BY <1>2, <1>4, CoreKept DEF Same, Core, Shape
<1>6. Betting(b) /\ b.allin = s.allin /\ Holders(b) = Holders(s)
  BY <1>3, <1>4 DEF Alike, Betting, IsActive
<1>7. Passed(t, u) /\ t.allin = b.allin /\ Holders(t) = Holders(b) /\ Core(t)
  BY <1>5, <1>6, GetNextBetPlayerPasses
<1> HIDE DEF t
<1> QED BY <1>3, <1>6, <1>7 DEF Core, Shape, t, b

\* A call starts the clock of another player or ends the hand: once somebody is
\* all in, so is the caller.
LEMMA CallTicks ==
    ASSUME NEW u \in User, KInv, Call(u)
    PROVE  Ticks(table')
<1> DEFINE someAllin == HasSomeOneAllin(table)
           coin == IF someAllin THEN table.allinCoin[u]
                   ELSE CallMoney(table, u)
           s1 == [table EXCEPT !.allin[u] = @ \/ someAllin]
           next == GetNextBetPlayer(PlayerBetCoin(s1, u, coin), u)
<1>1. Turn(u) /\ table' = GameOverIfDecided(next)
  BY DEF Call, TableBecomes
<1>2. /\ Core(table) /\ Betting(table)
      /\ table.allin \in [User -> BOOLEAN]
  BY <1>1, ActorTicks DEF Turn
<1>3. Same(table, s1)
  BY <1>2 DEF Core, Shape, Fields, FreshTable, Same, SameButCards
<1>4. s1.allin = [table.allin EXCEPT ![u] = @ \/ someAllin]
  BY <1>2 DEF Core, Shape, Fields, FreshTable
<1>5. someAllin \in BOOLEAN /\ (someAllin <=> SomeAllin(table))
  BY <1>2 DEF HasSomeOneAllin, SomeAllin, Betting
<1> HIDE DEF s1, coin, someAllin
<1>6. /\ DOMAIN next = Fields /\ Passed(next, u)
      /\ next.allin = s1.allin /\ Holders(next) = Holders(table)
  BY <1>1, <1>3, BetPasses
<1> HIDE DEF next
<1>7. Decisive(next, u)
  <2>1. CASE someAllin
    <3>1. s1.allin[u]
      BY <1>2, <1>4, <2>1, Zenon
    <3> QED BY <1>6, <3>1 DEF Decisive
  <2>2. CASE ~ someAllin
    <3>1. PICK v \in Holders(table) \ {u} : TRUE
      BY <1>2, OtherIn
    <3>2. v \in User /\ v # u /\ ~ table.allin[v]
      BY <1>5, <2>2, <3>1 DEF SomeAllin, Holders, InTable
    <3>3. ~ s1.allin[v]
      BY <1>2, <1>4, <3>2, Zenon
    <3> QED BY <1>6, <3>1, <3>3 DEF Decisive
  <2> QED BY <2>1, <2>2
<1> QED BY <1>1, <1>6, <1>7, EndsTick

\* So does an all-in.
LEMMA AllinTicks ==
    ASSUME NEW u \in User, KInv, Allin(u)
    PROVE  Ticks(table')
<1> DEFINE coin == table.allinCoin[u]
           s1 == IF coin > table.betMax
                 THEN [table EXCEPT !.betMax = coin, !.maxCard = table.card[u]]
                 ELSE table
           s2 == [s1 EXCEPT !.hasAllin = coin, !.allin[u] = TRUE]
           next == GetNextBetPlayer(PlayerBetCoin(s2, u, coin), u)
<1>1. Turn(u) /\ table' = GameOverIfDecided(next)
  BY DEF Allin, TableBecomes
<1>2. Core(table) /\ table.allin \in [User -> BOOLEAN]
  BY <1>1, ActorTicks DEF Turn
<1>3. Same(table, s2)
  BY <1>2 DEF Core, Shape, Fields, FreshTable, Same, SameButCards
<1>4. s2.allin = [table.allin EXCEPT ![u] = TRUE]
  BY <1>2 DEF Core, Shape, Fields, FreshTable
<1> HIDE DEF s2, coin
<1>5. /\ DOMAIN next = Fields /\ Passed(next, u) /\ next.allin = s2.allin
  BY <1>1, <1>3, BetPasses
<1> HIDE DEF next
<1>6. next.allin[u]
  BY <1>2, <1>4, <1>5, Zenon
<1> QED BY <1>1, <1>5, <1>6, EndsTick DEF Decisive

\* A raise does not look for the end of the hand: with clients that follow
\* optype there is somebody who can answer it.
LEMMA RaseTicks ==
    ASSUME NEW u \in User, NEW x, KInv, Polite, Rase(u, x)
    PROVE  Ticks(table')
<1> DEFINE coin == IF table.card[u] = "UNKNOWN" THEN x ELSE Doubled(x)
           s1 == [table EXCEPT !.betMax = x, !.maxCard = table.card[u]]
           next == GetNextBetPlayer(PlayerBetCoin(s1, u, coin), u)
<1>1. Turn(u) /\ Asks(u, "RASE") /\ table' = next
  BY DEF Rase, TableBecomes
<1>2. Core(table) /\ Betting(table) /\ Offered(table)
  BY <1>1, ActorTicks DEF Turn
<1>3. Same(table, s1) /\ s1.allin = table.allin
  BY <1>2 DEF Core, Shape, Fields, FreshTable, Same, SameButCards
<1> HIDE DEF s1, coin
<1>4. /\ Passed(next, u) /\ next.allin = table.allin
      /\ Holders(next) = Holders(table)
  BY <1>1, <1>3, BetPasses
<1> HIDE DEF next
<1>5. ~ SomeAllin(table)
  BY <1>1, <1>2, PoliteAsk
<1>6. PICK v \in Holders(table) \ {u} : TRUE
  BY <1>2, OtherIn
<1>7. ~ next.allin[v]
  BY <1>4, <1>5, <1>6 DEF SomeAllin
<1>8. next.over \/ (Timed(next) /\ Offered(next))
  BY <1>4, <1>6, <1>7 DEF Passed
<1> QED BY <1>1, <1>8 DEF Ticks, Betting

\* Giving up the cards changes nobody's clock, offer or all-in.
LEMMA DiscardTicks ==
    ASSUME NEW s, NEW u \in User, Core(s), Betting(s)
    PROVE  LET t == Discard(s, u)
           IN /\ Core(t) /\ Betting(t) /\ Holders(t) = Holders(s) \ {u}
              /\ t.betT = s.betT /\ t.over = s.over
              /\ t.offer = s.offer /\ t.allin = s.allin
              /\ Ticks(s) /\ s.betT # u => Ticks(t)
<1> DEFINE t == Discard(s, u)
<1>1. /\ Core(t) /\ SameButCards(s, t)
      /\ Holders(t) = Holders(s) \ {u}
  BY DiscardKeeps
<1>2. t.offer = s.offer /\ t.allin = s.allin
  BY DEF Discard, Core, Shape, Fields, FreshTable
<1> HIDE DEF t
<1>3. Betting(t) /\ t.betT = s.betT /\ t.over = s.over
  BY <1>1 DEF SameButCards, Betting, IsActive
<1>4. ASSUME Ticks(s), s.betT # u PROVE Ticks(t)
  <2>1. s.betT \in Holders(t)
    BY <1>1, <1>4 DEF Ticks, Timed
  <2> QED BY <1>1, <1>2, <1>3, <1>4, <2>1, TicksOn
<1> QED BY <1>1, <1>2, <1>3, <1>4 DEF t

\* Whoever folds in his turn passes it on.
LEMMA FoldPasses ==
    ASSUME NEW s, NEW u \in User, Core(s), Betting(s)
    PROVE  LET t == GetNextBetPlayer(Discard(s, u), u)
           IN /\ Core(t) /\ IsActive(t) /\ Passed(t, u) /\ t.allin = s.allin
              /\ Holders(t) = Holders(s) \ {u}
BY DiscardTicks, GetNextBetPlayerPasses

\* The one who has passed the turn on without his cards: setNextFirstPlayer and
\* the look for the end of the hand
LEMMA FoldedTicks ==
    ASSUME NEW s, NEW u, Shape(s), Passed(s, u), u \notin Holders(s),
           table' = GameOverIfDecided(SetNextFirst(s, u))
    PROVE  Ticks(table')
<1> DEFINE t == SetNextFirst(s, u)
<1>1. Alike(s, t)
  BY SetNextFirstAlike
<1> HIDE DEF t
<1>2. Decisive(s, u)
  BY DEF Decisive
<1>3. DOMAIN t = Fields /\ Passed(t, u) /\ Decisive(t, u)
  BY <1>1, <1>2, AlikeTicks DEF Alike, Shape
<1> QED BY <1>3, EndsTick DEF t

\* A fold out of turn leaves the clock to whom it runs for.
LEMMA ThrowCardTicks ==
    ASSUME NEW u \in User, KInv, ThrowCard(u)
    PROVE  Ticks(table')
<1> DEFINE s1 == Discard(table, u)
           s2 == IF table.currBet = u THEN GetNextBetPlayer(s1, u)
                 ELSE IF table.currBet = None THEN s1
                 ELSE SetPlayerOptype(s1, table.currBet)
           s3 == SetNextFirst(s2, u)
<1>1. InHand(u) /\ table' = GameOverIfDecided(s3)
  BY DEF ThrowCard, TableBecomes
<1>2. Core(table) /\ Betting(table) /\ Timed(table) /\ Offered(table)
      /\ table.betT = table.currBet
  BY <1>1, ActorTicks
<1>3. CASE table.currBet = u
  <2>1. s2 = GetNextBetPlayer(s1, u)
    BY <1>3
  <2>2. /\ Core(s2) /\ Passed(s2, u) /\ u \notin Holders(s2)
    BY <1>2, <2>1, FoldPasses
  <2> HIDE DEF s1, s2
  <2> QED BY <1>1, <2>2, FoldedTicks DEF Core
<1>4. CASE table.currBet # u
  <2>1. Core(s1) /\ Betting(s1) /\ Ticks(s1)
    BY <1>2, <1>4, DiscardTicks DEF Ticks
  <2> HIDE DEF s1
  <2>2. s2 = s1 \/ s2 = SetPlayerOptype(s1, table.currBet)
    BY <1>4
  <2> HIDE DEF s2
  <2>3. Shape(s2) /\ Ticks(s2)
    <3>1. CASE s2 = s1
      BY <2>1, <3>1 DEF Core
    <3>2. CASE s2 = SetPlayerOptype(s1, table.currBet)
      <4>1. /\ Same(s1, s2) /\ s2.allin = s1.allin /\ Holders(s2) = Holders(s1)
            /\ IsActive(s1) /\ Offered(s1) => Offered(s2)
        BY <2>1, <3>2, SetPlayerOptypeOffers DEF Core
      <4>2. Timed(s1) /\ Offered(s1)
        BY <2>1 DEF Ticks
      <4>3. s2.betT = s1.betT
        BY <4>1 DEF Same, SameButCards
      <4>4. Timed(s2) /\ Offered(s2)
        BY <2>1, <4>1, <4>2, <4>3 DEF Timed, Betting
      <4> QED BY <2>1, <4>1, <4>4
              DEF Ticks, Core, Shape, Same, SameButCards
    <3> QED BY <2>2, <3>1, <3>2
  <2>4. Alike(s2, s3)
    BY <2>3, SetNextFirstAlike
  <2> HIDE DEF s3
  <2>5. Ticks(s3) /\ DOMAIN s3 = Fields
    BY <2>3, <2>4, AlikeTicks DEF Alike, Shape
  <2> QED BY <1>1, <2>5, TicksEnd
<1> QED BY <1>3, <1>4

\* A look at the cards restarts the clock of whoever has the turn.
LEMMA CheckCardTicks ==
    ASSUME NEW u \in User, KInv, CheckCard(u)
    PROVE  Ticks(table')
<1> DEFINE s1 == [table EXCEPT !.card[u] = "KNOWN"]
           s2 == [s1 EXCEPT !.betT = u]
<1>1. InHand(u) /\ table.card[u] = "UNKNOWN"
      /\ table' = IF table.currBet = u THEN SetPlayerOptype(s2, u) ELSE s1
  BY DEF CheckCard, TableBecomes
<1>2. Core(table) /\ Betting(table) /\ Timed(table) /\ Offered(table)
      /\ table.betT = table.currBet
  BY <1>1, ActorTicks
<1>3. u \in InTable(table) /\ table.pst[u] = "ACTIVE"
  BY <1>1, ActorTicks
<1>4. /\ DOMAIN s1 = Fields /\ s1.card = [table.card EXCEPT ![u] = "KNOWN"]
      /\ s1.seat = table.seat /\ s1.pst = table.pst
      /\ s1.status = table.status /\ s1.over = table.over
      /\ s1.betT = table.betT
      /\ s1.offer = table.offer /\ s1.allin = table.allin
  BY <1>2 DEF Core, Shape, Fields, FreshTable
<1>5. Holders(s1) = Holders(table)
  <2> HIDE DEF s1
  <2> QED BY <1>1, <1>2, <1>3, <1>4 DEF Holders, InTable, Core, Shape
<1>6. Alike(table, s1)
  BY <1>2, <1>4, <1>5 DEF Alike, Core, Shape
<1>7. CASE table.currBet # u
  BY <1>1, <1>6, <1>7, AlikeTicks DEF KInv
<1>8. CASE table.currBet = u
  <2>1. /\ DOMAIN s2 = Fields /\ s2.card = s1.card
        /\ s2.seat = s1.seat /\ s2.pst = s1.pst
        /\ s2.status = s1.status /\ s2.over = s1.over
        /\ s2.betT = u /\ s2.offer = s1.offer /\ s2.allin = s1.allin
        /\ s2.preWin = table.preWin /\ s2.lock = table.lock
        /\ s2.startT = table.startT /\ s2.kickT = table.kickT
        /\ s2.overT = table.overT
    BY <1>2 DEF Core, Shape, Fields, FreshTable
  <2> HIDE DEF s1
  <2>2. s2.card \in [User -> CardStatus]
    BY <1>2, <1>4, <2>1 DEF Core, Shape, CardStatus
  <2> HIDE DEF s2
  <2>3. Shape(s2)
    BY <1>2, <1>4, <2>1, <2>2 DEF Core, Shape
  <2>4. Holders(s2) = Holders(table) /\ u \in InTable(s2)
    BY <1>3, <1>4, <1>5, <2>1 DEF Holders, InTable
  <2>5. Timed(s2) /\ IsActive(s2)
    BY <1>2, <1>4, <1>8, <2>1, <2>4 DEF Timed, Betting, IsActive
  <2> DEFINE t == SetPlayerOptype(s2, u)
  <2>6. /\ Same(s2, t) /\ t.allin = s2.allin /\ Holders(t) = Holders(s2)
        /\ Offered(t)
    BY <2>3, <2>4, <2>5, SetPlayerOptypeOffers
  <2>7. t = table'
    BY <1>1, <1>8
  <2> HIDE DEF t
  <2>8. Timed(t)
    BY <2>5, <2>6 DEF Timed, Same, SameButCards
  <2> QED BY <2>6, <2>7, <2>8 DEF Ticks
<1> QED BY <1>7, <1>8

\* The one whose time is up folds and passes the turn on.
LEMMA BetTimeOutTicks ==
    ASSUME KInv, BetTimeOut
    PROVE  Ticks(table')
<1> DEFINE u == table.betT
           s1 == [table EXCEPT !.betT = None]
           st == [s1 EXCEPT !.tmo[u] = IF s1.round = 1 THEN @ + 1 ELSE @]
           s2 == Discard(st, u)
           s3 == GetNextBetPlayer(s2, u)
           s4 == IF s3.betT = None THEN s3 ELSE SetPlayerOptype(s3, s3.betT)
<1>1. /\ u # None
      /\ table' = IF u \in InTable(table) /\ table.currBet = u
                  THEN GameOverIfDecided(SetNextFirst(s4, u)) ELSE s1
  BY DEF BetTimeOut, TableBecomes
<1>2. TableInv(table)
  BY DEF KInv, CInv, HInv, IInv
<1>3. /\ u \in InTable(table) /\ table.currBet = u
      /\ u \in User /\ Betting(table)
  BY <1>1, <1>2 DEF TableInv, Core, Clock, Together, InTable, Betting
<1>4. TableInv(s1) /\ s1.status = table.status /\ s1.over = table.over
  BY <1>2, ClockStopped
<1> HIDE DEF s1
<1>5. Same(s1, st)
  BY <1>4 DEF TableInv, Core, Shape, Fields, FreshTable, Same, SameButCards
<1> HIDE DEF u, st
<1>6. Core(st) /\ Betting(st)
  <2>1. TableInv(st)
    BY <1>4, <1>5, InvKept
  <2> QED BY <1>3, <1>4, <1>5, <2>1
          DEF TableInv, Same, SameButCards, Betting, IsActive
<1>7. Core(s3) /\ IsActive(s3) /\ Passed(s3, u) /\ u \notin Holders(s3)
  BY <1>3, <1>6, FoldPasses
<1> HIDE DEF s2, s3
<1>8. Shape(s4) /\ Passed(s4, u) /\ u \notin Holders(s4)
  <2>1. CASE s3.betT = None
    BY <1>7, <2>1 DEF Core
  <2>2. CASE s3.betT # None
    <3>1. s4 = SetPlayerOptype(s3, s3.betT)
      BY <2>2
    <3> HIDE DEF s4
    <3>2. /\ Same(s3, s4) /\ s4.allin = s3.allin /\ Holders(s4) = Holders(s3)
          /\ Offered(s3) => Offered(s4)
      BY <1>7, <3>1, SetPlayerOptypeOffers DEF Core
    <3>3. s4.betT = s3.betT /\ s4.over = s3.over /\ Shape(s4)
      BY <1>7, <3>2 DEF Core, Shape, Same, SameButCards
    <3>4. Timed(s3) => Timed(s4)
      BY <3>2, <3>3 DEF Timed
    <3> QED BY <1>7, <3>2, <3>3, <3>4 DEF Passed
  <2> QED BY <2>1, <2>2
<1> HIDE DEF s4
<1> QED BY <1>1, <1>3, <1>8, FoldedTicks

\* With clients that follow optype only a hand without an all-in is compared in:
\* whoever is left can be asked.
LEMMA CompareCardsTicks ==
    ASSUME NEW u \in User, NEW v \in User, KInv, Polite, CompareCards(u, v)
    PROVE  Ticks(table')
<1> DEFINE cost == Min({CallMoney(table, u), table.money[u]})
           s1 == PlayerBetCoin(table, u, cost)
           win == CompareCard(table.rank[u], table.rank[v]) = "win"
           sv == Discard(s1, v)
           nv == SetNextFirst(sv, v)
           won == GetNextBetPlayer(nv, u)
           forced == /\ won.betT # None /\ won.money[u] = 0
                     /\ Cardinality(Holders(won)) <= 2
           gu == GetNextBetPlayer(Discard(s1, u), u)
           lost == SetNextFirst(gu, u)
           force == ForceCompareCard(won, u, won.betT)
<1>1. /\ Turn(u) /\ Asks(u, "COMPARE")
      /\ table' = GameOverIfDecided(
           IF ~ win THEN lost ELSE IF forced THEN force ELSE won)
  BY DEF CompareCards, TableBecomes
<1>2. Core(table) /\ Betting(table) /\ Offered(table)
  BY <1>1, ActorTicks DEF Turn
<1>3. ~ SomeAllin(table)
  BY <1>1, <1>2, PoliteAsk
<1> HIDE DEF cost, win
<1>4. Core(s1) /\ Betting(s1) /\ ~ SomeAllin(s1)
  <2>1. Same(table, s1) /\ Alike(table, s1)
    BY <1>2, PlayerBetCoinSame, PlayerBetCoinAlike DEF Core
  <2> HIDE DEF s1
  <2>2. Core(s1)
    BY <1>2, <2>1, CoreKept DEF Same, Core, Shape
  <2> QED BY <1>2, <1>3, <2>1, <2>2 DEF Alike, Betting, IsActive, SomeAllin
<1> HIDE DEF s1
<1>5. CASE ~ win
  <2>1. Core(gu) /\ Passed(gu, u) /\ u \notin Holders(gu)
    BY <1>4, FoldPasses
  <2>2. table' = GameOverIfDecided(lost)
    BY <1>1, <1>5
  <2> HIDE DEF gu
  <2> QED BY <2>1, <2>2, FoldedTicks DEF Core
<1>6. /\ Core(won) /\ Passed(won, u) /\ Decisive(won, u)
  <2>1. /\ Core(sv) /\ Betting(sv) /\ sv.allin = s1.allin
        /\ Holders(sv) = Holders(s1) \ {v}
    BY <1>4, DiscardTicks
  <2> HIDE DEF sv
  <2>2. Same(sv, nv) /\ Alike(sv, nv)
    BY <2>1, SetNextFirstSame, SetNextFirstAlike DEF Core
  <2> HIDE DEF nv
  <2>3. Core(nv)
    BY <2>1, <2>2, CoreKept DEF Same, Core, Shape
  <2>4. Betting(nv) /\ nv.allin = s1.allin /\ Holders(nv) = Holders(sv)
    BY <2>1, <2>2 DEF Alike, Betting, IsActive
  <2>5. /\ Core(won) /\ Passed(won, u) /\ won.allin = nv.allin
        /\ Holders(won) = Holders(nv)
    BY <2>3, <2>4, GetNextBetPlayerPasses
  <2> HIDE DEF won
  <2>6. \A w \in Holders(won) : ~ won.allin[w]
    BY <1>4, <2>1, <2>4, <2>5 DEF SomeAllin
  <2>7. Decisive(won, u)
    BY <2>6 DEF Decisive
  <2> QED BY <2>5, <2>7
<1> HIDE DEF won
<1>7. CASE win /\ ~ forced
  <2>1. DOMAIN won = Fields
    BY <1>6 DEF Core, Shape
  <2> QED BY <1>1, <1>6, <1>7, <2>1, EndsTick
<1>8. CASE win /\ forced
  <2> DEFINE b == PlayerBetCoin(won, u, won.money[u])
  <2>1. Alike(won, b)
    BY <1>6, PlayerBetCoinAlike DEF Core
  <2>2. force = [b EXCEPT
           !.cmp = [kept |-> TRUE, p1 |-> u, p2 |-> won.betT,
                    result |-> CompareCard(won.rank[u], won.rank[won.betT])],
           !.cmpT = TRUE]
    BY DEF ForceCompareCard
  <2> HIDE DEF b
  <2>3. DOMAIN b = Fields
    BY <1>6, <2>1 DEF Core, Shape, Alike
  <2>4. /\ DOMAIN force = Fields /\ force.seat = b.seat
        /\ force.pst = b.pst /\ force.card = b.card
        /\ force.over = b.over /\ force.status = b.status
        /\ force.betT = b.betT /\ force.offer = b.offer
        /\ force.allin = b.allin
    BY <2>2, <2>3 DEF Fields, FreshTable
  <2> HIDE DEF force
  <2>5. Alike(b, force)
    BY <2>3, <2>4 DEF Alike, Holders, InTable
  <2>6. Passed(force, u) /\ Decisive(force, u)
    BY <1>6, <2>1, <2>5, AlikeTicks
  <2>7. table' = GameOverIfDecided(force)
    BY <1>1, <1>8
  <2> QED BY <2>4, <2>6, <2>7, EndsTick
<1> QED BY <1>5, <1>7, <1>8

\* The announcement of a forced comparison takes the cards of the player on turn
\* only if that decides the hand.
LEMMA NotifyTicks ==
    ASSUME KInv, LastTwoCompare, CompareResultNotifyTimeOut
    PROVE  Ticks(table')
<1> DEFINE c == table.cmp
           s1 == [table EXCEPT !.cmpT = FALSE]
           loser == IF c.result = "win" THEN c.p2 ELSE c.p1
           s2 == IF loser = None THEN s1 ELSE Discard(s1, loser)
           s3 == [s2 EXCEPT !.cmp = NoCompare]
<1>1. /\ table.cmpT
      /\ table' = IF ~ c.kept THEN s1 ELSE GameOverIfDecided(s3)
  BY DEF CompareResultNotifyTimeOut, TableBecomes
<1>2. TableInv(table) /\ Ticks(table) /\ DOMAIN table = Fields
  BY DEF KInv, CInv, HInv, IInv, TableInv, Core, Shape
<1>3. loser \in User \cup {None} /\ loser = Loser(table)
  <2>1. table.cmp \in [kept : BOOLEAN, p1 : UserOrNone, p2 : UserOrNone,
                       result : {"win", "draw", "lose", "none"}]
    BY DEF KInv, CInv, TInv, Typed, Notes
  <2> QED BY <2>1 DEF Loser, UserOrNone
<1>4. Same(table, s1) /\ s1.offer = table.offer /\ s1.allin = table.allin
  BY <1>2 DEF Fields, FreshTable, Same, SameButCards
<1> HIDE DEF s1, loser
<1>5. Alike(table, s1) /\ Ticks(s1) /\ TableInv(s1)
  BY <1>2, <1>4, InvKept, AlikeBySame, AlikeTicks
<1>6. CASE ~ c.kept
  BY <1>1, <1>5, <1>6
<1>7. CASE c.kept /\ ~ Betting(table)
  <2>1. DOMAIN s2 = Fields /\ s2.status = table.status /\ s2.over = table.over
    BY <1>2, <1>5 DEF Discard, Alike, Fields, FreshTable
  <2> HIDE DEF s2
  <2>2. DOMAIN s3 = Fields /\ s3.status = table.status /\ s3.over = table.over
    BY <2>1 DEF Fields, FreshTable
  <2> HIDE DEF s3
  <2>3. Ticks(s3)
    BY <1>7, <2>2 DEF Ticks, Betting, IsActive
  <2> QED BY <1>1, <1>7, <2>2, <2>3, TicksEnd
<1>8. CASE c.kept /\ Betting(table)
  <2>1. table' = GameOverIfDecided(s3)
    BY <1>1, <1>8
  <2>2. Core(s1) /\ Betting(s1)
    BY <1>5, <1>8, AlikeTicks DEF TableInv
  <2>3. /\ DOMAIN s2 = Fields /\ Betting(s2)
        /\ Holders(s2) = Holders(table) \ {loser}
        /\ table.betT # loser => Ticks(s2)
    <3>1. CASE loser = None
      <4>1. s2 = s1 /\ loser \notin Holders(table)
        BY <3>1, NoneAssumption DEF Holders, InTable
      <4> QED BY <1>5, <2>2, <4>1 DEF Alike, Core, Shape
    <3>2. CASE loser \in User
      <4>1. s2 = Discard(s1, loser)
        BY <3>2, NoneAssumption
      <4> QED BY <1>5, <2>2, <3>2, <4>1, DiscardTicks
              DEF Alike, Core, Shape
    <3> QED BY <1>3, <3>1, <3>2
  <2> HIDE DEF s2
  <2>4. /\ DOMAIN s3 = Fields /\ Alike(s2, s3)
    <3>1. /\ DOMAIN s3 = Fields /\ s3.status = s2.status /\ s3.over = s2.over
          /\ s3.betT = s2.betT /\ s3.offer = s2.offer /\ s3.allin = s2.allin
          /\ s3.seat = s2.seat /\ s3.pst = s2.pst /\ s3.card = s2.card
      BY <2>3 DEF Fields, FreshTable
    <3> HIDE DEF s3
    <3> QED BY <2>3, <3>1 DEF Alike, Holders, InTable
  <2> HIDE DEF s3
  <2>5. Betting(s3) /\ Holders(s3) = Holders(table) \ {loser}
    BY <2>3, <2>4, AlikeTicks DEF Alike
  <2>6. CASE table.betT # loser
    BY <2>1, <2>3, <2>4, <2>6, AlikeTicks, TicksEnd
  <2>7. CASE table.betT = loser
    <3>1. loser \in Holders(table)
      BY <1>2, <1>8, <2>7 DEF Ticks, Timed
    <3>2. \A x, y \in Holders(s3) : x = y
      BY <1>1, <1>3, <1>8, <2>5, <2>7, <3>1 DEF LastTwoCompare
    <3>3. IsCanGameOver(s3)
      BY <2>5, <3>2 DEF IsCanGameOver, Betting
    <3>4. table'.over = TRUE
      BY <2>1, <2>4, <3>3 DEF GameOverIfDecided, GameOver, Fields, FreshTable
    <3> QED BY <3>4 DEF Ticks, Betting
  <2> QED BY <2>6, <2>7
<1> QED BY <1>6, <1>7, <1>8

\* No hand is bet on after a settlement.
LEMMA GameOverTicks ==
    ASSUME KInv, GameOverTimeOut
    PROVE  Ticks(table')
<1>1. CASE table' = table
  BY <1>1 DEF KInv
<1>2. CASE table' = Settle(HandOver(table)) /\ table.overT
  <2>1. ~ IsActive(table')
    BY <1>2, SettleInv DEF KInv, CInv, HInv, IInv, TableInv
  <2> QED BY <2>1 DEF Ticks, Betting
<1> QED BY <1>1, <1>2 DEF GameOverTimeOut

\* Whoever leaves the hand passes the turn on if he has it.
LEMMA LeaveHandTicks ==
    ASSUME NEW u \in User, KInv, LeaveHand(u)
    PROVE  Ticks(table')
<1> DEFINE s1 == Forfeit(table, u)
           s2 == IF table.currBet = u THEN GetNextBetPlayer(s1, u) ELSE s1
           sd == Discard(s2, u)
           s3 == SetNextFirst(sd, u)
           s4 == PlayersLeave(s3, {u})
<1>1. /\ Core(s4) /\ IsActive(s4) /\ table' = GameOverIfDecided(s4)
      /\ InHand(u)
  BY LeaveHandTable DEF KInv, CInv, HInv
<1>2. /\ Core(table) /\ Betting(table) /\ Timed(table)
      /\ u \in InTable(table) /\ table.betT = table.currBet
  BY <1>1, ActorTicks
<1>3. Alike(table, s1) /\ Core(s1)
  <2>1. Same(table, s1)
    BY <1>2, ForfeitSame DEF Core
  <2>2. s1.offer = table.offer /\ s1.allin = table.allin
    BY <1>2 DEF Forfeit, Core, Shape, Fields, FreshTable
  <2> HIDE DEF s1
  <2> QED BY <1>2, <2>1, <2>2, AlikeBySame, CoreKept DEF Same, Core, Shape
<1>4. s1.seat = table.seat /\ s1.pst = table.pst
  BY <1>2, ForfeitSame DEF Core, Same, SameButCards
<1> HIDE DEF s1
<1>5. Betting(s1) /\ Ticks(s1)
  BY <1>2, <1>3, AlikeTicks DEF KInv
<1>6. /\ Core(sd) /\ IsActive(sd) /\ u \notin Holders(sd)
      /\ sd.seat = table.seat /\ sd.pst = table.pst /\ sd.betT # u
      /\ table.currBet = u => Passed(sd, u)
      /\ table.currBet # u => Ticks(sd)
  <2>1. CASE table.currBet # u
    <3>1. s2 = s1
      BY <2>1
    <3>2. s1.betT # u /\ s1.betT = table.betT
      BY <1>2, <1>3, <2>1 DEF Alike
    <3> HIDE DEF s2
    <3>3. /\ Core(sd) /\ Betting(sd) /\ Holders(sd) = Holders(s1) \ {u}
          /\ sd.betT = s1.betT /\ Ticks(sd)
      BY <1>3, <1>5, <3>1, <3>2, DiscardTicks
    <3>4. sd.seat = s1.seat /\ sd.pst = s1.pst
      BY <1>3, <3>1, DiscardKeeps DEF SameButCards
    <3> QED BY <1>4, <2>1, <3>2, <3>3, <3>4 DEF Betting
  <2>2. CASE table.currBet = u
    <3>1. s2 = GetNextBetPlayer(s1, u)
      BY <2>2
    <3>2. /\ Core(s2) /\ IsActive(s2) /\ Passed(s2, u) /\ s2.betT # u
          /\ s2.seat = s1.seat /\ s2.pst = s1.pst
      BY <1>3, <1>5, <3>1, GetNextBetPlayerPasses, GetNextBetPlayerCore,
         NoneAssumption
      DEF Betting
    <3> HIDE DEF s2
    <3>3. /\ Core(sd) /\ SameButCards(s2, sd)
          /\ Holders(sd) = Holders(s2) \ {u}
      BY <3>2, DiscardKeeps
    <3>4. sd.offer = s2.offer /\ sd.allin = s2.allin
      BY <3>2 DEF Discard, Core, Shape, Fields, FreshTable
    <3> HIDE DEF sd
    <3>5. Passed(sd, u)
      BY <3>2, <3>3, <3>4, PassedOn DEF SameButCards
    <3> QED BY <1>4, <2>2, <3>2, <3>3, <3>5 DEF SameButCards, IsActive
  <2> QED BY <2>1, <2>2
<1> HIDE DEF s2, sd
<1>7. Alike(sd, s3) /\ Same(sd, s3)
  BY <1>6, SetNextFirstAlike, SetNextFirstSame DEF Core
<1> HIDE DEF s3
<1>8. /\ Core(s3) /\ IsActive(s3) /\ u \notin Holders(s3)
      /\ s3.seat = table.seat /\ s3.pst = table.pst /\ s3.betT # u
  <2>1. Core(s3)
    BY <1>6, <1>7, CoreKept DEF Same, Core, Shape
  <2> QED BY <1>6, <1>7, <2>1, HoldersKept
          DEF Same, SameButCards, IsActive
<1>9. {u} \in SUBSET InTable(s3)
  BY <1>2, <1>8 DEF InTable
<1>10. /\ table.currBet = u => Passed(s3, u)
       /\ table.currBet # u => Ticks(s3)
  BY <1>6, <1>7, AlikeTicks
<1>11. /\ DOMAIN s4 = Fields /\ s4.over = s3.over /\ s4.betT = s3.betT
       /\ s4.offer = s3.offer /\ Holders(s4) = Holders(s3)
       /\ \A v \in Holders(s4) : s4.allin[v] = s3.allin[v]
  <2>1. /\ s4.offer = s3.offer /\ Holders(s4) = Holders(s3) \ {u}
        /\ \A v \in User \ {u} : s4.allin[v] = s3.allin[v]
    BY <1>1, <1>8, <1>9, PlayersLeaveFirst DEF Core
  <2>2. DOMAIN s4 = Fields
    BY <1>1 DEF Core, Shape
  <2> HIDE DEF s4
  <2>3. \A v \in Holders(s4) : v \in User \ {u}
    BY <2>1 DEF Holders, InTable
  <2>4. s4.over = s3.over /\ s4.betT = s3.betT
    <3>1. Seated(s3)
      BY <1>8 DEF Core, Seated
    <3>2. PICK v \in Holders(table) \ {u} : TRUE
      BY <1>2, OtherIn
    <3>3. v \in InTable(s3) \ {u} /\ s3.pst[v] = "ACTIVE"
      BY <1>8, <3>2 DEF Holders, InTable
    <3> QED BY <1>8, <1>9, <3>1, <3>3, PlayersLeaveCore DEF s4
  <2> QED BY <1>8, <2>1, <2>2, <2>3, <2>4
<1> HIDE DEF s4
<1>12. CASE table.currBet = u
  <2>1. Passed(s4, u)
    BY <1>10, <1>11, <1>12, PassedOn
  <2>2. Decisive(s4, u)
    BY <1>8, <1>11 DEF Decisive
  <2> QED BY <1>1, <1>11, <2>1, <2>2, EndsTick
<1>13. CASE table.currBet # u
  <2>1. Ticks(s4)
    <3>1. Betting(s4) => Betting(s3)
      BY <1>8, <1>11 DEF Betting
    <3>2. Betting(s3) => s3.betT \in Holders(s4)
      BY <1>10, <1>11, <1>13 DEF Ticks, Timed
    <3> QED BY <1>10, <1>11, <1>13, <3>1, <3>2, TicksOn
  <2> QED BY <1>1, <1>11, <2>1, TicksEnd
<1> QED BY <1>12, <1>13

-----------------------------------------------------------------------------
(* The clock: the steps around a hand. *)

\* gameStart makes nobody all in.
LEMMA GameStartAllin ==
    ASSUME NEW s, NEW d, DOMAIN s = Fields
    PROVE  GameStart(s, d).allin = s.allin
<1> DEFINE here == InTable(s)
           dealer == FirstFrom(s, IF s.preWin >= 0 THEN s.preWin ELSE 0, here)
           speaker == NextAfter(s, dealer, here \ {dealer})
           In(f, x) == [u \in User |-> IF u \in here THEN x ELSE f[u]]
           dealt == [CloseLobby(s) EXCEPT
             !.round = 1, !.card = In(@, "UNKNOWN"), !.pst = In(@, "ACTIVE"),
             !.money = [u \in User |-> IF u \in here THEN @[u] - Ante ELSE @[u]],
             !.bet = [u \in User |-> IF u \in here THEN @[u] + Ante ELSE @[u]],
             !.rank = [u \in User |-> IF u \in here THEN d[u] ELSE @[u]],
             !.pool = @ + Ante * Cardinality(here),
             !.betMax = Ante, !.maxCard = "UNKNOWN",
             !.first = s.seat[speaker]]
           offered == SetPlayerOptype(dealt, speaker)
           asked == SetPlayerLimitCoin(offered)
           t == [asked EXCEPT
                   !.status = "ACTIVE", !.currBet = speaker, !.betT = speaker]
<1>1. GameStart(s, d) = t
  BY DEF GameStart
<1> HIDE DEF here, dealer, speaker
<1>2. DOMAIN dealt = Fields /\ dealt.allin = s.allin
  BY DEF CloseLobby, Fields, FreshTable
<1> HIDE DEF dealt
<1>3. DOMAIN offered = Fields /\ offered.allin = s.allin
  BY <1>2 DEF SetPlayerOptype, Fields, FreshTable
<1> HIDE DEF offered
<1>4. DOMAIN asked = Fields /\ asked.allin = s.allin
  BY <1>3 DEF SetPlayerLimitCoin, Fields, FreshTable
<1> HIDE DEF asked
<1>5. t.allin = s.allin
  BY <1>4 DEF Fields, FreshTable
<1> QED BY <1>1, <1>5

\* A step around a hand leaves its clock alone, or starts that of the next hand.
LEMMA AroundTicks ==
    ASSUME KInv, Around
    PROVE  Ticks(table')
<1>1. PICK s : /\ Follows(table, s)
               /\ table' = s \/ table' = GameOver(s) \/ DealsAt(s)
  BY DEF Around
<1>2. /\ TableInv(s) /\ (IsActive(s) <=> IsActive(table))
      /\ Holders(s) = Holders(table) /\ (s.over <=> table.over)
      /\ s.betT = table.betT
      /\ IsActive(table) => s.offer = table.offer
      /\ \A v \in User : s.allin[v] => table.allin[v]
  BY <1>1 DEF Follows, Rests, Leads
<1>3. CASE table' = s
  <2>1. ASSUME Betting(s) PROVE Timed(s) /\ Offered(s)
    <3>1. Timed(table) /\ Offered(table) /\ s.offer = table.offer
      BY <1>2, <2>1 DEF KInv, Ticks, Betting
    <3>2. \A v \in Holders(s) : s.allin[v] => table.allin[v]
      BY <1>2 DEF Holders, InTable
    <3> QED BY <1>2, <3>1, <3>2 DEF Timed, Offered, SomeAllin
  <2> QED BY <1>3, <2>1 DEF Ticks
<1>4. CASE table' = GameOver(s)
  <2>1. table'.over = TRUE
    BY <1>2, <1>4
    DEF TableInv, Core, Shape, GameOver, Fields, FreshTable
  <2> QED BY <2>1 DEF Ticks, Betting
<1>5. CASE DealsAt(s)
  <2>1. PICK d : table' = GameStart(s, d)
    BY <1>5 DEF DealsAt
  <2>2. /\ Holders(table') = InTable(s) /\ table'.betT \in InTable(s)
    BY <1>2, <1>5, <2>1, GameStartInv DEF DealsAt, TableInv
  <2>3. table'.allin = s.allin
    BY <1>2, <2>1, GameStartAllin DEF TableInv, Core, Shape
  <2>4. \A v \in User : ~ table.allin[v]
    <3>1. Players(table) = {}
      BY <1>2, <1>5
      DEF DealsAt, KInv, CInv, HInv, IInv, TableInv, Core, Together, Players
    <3> QED BY <3>1 DEF KInv, CInv, Coins, Quiet
  <2>5. \A v \in Holders(table') : ~ table'.allin[v]
    BY <1>2, <2>2, <2>3, <2>4 DEF InTable
  <2> QED BY <2>2, <2>5 DEF Ticks, Timed, Offered, SomeAllin
<1> QED BY <1>1, <1>3, <1>4, <1>5

-----------------------------------------------------------------------------
(* The clock of every hand. *)

\* Every timer leaves a hand that is bet on with its clock.
LEMMA TimerTicks ==
    ASSUME KInv, LastTwoCompare, Timer
    PROVE  Ticks(table')
<1> USE DEF KInv, CInv
<1>1. CASE HeartTimeOut \/ TableGameStartTimeOut \/ TableKickTimeOut
  BY <1>1, HeartTimeOutAround, TableGameStartTimeOutAround,
     TableKickTimeOutAround, AroundTicks
<1>2. CASE BetTimeOut
  BY <1>2, BetTimeOutTicks
<1>3. CASE CompareResultNotifyTimeOut
  BY <1>3, NotifyTicks
<1>4. CASE GameOverTimeOut
  BY <1>4, GameOverTicks
<1> QED BY <1>1, <1>2, <1>3, <1>4 DEF Timer

\* So does every message of a client that follows optype.
LEMMA MessageTicks ==
    ASSUME NEW u \in User, MaxNum > 2, Polite, KInv, IInv', Message(u)
    PROVE  Ticks(table')
<1>1. HInv /\ TInv
  BY DEF KInv, CInv
<1>2. CASE LoginComing(u) \/ LoginRedirected(u) \/ RobotComing(u)
  BY <1>1, <1>2, LoginAround, AroundTicks
<1>3. CASE RobotReplaced(u) \/ Drop(u) \/ GetTableDetail(u)
  BY <1>1, <1>3, NoteAround, AroundTicks
<1>4. CASE LeaveTable(u) \/ Logout(u) \/ StartGame(u)
  BY <1>1, <1>4, LeaveTableAround, LogoutAround, StartGameAround, AroundTicks
<1>5. CASE LeaveHand(u)
  BY <1>5, LeaveHandTicks
<1>6. CASE Call(u) \/ Allin(u) \/ \E x \in RaseChoices : Rase(u, x)
  BY <1>6, CallTicks, AllinTicks, RaseTicks
<1>7. CASE ThrowCard(u) \/ CheckCard(u)
  BY <1>7, ThrowCardTicks, CheckCardTicks
<1>8. CASE \E v \in User : CompareCards(u, v)
  BY <1>8, CompareCardsTicks
<1> QED BY <1>2, <1>3, <1>4, <1>5, <1>6, <1>7, <1>8 DEF Message

\* Every step keeps the clock.
LEMMA NextKInv ==
    ASSUME MaxNum > 2, Polite, KInv, LastTwoCompare, [Next]_vars
    PROVE  KInv'
<1>1. CInv'
  BY NextCInv DEF KInv
<1>2. IInv'
  BY <1>1 DEF CInv, HInv
<1>3. CASE Timer
  BY <1>1, <1>3, TimerTicks DEF KInv
<1>4. CASE \E u \in User : Message(u)
  BY <1>1, <1>2, <1>4, MessageTicks DEF KInv
<1>5. CASE UNCHANGED vars
  <2>1. table' = table
    BY <1>5 DEF vars
  <2> QED BY <1>1, <2>1 DEF KInv
<1> QED BY <1>3, <1>4, <1>5 DEF Next

\* With clients that follow optype the bet timer of a hand that is bet on runs for
\* a player who still has something to say: setPlayerOptype offers no raise and no
\* comparison once somebody is all in, so that getNextBetPlayer finds somebody to
\* ask or the handler finds the hand decided. The late announcement of an older
\* comparison must not take the cards of the player on turn.
THEOREM KInvHolds ==
    ASSUME MaxNum > 2, Polite
    PROVE  Spec /\ []LastTwoCompare => []KInv
<1>1. KInv /\ LastTwoCompare /\ [Next]_vars => KInv'
  BY NextKInv
<1>2. Init => KInv
  <2>1. Init => ~ Betting(table)
    BY DEF Init, FreshTable, Betting, IsActive
  <2> QED BY <2>1, InitCoins DEF KInv, Ticks
<1> QED BY <1>1, <1>2, PTL DEF Spec

\* A hand never waits for nothing: some timer of it always runs, the bet timer
\* (BetTimeOut) or that of the settlement (GameOverTimeOut).
THEOREM HandHasClockHolds ==
    ASSUME MaxNum > 2, Polite
    PROVE  Spec /\ []LastTwoCompare => []HandHasClock
<1>1. KInv => HandHasClock
  <2> SUFFICES ASSUME KInv, IsActive(table)
               PROVE  table.betT # None \/ table.overT
    BY DEF HandHasClock
  <2>1. CASE table.over
    BY <2>1 DEF KInv, CInv, HInv, IInv, TableInv, Core, Settling
  <2>2. CASE ~ table.over
    <3>1. table.betT \in User
      BY <2>2 DEF KInv, Ticks, Betting, Timed, Holders, InTable
    <3> QED BY <3>1, NoneAssumption
  <2> QED BY <2>1, <2>2
<1> QED BY <1>1, KInvHolds, PTL

\* A hand that is bet on is never decided: no handler forgets to look for the
\* end of the hand (iscanGameOver), not even RaseProcess, which does not look.
THEOREM UndecidedHolds ==
    ASSUME MaxNum > 2, Polite
    PROVE  Spec /\ []LastTwoCompare => []Undecided
<1>1. KInv => Undecided
  <2> SUFFICES ASSUME KInv, Betting(table), IsCanGameOver(table)
               PROVE  FALSE
    BY DEF Undecided, Betting
  <2>1. table.betT \in Holders(table) /\ ~ table.allin[table.betT]
    BY DEF KInv, Ticks, Timed
  <2>2. \E x, y \in Holders(table) : x # y
    BY DEF KInv, CInv, HInv, IInv, TableInv, TwoIn, Betting
  <2> QED BY <2>1, <2>2 DEF IsCanGameOver
<1> QED BY <1>1, KInvHolds, PTL

\* With every comparison announced in its own hand nothing else can stop the
\* clock: the late announcement (CompareResultNotifyTimeOut after
\* GameOverTimeOut) is the only thing the two theorems above exclude.
THEOREM NoticeFirstClocks ==
    ASSUME MaxNum > 2, Polite
    PROVE  Spec /\ NoticeFirst => []HandHasClock /\ []Undecided
BY NoticeFirstLastTwo, HandHasClockHolds, UndecidedHolds, PTL

-----------------------------------------------------------------------------
(* The rounds: the chairs as a circle, and the passing of the turn. *)

\* How many chairs v sits after the first speaker
Off(s, v) == (s.seat[v] - s.first) % MaxNum

\* Every card holder who comes before c in the round and can still bet is in X.
InTurn(s, c, X) ==
    \A v \in Holders(s) : ~ s.allin[v] /\ Off(s, v) < Off(s, c) => v \in X

\* As far as the players in G go, whoever is in X and can still bet comes before
\* c, and before whoever is all in.
Once(s, c, X, G) ==
    \A v \in Holders(s) \cap G : ~ s.allin[v] =>
       /\ v \in X => Off(s, v) < Off(s, c)
       /\ Off(s, v) < Off(s, c) =>
            \A b \in Holders(s) : s.allin[b] => Off(s, v) < Off(s, b)

\* A card holder has the turn, those before him have had theirs, and those in G
\* who have had theirs come before him.
OnTurn(t, X, G) ==
    /\ t.betT = t.currBet /\ t.currBet \in Holders(t)
    /\ InTurn(t, t.currBet, X) /\ Once(t, t.currBet, X, G)

\* Nobody has the turn: nobody but the one who had it last can bet.
NobodyElse(t) ==
    t.betT = None /\ \A v \in Holders(t) \ {t.currBet} : t.allin[v]

\* What getNextBetPlayer does to the round and the turn
PassesTo(s, t, u) ==
    LET able == AbleToBet(s, u)
        next == NextAfter(s, u, able)
        r == IF s.seat[next] = s.first THEN s.round + 1 ELSE s.round
    IN \/ /\ able = {}
          /\ t.betT = None /\ t.round = s.round /\ t.currBet = s.currBet
       \/ /\ able # {} /\ PastLastRound(r)
          /\ t.over /\ t.round = MaxRound /\ t.currBet = s.currBet
       \/ /\ able # {} /\ ~ PastLastRound(r)
          /\ t.betT = next /\ t.currBet = next /\ t.round = r

\* getNextBetPlayer does that.
LEMMA GetNextBetPlayerHands ==
    ASSUME NEW s, NEW u \in User, Shape(s)
    PROVE  PassesTo(s, GetNextBetPlayer(s, u), u)
<1> DEFINE able == AbleToBet(s, u)
           next == NextAfter(s, u, able)
           r == IF s.seat[next] = s.first THEN s.round + 1 ELSE s.round
           acted == [s EXCEPT !.betT = None,
                              !.tmo[u] = IF s.round # 1 THEN 0 ELSE @]
           turn == [acted EXCEPT !.round = r, !.currBet = next]
           asked == SetPlayerOptype(turn, next)
           clocked == [asked EXCEPT !.betT = next]
           last == [GameOver(acted) EXCEPT !.round = MaxRound]
           stop == SetPlayerOptype(acted, u)
           go == SetPlayerLimitCoin(clocked)
           t == GetNextBetPlayer(s, u)
<1>1. t = IF able = {} THEN stop ELSE IF PastLastRound(r) THEN last ELSE go
  BY DEF GetNextBetPlayer
<1> HIDE DEF able, next, r
<1>2. /\ DOMAIN acted = Fields /\ acted.betT = None
      /\ acted.round = s.round /\ acted.currBet = s.currBet
  BY DEF Shape, Fields, FreshTable
<1>3. DOMAIN turn = Fields /\ turn.round = r /\ turn.currBet = next
  BY DEF Shape, Fields, FreshTable
<1> HIDE DEF acted, turn
<1>4. stop.betT = None /\ stop.round = s.round /\ stop.currBet = s.currBet
  BY <1>2 DEF SetPlayerOptype, Fields, FreshTable
<1>5. last.over = TRUE /\ last.round = MaxRound /\ last.currBet = s.currBet
  BY <1>2 DEF GameOver, Fields, FreshTable
<1>6. go.betT = next /\ go.round = r /\ go.currBet = next
  <2>1. DOMAIN asked = Fields /\ asked.round = r /\ asked.currBet = next
    BY <1>3 DEF SetPlayerOptype, Fields, FreshTable
  <2> HIDE DEF asked
  <2>2. /\ DOMAIN clocked = Fields /\ clocked.betT = next
        /\ clocked.round = r /\ clocked.currBet = next
    BY <2>1 DEF Fields, FreshTable
  <2> HIDE DEF clocked
  <2> QED BY <2>2 DEF SetPlayerLimitCoin, Fields, FreshTable
<1> HIDE DEF stop, last, go, t
<1>7. \/ able = {} /\ t.betT = None /\ t.round = s.round
         /\ t.currBet = s.currBet
      \/ able # {} /\ PastLastRound(r) /\ t.over /\ t.round = MaxRound
         /\ t.currBet = s.currBet
      \/ able # {} /\ ~ PastLastRound(r)
         /\ t.betT = next /\ t.currBet = next /\ t.round = r
  BY <1>1, <1>4, <1>5, <1>6
<1> QED BY <1>7 DEF PassesTo, able, next, r, t

\* Where the turn of u in the round with the turns X is passed; a player in G gets
\* it only if he has not had it in this round.
Hence(s, t, u, X, G) ==
    \/ t.round = s.round /\ t.over /\ t.currBet = u
    \/ /\ t.round = s.round /\ t.currBet # u /\ OnTurn(t, X \cup {u}, G)
       /\ t.currBet \in G => t.currBet \notin X
    \/ /\ t.round = s.round + 1 /\ t.currBet # u /\ OnTurn(t, {}, G)
       /\ \A v \in Holders(t) : t.allin[v] \/ v = u \/ v \in X
    \/ t.round = s.round /\ t.currBet = u /\ NobodyElse(t)

\* What must be known of the one who passes the turn for it to come to each player
\* of G once: the mark is on him or on a card holder, and once somebody is all in
\* he is too or has given up the cards.
MayPass(s, u, G) ==
    G # {} => /\ User \ {u} \subseteq G
              /\ FirstOr(s, u)
              /\ u \in Holders(s) \cap G => s.allin[u] \/ ~ SomeAllin(s)

\* getNextBetPlayer passes the turn in order: to somebody everybody before whom
\* has had his turn, into a new round only if everybody has.
LEMMA PassesInTurn ==
    ASSUME NEW s, NEW u \in User, NEW X, NEW G, Core(s), Betting(s), Apart(s),
           s.first \in Seats, s.round \in 0..MaxRound, u \in InTable(s),
           s.currBet = u, InTurn(s, u, X), Once(s, u, X, G), MayPass(s, u, G)
    PROVE  Hence(s, GetNextBetPlayer(s, u), u, X, G)
<1> DEFINE t == GetNextBetPlayer(s, u)
           able == AbleToBet(s, u)
           next == NextAfter(s, u, able)
           r == IF s.seat[next] = s.first THEN s.round + 1 ELSE s.round
<1>1. /\ t.first = s.first /\ t.seat = s.seat /\ Holders(t) = Holders(s)
      /\ t.allin = s.allin
  BY GetNextBetPlayerMarks, GetNextBetPlayerPasses DEF Marks, SameFirst
<1>2. PassesTo(s, t, u)
  BY GetNextBetPlayerHands DEF Core
<1>3. \/ able = {} /\ t.betT = None /\ t.round = s.round
         /\ t.currBet = s.currBet
      \/ able # {} /\ PastLastRound(r) /\ t.over /\ t.round = MaxRound
         /\ t.currBet = s.currBet
      \/ able # {} /\ ~ PastLastRound(r)
         /\ t.betT = next /\ t.currBet = next /\ t.round = r
  BY <1>2 DEF PassesTo
<1> HIDE DEF t
<1>4. /\ able \in SUBSET User
      /\ \A v : v \in able <=> v \in Holders(s) /\ v # u /\ ~ s.allin[v]
      /\ \A v \in Holders(s) : v \in InTable(s) /\ v \in User
  BY DEF AbleToBet, Holders, InTable
<1>5. able # {} =>
        /\ next \in able
        /\ \A w \in able : (s.seat[next] - (s.seat[u] + 1)) % MaxNum
                             <= (s.seat[w] - (s.seat[u] + 1)) % MaxNum
  BY <1>4, NextAfterLeast DEF Core
<1> HIDE DEF able, next
<1>6. CASE able = {}
  <2>1. NobodyElse(t) /\ t.round = s.round /\ t.currBet = u
    BY <1>1, <1>3, <1>4, <1>6 DEF NobodyElse
  <2> QED BY <2>1 DEF Hence, t
<1>7. CASE able # {} /\ PastLastRound(r)
  <2>1. s.round + 1 > MaxRound
    BY <1>7, RoundAssumption DEF PastLastRound
  <2>2. MaxRound = s.round
    BY <2>1, RoundAssumption
  <2>3. t.over /\ t.round = MaxRound /\ t.currBet = u
    BY <1>3, <1>7
  <2> QED BY <2>2, <2>3 DEF Hence, t
<1>8. CASE able # {} /\ ~ PastLastRound(r)
  <2>0. /\ t.betT = next /\ t.currBet = next /\ t.round = r
        /\ next \in Holders(s) /\ next # u /\ ~ s.allin[next]
    BY <1>3, <1>4, <1>5, <1>8
  <2>1. /\ s.seat[u] \in Seats /\ s.seat[next] \in Seats
        /\ s.seat[next] # s.seat[u]
    BY <1>4, <2>0 DEF InTable, Apart
  <2>2. ASSUME NEW v \in able
        PROVE  /\ s.seat[next] = s.first => v \in X
               /\ Off(s, v) < Off(s, next) => v \in X
    <3>1. v \in Holders(s) /\ v # u /\ ~ s.allin[v] /\ v \in InTable(s)
      BY <1>4
    <3>2. s.seat[v] \in Seats /\ s.seat[v] # s.seat[u]
      BY <3>1 DEF InTable, Apart
    <3>3. (s.seat[next] - (s.seat[u] + 1)) % MaxNum
            <= (s.seat[v] - (s.seat[u] + 1)) % MaxNum
      BY <1>5
    <3>4. /\ s.seat[next] = s.first => Off(s, v) < Off(s, u)
          /\ Off(s, v) < Off(s, next) => Off(s, v) < Off(s, u)
      BY <2>1, <3>2, <3>3, Circle DEF Off
    <3> QED BY <3>1, <3>4 DEF InTurn
  <2>3. \A v \in User : Off(t, v) = Off(s, v)
    BY <1>1 DEF Off
  <2>4. CASE s.seat[next] = s.first
    <3>1. t.round = s.round + 1
      BY <2>0, <2>4
    <3>2. Off(t, next) = 0
      <4>1. (s.seat[next] - s.first) % MaxNum
              = IF s.seat[next] >= s.first THEN s.seat[next] - s.first
                ELSE s.seat[next] - s.first + MaxNum
        BY <2>1, OffIs
      <4>2. s.seat[next] - s.first = 0
        BY <2>1, <2>4, SeatAssumption DEF Seats
      <4>3. Off(t, next) = (s.seat[next] - s.first) % MaxNum
        BY <1>1 DEF Off
      <4>4. s.seat[next] >= s.first
        BY <2>1, <2>4, SeatAssumption DEF Seats
      <4> QED BY <4>1, <4>2, <4>3, <4>4
    <3>3. ASSUME NEW v \in Holders(t) PROVE ~ (Off(t, v) < 0)
      <4>1. s.seat[v] \in Seats
        BY <1>1, <1>4 DEF InTable
      <4>2. Off(t, v) = IF s.seat[v] >= s.first THEN s.seat[v] - s.first
                        ELSE s.seat[v] - s.first + MaxNum
        BY <1>1, <4>1, OffIs DEF Off
      <4> QED BY <4>1, <4>2, SeatAssumption DEF Seats
    <3>4. OnTurn(t, {}, G)
      BY <1>1, <2>0, <3>2, <3>3 DEF OnTurn, InTurn, Once
    <3>5. \A v \in Holders(t) : t.allin[v] \/ v = u \/ v \in X
      BY <1>1, <1>4, <2>2, <2>4
    <3> QED BY <2>0, <3>1, <3>4, <3>5 DEF Hence, t
  <2>5. CASE s.seat[next] # s.first
    <3>1. t.round = s.round
      BY <2>0, <2>5
    <3>2. InTurn(t, next, X \cup {u})
      BY <1>1, <1>4, <2>0, <2>2, <2>3 DEF InTurn
    <3>3. \A v \in Holders(s) \cup {u} :
            Off(s, v) = IF s.seat[v] >= s.first THEN s.seat[v] - s.first
                        ELSE s.seat[v] - s.first + MaxNum
      BY <1>4, OffIs DEF Off, InTable
    <3>4. ASSUME G # {} PROVE Off(s, u) < Off(s, next)
      <4>1. PICK w \in Holders(s) \cup {u} : s.seat[w] = s.first
        BY <3>4 DEF MayPass, FirstOr
      <4>2. Off(s, w) = 0 /\ Off(s, next) > 0
        BY <2>0, <2>1, <2>5, <3>3, <4>1, SeatAssumption DEF Seats
      <4>3. CASE w = u
        BY <4>2, <4>3
      <4>4. CASE w # u /\ ~ s.allin[w]
        <5>1. w \in able /\ s.seat[w] # s.seat[u]
          BY <1>4, <4>1, <4>4 DEF Apart
        <5>2. (s.seat[next] - (s.seat[u] + 1)) % MaxNum
                <= (s.first - (s.seat[u] + 1)) % MaxNum
          BY <1>5, <4>1, <5>1
        <5> QED BY <2>1, <2>5, <4>1, <5>1, <5>2, CircleBack DEF Off
      <4>5. CASE w # u /\ s.allin[w]
        <5>1. next \in Holders(s) \cap G /\ w \in Holders(s)
          BY <1>4, <2>0, <3>4, <4>1, <4>5 DEF MayPass
        <5>2. Off(s, next) \in Int /\ Off(s, u) \in Int
          BY <2>0, <2>1, <3>3, SeatAssumption DEF Seats
        <5>3. Off(s, next) < Off(s, u) => Off(s, next) < Off(s, w)
          BY <2>0, <4>5, <5>1 DEF Once
        <5>4. ~ (Off(s, next) < Off(s, u))
          BY <4>2, <5>2, <5>3
        <5>5. Off(s, next) # Off(s, u)
          BY <2>0, <2>1, <3>3, SeatAssumption DEF Seats
        <5> QED BY <5>2, <5>4, <5>5
      <4> QED BY <4>3, <4>4, <4>5
    <3>5. next \in G => next \notin X
      <4> SUFFICES ASSUME next \in G, next \in X PROVE FALSE
        OBVIOUS
      <4>1. Off(s, next) < Off(s, u)
        BY <2>0 DEF Once
      <4>2. Off(s, next) \in Int /\ Off(s, u) \in Int
        BY <2>0, <2>1, <3>3, SeatAssumption DEF Seats
      <4> QED BY <3>4, <4>1, <4>2
    <3>6. ASSUME NEW v \in Holders(s) \cap G, ~ s.allin[v]
          PROVE  /\ v \in X \cup {u} => Off(s, v) < Off(s, next)
                 /\ Off(s, v) < Off(s, next) =>
                      \A b \in Holders(s) : s.allin[b] => Off(s, v) < Off(s, b)
      <4>1. Off(s, u) < Off(s, next)
        BY <3>4, <3>6
      <4>2. /\ Off(s, next) \in Int /\ Off(s, u) \in Int
            /\ Off(s, v) \in Int
        BY <1>4, <2>0, <2>1, <3>3, SeatAssumption DEF Seats, InTable
      <4>3. CASE v = u
        BY <3>6, <4>1, <4>3 DEF MayPass, SomeAllin
      <4>4. CASE v # u
        <5>1. v \in X => Off(s, v) < Off(s, u)
          BY <3>6 DEF Once
        <5>2. Off(s, v) < Off(s, next) => Off(s, v) < Off(s, u)
          <6>1. v \in able
            BY <1>4, <3>6, <4>4
          <6>2. /\ s.seat[v] \in Seats /\ s.seat[v] # s.seat[u]
                /\ (s.seat[next] - (s.seat[u] + 1)) % MaxNum
                     <= (s.seat[v] - (s.seat[u] + 1)) % MaxNum
            BY <1>4, <1>5, <4>4, <6>1 DEF InTable, Apart
          <6> QED BY <2>1, <6>2, Circle DEF Off
        <5>3. Off(s, v) < Off(s, u) =>
                \A b \in Holders(s) : s.allin[b] => Off(s, v) < Off(s, b)
          BY <3>6 DEF Once
        <5> QED BY <4>1, <4>2, <4>4, <5>1, <5>2, <5>3
      <4> QED BY <4>3, <4>4
    <3>7. Once(t, next, X \cup {u}, G)
      <4>1. \A v \in Holders(s) : v \in User
        BY <1>4
      <4> QED BY <1>1, <2>0, <2>3, <3>6, <4>1 DEF Once
    <3>8. OnTurn(t, X \cup {u}, G)
      BY <1>1, <2>0, <3>2, <3>7 DEF OnTurn
    <3> QED BY <2>0, <3>1, <3>5, <3>8 DEF Hence, t
  <2> QED BY <2>4, <2>5
<1> QED BY <1>6, <1>7, <1>8

\* setNextFirstPlayer, when u has given up the cards, keeps the order of those
\* who hold some.
LEMMA NextFirstOrder ==
    ASSUME NEW s, NEW u \in InTable(s), Shape(s), Apart(s), u \notin Holders(s)
    PROVE  LET t == SetNextFirst(s, u)
           IN /\ Holders(t) = Holders(s) /\ t.allin = s.allin
              /\ \A x, y \in Holders(s) :
                   Off(t, x) < Off(t, y) <=> Off(s, x) < Off(s, y)
<1> DEFINE t == SetNextFirst(s, u)
           rest == Holders(s) \ {u}
           w == NextAfter(s, u, rest)
<1>0. /\ rest = Holders(s) /\ rest \in SUBSET User /\ u \in User
      /\ \A v \in Holders(s) : v \in InTable(s) /\ v \in User
  BY DEF Holders, InTable
<1>1. Holders(t) = Holders(s) /\ t.allin = s.allin /\ t.seat = s.seat
  BY SetNextFirstAlike DEF Alike, SetNextFirst, Shape, Fields, FreshTable
<1>2. CASE s.seat[u] # s.first \/ rest = {}
  BY <1>2 DEF SetNextFirst
<1>3. CASE s.seat[u] = s.first /\ rest # {}
  <2>1. t.first = s.seat[w]
    BY <1>3 DEF SetNextFirst, Shape, Fields, FreshTable
  <2>2. w \in rest /\ \A v \in rest :
                (s.seat[w] - (s.first + 1)) % MaxNum
                  <= (s.seat[v] - (s.first + 1)) % MaxNum
    BY <1>0, <1>3, NextAfterLeast
  <2> HIDE DEF w, t, rest
  <2>3. \A v \in Holders(s) : s.seat[v] \in Seats /\ s.seat[v] # s.first
    BY <1>0, <1>3 DEF InTable, Apart
  <2>4. s.first \in Seats
    BY <1>3 DEF InTable
  <2>5. ASSUME NEW x \in Holders(s), NEW y \in Holders(s)
        PROVE  Off(t, x) < Off(t, y) <=> Off(s, x) < Off(s, y)
    BY <1>0, <1>1, <2>1, <2>2, <2>3, <2>4, CircleOn DEF Off
  <2> QED BY <1>1, <2>5 DEF t
<1> QED BY <1>2, <1>3

\* So the turn stays in order,
LEMMA NextFirstInTurn ==
    ASSUME NEW s, NEW u \in InTable(s), NEW c \in Holders(s), NEW X, NEW G,
           Shape(s), Apart(s), u \notin Holders(s)
    PROVE  /\ InTurn(s, c, X) => InTurn(SetNextFirst(s, u), c, X)
           /\ Once(s, c, X, G) => Once(SetNextFirst(s, u), c, X, G)
<1> DEFINE t == SetNextFirst(s, u)
<1>1. /\ Holders(t) = Holders(s) /\ t.allin = s.allin
      /\ \A x, y \in Holders(s) :
           Off(t, x) < Off(t, y) <=> Off(s, x) < Off(s, y)
  BY NextFirstOrder
<1> HIDE DEF t
<1>2. InTurn(s, c, X) => InTurn(t, c, X)
  BY <1>1 DEF InTurn
<1>3. Once(s, c, X, G) => Once(t, c, X, G)
  BY <1>1 DEF Once
<1> QED BY <1>2, <1>3 DEF t

\* The tables agree on the round, the turn and the chairs.
SameRound(s, t) ==
    /\ DOMAIN t = DOMAIN s /\ t.status = s.status
    /\ t.round = s.round /\ t.over = s.over
    /\ t.currBet = s.currBet /\ t.betT = s.betT
    /\ t.first = s.first /\ t.seat = s.seat /\ t.allin = s.allin

\* Bets, folds and offers are nothing to the round.
LEMMA RoundSame ==
    ASSUME NEW s, NEW u, NEW x, DOMAIN s = Fields
    PROVE  /\ SameRound(s, PlayerBetCoin(s, u, x))
           /\ SameRound(s, Discard(s, u))
           /\ SameRound(s, SetPlayerOptype(s, u))
           /\ SameRound(s, Forfeit(s, u))
<1>1. SameRound(s, PlayerBetCoin(s, u, x))
  BY DEF PlayerBetCoin, SameRound, Fields, FreshTable
<1>2. SameRound(s, Discard(s, u))
  BY DEF Discard, SameRound, Fields, FreshTable
<1>3. SameRound(s, SetPlayerOptype(s, u))
  BY DEF SetPlayerOptype, SameRound, Fields, FreshTable
<1>4. SameRound(s, Forfeit(s, u))
  BY DEF Forfeit, SameRound, Fields, FreshTable
<1> QED BY <1>1, <1>2, <1>3, <1>4

\* The turn stays where it went when he who had it gives up the cards or leaves.
LEMMA HenceOn ==
    ASSUME NEW r, NEW s, NEW t, NEW u, NEW X, NEW G, NEW K, Hence(r, s, u, X, K),
           t.round = s.round, t.currBet = s.currBet, t.betT = s.betT,
           t.first = s.first, s.over => t.over,
           Holders(t) = Holders(s) \/ Holders(t) = Holders(s) \ {u},
           K = G \/ (K = G \ {u} /\ u \notin Holders(t)),
           \A v \in Holders(t) : t.allin[v] = s.allin[v] /\ t.seat[v] = s.seat[v]
    PROVE  Hence(r, t, u, X, G)
<1>0. /\ \A v \in Holders(t) : v \in Holders(s) /\ Off(t, v) = Off(s, v)
      /\ \A v \in Holders(t) \cap G : v \in K
  BY DEF Off
<1>1. ASSUME NEW Y, s.currBet # u, OnTurn(s, Y, K) PROVE OnTurn(t, Y, G)
  <2>1. s.currBet \in Holders(t)
    BY <1>1 DEF OnTurn
  <2>2. InTurn(t, t.currBet, Y)
    BY <1>0, <1>1, <2>1 DEF OnTurn, InTurn
  <2>3. Once(t, t.currBet, Y, G)
    BY <1>0, <1>1, <2>1 DEF OnTurn, Once
  <2> QED BY <1>1, <2>1, <2>2, <2>3 DEF OnTurn
<1>2. s.currBet = u /\ NobodyElse(s) => NobodyElse(t)
  BY DEF NobodyElse
<1>3. CASE s.round = r.round /\ s.over /\ s.currBet = u
  BY <1>3 DEF Hence
<1>4. CASE /\ s.round = r.round /\ s.currBet # u /\ OnTurn(s, X \cup {u}, K)
           /\ s.currBet \in K => s.currBet \notin X
  BY <1>1, <1>4 DEF Hence
<1>5. CASE /\ s.round = r.round + 1 /\ s.currBet # u /\ OnTurn(s, {}, K)
           /\ \A v \in Holders(s) : s.allin[v] \/ v = u \/ v \in X
  BY <1>0, <1>1, <1>5 DEF Hence
<1>6. CASE s.round = r.round /\ s.currBet = u /\ NobodyElse(s)
  BY <1>2, <1>6 DEF Hence
<1> QED BY <1>3, <1>4, <1>5, <1>6 DEF Hence

\* It stays there when the first speaker's mark moves on.
LEMMA HenceNextFirst ==
    ASSUME NEW r, NEW s, NEW u, NEW X, NEW G, NEW w \in InTable(s), Shape(s),
           Apart(s), w \notin Holders(s), Hence(r, s, u, X, G)
    PROVE  Hence(r, SetNextFirst(s, w), u, X, G)
<1> DEFINE t == SetNextFirst(s, w)
<1>1. /\ Holders(t) = Holders(s) /\ t.allin = s.allin /\ t.betT = s.betT
      /\ t.currBet = s.currBet /\ t.over = s.over /\ t.round = s.round
  BY SetNextFirstAlike DEF Alike, SetNextFirst, Shape, Fields, FreshTable
<1>2. ASSUME NEW Y, OnTurn(s, Y, G) PROVE OnTurn(t, Y, G)
  BY <1>1, <1>2, NextFirstInTurn DEF OnTurn
<1> HIDE DEF t
<1>3. NobodyElse(s) => NobodyElse(t)
  BY <1>1 DEF NobodyElse
<1> QED BY <1>1, <1>2, <1>3 DEF Hence, t

-----------------------------------------------------------------------------

\* The inductive invariant: whoever comes before the player on turn has had his
\* turn in this round, or is all in; and, of the players in G, nobody else has had
\* it.  The second rests on clients that follow optype.
RInv(G) ==
    /\ CInv
    /\ Betting(table) => OnTurn(table, spoken, G) \/ NobodyElse(table)
    /\ G # {} => Polite /\ User \subseteq G /\ KInv /\ FInv

\* A handler that is none of the turn's business leaves it where it is.
Stays(t, G) ==
    /\ t.round = table.round /\ t.currBet = table.currBet
    /\ OnTurn(t, spoken, G) \/ NobodyElse(t)

\* What a step has to show
RoundKept(G) ==
    /\ Betting(table') => OnTurn(table', spoken', G) \/ NobodyElse(table')
    /\ WithinHand /\ table'.round = table.round + 1 =>
         \A u \in Holders(table') :
            table'.allin[u] \/ u = table.currBet \/ u \in spoken
    /\ WithinHand /\ table'.round = table.round
         /\ table'.currBet # table.currBet
       => table'.currBet \notin G \cap spoken

\* A handler ends the hand, or leaves the turn with whom it has been passed to.
LEMMA EndsInTurn ==
    ASSUME NEW t, NEW G, RoundNext, IsActive(table), table.round \in Nat,
           DOMAIN t = Fields,
           table' = t \/ table' = GameOver(t) \/ table' = GameOverIfDecided(t),
           Hence(table, t, table.currBet, spoken, G) \/ Stays(t, G)
    PROVE  RoundKept(G)
<1>1. CASE table' = GameOver(t)
  <2>1. /\ table'.over = TRUE /\ table'.round = t.round
        /\ table'.seat = t.seat /\ table'.pst = t.pst
        /\ table'.card = t.card /\ table'.allin = t.allin
        /\ table'.currBet = t.currBet
    BY <1>1 DEF GameOver, Fields, FreshTable
  <2>2. Holders(table') = Holders(t)
    BY <2>1 DEF Holders, InTable
  <2> QED BY <2>1, <2>2 DEF RoundKept, Betting, Hence, Stays
<1>2. CASE table' = t
  <2>1. CASE ~ IsActive(t)
    BY <1>2, <2>1 DEF RoundKept, Betting, WithinHand
  <2>2. CASE IsActive(t)
    <3>1. WithinHand
      BY <1>2, <2>2 DEF WithinHand
    <3>2. spoken' = IF t.round # table.round THEN {}
                    ELSE IF t.currBet # table.currBet
                    THEN spoken \cup {table.currBet}
                    ELSE spoken
      BY <1>2, <3>1 DEF RoundNext
    <3>3. CASE Stays(t, G)
      BY <1>2, <3>2, <3>3 DEF RoundKept, Stays
    <3>4. CASE t.round = table.round /\ t.over /\ t.currBet = table.currBet
      BY <1>2, <3>4 DEF RoundKept, Betting
    <3>5. CASE /\ t.round = table.round /\ t.currBet # table.currBet
               /\ OnTurn(t, spoken \cup {table.currBet}, G)
               /\ t.currBet \in G => t.currBet \notin spoken
      BY <1>2, <3>2, <3>5 DEF RoundKept
    <3>6. CASE /\ t.round = table.round + 1 /\ t.currBet # table.currBet
               /\ OnTurn(t, {}, G)
               /\ \A v \in Holders(t) :
                    t.allin[v] \/ v = table.currBet \/ v \in spoken
      BY <1>2, <3>2, <3>6 DEF RoundKept
    <3>7. CASE /\ t.round = table.round /\ t.currBet = table.currBet
               /\ NobodyElse(t)
      BY <1>2, <3>7 DEF RoundKept
    <3> QED BY <3>3, <3>4, <3>5, <3>6, <3>7 DEF Hence
  <2> QED BY <2>1, <2>2
<1> QED BY <1>1, <1>2 DEF GameOverIfDecided

\* Before the turn is passed
LEMMA TurnFacts ==
    ASSUME NEW u \in User, NEW G, RInv(G), InHand(u)
    PROVE  /\ Core(table) /\ Betting(table) /\ Apart(table)
           /\ table.first \in Seats /\ table.round \in 0..MaxRound
           /\ table.round \in Nat
           /\ u \in InTable(table) /\ table.pst[u] = "ACTIVE"
           /\ InTurn(table, table.currBet, spoken)
           /\ Once(table, table.currBet, spoken, G)
           /\ G # {} => /\ Polite /\ User \subseteq G /\ FirstHolds(table)
                        /\ Offered(table) /\ ~ table.allin[table.currBet]
<1>1. /\ Core(table) /\ Betting(table)
      /\ u \in InTable(table) /\ table.pst[u] = "ACTIVE"
  BY ActorTurn DEF RInv, CInv, HInv
<1>2. Apart(table) /\ table.first \in Seats /\ table.round \in 0..MaxRound
  BY DEF RInv, CInv, TInv, Typed, Steering
<1>3. table.round \in Nat
  BY <1>2, RoundAssumption
<1>4. G # {} => /\ Polite /\ User \subseteq G /\ FirstHolds(table)
                /\ Offered(table) /\ Timed(table)
  BY <1>1 DEF RInv, KInv, FInv, Ticks
<1>5. CASE OnTurn(table, spoken, G)
  <2>1. G # {} => ~ table.allin[table.currBet]
    BY <1>4, <1>5 DEF OnTurn, Timed
  <2> QED BY <1>1, <1>2, <1>3, <1>4, <1>5, <2>1 DEF OnTurn
<1>6. CASE NobodyElse(table)
  <2>1. G = {}
    BY <1>4, <1>6, NoneAssumption DEF Timed, NobodyElse, Holders, InTable
  <2>2. Once(table, table.currBet, spoken, G)
    BY <2>1 DEF Once
  <2> SUFFICES ASSUME NEW v \in Holders(table), ~ table.allin[v],
                      Off(table, v) < Off(table, table.currBet)
               PROVE  FALSE
    BY <1>1, <1>2, <1>3, <2>1, <2>2 DEF InTurn
  <2>3. v = table.currBet
    BY <1>6 DEF NobodyElse
  <2>4. table.seat[v] \in Seats
    BY DEF Holders, InTable
  <2>5. Off(table, v) = IF table.seat[v] >= table.first
                        THEN table.seat[v] - table.first
                        ELSE table.seat[v] - table.first + MaxNum
    BY <1>2, <2>4, OffIs DEF Off
  <2> QED BY <1>2, <2>3, <2>4, <2>5, SeatAssumption DEF Seats
<1> QED BY <1>1, <1>5, <1>6 DEF RInv

\* The player on turn may have given up his cards or gone all in.  If he has done
\* neither while somebody is all in, K leaves him out.
LEMMA PassesTurn ==
    ASSUME NEW u \in User, NEW G, NEW K, RInv(G), Turn(u), NEW s, Core(s),
           Betting(s),
           s.round = table.round, s.currBet = u, s.first = table.first,
           s.seat = table.seat, Holders(s) \subseteq Holders(table),
           Holders(table) \ {u} \subseteq Holders(s),
           \A v \in Holders(s) \ {u} : s.allin[v] = table.allin[v],
           K = G \/ K = G \ {u},
           G # {} /\ u \in Holders(s) \cap K => s.allin[u] \/ ~ SomeAllin(s)
    PROVE  /\ Hence(table, GetNextBetPlayer(s, u), u, spoken, K)
           /\ Core(GetNextBetPlayer(s, u)) /\ IsActive(GetNextBetPlayer(s, u))
           /\ Holders(GetNextBetPlayer(s, u)) = Holders(s)
           /\ GetNextBetPlayer(s, u).seat = s.seat
           /\ GetNextBetPlayer(s, u).allin = s.allin
<1>1. /\ Apart(table) /\ table.first \in Seats /\ table.round \in 0..MaxRound
      /\ u \in InTable(table) /\ InTurn(table, u, spoken)
      /\ Once(table, u, spoken, G)
      /\ G # {} => /\ User \subseteq G /\ FirstHolds(table)
                   /\ ~ table.allin[u]
  BY TurnFacts DEF Turn
<1>2. Apart(s) /\ u \in InTable(s)
  BY <1>1 DEF Apart, InTable
<1>3. Off(s, u) \in Int /\ \A v : Off(s, v) = Off(table, v)
  <2>1. Off(s, u) = IF table.seat[u] >= table.first
                    THEN table.seat[u] - table.first
                    ELSE table.seat[u] - table.first + MaxNum
    BY <1>1, OffIs DEF Off, InTable
  <2>2. Off(s, u) \in Int
    BY <1>1, <2>1, SeatAssumption DEF InTable, Seats
  <2> QED BY <2>2 DEF Off
<1>4. InTurn(s, u, spoken)
  <2> SUFFICES ASSUME NEW v \in Holders(s), ~ s.allin[v], Off(s, v) < Off(s, u)
               PROVE  v \in spoken
    BY DEF InTurn
  <2>1. v # u
    BY <1>3
  <2> QED BY <1>1, <1>3, <2>1 DEF InTurn
<1>5. Once(s, u, spoken, K)
  <2> SUFFICES ASSUME NEW v \in Holders(s) \cap K, ~ s.allin[v]
               PROVE  /\ v \in spoken => Off(s, v) < Off(s, u)
                      /\ Off(s, v) < Off(s, u) =>
                           \A b \in Holders(s) : s.allin[b] =>
                             Off(s, v) < Off(s, b)
    BY DEF Once
  <2>0. v \in Holders(table) \cap G
    OBVIOUS
  <2>1. CASE v = u
    <3>1. ~ table.allin[u]
      BY <1>1, <2>0
    <3>2. u \notin spoken
      BY <1>1, <1>3, <2>0, <2>1, <3>1 DEF Once
    <3> QED BY <1>3, <2>1, <3>2
  <2>2. CASE v # u
    <3>1. ~ table.allin[v]
      BY <2>2
    <3>2. v \in spoken => Off(s, v) < Off(s, u)
      BY <1>1, <1>3, <2>0, <3>1 DEF Once
    <3>3. ASSUME Off(s, v) < Off(s, u), NEW b \in Holders(s), s.allin[b], b # u
          PROVE  Off(s, v) < Off(s, b)
      <4>1. b \in Holders(table) /\ table.allin[b]
        BY <3>3
      <4> QED BY <1>1, <1>3, <2>0, <3>1, <3>3, <4>1 DEF Once
    <3> QED BY <3>2, <3>3
  <2> QED BY <2>1, <2>2
<1>6. MayPass(s, u, K)
  <2> SUFFICES ASSUME K # {} PROVE /\ User \ {u} \subseteq K /\ FirstOr(s, u)
    BY DEF MayPass
  <2>1. User \subseteq G /\ FirstHolds(table)
    BY <1>1
  <2> QED BY <2>1 DEF FirstOr, FirstHolds
<1>7. Hence(s, GetNextBetPlayer(s, u), u, spoken, K)
  BY <1>1, <1>2, <1>4, <1>5, <1>6, PassesInTurn
<1>8. Hence(table, GetNextBetPlayer(s, u), u, spoken, K)
  BY <1>7 DEF Hence
<1> QED BY <1>8, GetNextBetPlayerPasses, GetNextBetPlayerMarks DEF Marks

\* A bet passes the turn in order, whatever it sets.
LEMMA BetInTurn ==
    ASSUME NEW s, NEW u \in User, NEW x, NEW G, RInv(G), Turn(u),
           Same(table, s),
           s.round = table.round, s.first = table.first,
           \A v \in Holders(s) \ {u} : s.allin[v] = table.allin[v],
           G # {} => s.allin[u] \/ ~ SomeAllin(s)
    PROVE  LET t == GetNextBetPlayer(PlayerBetCoin(s, u, x), u)
           IN DOMAIN t = Fields /\ Hence(table, t, u, spoken, G)
<1> DEFINE b == PlayerBetCoin(s, u, x)
<1>1. Core(table) /\ Betting(table)
  BY TurnFacts DEF Turn
<1>2. Core(s) /\ Shape(s)
  BY <1>1, CoreKept DEF Same, Core, Shape
<1>3. Same(s, b)
  BY <1>2, PlayerBetCoinSame
<1>4. SameRound(s, b)
  BY <1>2, RoundSame DEF Shape
<1> HIDE DEF b
<1>5. Core(b) /\ Betting(b)
  BY <1>1, <1>2, <1>3, CoreKept
  DEF Same, SameButCards, Betting, IsActive, Core, Shape
<1>6. /\ Holders(b) = Holders(table) /\ Holders(s) = Holders(table)
      /\ b.round = table.round /\ b.first = table.first
      /\ b.seat = table.seat /\ b.currBet = u /\ b.allin = s.allin
  BY <1>3, <1>4, HoldersKept DEF SameRound, Same, SameButCards, Turn
<1>7. G # {} => b.allin[u] \/ ~ SomeAllin(b)
  BY <1>6 DEF SomeAllin
<1>8. /\ Hence(table, GetNextBetPlayer(b, u), u, spoken, G)
      /\ Core(GetNextBetPlayer(b, u))
  BY <1>5, <1>6, <1>7, PassesTurn
<1> QED BY <1>8 DEF b, Core, Shape

\* So does every bet.
LEMMA BetRound ==
    ASSUME NEW u \in User, NEW G, RInv(G), RoundNext,
           Call(u) \/ Allin(u) \/ \E x \in RaseChoices : Rase(u, x)
    PROVE  RoundKept(G)
<1>0. Turn(u) /\ InHand(u) /\ table.currBet = u
  BY DEF Call, Allin, Rase, Turn
<1>1. /\ Shape(table) /\ IsActive(table) /\ table.round \in Nat
      /\ table.allin \in [User -> BOOLEAN]
      /\ G # {} => Polite /\ Offered(table)
  BY <1>0, TurnFacts DEF Core, Betting, RInv, CInv, TInv, Typed, Notes
<1>2. CASE Call(u)
  <2> DEFINE someAllin == HasSomeOneAllin(table)
             coin == IF someAllin THEN table.allinCoin[u]
                     ELSE CallMoney(table, u)
             s1 == [table EXCEPT !.allin[u] = @ \/ someAllin]
             next == GetNextBetPlayer(PlayerBetCoin(s1, u, coin), u)
  <2>1. table' = GameOverIfDecided(next)
    BY <1>2 DEF Call, TableBecomes
  <2>2. /\ Same(table, s1) /\ s1.round = table.round /\ s1.first = table.first
        /\ s1.allin = [table.allin EXCEPT ![u] = @ \/ someAllin]
    BY <1>1 DEF Shape, Fields, FreshTable, Same, SameButCards
  <2>3. someAllin <=> SomeAllin(table)
    BY <1>1 DEF HasSomeOneAllin, SomeAllin
  <2> HIDE DEF s1, coin, someAllin
  <2>4. /\ Holders(s1) = Holders(table) /\ Holders(s1) \subseteq User
        /\ someAllin \in BOOLEAN
    BY <2>2, <2>3, HoldersKept DEF Holders, InTable, someAllin, HasSomeOneAllin
  <2>5. \A v \in Holders(s1) \ {u} : s1.allin[v] = table.allin[v]
    BY <1>1, <2>2, <2>4, Zenon
  <2>6. s1.allin[u] = (table.allin[u] \/ someAllin)
    BY <1>1, <2>2, Zenon
  <2>7. s1.allin[u] \/ ~ SomeAllin(s1)
    BY <2>3, <2>4, <2>5, <2>6, Zenon DEF SomeAllin
  <2>8. DOMAIN next = Fields /\ Hence(table, next, u, spoken, G)
    BY <1>0, <2>2, <2>5, <2>7, BetInTurn
  <2> HIDE DEF next
  <2> QED BY <1>0, <1>1, <2>1, <2>8, EndsInTurn
<1>3. CASE Allin(u)
  <2> DEFINE coin == table.allinCoin[u]
             s1 == IF coin > table.betMax
                   THEN [table EXCEPT !.betMax = coin, !.maxCard = table.card[u]]
                   ELSE table
             s2 == [s1 EXCEPT !.hasAllin = coin, !.allin[u] = TRUE]
             next == GetNextBetPlayer(PlayerBetCoin(s2, u, coin), u)
  <2>1. table' = GameOverIfDecided(next)
    BY <1>3 DEF Allin, TableBecomes
  <2>2. /\ Same(table, s2) /\ s2.round = table.round /\ s2.first = table.first
        /\ s2.allin = [table.allin EXCEPT ![u] = TRUE]
    BY <1>1 DEF Shape, Fields, FreshTable, Same, SameButCards
  <2> HIDE DEF s2
  <2>3. /\ \A v \in Holders(s2) \ {u} : s2.allin[v] = table.allin[v]
        /\ s2.allin[u]
    BY <1>1, <2>2, Zenon DEF Holders, InTable
  <2>4. DOMAIN next = Fields /\ Hence(table, next, u, spoken, G)
    BY <1>0, <2>2, <2>3, BetInTurn
  <2> HIDE DEF next
  <2> QED BY <1>0, <1>1, <2>1, <2>4, EndsInTurn
<1>4. ASSUME NEW x \in RaseChoices, Rase(u, x)
      PROVE  RoundKept(G)
  <2> DEFINE coin == IF table.card[u] = "UNKNOWN" THEN x ELSE Doubled(x)
             s1 == [table EXCEPT !.betMax = x, !.maxCard = table.card[u]]
             next == GetNextBetPlayer(PlayerBetCoin(s1, u, coin), u)
  <2>1. table' = next
    BY <1>4 DEF Rase, TableBecomes
  <2>2. /\ Same(table, s1) /\ s1.round = table.round /\ s1.first = table.first
        /\ s1.allin = table.allin
    BY <1>1 DEF Shape, Fields, FreshTable, Same, SameButCards
  <2> HIDE DEF s1, coin
  <2>3. G # {} => ~ SomeAllin(s1)
    <3>1. G # {} => ~ SomeAllin(table)
      BY <1>1, <1>4, PoliteAsk DEF Rase
    <3>2. Holders(s1) = Holders(table)
      BY <2>2, HoldersKept
    <3> QED BY <2>2, <3>1, <3>2 DEF SomeAllin
  <2>4. DOMAIN next = Fields /\ Hence(table, next, u, spoken, G)
    BY <1>0, <2>2, <2>3, BetInTurn
  <2> HIDE DEF next
  <2> QED BY <1>0, <1>1, <2>1, <2>4, EndsInTurn
<1> QED BY <1>2, <1>3, <1>4

\* The one on turn gives up his cards: the turn passes in order.
LEMMA FoldInTurn ==
    ASSUME NEW s, NEW u \in User, NEW G, RInv(G), Turn(u), Core(s), Betting(s),
           s.round = table.round, s.currBet = u, s.first = table.first,
           s.seat = table.seat, Holders(s) = Holders(table),
           s.allin = table.allin
    PROVE  LET t == GetNextBetPlayer(Discard(s, u), u)
           IN /\ Hence(table, t, u, spoken, G) /\ Core(t)
              /\ u \notin Holders(t) /\ u \in InTable(t) /\ Apart(t)
<1> DEFINE d == Discard(s, u)
           t == GetNextBetPlayer(d, u)
<1>1. SameRound(s, d)
  BY RoundSame DEF Core, Shape
<1>2. Core(d) /\ Betting(d) /\ Holders(d) = Holders(s) \ {u}
  BY DiscardTicks
<1> HIDE DEF d
<1>3. /\ Hence(table, t, u, spoken, G) /\ Core(t)
      /\ Holders(t) = Holders(d) /\ t.seat = d.seat
  BY <1>1, <1>2, PassesTurn DEF SameRound
<1> HIDE DEF t
<1>4. t.seat = table.seat /\ Apart(table) /\ u \in InTable(table)
  BY <1>1, <1>3, TurnFacts DEF SameRound, Turn
<1>5. u \in InTable(t) /\ Apart(t)
  BY <1>4 DEF InTable, Apart
<1> QED BY <1>2, <1>3, <1>5 DEF t, d

\* Then setNextFirstPlayer moves the mark, and the handler looks for the end.
LEMMA FoldedInTurn ==
    ASSUME NEW t, NEW u \in User, NEW G, RInv(G), RoundNext, InHand(u),
           table.currBet = u, Hence(table, t, u, spoken, G), Shape(t),
           u \notin Holders(t), u \in InTable(t), Apart(t),
           table' = GameOverIfDecided(SetNextFirst(t, u))
    PROVE  RoundKept(G)
<1>1. IsActive(table) /\ table.round \in Nat
  BY TurnFacts DEF Betting
<1>2. Hence(table, SetNextFirst(t, u), u, spoken, G)
  BY HenceNextFirst
<1>3. DOMAIN SetNextFirst(t, u) = Fields
  BY NextFirstFields
<1> QED BY <1>1, <1>2, <1>3, EndsInTurn

\* Somebody else gives up his cards: the turn stays, and so does the order.
LEMMA FoldStays ==
    ASSUME NEW s, NEW t, NEW G, Stays(s, G), t.round = s.round, t.currBet = s.currBet,
           t.betT = s.betT, t.first = s.first,
           Holders(t) \subseteq Holders(s),
           s.betT # None => s.currBet \in Holders(t) \/ s.betT # s.currBet,
           \A v \in Holders(t) : t.allin[v] = s.allin[v] /\ t.seat[v] = s.seat[v]
    PROVE  Stays(t, G)
<1>1. CASE OnTurn(s, spoken, G)
  <2>1. s.currBet \in User /\ s.currBet # None /\ s.betT = s.currBet
    BY <1>1, NoneAssumption DEF OnTurn, Holders, InTable
  <2>2. s.currBet \in Holders(t)
    BY <2>1
  <2>3. \A v \in Holders(t) : v \in Holders(s) /\ Off(t, v) = Off(s, v)
    BY DEF Off
  <2>4. OnTurn(t, spoken, G)
    BY <1>1, <2>2, <2>3 DEF OnTurn, InTurn, Once
  <2> QED BY <2>4 DEF Stays
<1>2. CASE NobodyElse(s)
  <2>1. NobodyElse(t)
    BY <1>2 DEF NobodyElse
  <2> QED BY <2>1 DEF Stays
<1> QED BY <1>1, <1>2 DEF Stays

\* The mark moves on among those who still hold cards.
LEMMA NextFirstStays ==
    ASSUME NEW s, NEW G, NEW w \in InTable(s), Shape(s), Apart(s),
           w \notin Holders(s), Stays(s, G)
    PROVE  Stays(SetNextFirst(s, w), G)
<1> DEFINE t == SetNextFirst(s, w)
<1>1. /\ Holders(t) = Holders(s) /\ t.allin = s.allin /\ t.betT = s.betT
      /\ t.currBet = s.currBet /\ t.over = s.over /\ t.round = s.round
  BY SetNextFirstAlike DEF Alike, SetNextFirst, Shape, Fields, FreshTable
<1>2. OnTurn(s, spoken, G) => OnTurn(t, spoken, G)
  BY <1>1, NextFirstInTurn DEF OnTurn
<1> HIDE DEF t
<1>3. NobodyElse(s) => NobodyElse(t)
  BY <1>1 DEF NobodyElse
<1> QED BY <1>1, <1>2, <1>3 DEF Stays, t

\* A fold, in turn or out of turn
LEMMA ThrowCardRound ==
    ASSUME NEW u \in User, NEW G, RInv(G), RoundNext, ThrowCard(u)
    PROVE  RoundKept(G)
<1> DEFINE s1 == Discard(table, u)
           s2 == IF table.currBet = u THEN GetNextBetPlayer(s1, u)
                 ELSE IF table.currBet = None THEN s1
                 ELSE SetPlayerOptype(s1, table.currBet)
           s3 == SetNextFirst(s2, u)
<1>1. InHand(u) /\ table' = GameOverIfDecided(s3)
  BY DEF ThrowCard, TableBecomes
<1>2. /\ Core(table) /\ Betting(table) /\ Apart(table) /\ u \in InTable(table)
      /\ table.round \in Nat
  BY <1>1, TurnFacts
<1>3. CASE table.currBet = u
  <2>1. /\ Hence(table, s2, u, spoken, G) /\ Core(s2)
        /\ u \notin Holders(s2) /\ u \in InTable(s2) /\ Apart(s2)
    BY <1>1, <1>2, <1>3, FoldInTurn DEF Turn
  <2> HIDE DEF s2
  <2> QED BY <1>1, <1>3, <2>1, FoldedInTurn DEF Core
<1>4. CASE table.currBet # u
  <2>1. /\ Core(s1) /\ Betting(s1) /\ Holders(s1) = Holders(table) \ {u}
    BY <1>2, DiscardTicks
  <2>2. SameRound(table, s1)
    BY <1>2, RoundSame DEF Core, Shape
  <2> HIDE DEF s1
  <2>3. Same(s1, s2) /\ SameRound(s1, s2)
    <3>1. CASE table.currBet = None
      <4>1. s2 = s1
        BY <1>4, <3>1
      <4> QED BY <4>1 DEF Same, SameButCards, SameRound
    <3>2. CASE table.currBet # None
      <4>1. s2 = SetPlayerOptype(s1, table.currBet)
        BY <1>4, <3>2
      <4> QED BY <2>1, <4>1, SetPlayerOptypeSame, RoundSame DEF Core, Shape
    <3> QED BY <3>1, <3>2
  <2> HIDE DEF s2
  <2>4. /\ Holders(s2) = Holders(table) \ {u} /\ Shape(s2)
        /\ s2.seat = table.seat /\ s2.allin = table.allin
    BY <2>1, <2>2, <2>3, HoldersKept, CoreKept
    DEF Core, Shape, SameRound, Same, SameButCards
  <2>5. Stays(table, G)
    BY <1>2 DEF RInv, Stays
  <2>6. Stays(s2, G)
    <3>1. table.betT # None =>
            table.currBet \in Holders(s2) \/ table.betT # table.currBet
      BY <1>4, <2>4, <2>5, NoneAssumption DEF Stays, OnTurn, NobodyElse
    <3> QED BY <2>2, <2>3, <2>4, <2>5, <3>1, FoldStays DEF SameRound
  <2>7. u \in InTable(s2) /\ Apart(s2) /\ u \notin Holders(s2)
    BY <1>2, <2>4 DEF InTable, Apart
  <2>8. Stays(s3, G)
    BY <2>4, <2>6, <2>7, NextFirstStays
  <2>9. DOMAIN s3 = Fields
    BY <2>4, NextFirstFields
  <2> HIDE DEF s3
  <2> QED BY <1>1, <1>2, <2>8, <2>9, EndsInTurn DEF Betting
<1> QED BY <1>3, <1>4

\* The time-out of the player on turn is a fold in turn.
LEMMA BetTimeOutRound ==
    ASSUME NEW G, RInv(G), RoundNext, BetTimeOut
    PROVE  RoundKept(G)
<1> DEFINE u == table.betT
           s1 == [table EXCEPT !.betT = None]
           st == [s1 EXCEPT !.tmo[u] = IF s1.round = 1 THEN @ + 1 ELSE @]
           s2 == Discard(st, u)
           s3 == GetNextBetPlayer(s2, u)
           s4 == IF s3.betT = None THEN s3 ELSE SetPlayerOptype(s3, s3.betT)
           s5 == SetNextFirst(s4, u)
<1>0. HInv /\ IInv
  BY DEF RInv, CInv, HInv
<1>1. /\ u # None /\ ~ crashed
      /\ table' = IF u \in InTable(table) /\ table.currBet = u
                  THEN GameOverIfDecided(s5) ELSE s1
  BY DEF BetTimeOut, TableBecomes
<1>2. /\ u \in InTable(table) /\ table.currBet = u
      /\ u \in User /\ Betting(table) /\ table.pst[u] = "ACTIVE"
  BY <1>0, <1>1
  DEF IInv, TableInv, Core, Clock, Together, InTable, Betting
<1>3. InHand(u) /\ Turn(u)
  BY <1>1, <1>2 DEF InHand, Turn, Playing, At, Betting
<1>4. TableInv(s1) /\ s1.status = table.status /\ s1.over = table.over
  BY <1>0, ClockStopped DEF IInv
<1>5. /\ s1.seat = table.seat /\ s1.pst = table.pst /\ s1.card = table.card
      /\ s1.first = table.first /\ s1.round = table.round
      /\ s1.allin = table.allin /\ s1.currBet = table.currBet
  <2>1. DOMAIN table = Fields
    BY <1>0 DEF IInv, TableInv, Core, Shape
  <2> QED BY <2>1 DEF Fields, FreshTable
<1> HIDE DEF s1
<1>6. Same(s1, st) /\ SameRound(s1, st)
  BY <1>4
  DEF TableInv, Core, Shape, Fields, FreshTable, Same, SameButCards, SameRound
<1> HIDE DEF u, st
<1>7. Core(st) /\ Betting(st) /\ Holders(st) = Holders(table)
  <2>1. TableInv(st)
    BY <1>4, <1>6, InvKept
  <2>2. Holders(st) = Holders(s1) /\ Holders(s1) = Holders(table)
    BY <1>5, <1>6, HoldersKept DEF Holders, InTable
  <2> QED BY <1>2, <1>4, <1>6, <2>1, <2>2
          DEF TableInv, Same, SameButCards, Betting, IsActive
<1>8. /\ Hence(table, s3, u, spoken, G) /\ Core(s3)
      /\ u \notin Holders(s3) /\ u \in InTable(s3) /\ Apart(s3)
  BY <1>2, <1>3, <1>5, <1>6, <1>7, FoldInTurn DEF SameRound
<1> HIDE DEF s3
<1>9. Same(s3, s4) /\ SameRound(s3, s4)
  <2>1. CASE s3.betT = None
    BY <2>1 DEF Same, SameButCards, SameRound
  <2>2. CASE s3.betT # None
    <3>1. s4 = SetPlayerOptype(s3, s3.betT)
      BY <2>2
    <3> QED BY <1>8, <3>1, SetPlayerOptypeSame, RoundSame DEF Core, Shape
  <2> QED BY <2>1, <2>2
<1> HIDE DEF s4
<1>10. /\ Holders(s4) = Holders(s3) /\ InTable(s4) = InTable(s3)
       /\ Shape(s4) /\ Apart(s4)
  BY <1>8, <1>9, HoldersKept DEF Core, Shape, Same, SameButCards, Apart, InTable
<1>11. Hence(table, s4, u, spoken, G)
  BY <1>8, <1>9, <1>10, HenceOn DEF SameRound
<1> QED BY <1>1, <1>2, <1>3, <1>8, <1>10, <1>11, FoldedInTurn

\* Looking at the cards leaves the turn where it is.
LEMMA CheckCardRound ==
    ASSUME NEW u \in User, NEW G, RInv(G), RoundNext, CheckCard(u)
    PROVE  RoundKept(G)
<1> DEFINE s1 == [table EXCEPT !.card[u] = "KNOWN"]
           s2 == [s1 EXCEPT !.betT = u]
           s3 == SetPlayerOptype(s2, u)
<1>1. InHand(u) /\ table.card[u] = "UNKNOWN"
      /\ table' = IF table.currBet = u THEN s3 ELSE s1
  BY DEF CheckCard, TableBecomes
<1>2. /\ Core(table) /\ Betting(table) /\ u \in InTable(table)
      /\ table.pst[u] = "ACTIVE" /\ table.round \in Nat
      /\ InTurn(table, table.currBet, spoken)
      /\ Once(table, table.currBet, spoken, G)
  BY <1>1, TurnFacts
<1>3. Stays(table, G) /\ u \in Holders(table)
  BY <1>1, <1>2 DEF RInv, Stays, Holders
<1>4. /\ DOMAIN s1 = Fields /\ s1.card = [table.card EXCEPT ![u] = "KNOWN"]
      /\ s1.seat = table.seat /\ s1.pst = table.pst
      /\ s1.first = table.first /\ s1.allin = table.allin
      /\ s1.betT = table.betT /\ s1.currBet = table.currBet
      /\ s1.round = table.round
  BY <1>2 DEF Core, Shape, Fields, FreshTable
<1>5. /\ s2.card = s1.card /\ s2.seat = s1.seat /\ s2.pst = s1.pst
      /\ s2.first = s1.first /\ s2.allin = s1.allin
      /\ s2.currBet = s1.currBet /\ s2.round = s1.round
      /\ DOMAIN s2 = Fields /\ s2.betT = u
  BY <1>4 DEF Fields, FreshTable
<1> HIDE DEF s1, s2
<1>6. Holders(s1) = Holders(table) /\ Holders(s2) = Holders(table)
  BY <1>1, <1>2, <1>4, <1>5 DEF Holders, InTable, Core, Shape
<1>7. CASE table.currBet # u
  <2>1. \A v : Off(s1, v) = Off(table, v)
    BY <1>4 DEF Off
  <2>2. Stays(s1, G)
    BY <1>3, <1>4, <1>6, <2>1 DEF Stays, OnTurn, InTurn, Once, NobodyElse
  <2> QED BY <1>1, <1>2, <1>4, <1>7, <2>2, EndsInTurn DEF Betting
<1>8. CASE table.currBet = u
  <2>1. SameRound(s2, s3) /\ DOMAIN s3 = Fields
    BY <1>5, RoundSame DEF SameRound
  <2>2. s3.pst = s2.pst /\ s3.card = s2.card
    BY <1>5 DEF SetPlayerOptype, Fields, FreshTable
  <2> HIDE DEF s3
  <2>3. Holders(s3) = Holders(table)
    BY <1>6, <2>1, <2>2 DEF SameRound, Holders, InTable
  <2>4. /\ s3.betT = u /\ s3.currBet = u /\ s3.round = table.round
        /\ s3.first = table.first /\ s3.seat = table.seat
        /\ s3.allin = table.allin
    BY <1>4, <1>5, <1>8, <2>1 DEF SameRound
  <2>5. \A v : Off(s3, v) = Off(table, v)
    BY <2>4 DEF Off
  <2>6. InTurn(s3, u, spoken) /\ Once(s3, u, spoken, G)
    BY <1>2, <1>8, <2>3, <2>4, <2>5 DEF InTurn, Once
  <2>7. Stays(s3, G)
    BY <1>3, <1>8, <2>3, <2>4, <2>6 DEF Stays, OnTurn
  <2> QED BY <1>1, <1>2, <1>8, <2>1, <2>7, EndsInTurn DEF Betting
<1> QED BY <1>7, <1>8

\* The announced loser is not on turn, or the hand is over without him.
LEMMA NotifyRound ==
    ASSUME NEW G, RInv(G), LastTwoCompare, RoundNext, CompareResultNotifyTimeOut
    PROVE  RoundKept(G)
<1> DEFINE c == table.cmp
           s1 == [table EXCEPT !.cmpT = FALSE]
           loser == IF c.result = "win" THEN c.p2 ELSE c.p1
           s2 == IF loser = None THEN s1 ELSE Discard(s1, loser)
           s3 == [s2 EXCEPT !.cmp = NoCompare]
<1>0. /\ DOMAIN table = Fields /\ TableInv(table) /\ table.round \in Nat
      /\ Core(table)
  BY RoundAssumption
  DEF RInv, CInv, HInv, IInv, TInv, Typed, Steering, TableInv, Core, Shape
<1>1. /\ table.cmpT
      /\ table' = IF ~ c.kept THEN s1 ELSE GameOverIfDecided(s3)
  BY DEF CompareResultNotifyTimeOut, TableBecomes
<1>2. loser = Loser(table)
  BY DEF Loser
<1>3. Same(table, s1) /\ SameRound(table, s1) /\ DOMAIN s1 = Fields
  BY <1>0 DEF Fields, FreshTable, Same, SameButCards, SameRound
<1> HIDE DEF s1, loser
<1>4. TableInv(s1) /\ Holders(s1) = Holders(table)
  BY <1>0, <1>3, InvKept, HoldersKept
<1>5. SameRound(table, s2) /\ s2.pst = table.pst
  <2>1. CASE loser = None
    BY <1>3, <2>1 DEF Same, SameButCards
  <2>2. CASE loser # None
    <3>1. s2 = Discard(s1, loser)
      BY <2>2
    <3> HIDE DEF s2
    <3>2. SameRound(s1, s2)
      BY <1>3, <3>1, RoundSame
    <3>3. s2.pst = s1.pst
      BY <1>3, <3>1 DEF Discard, Fields, FreshTable
    <3> QED BY <1>3, <3>2, <3>3 DEF SameRound, Same, SameButCards
  <2> QED BY <2>1, <2>2
<1>6. Holders(s2) = Holders(table) \ {loser}
  <2>1. loser = None => Holders(table) = Holders(table) \ {loser}
    BY NoneAssumption DEF Holders, InTable
  <2> QED BY <1>4, <2>1, DiscardKeeps DEF TableInv
<1> HIDE DEF s2
<1>7. SameRound(table, s3) /\ Holders(s3) = Holders(table) \ {loser}
      /\ DOMAIN s3 = Fields
  <2>1. /\ SameRound(s2, s3) /\ DOMAIN s3 = Fields
        /\ s3.pst = s2.pst /\ s3.card = s2.card
    BY <1>0, <1>5 DEF SameRound, Fields, FreshTable
  <2> HIDE DEF s3
  <2>2. Holders(s3) = Holders(s2)
    BY <2>1 DEF Holders, InTable, SameRound
  <2> QED BY <1>5, <1>6, <2>1, <2>2 DEF SameRound
<1> HIDE DEF s3
<1>8. CASE ~ Betting(table)
  <2>1. /\ ~ Betting(table') /\ table'.round = table.round
        /\ table'.currBet = table.currBet
    <3>1. CASE table' = s1
      BY <1>3, <1>8, <3>1 DEF SameRound, Betting, IsActive
    <3>2. CASE table' = s3
      BY <1>7, <1>8, <3>2 DEF SameRound, Betting, IsActive
    <3>3. CASE table' = GameOver(s3)
      <4>1. /\ table'.over = TRUE /\ table'.round = s3.round
            /\ table'.currBet = s3.currBet
        BY <1>7, <3>3 DEF GameOver, Fields, FreshTable
      <4> QED BY <1>7, <4>1 DEF SameRound, Betting
    <3> QED BY <1>1, <3>1, <3>2, <3>3 DEF GameOverIfDecided
  <2> QED BY <1>0, <2>1 DEF RoundKept
<1>9. CASE Betting(table)
  <2>1. Stays(table, G) /\ IsActive(table)
    BY <1>9 DEF RInv, Stays, Betting
  <2>2. CASE ~ c.kept
    <3>1. \A v : Off(s1, v) = Off(table, v)
      BY <1>3 DEF SameRound, Off
    <3>2. Stays(s1, G)
      BY <1>3, <1>4, <2>1, <3>1
      DEF SameRound, Stays, OnTurn, InTurn, Once, NobodyElse
    <3> QED BY <1>0, <1>1, <1>3, <2>1, <2>2, <3>2, EndsInTurn
  <2>3. CASE c.kept /\ (table.betT = None \/ loser \notin Holders(table)
                         \/ loser # table.betT)
    <3>1. table.betT # None =>
            table.currBet \in Holders(s3) \/ table.betT # table.currBet
      BY <1>7, <2>1, <2>3, NoneAssumption DEF Stays, OnTurn, NobodyElse
    <3>2. Stays(s3, G)
      BY <1>7, <2>1, <3>1, FoldStays DEF SameRound
    <3> QED BY <1>0, <1>1, <1>7, <2>1, <2>3, <3>2, EndsInTurn
  <2>4. CASE c.kept /\ loser = table.betT /\ loser \in Holders(table)
    <3>1. \A x, y \in Holders(s3) : x = y
      BY <1>1, <1>2, <1>7, <1>9, <2>4 DEF LastTwoCompare
    <3>2. IsCanGameOver(s3)
      BY <1>7, <2>1, <3>1 DEF IsCanGameOver, IsActive, SameRound
    <3>3. table' = GameOver(s3)
      BY <1>1, <2>4, <3>2 DEF GameOverIfDecided
    <3>4. /\ table'.over = TRUE /\ table'.round = s3.round
          /\ table'.currBet = s3.currBet
      BY <1>7, <3>3 DEF GameOver, Fields, FreshTable
    <3> QED BY <1>0, <1>7, <3>4 DEF RoundKept, Betting, SameRound
  <2> QED BY <2>2, <2>3, <2>4
<1> QED BY <1>8, <1>9

\* The mark of the first speaker stays on a chair.
LEMMA NextFirstSeat ==
    ASSUME NEW s, NEW u \in User, Shape(s), s.first \in Seats
    PROVE  SetNextFirst(s, u).first \in Seats
<1> DEFINE rest == Holders(s) \ {u}
           w == NextAfter(s, u, rest)
<1>1. CASE s.seat[u] # s.first \/ rest = {}
  BY <1>1 DEF SetNextFirst
<1>2. CASE s.seat[u] = s.first /\ rest # {}
  <2>1. SetNextFirst(s, u).first = s.seat[w]
    BY <1>2 DEF SetNextFirst, Shape, Fields, FreshTable
  <2>2. w \in rest
    BY <1>2, NextAfterLeast DEF Holders, InTable
  <2> HIDE DEF w
  <2> QED BY <2>1, <2>2 DEF Holders, InTable
<1> QED BY <1>1, <1>2

\* The winner of a comparison passes the turn in order, though the loser may have
\* been the first speaker.
LEMMA WinnerPasses ==
    ASSUME NEW u \in User, NEW v \in User, NEW s, NEW G, RInv(G), InHand(u),
           table.currBet = u, u \in Holders(table), v # u,
           Core(s), Betting(s), SameRound(table, s),
           Holders(s) = Holders(table), G # {} => ~ SomeAllin(table)
    PROVE  LET won == GetNextBetPlayer(SetNextFirst(Discard(s, v), v), u)
           IN Hence(table, won, u, spoken, G) /\ Core(won)
<1> DEFINE sv == Discard(s, v)
           nv == SetNextFirst(sv, v)
<1>1. /\ Apart(table) /\ table.first \in Seats /\ table.round \in 0..MaxRound
      /\ u \in InTable(table) /\ InTurn(table, u, spoken)
      /\ Once(table, u, spoken, G)
      /\ G # {} => User \subseteq G /\ FirstHolds(table)
  BY TurnFacts
<1>2. /\ Core(sv) /\ Betting(sv) /\ Holders(sv) = Holders(table) \ {v}
  BY DiscardTicks
<1>3. SameRound(s, sv)
  BY RoundSame DEF Core, Shape
<1> HIDE DEF sv
<1>4. /\ sv.seat = table.seat /\ sv.first = table.first
      /\ sv.round = table.round /\ sv.currBet = u /\ sv.allin = table.allin
  BY <1>3 DEF SameRound
<1>5. /\ InTurn(sv, u, spoken) /\ Once(sv, u, spoken, G)
      /\ Apart(sv) /\ u \in Holders(sv)
  BY <1>1, <1>2, <1>4 DEF InTurn, Once, Off, Apart, InTable
<1>6. /\ InTurn(nv, u, spoken) /\ Once(nv, u, spoken, G)
      /\ nv.first \in Seats
  <2>1. nv.first \in Seats
    BY <1>1, <1>2, <1>4, NextFirstSeat DEF Core
  <2>2. CASE v \in InTable(sv)
    BY <1>2, <1>5, <2>1, <2>2, NextFirstInTurn DEF Core
  <2>3. CASE v \notin InTable(sv)
    <3>1. sv.seat[v] # sv.first
      BY <1>1, <1>4, <2>3 DEF InTable
    <3>2. nv = sv
      BY <3>1 DEF SetNextFirst
    <3> QED BY <1>5, <2>1, <3>2
  <2> QED BY <2>2, <2>3
<1>7. Same(sv, nv) /\ nv.round = sv.round /\ nv.allin = sv.allin
  BY <1>2, SetNextFirstSame DEF Core, Shape, SetNextFirst, Fields, FreshTable
<1>8. ASSUME G # {} PROVE FirstOr(nv, u) /\ ~ SomeAllin(nv)
  <2>1. FirstOr(sv, v)
    BY <1>1, <1>2, <1>4, <1>8 DEF FirstOr, FirstHolds
  <2>2. Holders(nv) = Holders(sv)
    BY <1>7, HoldersKept
  <2>3. FirstHolds(nv)
    <3>1. v \notin Holders(sv) /\ Shape(sv) /\ Holders(nv) # {}
      BY <1>2, <1>5, <2>2 DEF Core
    <3> QED BY <2>1, <3>1, SetNextFirstLeads DEF FirstOr
  <2>4. ~ SomeAllin(nv)
    BY <1>2, <1>4, <1>7, <1>8, <2>2 DEF SomeAllin
  <2> QED BY <2>3, <2>4 DEF FirstOr, FirstHolds
<1> HIDE DEF nv
<1>9. Core(nv) /\ Betting(nv) /\ Apart(nv)
  BY <1>2, <1>5, <1>7, CoreKept
  DEF Same, SameButCards, Betting, IsActive, Core, Shape, Apart, InTable
<1>10. nv.round = table.round /\ nv.currBet = u /\ u \in InTable(nv)
  BY <1>1, <1>4, <1>7 DEF Same, SameButCards, InTable
<1>11. Hence(nv, GetNextBetPlayer(nv, u), u, spoken, G)
  <2>1. MayPass(nv, u, G)
    BY <1>1, <1>8 DEF MayPass
  <2> QED BY <1>1, <1>6, <1>9, <1>10, <2>1, PassesInTurn
<1>12. Core(GetNextBetPlayer(nv, u))
  BY <1>9, GetNextBetPlayerCore DEF Betting
<1>13. Hence(table, GetNextBetPlayer(nv, u), u, spoken, G)
  BY <1>10, <1>11 DEF Hence
<1> QED BY <1>12, <1>13 DEF nv, sv

\* A comparison passes the turn in order, whoever loses it.
LEMMA CompareCardsRound ==
    ASSUME NEW u \in User, NEW v \in User, NEW G, RInv(G), RoundNext,
           CompareCards(u, v)
    PROVE  RoundKept(G)
<1> DEFINE cost == Min({CallMoney(table, u), table.money[u]})
           s1 == PlayerBetCoin(table, u, cost)
           win == CompareCard(table.rank[u], table.rank[v]) = "win"
           won == GetNextBetPlayer(SetNextFirst(Discard(s1, v), v), u)
           forced == /\ won.betT # None /\ won.money[u] = 0
                     /\ Cardinality(Holders(won)) <= 2
           gu == GetNextBetPlayer(Discard(s1, u), u)
           lost == SetNextFirst(gu, u)
           force == ForceCompareCard(won, u, won.betT)
<1>1. /\ Turn(u) /\ InHand(u) /\ table.currBet = u /\ u \in Holders(table)
      /\ table' = GameOverIfDecided(
           IF ~ win THEN lost ELSE IF forced THEN force ELSE won)
  BY DEF CompareCards, TableBecomes, Turn
<1>2. /\ Core(table) /\ Betting(table) /\ Apart(table)
      /\ u \in InTable(table) /\ table.round \in Nat
      /\ G # {} => ~ SomeAllin(table)
  <2>1. /\ Core(table) /\ Betting(table) /\ Apart(table)
        /\ u \in InTable(table) /\ table.round \in Nat
        /\ G # {} => Polite /\ Offered(table)
    BY <1>1, TurnFacts
  <2> QED BY <2>1, PoliteAsk DEF CompareCards
<1>3. win => u # v
  <2>1. table.rank \in [User -> Nat]
    BY DEF RInv, CInv, TInv, Typed, Notes
  <2>2. \A x \in Nat : CompareCard(x, x) # "win"
    BY LeopardAssumption DEF CompareCard
  <2> QED BY <2>1, <2>2
<1> HIDE DEF cost, win
<1>4. Core(s1) /\ Betting(s1) /\ SameRound(table, s1)
      /\ Holders(s1) = Holders(table)
  <2>1. Same(table, s1) /\ SameRound(table, s1)
    BY <1>2, PlayerBetCoinSame, RoundSame DEF Core, Shape
  <2> HIDE DEF s1
  <2>2. Core(s1) /\ Holders(s1) = Holders(table)
    BY <1>2, <2>1, CoreKept, HoldersKept DEF Same, Core, Shape
  <2> QED BY <1>2, <2>1, <2>2 DEF SameRound, Betting, IsActive
<1> HIDE DEF s1
<1>5. CASE ~ win
  <2>1. /\ Hence(table, gu, u, spoken, G) /\ Core(gu)
        /\ u \notin Holders(gu) /\ u \in InTable(gu) /\ Apart(gu)
    BY <1>1, <1>4, FoldInTurn DEF SameRound
  <2>2. table' = GameOverIfDecided(lost)
    BY <1>1, <1>5
  <2> HIDE DEF gu
  <2> QED BY <1>1, <2>1, <2>2, FoldedInTurn DEF Core
<1>6. win => Hence(table, won, u, spoken, G) /\ Core(won)
  BY <1>1, <1>2, <1>3, <1>4, WinnerPasses
<1> HIDE DEF won
<1>7. CASE win /\ ~ forced
  <2>1. DOMAIN won = Fields
    BY <1>6, <1>7 DEF Core, Shape
  <2>2. table' = GameOverIfDecided(won)
    BY <1>1, <1>7
  <2> QED BY <1>1, <1>2, <1>6, <1>7, <2>1, <2>2, EndsInTurn DEF Betting
<1>8. CASE win /\ forced
  <2> DEFINE b == PlayerBetCoin(won, u, won.money[u])
  <2>1. Same(won, b) /\ SameRound(won, b)
    BY <1>6, <1>8, PlayerBetCoinSame, RoundSame DEF Core, Shape
  <2>2. force = [b EXCEPT
           !.cmp = [kept |-> TRUE, p1 |-> u, p2 |-> won.betT,
                    result |-> CompareCard(won.rank[u], won.rank[won.betT])],
           !.cmpT = TRUE]
    BY DEF ForceCompareCard
  <2> HIDE DEF b
  <2>3. DOMAIN b = Fields
    BY <1>6, <1>8, <2>1 DEF Core, Shape, SameRound
  <2>4. /\ DOMAIN force = Fields /\ SameRound(b, force)
        /\ force.pst = b.pst /\ force.card = b.card
    BY <2>2, <2>3 DEF Fields, FreshTable, SameRound
  <2> HIDE DEF force
  <2>5. Holders(force) = Holders(won)
    <3>1. Holders(b) = Holders(won)
      BY <2>1, HoldersKept
    <3> QED BY <2>4, <3>1 DEF Holders, InTable, SameRound
  <2>6. Hence(table, force, u, spoken, G)
    BY <1>6, <1>8, <2>1, <2>4, <2>5, HenceOn DEF SameRound
  <2>7. table' = GameOverIfDecided(force)
    BY <1>1, <1>8
  <2> QED BY <1>1, <1>2, <2>4, <2>6, <2>7, EndsInTurn DEF Betting
<1> QED BY <1>5, <1>7, <1>8

\* Players who leave a hand that goes on change nothing in its round.
LEMMA LeaveKeepsRound ==
    ASSUME NEW s, NEW G \in SUBSET InTable(s), Shape(s),
           IsActive(PlayersLeave(s, G))
    PROVE  LET t == PlayersLeave(s, G)
           IN /\ t.round = s.round /\ t.currBet = s.currBet
              /\ t.betT = s.betT /\ t.over = s.over
<1> DEFINE n == CountAfter(s, G)
           Out(f, x) == [u \in User |-> IF u \in G THEN x ELSE f[u]]
           out == [s EXCEPT
             !.seat = Out(@, NoSeat), !.pst = Out(@, "LOGOUT"),
             !.card = Out(@, "DISCARD"), !.money = Out(@, 0),
             !.bet = Out(@, 0), !.allin = Out(@, FALSE),
             !.allinCoin = Out(@, 0), !.drop = Out(@, FALSE),
             !.tmo = Out(@, 0), !.rank = Out(@, 0),
             !.count = n, !.status = WaitingStatus(s)]
           one == [out EXCEPT !.kickT = FALSE, !.lock = FALSE]
           none == InitTable(out)
           t == PlayersLeave(s, G)
<1>1. (G = {} /\ t = s) \/ t \in {none, one, out}
  BY DEF PlayersLeave
<1>2. /\ DOMAIN out = Fields
      /\ out.round = s.round /\ out.currBet = s.currBet
      /\ out.betT = s.betT /\ out.over = s.over
  BY DEF Shape, Fields, FreshTable
<1> HIDE DEF out, n
<1>3. /\ one.round = s.round /\ one.currBet = s.currBet
      /\ one.betT = s.betT /\ one.over = s.over
  BY <1>2 DEF Fields, FreshTable
<1>4. ~ IsActive(none)
  BY <1>2 DEF InitTable, Cleared, IsActive, Fields, FreshTable
<1> HIDE DEF one, none
<1> QED BY <1>1, <1>2, <1>3, <1>4

\* Who leaves in turn passes the turn in order; who leaves out of turn leaves it
\* where it is.
LEMMA LeaveHandRound ==
    ASSUME NEW u \in User, NEW G, RInv(G), RoundNext, LeaveHand(u)
    PROVE  RoundKept(G)
<1> DEFINE s1 == Forfeit(table, u)
           s2 == IF table.currBet = u THEN GetNextBetPlayer(s1, u) ELSE s1
           sd == Discard(s2, u)
           s3 == SetNextFirst(sd, u)
           s4 == PlayersLeave(s3, {u})
<1>1. /\ Core(s4) /\ IsActive(s4) /\ table' = GameOverIfDecided(s4)
      /\ InHand(u)
  BY LeaveHandTable DEF RInv, CInv, HInv
<1>2. /\ Core(table) /\ Betting(table) /\ Apart(table)
      /\ u \in InTable(table) /\ table.round \in Nat /\ Stays(table, G)
  BY <1>1, TurnFacts DEF RInv, Stays
<1>3. /\ Core(s1) /\ Betting(s1) /\ SameRound(table, s1)
      /\ Holders(s1) = Holders(table)
  <2>1. Same(table, s1) /\ SameRound(table, s1)
    BY <1>2, ForfeitSame, RoundSame DEF Core, Shape
  <2> HIDE DEF s1
  <2>2. Core(s1) /\ Holders(s1) = Holders(table)
    BY <1>2, <2>1, CoreKept, HoldersKept DEF Same, Core, Shape
  <2> QED BY <1>2, <2>1, <2>2 DEF SameRound, Betting, IsActive
<1> HIDE DEF s1
<1>4. /\ Core(s2) /\ IsActive(s2) /\ s2.seat = table.seat
      /\ table.currBet = u => Hence(table, s2, u, spoken, G \ {u})
      /\ table.currBet # u => SameRound(table, s2)
                                /\ Holders(s2) = Holders(table)
  <2>1. CASE table.currBet = u
    <3>1. s2 = GetNextBetPlayer(s1, u)
      BY <2>1
    <3>2. /\ s1.round = table.round /\ s1.currBet = u
          /\ s1.first = table.first /\ s1.seat = table.seat
          /\ s1.allin = table.allin
      BY <1>3, <2>1 DEF SameRound
    <3>3. Turn(u)
      BY <1>1, <2>1 DEF Turn
    <3> QED BY <1>3, <2>1, <3>1, <3>2, <3>3, PassesTurn
  <2>2. CASE table.currBet # u
    BY <1>3, <2>2 DEF SameRound, Betting
  <2> QED BY <2>1, <2>2
<1> HIDE DEF s2
<1>5. /\ Core(sd) /\ SameRound(s2, sd) /\ Holders(sd) = Holders(s2) \ {u}
  <2>1. DOMAIN s2 = Fields
    BY <1>4 DEF Core, Shape
  <2>2. SameRound(s2, sd)
    BY <2>1, RoundSame
  <2>3. Core(sd) /\ Holders(sd) = Holders(s2) \ {u}
    BY <1>4, DiscardKeeps
  <2> QED BY <2>2, <2>3
<1> HIDE DEF sd
<1>6. /\ sd.seat = table.seat /\ IsActive(sd) /\ u \in InTable(sd)
      /\ Apart(sd) /\ u \notin Holders(sd)
      /\ table.currBet = u => Hence(table, sd, u, spoken, G)
      /\ table.currBet # u => Stays(sd, G)
  <2>1. sd.seat = table.seat /\ IsActive(sd)
    BY <1>4, <1>5 DEF SameRound, IsActive
  <2>2. u \in InTable(sd) /\ Apart(sd)
    BY <1>2, <2>1 DEF InTable, Apart
  <2>3. table.currBet = u => Hence(table, sd, u, spoken, G)
    <3>1. u \notin Holders(sd)
      BY <1>5
    <3> QED BY <1>4, <1>5, <3>1, HenceOn DEF SameRound
  <2>4. ASSUME table.currBet # u PROVE Stays(sd, G)
    <3>1. SameRound(table, sd) /\ Holders(sd) = Holders(table) \ {u}
      BY <1>4, <1>5, <2>4 DEF SameRound
    <3>2. table.betT # None =>
            table.currBet \in Holders(sd) \/ table.betT # table.currBet
      BY <1>2, <2>4, <3>1, NoneAssumption DEF Stays, OnTurn, NobodyElse
    <3> QED BY <1>2, <3>1, <3>2, FoldStays DEF SameRound
  <2> QED BY <1>5, <2>1, <2>2, <2>3, <2>4
<1>7. Same(sd, s3) /\ s3.round = sd.round /\ Alike(sd, s3)
      /\ Holders(s3) = Holders(sd)
  <2>1. Same(sd, s3) /\ Alike(sd, s3)
    BY <1>5, SetNextFirstSame, SetNextFirstAlike DEF Core
  <2>2. s3.round = sd.round
    BY <1>5 DEF SetNextFirst, Core, Shape, Fields, FreshTable
  <2> QED BY <2>1, <2>2 DEF Alike
<1>8. /\ table.currBet = u => Hence(table, s3, u, spoken, G)
      /\ table.currBet # u => Stays(s3, G)
  BY <1>5, <1>6, HenceNextFirst, NextFirstStays DEF Core
<1> HIDE DEF s3
<1>9. Shape(s3) /\ {u} \in SUBSET InTable(s3) /\ u \notin Holders(s3)
  BY <1>5, <1>6, <1>7, CoreKept
  DEF Core, Shape, Same, SameButCards, InTable
<1>10. /\ s4.round = s3.round /\ s4.currBet = s3.currBet
       /\ s4.betT = s3.betT /\ s4.over = s3.over /\ s4.first = s3.first
       /\ Holders(s4) = Holders(s3)
       /\ \A v \in Holders(s4) : /\ s4.allin[v] = s3.allin[v]
                                 /\ s4.seat[v] = s3.seat[v]
       /\ DOMAIN s4 = Fields
  <2>1. /\ s4.round = s3.round /\ s4.currBet = s3.currBet
        /\ s4.betT = s3.betT /\ s4.over = s3.over
    BY <1>1, <1>9, LeaveKeepsRound
  <2>2. /\ s4.first = s3.first /\ Holders(s4) = Holders(s3) \ {u}
        /\ \A v \in User \ {u} : /\ s4.allin[v] = s3.allin[v]
                                 /\ s4.seat[v] = s3.seat[v]
    BY <1>1, <1>9, PlayersLeaveFirst
  <2>3. DOMAIN s4 = Fields
    BY <1>1 DEF Core, Shape
  <2> HIDE DEF s4
  <2>4. \A v \in Holders(s4) : v \in User \ {u}
    BY <2>2 DEF Holders, InTable
  <2> QED BY <1>9, <2>1, <2>2, <2>3, <2>4
<1> HIDE DEF s4
<1>11. CASE table.currBet = u
  <2>1. Hence(table, s4, u, spoken, G)
    BY <1>8, <1>10, <1>11, HenceOn
  <2> QED BY <1>1, <1>2, <1>10, <1>11, <2>1, EndsInTurn DEF Betting
<1>12. CASE table.currBet # u
  <2>1. table.currBet # u => s3.currBet = table.currBet
    BY <1>8, <1>12 DEF Stays
  <2>2. Stays(s4, G)
    <3>1. CASE OnTurn(s3, spoken, G)
      <4>1. OnTurn(s4, spoken, G)
        BY <1>10, <3>1 DEF OnTurn, InTurn, Once, Off
      <4> QED BY <1>8, <1>10, <1>12, <4>1 DEF Stays
    <3>2. CASE NobodyElse(s3)
      <4>1. NobodyElse(s4)
        BY <1>10, <3>2 DEF NobodyElse
      <4> QED BY <1>8, <1>10, <1>12, <4>1 DEF Stays
    <3> QED BY <1>8, <1>12, <3>1, <3>2 DEF Stays
  <2> QED BY <1>1, <1>2, <1>10, <2>2, EndsInTurn DEF Betting
<1> QED BY <1>11, <1>12

-----------------------------------------------------------------------------
(* The rounds: the steps around a hand. *)

\* Nobody comes before him whom the mark is on.
LEMMA NobodyBefore ==
    ASSUME NEW t, NEW G, NEW u \in Holders(t), t.first = t.seat[u],
           t.betT = u, t.currBet = u
    PROVE  OnTurn(t, {}, G)
<1>1. Off(t, u) = 0
  <2>1. t.seat[u] \in Seats /\ t.first \in Seats
    BY DEF Holders, InTable
  <2>2. (t.seat[u] - t.first) % MaxNum
          = IF t.seat[u] >= t.first THEN t.seat[u] - t.first
            ELSE t.seat[u] - t.first + MaxNum
    BY <2>1, OffIs
  <2>3. t.seat[u] >= t.first /\ t.seat[u] - t.first = 0
    BY <2>1, SeatAssumption DEF Seats
  <2> QED BY <2>2, <2>3 DEF Off
<1>2. ASSUME NEW v \in Holders(t) PROVE ~ (Off(t, v) < 0)
  <2>1. t.seat[v] \in Seats /\ t.first \in Seats
    BY DEF Holders, InTable
  <2>2. Off(t, v) = IF t.seat[v] >= t.first THEN t.seat[v] - t.first
                    ELSE t.seat[v] - t.first + MaxNum
    BY <2>1, OffIs DEF Off
  <2> QED BY <2>1, <2>2, SeatAssumption DEF Seats
<1> QED BY <1>1, <1>2 DEF OnTurn, InTurn, Once

\* gameStart gives the first turn to the first speaker.
LEMMA GameStartOnTurn ==
    ASSUME NEW s, NEW d, NEW G, Core(s), ~ IsActive(s), s.count > 1
    PROVE  OnTurn(GameStart(s, d), {}, G)
<1> DEFINE here == InTable(s)
           from == IF s.preWin >= 0 THEN s.preWin ELSE 0
           dealer == FirstFrom(s, from, here)
           speaker == NextAfter(s, dealer, here \ {dealer})
           In(f, x) == [u \in User |-> IF u \in here THEN x ELSE f[u]]
           dealt == [CloseLobby(s) EXCEPT
             !.round = 1, !.card = In(@, "UNKNOWN"), !.pst = In(@, "ACTIVE"),
             !.money = [u \in User |-> IF u \in here THEN @[u] - Ante ELSE @[u]],
             !.bet = [u \in User |-> IF u \in here THEN @[u] + Ante ELSE @[u]],
             !.rank = [u \in User |-> IF u \in here THEN d[u] ELSE @[u]],
             !.pool = @ + Ante * Cardinality(here),
             !.betMax = Ante, !.maxCard = "UNKNOWN",
             !.first = s.seat[speaker]]
           offered == SetPlayerOptype(dealt, speaker)
           asked == SetPlayerLimitCoin(offered)
           t == [asked EXCEPT
                   !.status = "ACTIVE", !.currBet = speaker, !.betT = speaker]
<1>1. GameStart(s, d) = t
  BY DEF GameStart
<1>2. \A u \in here : u \in User /\ s.seat[u] \in Int
  BY SeatAssumption DEF Core, Shape, InTable, Seats
<1>3. here # {} /\ \A u : here # {u}
  BY TwoOrMore DEF Core
<1>4. from \in Int
  BY SeatAssumption DEF Core, Shape, Seats, NoSeat
<1>5. Holders(GameStart(s, d)) = here
  BY GameStartInv
<1> HIDE DEF from, here
<1>6. dealer \in here
  BY <1>2, <1>3, <1>4, FirstFromIn
<1> HIDE DEF dealer
<1>7. here \ {dealer} # {} /\ here \ {dealer} \subseteq User
  BY <1>2, <1>3, <1>6
<1>8. speaker \in here
  BY <1>2, <1>6, <1>7, NextAfterIn DEF Core
<1> HIDE DEF speaker
<1>9. /\ DOMAIN dealt = Fields /\ dealt.seat = s.seat
      /\ dealt.first = s.seat[speaker]
  BY DEF CloseLobby, Core, Shape, Fields, FreshTable
<1> HIDE DEF dealt
<1>10. SameRound(dealt, offered)
  BY <1>9, RoundSame
<1> HIDE DEF offered
<1>11. DOMAIN asked = Fields /\ asked.seat = s.seat
       /\ asked.first = s.seat[speaker]
  BY <1>9, <1>10 DEF SameRound, SetPlayerLimitCoin, Fields, FreshTable
<1> HIDE DEF asked
<1>12. /\ t.seat = s.seat /\ t.first = s.seat[speaker]
       /\ t.betT = speaker /\ t.currBet = speaker
  BY <1>11 DEF Fields, FreshTable
<1> HIDE DEF t
<1> QED BY <1>1, <1>5, <1>8, <1>12, NobodyBefore

\* A step around a hand leaves the turn where it is, or deals the next hand and
\* gives the first turn in it.
LEMMA AroundRound ==
    ASSUME NEW G, RInv(G), RoundNext, Around,
           IsActive(table') => SameHand(table, table') \/ ~ IsActive(table)
    PROVE  RoundKept(G)
<1>1. PICK s : /\ Follows(table, s)
               /\ table' = s \/ table' = GameOver(s) \/ DealsAt(s)
  BY DEF Around
<1>2. /\ TableInv(s) /\ (IsActive(s) <=> IsActive(table))
      /\ Holders(s) = Holders(table) /\ (s.over <=> table.over)
      /\ s.betT = table.betT
      /\ IsActive(table) => s.first = table.first
      /\ \A v \in Holders(table) : s.seat[v] = table.seat[v]
  BY <1>1 DEF Follows, Rests, Leads
<1>3. table.round \in Nat
  BY RoundAssumption DEF RInv, CInv, TInv, Typed, Steering
<1>4. ASSUME table' = GameOver(s) PROVE ~ Betting(table')
  <2>1. table'.over = TRUE
    BY <1>2, <1>4
    DEF TableInv, Core, Shape, GameOver, Fields, FreshTable
  <2> QED BY <2>1 DEF Betting
<1>5. CASE ~ IsActive(table')
  BY <1>5 DEF RoundKept, Betting, WithinHand
<1>6. CASE IsActive(table') /\ ~ IsActive(table)
  <2>1. ~ WithinHand /\ spoken' = {}
    BY <1>6 DEF WithinHand, RoundNext
  <2>2. ASSUME Betting(table') PROVE OnTurn(table', {}, G)
    <3>1. DealsAt(s)
      BY <1>1, <1>2, <1>4, <1>6, <2>2
    <3>2. Core(s) /\ ~ IsActive(s) /\ s.count > 1
      BY <1>2, <3>1 DEF DealsAt, TableInv
    <3> QED BY <3>1, <3>2, GameStartOnTurn DEF DealsAt
  <2> QED BY <2>1, <2>2 DEF RoundKept
<1>7. CASE IsActive(table') /\ IsActive(table)
  <2>1. SameHand(table, table')
    BY <1>7
  <2>2. /\ table'.round = table.round /\ table'.currBet = table.currBet
        /\ \A v \in Players(table) : table'.allin[v] = table.allin[v]
    BY <2>1 DEF SameHand
  <2>3. spoken' = spoken
    BY <1>7, <2>2 DEF WithinHand, RoundNext
  <2>4. ASSUME Betting(table') PROVE Stays(table', G)
    <3>1. table' = s
      BY <1>1, <1>2, <1>4, <1>7, <2>4 DEF DealsAt
    <3>2. Stays(table, G)
      BY <1>2, <1>7, <2>4, <3>1 DEF RInv, Stays, Betting
    <3>3. \A v \in Holders(table') : table'.allin[v] = table.allin[v]
      BY <1>2, <2>2, <3>1 DEF Holders, Players
    <3>4. table'.betT # None =>
            table.currBet \in Holders(table') \/ table.betT # table.currBet
      BY <1>2, <3>1, <3>2, NoneAssumption DEF Stays, OnTurn, NobodyElse
    <3> QED BY <1>2, <1>7, <2>2, <3>1, <3>2, <3>3, <3>4, FoldStays
  <2> QED BY <1>3, <2>2, <2>3, <2>4 DEF RoundKept, Stays
<1> QED BY <1>5, <1>6, <1>7

\* A settlement leaves no hand.
LEMMA GameOverRound ==
    ASSUME NEW G, RInv(G), RoundNext, GameOverTimeOut
    PROVE  RoundKept(G)
<1>1. table.round \in Nat
  BY RoundAssumption DEF RInv, CInv, TInv, Typed, Steering
<1>2. CASE table' = table
  <2>1. table.over
    BY DEF GameOverTimeOut, RInv, CInv, HInv, IInv, TableInv, Core, Settling
  <2> QED BY <1>1, <1>2, <2>1 DEF RoundKept, Betting
<1>3. CASE Settled(table, table')
  BY <1>3 DEF Settled, RoundKept, Betting, WithinHand
<1> QED BY <1>2, <1>3, GameOverCoins DEF RInv

-----------------------------------------------------------------------------
(* The rounds: every step. *)

\* The steps around a hand that ComingCoins and its like describe
LEMMA RestedRound ==
    ASSUME NEW G, RInv(G), RoundNext, Around, Rested(table, table') \/ Lobbying
    PROVE  RoundKept(G)
<1>1. IsActive(table') => SameHand(table, table') \/ ~ IsActive(table)
  BY DEF Rested, Lobbying, Opens
<1> QED BY <1>1, AroundRound

\* Every message keeps the rounds fair,
LEMMA MessageRound ==
    ASSUME NEW u \in User, MaxNum > 2, NEW G, RInv(G), CInv', RobotsStay, RoundNext,
           Message(u)
    PROVE  RoundKept(G)
<1>0. CInv /\ HInv /\ TInv /\ IInv'
  BY DEF RInv, CInv, HInv
<1>1. CASE LoginComing(u) \/ LoginRedirected(u) \/ RobotComing(u)
  <2>1. Rested(table, table')
    BY <1>0, <1>1, ComingCoins DEF Came
  <2> QED BY <1>0, <1>1, <2>1, LoginAround, RestedRound
<1>2. CASE RobotReplaced(u)
  <2>1. PICK m \in RobotMoney :
          CheckMoney(m) /\ TableBecomes(PlayerReplaced(table, u, m))
    BY <1>2 DEF RobotReplaced
  <2>2. m \in Int /\ m >= MinMoney /\ u \in Robots
    BY <1>2, <2>1, MoneyAssumption DEF CheckMoney, RobotReplaced
  <2>3. u \notin Players(table)
    BY <1>2, <2>2 DEF RobotsStay, Playing, RobotReplaced, Players
  <2>4. Typed(table) /\ Coins(table)
    BY <1>0 DEF CInv, TInv
  <2>5. Rested(table, PlayerReplaced(table, u, m))
    BY <2>2, <2>3, <2>4, ReplacedCoins
  <2> QED BY <1>0, <1>2, <2>1, <2>5, NoteAround, RestedRound DEF TableBecomes
<1>3. CASE LeaveHand(u)
  BY <1>3, LeaveHandRound
<1>4. CASE Drop(u) \/ GetTableDetail(u)
  <2>1. Around
    BY <1>0, <1>4, NoteAround
  <2>2. Lobbying
    BY <1>0, <1>4, LeavingCoins
  <2> QED BY <2>1, <2>2, RestedRound
<1>5. CASE LeaveTable(u) \/ Logout(u)
  <2>1. Around
    BY <1>0, <1>5, LeaveTableAround, LogoutAround
  <2>2. Lobbying
    BY <1>0, <1>5, LeavingCoins
  <2> QED BY <2>1, <2>2, RestedRound
<1>6. CASE StartGame(u)
  BY <1>0, <1>6, StartGameAround, StartGameCoins, RestedRound
<1>7. CASE Call(u) \/ Allin(u) \/ \E x \in RaseChoices : Rase(u, x)
  BY <1>7, BetRound
<1>8. CASE ThrowCard(u) \/ CheckCard(u)
  BY <1>8, ThrowCardRound, CheckCardRound
<1>9. CASE \E v \in User : CompareCards(u, v)
  BY <1>9, CompareCardsRound
<1> QED BY <1>1, <1>2, <1>3, <1>4, <1>5, <1>6, <1>7, <1>8, <1>9 DEF Message

\* and so does every timer,
LEMMA TimerRound ==
    ASSUME NEW G, RInv(G), LastTwoCompare, RoundNext, Timer
    PROVE  RoundKept(G)
<1>1. CASE HeartTimeOut \/ TableGameStartTimeOut \/ TableKickTimeOut
  <2>1. Around
    BY <1>1, HeartTimeOutAround, TableGameStartTimeOutAround,
       TableKickTimeOutAround DEF RInv, CInv
  <2>2. Lobbying
    BY <1>1, LobbyTimerCoins DEF RInv
  <2> QED BY <2>1, <2>2, RestedRound
<1>2. CASE BetTimeOut
  BY <1>2, BetTimeOutRound
<1>3. CASE CompareResultNotifyTimeOut
  BY <1>3, NotifyRound
<1>4. CASE GameOverTimeOut
  BY <1>4, GameOverRound
<1> QED BY <1>1, <1>2, <1>3, <1>4 DEF Timer

\* and so every step.
LEMMA NextRound ==
    ASSUME MaxNum > 2, NEW G, RInv(G), LastTwoCompare, G # {} => OfLastTwo,
           RobotsStay, RoundNext
    PROVE  RInv(G)' /\ RoundKept(G)
<1>1. Next
  BY DEF RoundNext
<1>2. CInv'
  BY <1>1, NextCInv DEF RInv
<1>3. G # {} => Polite /\ User \subseteq G /\ KInv' /\ FInv'
  <2> SUFFICES ASSUME G # {} PROVE Polite /\ User \subseteq G /\ KInv' /\ FInv'
    OBVIOUS
  <2>1. Polite /\ User \subseteq G /\ KInv /\ FInv /\ TInv
    BY DEF RInv, CInv
  <2> QED BY <1>1, <2>1, NextKInv, NextLeads
<1>4. RoundKept(G)
  <2>1. CASE \E u \in User : Message(u)
    BY <1>2, <2>1, MessageRound
  <2>2. CASE Timer
    BY <2>2, TimerRound
  <2> QED BY <1>1, <2>1, <2>2 DEF Next
<1> QED BY <1>2, <1>3, <1>4 DEF RInv, RoundKept

\* Nothing changes in a step that repeats the state but for the history.
LEMMA SameTableRound ==
    ASSUME NEW G, RInv(G), RoundNext, table' = table, acct' = acct
    PROVE  RInv(G)' /\ RoundKept(G)
<1>1. table.round \in Nat
  BY RoundAssumption DEF RInv, CInv, TInv, Typed, Steering
<1>2. IsActive(table) => spoken' = spoken
  BY DEF RoundNext, WithinHand
<1>3. Betting(table') => OnTurn(table', spoken', G) \/ NobodyElse(table')
  BY <1>2 DEF RInv, Betting
<1>4. CInv' /\ (KInv => KInv') /\ (FInv => FInv')
  BY DEF RInv, CInv, HInv, IInv, TInv, KInv, FInv
<1> QED BY <1>1, <1>3, <1>4 DEF RInv, RoundKept

\* No hand is bet on at first.
LEMMA InitRound ==
    ASSUME NEW G, G # {} => Polite /\ User \subseteq G, RoundInit
    PROVE  RInv(G)
<1>1. Init
  BY DEF RoundInit
<1>2. CInv /\ ~ Betting(table)
  BY <1>1, InitCoins DEF Init, FreshTable, Betting, IsActive
<1> QED BY <1>2 DEF RInv, KInv, FInv, Ticks, CInv

\* The invariant is inductive, and what it says of a step holds of every step.
LEMMA RoundStep ==
    ASSUME MaxNum > 2, NEW G, RInv(G), LastTwoCompare, G # {} => OfLastTwo,
           [RobotsStay]_vars, [RoundNext]_roundVars
    PROVE  RInv(G)' /\ (UNCHANGED roundVars \/ RoundKept(G))
<1>1. CASE UNCHANGED roundVars
  <2>1. table' = table /\ acct' = acct /\ spoken' = spoken
    BY <1>1 DEF roundVars
  <2>2. CInv' /\ (KInv => KInv') /\ (FInv => FInv')
    BY <2>1 DEF RInv, CInv, HInv, IInv, TInv, KInv, FInv
  <2> QED BY <1>1, <2>1, <2>2 DEF RInv
<1>2. CASE RoundNext /\ UNCHANGED vars
  BY <1>2, SameTableRound DEF vars
<1>3. CASE RoundNext /\ RobotsStay
  BY <1>3, NextRound
<1> QED BY <1>1, <1>2, <1>3

\* A round of betting ends only when everyone who can still bet has had his turn
\* in it, for any table, stakes and number of rounds, with clients that follow
\* optype and with clients that do not. getNextBetPlayer counts a round when it
\* passes m_nFirstIndex, and setNextFirstPlayer moves that mark under the count:
\* to whoever would have been met next, so the others keep their order. No robot
\* is replaced in a hand, and the late announcement of an older comparison does
\* not take the cards of the player on turn.
THEOREM FairRoundsHolds ==
    ASSUME MaxNum > 2
    PROVE  RoundSpec /\ [][RobotsStay]_vars /\ []LastTwoCompare => FairRounds
<1> DEFINE R == RInv({})
           Fair == WithinHand /\ table'.round = table.round + 1 =>
                     \A u \in Holders(table') :
                        table'.allin[u] \/ u = table.currBet \/ u \in spoken
<1>1. RoundInit => R
  BY InitRound
<1>2. R /\ LastTwoCompare /\ [RobotsStay]_vars /\ [RoundNext]_roundVars
        => R' /\ [Fair]_roundVars
  BY RoundStep DEF RoundKept
<1> HIDE DEF R, Fair
<1>3. RoundSpec /\ [][RobotsStay]_vars /\ []LastTwoCompare => [][Fair]_roundVars
  BY <1>1, <1>2, PTL DEF RoundSpec
<1> QED BY <1>3 DEF FairRounds, Fair

\* Nobody is asked a second time before the round ends, with clients that follow
\* optype: an all-in that was not offered can leave the first speaker among those
\* whom getNextBetPlayer skips, and then nobody's turn ends the round. Here the
\* announcement of an older comparison must take nobody's cards but those of one
\* of the last two: it moves the mark on for no first speaker.
THEOREM OneTurnEachHolds ==
    ASSUME MaxNum > 2, Polite
    PROVE  RoundSpec /\ [][RobotsStay]_vars /\ []OfLastTwo => OneTurnEach
<1> DEFINE R == RInv(UserOrNone)
           Each == WithinHand /\ table'.round = table.round
                      /\ table'.currBet # table.currBet
                    => table'.currBet \notin spoken
<1>1. RoundInit => R
  BY InitRound DEF UserOrNone
<1>2. R /\ OfLastTwo /\ [RobotsStay]_vars /\ [RoundNext]_roundVars
        => R' /\ [Each]_roundVars
  <2> SUFFICES ASSUME R, OfLastTwo, [RobotsStay]_vars, [RoundNext]_roundVars
               PROVE  R' /\ [Each]_roundVars
    OBVIOUS
  <2>1. LastTwoCompare
    BY DEF OfLastTwo, LastTwoCompare
  <2>2. R' /\ (UNCHANGED roundVars \/ RoundKept(UserOrNone))
    BY <2>1, RoundStep
  <2>3. table'.currBet \in UserOrNone
    BY <2>2 DEF RInv, CInv, TInv, Typed, Steering
  <2> QED BY <2>2, <2>3 DEF RoundKept
<1> HIDE DEF R, Each
<1>3. RoundSpec /\ [][RobotsStay]_vars /\ []OfLastTwo => [][Each]_roundVars
  BY <1>1, <1>2, PTL DEF RoundSpec
<1> QED BY <1>3 DEF OneTurnEach, Each

\* With every comparison announced in its own hand the turns are fair: only the
\* late announcement, and the replacement of a robot in a hand, are excluded.
THEOREM NoticeFirstRounds ==
    ASSUME MaxNum > 2, Polite
    PROVE  RoundSpec /\ [][RobotsStay]_vars /\ NoticeFirst
             => FairRounds /\ OneTurnEach
<1>1. RoundInit => Init
  BY DEF RoundInit
<1>2. [RoundNext]_roundVars => [Next]_vars
  BY DEF RoundNext, roundVars, vars
<1>3. RoundSpec => Spec
  BY <1>1, <1>2, PTL DEF RoundSpec, Spec
<1> QED BY <1>3, NoticeFirstLastTwo, FairRoundsHolds, OneTurnEachHolds, PTL

-----------------------------------------------------------------------------
(* Who gains. *)

\* Nobody gets back more than half of his all-in, and what was bet covers it.
LEMMA ReturnedBounds ==
    ASSUME NEW h, Numbers(h), NEW u \in Losers(h),
           h.bet[u] >= 0, h.allinCoin[u] >= 0,
           u \in Shown(h) /\ h.allin[u] => h.bet[u] >= h.allinCoin[u]
    PROVE  0 <= Returned(h, u) /\ Returned(h, u) <= h.bet[u]
<1>1. u \in Played(h) /\ u \in User
  BY DEF Losers, Played, InTable
<1>2. h.bet[u] \in Int /\ h.allinCoin[u] \in Int
  BY <1>1 DEF Numbers
<1>3. CASE Returned(h, u) = 0
  BY <1>2, <1>3
<1>4. CASE Returned(h, u) # 0
  <2>1. /\ h.card[u] = "UNKNOWN" /\ h.allin[u]
        /\ Returned(h, u) = h.allinCoin[u] \div 2
    BY <1>4 DEF Returned
  <2>2. u \in Shown(h)
    BY <1>1, <2>1 DEF Shown
  <2>3. h.bet[u] >= h.allinCoin[u]
    BY <2>1, <2>2
  <2> HIDE DEF Returned
  <2> QED BY <1>2, <2>1, <2>3
<1> QED BY <1>3, <1>4

\* The tax on a win leaves something of it or nothing, never a loss.
LEMMA TaxLeaves ==
    ASSUME NEW x \in Int
    PROVE  /\ x >= 0 => AfterTax(x) >= 0
           /\ x <= 0 => AfterTax(x) = x
<1>1. CASE x > 0
  <2>1. Tax \in 1..100
    BY CoinAssumption
  <2>2. x * Tax <= 100 * x
    BY <1>1, <2>1
  <2>3. x * Tax \in Int
    BY <2>1
  <2>4. (x * Tax) \div 100 <= x
    BY <2>2, <2>3
  <2> QED BY <1>1, <2>3, <2>4 DEF AfterTax
<1>2. CASE ~ (x > 0)
  BY <1>2 DEF AfterTax
<1> QED BY <1>1, <1>2

\* A settlement of paid all-ins has its pool for the winners: their share is
\* not negative.
LEMMA ShareNonNeg ==
    ASSUME NEW h, Numbers(h), h.leaveSum >= 0, Shown(h) # {},
           \A u \in User : h.bet[u] >= 0,
           h.pool = SumOver(h.bet, User) + h.leaveSum,
           Winners(h) # {},
           \A u \in Losers(h) : Returned(h, u) <= h.bet[u]
    PROVE  Share(h) \in Int /\ Share(h) >= 0
<1> DEFINE W == Winners(h)
           L == Losers(h)
           R == User \ W
           ret == [u \in User |-> Returned(h, u)]
           n == Cardinality(W)
           X == LeftInPool(h) - SumOver(h.bet, W)
<1>1. W \subseteq Played(h) /\ Played(h) \subseteq User
  BY DEF Winners, Shown, Played, InTable
<1>2. L \subseteq R /\ L \subseteq User /\ W \subseteq User
  BY <1>1 DEF Losers
<1>3. IsFiniteSet(W) /\ IsFiniteSet(L) /\ IsFiniteSet(R) /\ IsFiniteSet(User)
      /\ IsFiniteSet(R \ L)
  BY <1>2, UserAssumption, FS_Subset
<1>4. LeftInPool(h) \in Int
  BY FinalType
<1>5. \A u \in User : ret[u] = Returned(h, u) /\ ret[u] \in Int
  BY ReturnedType
<1>6. \A u \in User : h.bet[u] \in Int
  BY DEF Numbers
<1>7. LeftInPool(h) = h.pool - SumOver(ret, L)
  BY <1>2, ReturnIsSum DEF LeftInPool
<1>8. Share(h) = X \div n
  BY DEF Share, SumOver
<1>9. \A u \in L : ret[u] <= h.bet[u]
  BY <1>2, <1>5
<1> HIDE DEF W, L, ret, n, X
<1>10. SumOver(h.bet, User) = SumOver(h.bet, W) + SumOver(h.bet, R)
  BY <1>2, <1>3, <1>6, SumSplits DEF R
<1>11. SumOver(h.bet, R) = SumOver(h.bet, L) + SumOver(h.bet, R \ L)
  BY <1>2, <1>3, <1>6, SumSplits DEF R
<1>12. SumOver(h.bet, R \ L) >= 0
  BY <1>3, <1>6, SumNonNeg DEF R
<1>13. SumOver(ret, L) <= SumOver(h.bet, L)
  BY <1>2, <1>3, <1>5, <1>6, <1>9, SumMonotone
<1>14. /\ SumOver(h.bet, W) \in Int /\ SumOver(h.bet, R) \in Int
       /\ SumOver(ret, L) \in Int /\ SumOver(h.bet, L) \in Int
       /\ SumOver(h.bet, R \ L) \in Int
  <2>1. R \subseteq User /\ R \ L \subseteq User
    BY DEF R
  <2> QED BY <1>2, <1>3, <1>5, <1>6, <2>1, SumType
<1>15. X \in Int /\ X >= 0
  <2>1. X = h.pool - SumOver(ret, L) - SumOver(h.bet, W)
    BY <1>7 DEF X
  <2> HIDE DEF R
  <2> QED BY <1>10, <1>11, <1>12, <1>13, <1>14, <2>1 DEF Numbers
<1>16. n \in Nat /\ n > 0
  <2>1. n \in Nat /\ (n = 0 <=> W = {})
    BY <1>3, FS_CardinalityType, FS_EmptySet DEF n
  <2> QED BY <2>1 DEF W
<1> QED BY <1>8, <1>15, <1>16

\* When a hand is settled those who show their cards are its card holders, with
\* the cards, the chairs and the stakes of the hand.
LEMMA HandIsShown ==
    ASSUME CInv
    PROVE  LET h == HandOver(table)
           IN /\ Shown(h) = Holders(table)
              /\ h.rank = table.rank /\ h.leaveSum = table.leaveSum
              /\ \A u, v \in Shown(h) : h.seat[u] = h.seat[v] => u = v
<1> DEFINE h == HandOver(table)
<1>1. Typed(table) /\ Coins(table) /\ NoStray(table)
  BY DEF CInv, TInv, HInv
<1>2. /\ h.pst = [u \in User |-> IF u \in Players(table) THEN "OVER"
                                 ELSE table.pst[u]]
      /\ h.card = table.card /\ InTable(h) = InTable(table)
  BY <1>1, PaidCoins
<1>3. h.rank = table.rank /\ h.seat = table.seat /\ h.leaveSum = table.leaveSum
  BY <1>1 DEF HandOver, Coins, Numbers, Fields, FreshTable
<1> HIDE DEF h
<1>4. \A u \in InTable(table) :
        u \in Holders(table) <=> h.pst[u] = "OVER" /\ h.card[u] # "DISCARD"
  BY <1>1, <1>2 DEF Holders, Players, NoStray, InTable
<1>5. Holders(table) \subseteq InTable(table)
  BY DEF Holders
<1>6. Shown(h) = Holders(table)
  BY <1>2, <1>4, <1>5 DEF Shown, Played
<1>7. \A u, v \in Shown(h) : h.seat[u] = h.seat[v] => u = v
  BY <1>1, <1>3, <1>5, <1>6 DEF Typed, Apart
<1> QED BY <1>3, <1>6, <1>7 DEF h

\* Who wins is beaten by nobody, where there is somebody nobody beats.
LEMMA WinnersUnbeaten ==
    ASSUME CInv, Shown(HandOver(table)) # {}
    PROVE  LET h == HandOver(table)
           IN /\ Winners(h) # {} /\ Winners(h) \subseteq Holders(table)
              /\ Unbeaten # {} => Winners(h) \subseteq Unbeaten
<1> DEFINE h == HandOver(table)
           w0 == Best(h)
<1>1. /\ Shown(h) = Holders(table) /\ h.rank = table.rank
      /\ \A u, v \in Shown(h) : h.seat[u] = h.seat[v] => u = v
  BY HandIsShown
<1>2. h.rank \in [User -> Nat]
  BY <1>1 DEF CInv, TInv, Typed, Notes
<1>3. /\ w0 \in Shown(h)
      /\ \A w \in Shown(h) :
           (\A v \in Shown(h) : CompareCard(h.rank[v], h.rank[w]) # "win")
           => h.rank[w0] = h.rank[w]
  BY <1>1, <1>2, BestIsUnbeaten
<1>4. Winners(h) \subseteq Shown(h) /\ w0 \in Winners(h)
  BY <1>3 DEF Winners
<1>5. ASSUME NEW w \in Unbeaten, NEW u \in Winners(h)
      PROVE  u \in Unbeaten
  <2>1. /\ w \in Shown(h)
        /\ \A v \in Shown(h) : CompareCard(h.rank[v], h.rank[w]) # "win"
    BY <1>1, <1>5 DEF Unbeaten
  <2>2. h.rank[w0] = h.rank[w]
    BY <1>3, <2>1
  <2>3. u = w0 \/ CompareCard(h.rank[u], h.rank[w0]) = "draw"
    BY <1>5 DEF Winners
  <2>4. h.rank[u] = h.rank[w]
    <3>1. Shown(h) \subseteq User
      BY DEF Shown, Played, InTable
    <3>2. h.rank[u] \in Nat /\ h.rank[w0] \in Nat
      BY <1>2, <1>3, <1>4, <1>5, <3>1
    <3> HIDE DEF w0, h
    <3> QED BY <2>2, <2>3, <3>2, OneIsBetter
  <2>5. u \in Holders(table)
    BY <1>1, <1>4, <1>5
  <2> HIDE DEF h
  <2> QED BY <1>1, <2>1, <2>4, <2>5 DEF Unbeaten
<1> QED BY <1>1, <1>4, <1>5

\* What a settlement of paid all-ins books: a gain to winners only, and to
\* nobody a loss of more than he bet.
LEMMA BookedBounds ==
    ASSUME DInv, Balanced(table), AllinsPaid, Shown(HandOver(table)) # {},
           NEW u \in User
    PROVE  /\ Booked(HandOver(table), u) \in Int
           /\ Booked(HandOver(table), u) > 0 => u \in Winners(HandOver(table))
           /\ Booked(HandOver(table), u) >= - table.bet[u]
<1> DEFINE h == HandOver(table)
           fin == FinalGetCoin(h)
<1>1. Typed(table) /\ Coins(table) /\ CInv /\ NonNeg(table)
  BY DEF DInv, CInv, TInv, Solvent
<1>2. /\ Numbers(h) /\ h.bet = table.bet /\ h.pool = table.pool
      /\ h.allin = table.allin /\ h.allinCoin = table.allinCoin
  BY <1>1, PaidCoins
<1>3. Shown(h) = Holders(table) /\ h.leaveSum = table.leaveSum
  BY <1>1, HandIsShown
<1>4. Winners(h) # {}
  BY <1>1, WinnersUnbeaten
<1> HIDE DEF h
<1>5. h.leaveSum >= 0 /\ \A v \in User : h.bet[v] >= 0 /\ h.allinCoin[v] >= 0
  BY <1>1, <1>2, <1>3 DEF NonNeg
<1>6. h.pool = SumOver(h.bet, User) + h.leaveSum
  BY <1>1, <1>2, <1>3, AllBetsBalanced
<1>7. \A v \in Losers(h) : 0 <= Returned(h, v) /\ Returned(h, v) <= h.bet[v]
  <2> SUFFICES ASSUME NEW v \in Losers(h)
               PROVE  0 <= Returned(h, v) /\ Returned(h, v) <= h.bet[v]
    OBVIOUS
  <2>1. v \in User
    BY DEF Losers, Played, InTable
  <2>2. v \in Shown(h) /\ h.allin[v] => h.bet[v] >= h.allinCoin[v]
    BY <1>2, <1>3 DEF AllinsPaid
  <2> QED BY <1>2, <1>5, <2>1, <2>2, ReturnedBounds
<1>8. Share(h) \in Int /\ Share(h) >= 0
  BY <1>2, <1>3, <1>4, <1>5, <1>6, <1>7, ShareNonNeg DEF h
<1>9. fin[u] \in Int /\ h.bet[u] \in Int
  BY <1>2, FinalType DEF Numbers
<1>10. /\ u \in Winners(h) => fin[u] = Share(h)
       /\ u \notin Winners(h) /\ u \in Losers(h)
            => fin[u] = Returned(h, u) - h.bet[u]
       /\ u \notin Winners(h) /\ u \notin Losers(h) => fin[u] = 0
  BY DEF FinalGetCoin
<1>11. Returned(h, u) \in Int
  BY <1>2, ReturnedType
<1> HIDE DEF fin
<1>12. fin[u] >= - h.bet[u] /\ (fin[u] > 0 => u \in Winners(h))
  BY <1>5, <1>7, <1>8, <1>9, <1>10, <1>11
<1>13. /\ AfterTax(fin[u]) \in Int
       /\ fin[u] >= 0 => AfterTax(fin[u]) >= 0
       /\ fin[u] <= 0 => AfterTax(fin[u]) = fin[u]
  BY <1>9, TaxLeaves, TaxTakes
<1>14. Booked(h, u) = AfterTax(fin[u]) \/ Booked(h, u) = 0
  BY DEF Booked, fin
<1> QED BY <1>2, <1>5, <1>9, <1>12, <1>13, <1>14 DEF h

\* calcCoin pays only card holders, and only those whom nobody beats wherever
\* there is one, though 235 makes CompareCard no order: the walk over the chairs
\* passes no such hand by.  And it takes from nobody more than he has bet.
THEOREM OnlyBestGainsHolds ==
    ASSUME MaxNum > 2, MinMoney >= Ante
    PROVE  Spec /\ [][RobotsStay]_vars => OnlyBestGains
<1> DEFINE Gains == Settles /\ AllinsPaid =>
         \A u \in User \ Robots :
           /\ acct'[u] > acct[u] =>
                u \in (IF Unbeaten = {} THEN Holders(table) ELSE Unbeaten)
           /\ acct'[u] >= acct[u] - table.bet[u]
<1>1. ASSUME DInv, Balanced(table), [Next]_vars PROVE Gains
  <2> SUFFICES ASSUME Settles, AllinsPaid, NEW u \in User \ Robots
               PROVE  /\ acct'[u] > acct[u] =>
                           u \in (IF Unbeaten = {} THEN Holders(table)
                                  ELSE Unbeaten)
                      /\ acct'[u] >= acct[u] - table.bet[u]
    OBVIOUS
  <2>1. CInv /\ HInv
    BY <1>1 DEF DInv, CInv
  <2>2. table.over /\ ~ table'.over
    BY <1>1, <2>1, NextPlays DEF Settles, HInv, IInv, TableInv, Core, Settling
  <2>3. GameOverTimeOut
    BY <1>1, <2>1, <2>2, NextPlays
  <2>4. /\ Shown(HandOver(table)) # {}
        /\ acct'[u] = acct[u] + Booked(HandOver(table), u)
    BY <2>1, <2>2, <2>3, GameOverCoins
  <2>5. /\ Booked(HandOver(table), u) \in Int
        /\ Booked(HandOver(table), u) > 0 => u \in Winners(HandOver(table))
        /\ Booked(HandOver(table), u) >= - table.bet[u]
    BY <1>1, <2>4, BookedBounds
  <2>6. acct[u] \in Int /\ table.bet[u] \in Int
    BY <2>1 DEF CInv, Coins, Numbers
  <2>7. acct'[u] > acct[u] => u \in Winners(HandOver(table))
    BY <2>4, <2>5, <2>6
  <2>8. acct'[u] >= acct[u] - table.bet[u]
    BY <2>4, <2>5, <2>6
  <2> QED BY <2>1, <2>4, <2>7, <2>8, WinnersUnbeaten
<1> HIDE DEF Gains
<1>2. Init => Balanced(table)
  BY DEF Init, FreshTable, Balanced, IsActive
<1>3. DInv /\ Balanced(table) /\ [Next]_vars /\ [RobotsStay]_vars
        => Balanced(table)'
  <2> SUFFICES ASSUME DInv, Balanced(table), [Next]_vars, [RobotsStay]_vars
               PROVE  Balanced(table')
    OBVIOUS
  <2>1. CASE UNCHANGED vars
    BY <2>1 DEF vars
  <2>2. CASE RobotsStay
    BY <2>2, NextCoins, StepBalanced DEF DInv
  <2> QED BY <2>1, <2>2
<1>4. Spec /\ [][RobotsStay]_vars => []DInv
  BY DInvHolds
<1>5. DInv /\ Balanced(table) /\ [Next]_vars => [Gains]_vars
  BY <1>1
<1>6. Spec /\ [][RobotsStay]_vars => [][Gains]_vars
  BY <1>2, <1>3, <1>4, <1>5, PTL DEF Spec
<1> QED BY <1>6 DEF Gains, OnlyBestGains

-----------------------------------------------------------------------------
(* Paid all-ins: what the operators keep. *)

\* Everybody who may still stake is asked the same for an all-in: what the one
\* that stands was for, if there is one.  Who is all in has paid it.
Level(s) ==
    /\ \A v, w \in Stakers(s) : s.allinCoin[v] = s.allinCoin[w]
    /\ s.hasAllin > 0 => \A v \in Stakers(s) : s.allinCoin[v] = s.hasAllin
    /\ \A v \in Holders(s) : s.allin[v] =>
         s.hasAllin > 0 /\ s.bet[v] >= s.hasAllin

Even(s) ==
    /\ Numbers(s) /\ s.seat \in [User -> Seats \cup {NoSeat}]
    /\ Level(s)

\* Nobody new may stake in t, is all in or is asked for something else.
Narrowed(s, t) ==
    /\ Holders(t) \subseteq Holders(s) /\ Stakers(t) \subseteq Stakers(s)
    /\ t.hasAllin = s.hasAllin
    /\ \A v \in Stakers(t) : t.allinCoin[v] = s.allinCoin[v]
    /\ \A v \in Holders(t) : t.allin[v] => s.allin[v]
    /\ \A v \in Holders(t) : t.bet[v] >= s.bet[v]

\* Then everybody is still asked the same.
LEMMA NarrowedLevel ==
    ASSUME NEW s, NEW t, Numbers(s), Numbers(t), Level(s), Narrowed(s, t)
    PROVE  Level(t)
<1>1. /\ Holders(t) \subseteq Holders(s) /\ Stakers(t) \subseteq Stakers(s)
      /\ t.hasAllin = s.hasAllin
      /\ \A v \in Stakers(t) : t.allinCoin[v] = s.allinCoin[v]
      /\ \A v \in Holders(t) : t.bet[v] >= s.bet[v]
  BY DEF Narrowed
<1>2. \A v, w \in Stakers(t) : t.allinCoin[v] = t.allinCoin[w]
  BY <1>1 DEF Level
<1>3. t.hasAllin > 0 => \A v \in Stakers(t) : t.allinCoin[v] = t.hasAllin
  BY <1>1 DEF Level
<1>4. ASSUME NEW v \in Holders(t), t.allin[v]
      PROVE  t.hasAllin > 0 /\ t.bet[v] >= t.hasAllin
  <2>1. v \in Holders(s) /\ s.allin[v] /\ v \in User
    BY <1>1, <1>4 DEF Narrowed, Holders, InTable
  <2>2. s.hasAllin > 0 /\ s.bet[v] >= s.hasAllin
    BY <2>1 DEF Level
  <2>3. s.hasAllin \in Int /\ s.bet[v] \in Int /\ t.bet[v] \in Int
    BY <2>1 DEF Numbers
  <2>4. t.hasAllin = s.hasAllin /\ t.bet[v] >= s.bet[v]
    BY <1>1, <1>4
  <2> QED BY <2>2, <2>3, <2>4
<1> QED BY <1>2, <1>3, <1>4 DEF Level

\* What changes no coins and no cards keeps that,
LEMMA AsPlayedEven ==
    ASSUME NEW s, NEW t, Even(s), AsPlayed(s, t)
    PROVE  Even(t) /\ Holders(t) = Holders(s) /\ Stakers(t) = Stakers(s)
<1>1. Holders(t) = Holders(s) /\ Players(t) = Players(s)
  BY SamePlayers DEF AsPlayed, Holders
<1>2. Stakers(t) = Stakers(s)
  BY <1>1 DEF Stakers, AsPlayed
<1>3. Numbers(s) /\ Numbers(t) /\ t.seat = s.seat
  BY DEF Even, AsPlayed, Numbers
<1>4. \A v \in Holders(t) : t.bet[v] >= s.bet[v]
  BY <1>3 DEF AsPlayed, Numbers, Holders, InTable
<1>5. \A v \in Holders(t) : t.allin[v] => s.allin[v]
  BY Zenon DEF AsPlayed
<1>6. Narrowed(s, t)
  BY <1>1, <1>2, <1>4, <1>5 DEF AsPlayed, Narrowed
<1> QED BY <1>1, <1>2, <1>3, <1>6, NarrowedLevel DEF Even

\* and so does an offer,
LEMMA SetPlayerOptypeEven ==
    ASSUME NEW s, NEW u, Even(s)
    PROVE  Even(SetPlayerOptype(s, u))
BY SetPlayerOptypePlayed, AsPlayedEven DEF Even

\* what only steers the hand,
LEMMA SteeringEven ==
    ASSUME NEW s, NEW u, Even(s)
    PROVE  /\ Even(SetNextFirst(s, u)) /\ Even(GameOver(s))
           /\ Even(GameOverIfDecided(s))
<1>1. Numbers(s)
  BY DEF Even
<1>2. AsPlayed(s, SetNextFirst(s, u))
  BY <1>1 DEF SetNextFirst, Numbers, Fields, FreshTable, AsPlayed
<1>3. AsPlayed(s, GameOver(s))
  BY <1>1 DEF GameOver, Numbers, Fields, FreshTable, AsPlayed
<1>4. Even(SetNextFirst(s, u)) /\ Even(GameOver(s))
  BY <1>2, <1>3, AsPlayedEven
<1> QED BY <1>4 DEF GameOverIfDecided

\* a fold,
LEMMA DiscardEven ==
    ASSUME NEW s, NEW u, Even(s)
    PROVE  Even(Discard(s, u))
<1> DEFINE t == Discard(s, u)
<1>1. Numbers(s) /\ Level(s)
  BY DEF Even
<1>2. /\ DOMAIN t = DOMAIN s
      /\ t.seat = s.seat /\ t.pst = s.pst
      /\ t.money = s.money /\ t.bet = s.bet
      /\ t.pool = s.pool /\ t.leaveSum = s.leaveSum
      /\ t.betMax = s.betMax /\ t.hasAllin = s.hasAllin
      /\ t.allin = s.allin /\ t.allinCoin = s.allinCoin
      /\ t.currBet = s.currBet
      /\ t.card = [s.card EXCEPT ![u] = "DISCARD"]
  BY <1>1 DEF Discard, Numbers, Fields, FreshTable
<1> HIDE DEF t
<1>3. \A v \in User : t.card[v] # "DISCARD" => s.card[v] # "DISCARD"
  BY <1>2
<1>4. Holders(t) \subseteq Holders(s) /\ Stakers(t) \subseteq Stakers(s)
  BY <1>2, <1>3 DEF Holders, Stakers, Players, InTable
<1>5. Numbers(t) /\ \A v \in Holders(t) : t.bet[v] >= s.bet[v]
  BY <1>1, <1>2 DEF Numbers, Holders, InTable
<1>6. \A v \in Holders(t) : t.allin[v] => s.allin[v]
  BY <1>2, Zenon
<1>7. Narrowed(s, t)
  BY <1>2, <1>4, <1>5, <1>6 DEF Narrowed
<1> QED BY <1>1, <1>2, <1>5, <1>7, NarrowedLevel DEF Even, t

\* a stake, and
LEMMA StakeEven ==
    ASSUME NEW s, NEW u \in User, NEW x \in Int, x >= 0, Even(s)
    PROVE  Even(PlayerBetCoin(s, u, x))
<1> DEFINE t == PlayerBetCoin(s, u, x)
<1>1. Numbers(s) /\ Level(s)
  BY DEF Even
<1>2. /\ DOMAIN t = DOMAIN s
      /\ t.seat = s.seat /\ t.pst = s.pst
      /\ t.money = [s.money EXCEPT ![u] = @ - x]
      /\ t.bet = [s.bet EXCEPT ![u] = @ + x]
      /\ t.pool = s.pool + x /\ t.leaveSum = s.leaveSum
      /\ t.betMax = s.betMax /\ t.hasAllin = s.hasAllin
      /\ t.allin = s.allin /\ t.allinCoin = s.allinCoin
      /\ t.card = s.card /\ t.currBet = s.currBet
  BY <1>1 DEF PlayerBetCoin, Numbers, Fields, FreshTable
<1> HIDE DEF t
<1>3. Holders(t) = Holders(s) /\ Stakers(t) = Stakers(s)
  BY <1>2 DEF Holders, Stakers, Players, InTable
<1>4. Numbers(t) /\ \A v \in User : t.bet[v] >= s.bet[v]
  BY <1>1, <1>2 DEF Numbers
<1>5. \A v \in Holders(t) : t.allin[v] => s.allin[v]
  BY <1>2, Zenon
<1>6. Narrowed(s, t)
  BY <1>2, <1>3, <1>4, <1>5 DEF Narrowed, Holders, InTable
<1> QED BY <1>1, <1>2, <1>4, <1>6, NarrowedLevel DEF Even, t

\* setPlayerlimitcoin, which asks all card holders for the same, as long as
\* nobody else may stake.
LEMMA LimitEven ==
    ASSUME NEW s, Even(s), Stakers(s) \subseteq Holders(s)
    PROVE  Even(SetPlayerLimitCoin(s))
<1> DEFINE new == [v \in User |-> IF v \in Holders(s) THEN AllinStake(s)
                                  ELSE s.allinCoin[v]]
           t == [s EXCEPT !.allinCoin = new]
<1>1. SetPlayerLimitCoin(s) = IF ~ s.canAllin THEN s ELSE t
  BY DEF SetPlayerLimitCoin
<1>2. Numbers(s) /\ Level(s)
  BY DEF Even
<1>3. AllinStake(s) \in Int /\ (s.hasAllin > 0 => AllinStake(s) = s.hasAllin)
  BY <1>2, StakeType DEF AllinStake
<1>4. /\ new \in [User -> Int]
      /\ \A v \in Holders(s) : new[v] = AllinStake(s)
  BY <1>2, <1>3 DEF Numbers, Holders, InTable
<1> HIDE DEF new
<1>5. /\ DOMAIN t = DOMAIN s
      /\ t.seat = s.seat /\ t.pst = s.pst
      /\ t.money = s.money /\ t.bet = s.bet
      /\ t.pool = s.pool /\ t.leaveSum = s.leaveSum
      /\ t.betMax = s.betMax /\ t.hasAllin = s.hasAllin
      /\ t.allin = s.allin /\ t.allinCoin = new
      /\ t.card = s.card /\ t.currBet = s.currBet
  BY <1>2 DEF Numbers, Fields, FreshTable
<1> HIDE DEF t
<1>6. Holders(t) = Holders(s) /\ Stakers(t) = Stakers(s)
  BY <1>5 DEF Holders, Stakers, Players, InTable
<1>7. Numbers(t)
  BY <1>2, <1>4, <1>5 DEF Numbers
<1>8. \A v \in Stakers(t) : t.allinCoin[v] = AllinStake(s)
  BY <1>4, <1>5, <1>6
<1>9. \A v \in Holders(t) : t.allin[v] =>
        t.hasAllin > 0 /\ t.bet[v] >= t.hasAllin
  <2> SUFFICES ASSUME NEW v \in Holders(s), s.allin[v]
               PROVE  s.hasAllin > 0 /\ s.bet[v] >= s.hasAllin
    BY <1>5, <1>6, Zenon
  <2> QED BY <1>2 DEF Level
<1>10. Level(t)
  BY <1>3, <1>5, <1>8, <1>9 DEF Level
<1>11. Even(t)
  BY <1>5, <1>7, <1>10 DEF Even
<1> QED BY <1>1, <1>11 DEF t, new

\* getNextBetPlayer asks for an all-in anew when the turn is a card holder's.
LEMMA GetNextBetPlayerEven ==
    ASSUME NEW s, NEW u \in User, Even(s)
    PROVE  Even(GetNextBetPlayer(s, u))
<1> DEFINE able == AbleToBet(s, u)
           next == NextAfter(s, u, able)
           r == IF s.seat[next] = s.first THEN s.round + 1 ELSE s.round
           acted == [s EXCEPT !.betT = None,
                              !.tmo[u] = IF s.round # 1 THEN 0 ELSE @]
           turn == [acted EXCEPT !.round = r, !.currBet = next]
           asked == SetPlayerOptype(turn, next)
           clocked == [asked EXCEPT !.betT = next]
           over == GameOver(acted)
           late == [over EXCEPT !.round = MaxRound]
<1>1. GetNextBetPlayer(s, u) =
        IF able = {} THEN SetPlayerOptype(acted, u)
        ELSE IF PastLastRound(r) THEN late
        ELSE SetPlayerLimitCoin(clocked)
  BY DEF GetNextBetPlayer
<1>2. able # {} => next \in Holders(s)
  <2>1. \A v \in User : s.seat[v] \in Int
    BY SeatAssumption DEF Even, Seats, NoSeat
  <2>2. able \subseteq User /\ able \subseteq Holders(s)
    BY DEF AbleToBet, Holders, InTable
  <2> HIDE DEF able
  <2>3. s.seat[u] + 1 \in Int /\ \A v \in able : s.seat[v] \in Int
    BY <2>1, <2>2
  <2>4. able # {} => next \in able
    BY <2>3, FirstFromIn DEF NextAfter
  <2> QED BY <2>2, <2>4
<1> HIDE DEF able, next, r
<1>3. AsPlayed(s, acted)
  BY DEF Even, Numbers, AsPlayed, Fields, FreshTable
<1> HIDE DEF acted
<1>4. Even(acted) /\ Holders(acted) = Holders(s)
  BY <1>3, AsPlayedEven
<1>5. Even(SetPlayerOptype(acted, u))
  BY <1>4, SetPlayerOptypeEven
<1>6. Even(late)
  <2>1. Even(over)
    BY <1>4, SteeringEven
  <2> HIDE DEF over
  <2>2. /\ DOMAIN late = DOMAIN over
        /\ late.seat = over.seat /\ late.pst = over.pst
        /\ late.money = over.money /\ late.bet = over.bet
        /\ late.pool = over.pool /\ late.leaveSum = over.leaveSum
        /\ late.betMax = over.betMax /\ late.hasAllin = over.hasAllin
        /\ late.allin = over.allin /\ late.allinCoin = over.allinCoin
        /\ late.card = over.card /\ late.currBet = over.currBet
    BY <2>1 DEF Even, Numbers, Fields, FreshTable
  <2> HIDE DEF late
  <2>3. Holders(late) = Holders(over) /\ Stakers(late) = Stakers(over)
    BY <2>2 DEF Holders, Stakers, Players, InTable
  <2>4. Numbers(late) /\ \A v \in Holders(late) : late.bet[v] >= over.bet[v]
    BY <2>1, <2>2 DEF Even, Numbers, Holders, InTable
  <2>5. \A v \in Holders(late) : late.allin[v] => over.allin[v]
    BY <2>2, Zenon
  <2>6. Narrowed(over, late)
    BY <2>2, <2>3, <2>4, <2>5 DEF Narrowed
  <2> QED BY <2>1, <2>2, <2>4, <2>6, NarrowedLevel DEF Even
<1>7. ASSUME able # {} PROVE Even(SetPlayerLimitCoin(clocked))
  <2>1. /\ DOMAIN turn = DOMAIN acted
        /\ turn.seat = acted.seat /\ turn.pst = acted.pst
        /\ turn.money = acted.money /\ turn.bet = acted.bet
        /\ turn.pool = acted.pool /\ turn.leaveSum = acted.leaveSum
        /\ turn.betMax = acted.betMax /\ turn.hasAllin = acted.hasAllin
        /\ turn.allin = acted.allin /\ turn.allinCoin = acted.allinCoin
        /\ turn.card = acted.card /\ turn.currBet = next
    BY <1>4 DEF Even, Numbers, Fields, FreshTable
  <2> HIDE DEF turn
  <2>2. Holders(turn) = Holders(acted)
    BY <2>1 DEF Holders, InTable
  <2>3. Stakers(turn) = Holders(turn)
    BY <1>2, <1>4, <1>7, <2>1, <2>2 DEF Stakers
  <2>4. Stakers(turn) \subseteq Stakers(acted)
    BY <2>2, <2>3 DEF Stakers
  <2>5. Numbers(turn) /\ \A v \in Holders(turn) : turn.bet[v] >= acted.bet[v]
    BY <1>4, <2>1 DEF Even, Numbers, Holders, InTable
  <2>6. \A v \in Holders(turn) : turn.allin[v] => acted.allin[v]
    BY <2>1, Zenon
  <2>7. Narrowed(acted, turn)
    BY <2>1, <2>2, <2>4, <2>5, <2>6 DEF Narrowed
  <2>8. Even(turn)
    BY <1>4, <2>1, <2>5, <2>7, NarrowedLevel DEF Even
  <2>9. AsPlayed(turn, asked)
    BY <2>8, SetPlayerOptypePlayed DEF Even
  <2> HIDE DEF asked
  <2>10. /\ Even(asked) /\ Holders(asked) = Holders(turn)
         /\ Stakers(asked) = Stakers(turn)
    BY <2>8, <2>9, AsPlayedEven
  <2>11. AsPlayed(asked, clocked)
    BY <2>10 DEF Even, Numbers, AsPlayed, Fields, FreshTable
  <2> HIDE DEF clocked
  <2>12. /\ Even(clocked) /\ Holders(clocked) = Holders(turn)
         /\ Stakers(clocked) = Stakers(turn)
    BY <2>10, <2>11, AsPlayedEven
  <2> QED BY <2>3, <2>12, LimitEven
<1> QED BY <1>1, <1>5, <1>6, <1>7

-----------------------------------------------------------------------------
(* Paid all-ins: the steps of a hand. *)

\* The table of a hand has the types these proofs need.
LEMMA EvenTable ==
    ASSUME CInv, Level(table)
    PROVE  Even(table)
BY DEF CInv, TInv, Coins, Typed, Shape, Even

\* Who is on turn may stake.
LEMMA TurnStakes ==
    ASSUME NEW u \in User, DInv, Turn(u)
    PROVE  u \in Stakers(table) /\ IsActive(table) /\ NonNeg(table)
           /\ table.allin \in [User -> BOOLEAN]
<1>1. CInv /\ Solvent(table)
  BY DEF DInv
<1>2. Betting(table) /\ u \in Players(table)
  BY <1>1, InHandBetting DEF Turn
<1> QED BY <1>1, <1>2
        DEF Turn, Stakers, Solvent, Betting, CInv, TInv, Typed, Notes

\* One who may stake has gone all in for what everybody is asked.
LEMMA PaidAllinEven ==
    ASSUME NEW s, NEW t, NEW u \in Stakers(s), Even(s), NonNeg(s), Numbers(t),
           s.allinCoin[u] > 0, s.allin \in [User -> BOOLEAN],
           t.seat = s.seat, t.pst = s.pst, t.card = s.card,
           t.currBet = s.currBet, t.allinCoin = s.allinCoin,
           t.hasAllin = s.allinCoin[u],
           t.bet = [s.bet EXCEPT ![u] = @ + s.allinCoin[u]],
           t.allin = [s.allin EXCEPT ![u] = TRUE]
    PROVE  Even(t)
<1> DEFINE coin == s.allinCoin[u]
<1>1. Numbers(s) /\ Level(s) /\ u \in User
  BY DEF Even, Stakers, Holders, Players, InTable
<1>2. Holders(t) = Holders(s) /\ Stakers(t) = Stakers(s)
  BY DEF Holders, Stakers, Players, InTable
<1>3. coin \in Int /\ coin > 0 /\ t.hasAllin = coin
  BY <1>1 DEF Numbers
<1>4. \A v \in Stakers(t) : t.allinCoin[v] = coin
  BY <1>1, <1>2 DEF Level
<1>5. ASSUME NEW v \in Holders(t), t.allin[v] PROVE t.bet[v] >= coin
  <2>1. v \in User /\ v \in Holders(s)
    BY <1>2, <1>5 DEF Holders, InTable
  <2>2. s.bet[v] \in Int /\ s.bet[v] >= 0
    BY <1>1, <2>1 DEF Numbers, NonNeg
  <2>3. CASE v = u
    <3>1. t.bet[v] = s.bet[v] + coin
      BY <1>1, <2>1, <2>3 DEF Numbers
    <3> QED BY <1>3, <2>2, <3>1
  <2>4. CASE v # u
    <3>1. s.allin[v]
      BY <1>5, <2>1, <2>4, Zenon
    <3>2. s.hasAllin > 0 /\ s.bet[v] >= s.hasAllin
      BY <1>1, <2>1, <3>1 DEF Level
    <3>3. s.hasAllin = coin
      BY <1>1, <3>2 DEF Level
    <3>4. t.bet[v] = s.bet[v]
      BY <1>1, <2>1, <2>4 DEF Numbers
    <3> QED BY <3>2, <3>3, <3>4
  <2> QED BY <2>3, <2>4
<1> HIDE DEF coin
<1>6. Level(t)
  BY <1>3, <1>4, <1>5 DEF Level
<1> QED BY <1>6 DEF Even

\* A call is a stake, or once somebody is all in, an all-in (CallProcess).
LEMMA CallEven ==
    ASSUME NEW u \in User, DInv, Even(table), Call(u)
    PROVE  Even(table')
<1> DEFINE someAllin == HasSomeOneAllin(table)
           coin == IF someAllin THEN table.allinCoin[u] ELSE CallMoney(table, u)
           s1 == [table EXCEPT !.allin[u] = @ \/ someAllin]
           b == PlayerBetCoin(s1, u, coin)
<1>1. /\ Turn(u)
      /\ table' = GameOverIfDecided(GetNextBetPlayer(b, u))
  BY DEF Call, TableBecomes
<1>2. /\ u \in Stakers(table) /\ IsActive(table) /\ NonNeg(table)
      /\ table.allin \in [User -> BOOLEAN]
  BY <1>1, TurnStakes
<1>3. Numbers(table) /\ Level(table)
  BY DEF Even
<1>4. coin \in Int /\ coin >= 0
  BY <1>2, <1>3, CallMoneyNonNeg DEF Numbers, NonNeg
<1>5. someAllin => table.hasAllin > 0
  BY <1>3 DEF HasSomeOneAllin, Level
<1>6. someAllin => coin = table.hasAllin /\ coin = table.allinCoin[u]
  BY <1>2, <1>3, <1>5 DEF Level
<1> HIDE DEF coin, someAllin
<1>7. /\ DOMAIN s1 = DOMAIN table
      /\ s1.seat = table.seat /\ s1.pst = table.pst
      /\ s1.money = table.money /\ s1.bet = table.bet
      /\ s1.pool = table.pool /\ s1.leaveSum = table.leaveSum
      /\ s1.betMax = table.betMax /\ s1.hasAllin = table.hasAllin
      /\ s1.allin = [table.allin EXCEPT ![u] = @ \/ someAllin]
      /\ s1.allinCoin = table.allinCoin
      /\ s1.card = table.card /\ s1.currBet = table.currBet
  BY <1>3 DEF Numbers, Fields, FreshTable
<1> HIDE DEF s1
<1>8. Numbers(s1)
  BY <1>3, <1>7 DEF Numbers
<1>9. CASE ~ someAllin
  <2>1. \A v \in User : s1.allin[v] => table.allin[v]
    BY <1>2, <1>7, <1>9, Zenon
  <2>2. Holders(s1) = Holders(table) /\ Stakers(s1) = Stakers(table)
    BY <1>7 DEF Holders, Stakers, Players, InTable
  <2>3. \A v \in Holders(s1) : s1.allin[v] => table.allin[v]
    BY <2>1 DEF Holders, InTable
  <2>4. \A v \in Holders(s1) : s1.bet[v] >= table.bet[v]
    BY <1>3, <1>7 DEF Numbers, Holders, InTable
  <2>5. Narrowed(table, s1)
    BY <1>7, <2>2, <2>3, <2>4 DEF Narrowed
  <2>6. Even(s1)
    BY <1>3, <1>7, <1>8, <2>5, NarrowedLevel DEF Even
  <2>7. Even(b)
    BY <1>4, <2>6, StakeEven
  <2> HIDE DEF b
  <2> QED BY <1>1, <2>7, GetNextBetPlayerEven, SteeringEven
<1>10. CASE someAllin
  <2>1. s1.allin = [table.allin EXCEPT ![u] = TRUE]
    BY <1>7, <1>10
  <2>2. /\ DOMAIN b = DOMAIN s1
        /\ b.seat = s1.seat /\ b.pst = s1.pst
        /\ b.money = [s1.money EXCEPT ![u] = @ - coin]
        /\ b.bet = [s1.bet EXCEPT ![u] = @ + coin]
        /\ b.pool = s1.pool + coin /\ b.leaveSum = s1.leaveSum
        /\ b.betMax = s1.betMax /\ b.hasAllin = s1.hasAllin
        /\ b.allin = s1.allin /\ b.allinCoin = s1.allinCoin
        /\ b.card = s1.card /\ b.currBet = s1.currBet
    BY <1>8 DEF PlayerBetCoin, Numbers, Fields, FreshTable
  <2> HIDE DEF b
  <2>3. Numbers(b)
    BY <1>4, <1>8, <2>2 DEF Numbers
  <2>4. b.bet = [table.bet EXCEPT ![u] = @ + table.allinCoin[u]]
    BY <1>6, <1>7, <1>10, <2>2
  <2>5. table.allinCoin[u] > 0 /\ b.hasAllin = table.allinCoin[u]
    BY <1>5, <1>6, <1>7, <1>10, <2>2
  <2>6. Even(b)
    BY <1>2, <1>7, <2>1, <2>2, <2>3, <2>4, <2>5, PaidAllinEven
  <2> QED BY <1>1, <2>6, GetNextBetPlayerEven, SteeringEven
<1> QED BY <1>9, <1>10

\* AllinProc, unless it asks for nothing.
LEMMA AllinEven ==
    ASSUME NEW u \in User, DInv, Even(table), Allin(u), table.allinCoin[u] > 0
    PROVE  Even(table')
<1> DEFINE coin == table.allinCoin[u]
           s1 == IF coin > table.betMax
                 THEN [table EXCEPT !.betMax = coin, !.maxCard = table.card[u]]
                 ELSE table
           s2 == [s1 EXCEPT !.hasAllin = coin, !.allin[u] = TRUE]
           b == PlayerBetCoin(s2, u, coin)
<1>1. /\ Turn(u)
      /\ table' = GameOverIfDecided(GetNextBetPlayer(b, u))
  BY DEF Allin, TableBecomes
<1>2. /\ u \in Stakers(table) /\ NonNeg(table)
      /\ table.allin \in [User -> BOOLEAN]
  BY <1>1, TurnStakes
<1>3. Numbers(table) /\ coin \in Int
  BY DEF Even, Numbers
<1> HIDE DEF coin
<1>4. /\ DOMAIN s1 = DOMAIN table
      /\ s1.seat = table.seat /\ s1.pst = table.pst
      /\ s1.money = table.money /\ s1.bet = table.bet
      /\ s1.pool = table.pool /\ s1.leaveSum = table.leaveSum
      /\ s1.betMax \in {coin, table.betMax}
      /\ s1.allinCoin = table.allinCoin /\ s1.allin = table.allin
      /\ s1.card = table.card /\ s1.currBet = table.currBet
  BY <1>3 DEF Numbers, Fields, FreshTable
<1> HIDE DEF s1
<1>5. /\ DOMAIN s2 = DOMAIN table
      /\ s2.seat = table.seat /\ s2.pst = table.pst
      /\ s2.money = table.money /\ s2.bet = table.bet
      /\ s2.pool = table.pool /\ s2.leaveSum = table.leaveSum
      /\ s2.betMax = s1.betMax /\ s2.hasAllin = coin
      /\ s2.allin = [table.allin EXCEPT ![u] = TRUE]
      /\ s2.allinCoin = table.allinCoin
      /\ s2.card = table.card /\ s2.currBet = table.currBet
  BY <1>3, <1>4 DEF Numbers, Fields, FreshTable
<1> HIDE DEF s2
<1>6. Numbers(s2)
  BY <1>3, <1>4, <1>5 DEF Numbers
<1>7. /\ DOMAIN b = DOMAIN s2
      /\ b.seat = table.seat /\ b.pst = table.pst
      /\ b.money = [table.money EXCEPT ![u] = @ - coin]
      /\ b.bet = [table.bet EXCEPT ![u] = @ + coin]
      /\ b.pool = table.pool + coin /\ b.leaveSum = table.leaveSum
      /\ b.betMax = s2.betMax /\ b.hasAllin = coin
      /\ b.allin = s2.allin /\ b.allinCoin = table.allinCoin
      /\ b.card = table.card /\ b.currBet = table.currBet
  BY <1>5, <1>6 DEF PlayerBetCoin, Numbers, Fields, FreshTable
<1> HIDE DEF b
<1>8. Numbers(b)
  BY <1>3, <1>6, <1>7 DEF Numbers
<1>9. Even(b)
  BY <1>2, <1>5, <1>7, <1>8, PaidAllinEven DEF coin
<1> QED BY <1>1, <1>9, GetNextBetPlayerEven, SteeringEven

\* A raise is a stake, and a new one for the others (RaseProcess).
LEMMA RaseEven ==
    ASSUME NEW u \in User, NEW x \in RaseChoices, DInv, Even(table), Rase(u, x)
    PROVE  Even(table')
<1> DEFINE coin == IF table.card[u] = "UNKNOWN" THEN x ELSE Doubled(x)
           s1 == [table EXCEPT !.betMax = x, !.maxCard = table.card[u]]
           b == PlayerBetCoin(s1, u, coin)
<1>1. table' = GetNextBetPlayer(b, u)
  BY DEF Rase, TableBecomes
<1>2. x \in Int /\ coin \in Int /\ coin >= 0
  BY MoneyAssumption DEF Doubled
<1>3. Numbers(table) /\ Level(table)
  BY DEF Even
<1> HIDE DEF coin
<1>4. /\ DOMAIN s1 = DOMAIN table
      /\ s1.seat = table.seat /\ s1.pst = table.pst
      /\ s1.money = table.money /\ s1.bet = table.bet
      /\ s1.pool = table.pool /\ s1.leaveSum = table.leaveSum
      /\ s1.betMax = x /\ s1.hasAllin = table.hasAllin
      /\ s1.allin = table.allin /\ s1.allinCoin = table.allinCoin
      /\ s1.card = table.card /\ s1.currBet = table.currBet
  BY <1>3 DEF Numbers, Fields, FreshTable
<1> HIDE DEF s1
<1>5. Numbers(s1)
  BY <1>2, <1>3, <1>4 DEF Numbers
<1>6. Holders(s1) = Holders(table) /\ Stakers(s1) = Stakers(table)
  BY <1>4 DEF Holders, Stakers, Players, InTable
<1>7. \A v \in Holders(s1) : s1.bet[v] >= table.bet[v]
  BY <1>3, <1>4 DEF Numbers, Holders, InTable
<1>8. \A v \in Holders(s1) : s1.allin[v] => table.allin[v]
  BY <1>4, Zenon
<1>9. Narrowed(table, s1)
  BY <1>4, <1>6, <1>7, <1>8 DEF Narrowed
<1>10. Even(s1)
  BY <1>3, <1>4, <1>5, <1>9, NarrowedLevel DEF Even
<1>11. Even(b)
  BY <1>2, <1>10, StakeEven
<1> HIDE DEF b
<1> QED BY <1>1, <1>11, GetNextBetPlayerEven

\* A comparison is a stake and a fold (CompareCardProc); one that is forced
\* stakes nothing more.
LEMMA CompareCardsEven ==
    ASSUME NEW u \in User, NEW v \in User, DInv, Even(table), CompareCards(u, v)
    PROVE  Even(table')
<1> DEFINE cost == Min({CallMoney(table, u), table.money[u]})
           s1 == PlayerBetCoin(table, u, cost)
           win == CompareCard(table.rank[u], table.rank[v]) = "win"
           dv == Discard(s1, v)
           fv == SetNextFirst(dv, v)
           won == GetNextBetPlayer(fv, u)
           forced == /\ won.betT # None /\ won.money[u] = 0
                     /\ Cardinality(Holders(won)) <= 2
           du == Discard(s1, u)
           gu == GetNextBetPlayer(du, u)
           lost == SetNextFirst(gu, u)
           force == ForceCompareCard(won, u, won.betT)
           end == IF ~ win THEN lost ELSE IF forced THEN force ELSE won
<1>1. /\ InHand(u) /\ table.money[u] > 0
      /\ table' = GameOverIfDecided(end)
  BY DEF CompareCards, Turn, TableBecomes
<1>2. Playable(table)
  BY <1>1, InHandBetting, SoundTable DEF Sound, DInv
<1>3. cost \in Int /\ cost >= 0
  BY <1>1, <1>2, CompareCostIsPaid
<1> HIDE DEF cost, win
<1>4. Even(s1)
  BY <1>3, StakeEven
<1> HIDE DEF s1
<1>5. Even(won)
  <2>1. Even(dv)
    BY <1>4, DiscardEven
  <2> HIDE DEF dv
  <2>2. Even(fv)
    BY <2>1, SteeringEven
  <2> HIDE DEF fv
  <2> QED BY <2>2, GetNextBetPlayerEven
<1>6. Even(lost)
  <2>1. Even(du)
    BY <1>4, DiscardEven
  <2> HIDE DEF du
  <2>2. Even(gu)
    BY <2>1, GetNextBetPlayerEven
  <2> HIDE DEF gu
  <2> QED BY <2>2, SteeringEven
<1> HIDE DEF won, lost
<1>7. forced => Even(force)
  <2> SUFFICES ASSUME forced PROVE Even(force)
    OBVIOUS
  <2> DEFINE b == PlayerBetCoin(won, u, won.money[u])
             res == [kept |-> TRUE, p1 |-> u, p2 |-> won.betT,
                     result |-> CompareCard(won.rank[u], won.rank[won.betT])]
  <2>1. won.money[u] = 0
    BY DEF forced
  <2>2. Even(b)
    BY <1>5, <2>1, StakeEven
  <2>3. force = [b EXCEPT !.cmp = res, !.cmpT = TRUE]
    BY DEF ForceCompareCard
  <2> HIDE DEF b, res, force
  <2>4. AsPlayed(b, force)
    BY <2>2, <2>3 DEF Even, Numbers, AsPlayed, Fields, FreshTable
  <2> QED BY <2>2, <2>4, AsPlayedEven
<1> HIDE DEF force, forced
<1>8. Even(end)
  BY <1>5, <1>6, <1>7
<1> HIDE DEF end
<1> QED BY <1>1, <1>8, SteeringEven

\* ThrowCardProc
LEMMA ThrowCardEven ==
    ASSUME NEW u \in User, Even(table), ThrowCard(u)
    PROVE  Even(table')
<1> DEFINE s1 == Discard(table, u)
           s2 == IF table.currBet = u THEN GetNextBetPlayer(s1, u)
                 ELSE IF table.currBet = None THEN s1
                 ELSE SetPlayerOptype(s1, table.currBet)
           s3 == SetNextFirst(s2, u)
<1>1. table' = GameOverIfDecided(s3)
  BY DEF ThrowCard, TableBecomes
<1>2. Even(s1)
  BY DiscardEven
<1> HIDE DEF s1
<1>3. Even(s2)
  BY <1>2, GetNextBetPlayerEven, SetPlayerOptypeEven
<1> HIDE DEF s2
<1>4. Even(s3)
  BY <1>3, SteeringEven
<1> HIDE DEF s3
<1> QED BY <1>1, <1>4, SteeringEven

\* CheckProcess
LEMMA CheckCardEven ==
    ASSUME NEW u \in User, Even(table), CheckCard(u)
    PROVE  Even(table')
<1> DEFINE s1 == [table EXCEPT !.card[u] = "KNOWN"]
           s2 == [s1 EXCEPT !.betT = u]
           s3 == SetPlayerOptype(s2, u)
<1>1. /\ table.card[u] = "UNKNOWN"
      /\ table' = IF table.currBet = u THEN s3 ELSE s1
  BY DEF CheckCard, TableBecomes
<1>2. Numbers(table) /\ Level(table)
  BY DEF Even
<1>3. /\ DOMAIN s1 = DOMAIN table
      /\ s1.seat = table.seat /\ s1.pst = table.pst
      /\ s1.money = table.money /\ s1.bet = table.bet
      /\ s1.pool = table.pool /\ s1.leaveSum = table.leaveSum
      /\ s1.betMax = table.betMax /\ s1.hasAllin = table.hasAllin
      /\ s1.allin = table.allin /\ s1.allinCoin = table.allinCoin
      /\ s1.card = [table.card EXCEPT ![u] = "KNOWN"]
      /\ s1.currBet = table.currBet
  BY <1>2 DEF Numbers, Fields, FreshTable
<1> HIDE DEF s1
<1>4. \A v \in User : s1.card[v] # "DISCARD" => table.card[v] # "DISCARD"
  BY <1>1, <1>3
<1>5. Holders(s1) \subseteq Holders(table)
      /\ Stakers(s1) \subseteq Stakers(table)
  BY <1>3, <1>4 DEF Holders, Stakers, Players, InTable
<1>6. Numbers(s1) /\ \A v \in Holders(s1) : s1.bet[v] >= table.bet[v]
  BY <1>2, <1>3 DEF Numbers, Holders, InTable
<1>7. \A v \in Holders(s1) : s1.allin[v] => table.allin[v]
  BY <1>3, Zenon
<1>8. Narrowed(table, s1)
  BY <1>3, <1>5, <1>6, <1>7 DEF Narrowed
<1>9. Even(s1)
  BY <1>2, <1>3, <1>6, <1>8, NarrowedLevel DEF Even
<1>10. AsPlayed(s1, s2)
  BY <1>6 DEF Numbers, AsPlayed, Fields, FreshTable
<1> HIDE DEF s2
<1>11. Even(s2)
  BY <1>9, <1>10, AsPlayedEven
<1> QED BY <1>1, <1>9, <1>11, SetPlayerOptypeEven

\* BetTimeOut
LEMMA BetTimeOutEven ==
    ASSUME Even(table), BetTimeOut
    PROVE  Even(table')
<1> DEFINE u == table.betT
           s1 == [table EXCEPT !.betT = None]
           st == [s1 EXCEPT !.tmo[u] = IF s1.round = 1 THEN @ + 1 ELSE @]
           s2 == Discard(st, u)
           s3 == GetNextBetPlayer(s2, u)
           s4 == IF s3.betT = None THEN s3 ELSE SetPlayerOptype(s3, s3.betT)
           s5 == SetNextFirst(s4, u)
<1>1. table' = IF u \in InTable(table) /\ table.currBet = u
               THEN GameOverIfDecided(s5) ELSE s1
  BY DEF BetTimeOut, TableBecomes
<1> HIDE DEF u
<1>2. AsPlayed(table, s1)
  BY DEF Even, Numbers, AsPlayed, Fields, FreshTable
<1>3. Even(s1)
  BY <1>2, AsPlayedEven
<1> HIDE DEF s1
<1>4. AsPlayed(s1, st)
  BY <1>3 DEF Even, Numbers, AsPlayed, Fields, FreshTable
<1> HIDE DEF st
<1>5. Even(st)
  BY <1>3, <1>4, AsPlayedEven
<1>6. Even(s2)
  BY <1>5, DiscardEven
<1> HIDE DEF s2
<1>7. CASE u \in InTable(table)
  <2>1. Even(s3)
    BY <1>6, <1>7, GetNextBetPlayerEven DEF InTable
  <2> HIDE DEF s3
  <2>2. Even(s4)
    BY <2>1, SetPlayerOptypeEven
  <2> HIDE DEF s4
  <2>3. Even(s5)
    BY <2>2, SteeringEven
  <2> HIDE DEF s5
  <2> QED BY <1>1, <1>3, <2>3, SteeringEven
<1>8. CASE u \notin InTable(table)
  BY <1>1, <1>3, <1>8
<1> QED BY <1>7, <1>8

\* CompareResultNotifyTimeOut
LEMMA CompareResultEven ==
    ASSUME Even(table), CompareResultNotifyTimeOut
    PROVE  Even(table')
<1> DEFINE c == table.cmp
           s1 == [table EXCEPT !.cmpT = FALSE]
           loser == IF c.result = "win" THEN c.p2 ELSE c.p1
           s2 == IF loser = None THEN s1 ELSE Discard(s1, loser)
           s3 == [s2 EXCEPT !.cmp = NoCompare]
<1>1. table' = IF ~ c.kept THEN s1 ELSE GameOverIfDecided(s3)
  BY DEF CompareResultNotifyTimeOut, TableBecomes
<1> HIDE DEF loser
<1>2. AsPlayed(table, s1)
  BY DEF Even, Numbers, AsPlayed, Fields, FreshTable
<1>3. Even(s1)
  BY <1>2, AsPlayedEven
<1> HIDE DEF s1
<1>4. Even(s2)
  BY <1>3, DiscardEven
<1> HIDE DEF s2
<1>5. AsPlayed(s2, s3)
  BY <1>4 DEF Even, Numbers, AsPlayed, Fields, FreshTable
<1> HIDE DEF s3
<1>6. Even(s3)
  BY <1>4, <1>5, AsPlayedEven
<1> QED BY <1>1, <1>3, <1>6, SteeringEven

\* Players who leave ask nobody for anything else.
LEMMA LeaveLevel ==
    ASSUME NEW s, NEW G \in SUBSET InTable(s), Typed(s), Coins(s), Even(s),
           IsActive(PlayersLeave(s, G))
    PROVE  Even(PlayersLeave(s, G))
<1> DEFINE t == PlayersLeave(s, G)
           Out(f, x) == [u \in User |-> IF u \in G THEN x ELSE f[u]]
<1>1. InTable(t) = InTable(s) \ G /\ Typed(t) /\ Coins(t)
  BY PlayersLeaveTyped, LeaveCoins
<1>2. /\ t.pst = Out(s.pst, "LOGOUT") /\ t.bet = Out(s.bet, 0)
      /\ t.allinCoin = Out(s.allinCoin, 0)
      /\ t.allin = Out(s.allin, FALSE)
      /\ t.card = Out(s.card, "DISCARD")
      /\ \/ t.status = "EMPTY"
         \/ t.hasAllin = s.hasAllin /\ t.currBet = s.currBet
  <2>1. Numbers(s)
    BY DEF Coins
  <2>2. /\ DOMAIN t = Fields
        /\ t.pst = Out(s.pst, "LOGOUT")
        /\ t.money = Out(s.money, 0) /\ t.bet = Out(s.bet, 0)
        /\ t.allinCoin = Out(s.allinCoin, 0)
        /\ t.allin = Out(s.allin, FALSE)
        /\ t.card = Out(s.card, "DISCARD")
        /\ \/ /\ t.status = "EMPTY" /\ t.betMax = 0
              /\ t.pool = 0 /\ t.leaveSum = 0 /\ t.hasAllin = 0
           \/ /\ IsActive(t) <=> IsActive(s)
              /\ t.betMax = s.betMax /\ t.hasAllin = s.hasAllin
              /\ t.pool = s.pool /\ t.leaveSum = s.leaveSum
              /\ t.canAllin = s.canAllin /\ t.round = s.round
              /\ t.currBet = s.currBet /\ t.over = s.over
    <3> HIDE DEF t, Out
    <3> QED BY <2>1, PlayersLeaveFields, ZenonT(40) DEF t, Out
  <2> HIDE DEF t, Out
  <2> QED BY <2>2
<1> HIDE DEF t
<1>3. t.hasAllin = s.hasAllin /\ t.currBet = s.currBet
  BY <1>2 DEF IsActive, t
<1>4. ASSUME NEW v \in InTable(t)
      PROVE  /\ v \in InTable(s) /\ v \in User /\ v \notin G
             /\ t.pst[v] = s.pst[v] /\ t.bet[v] = s.bet[v]
             /\ t.allinCoin[v] = s.allinCoin[v] /\ t.card[v] = s.card[v]
  BY <1>1, <1>2 DEF InTable
<1>5. ASSUME NEW v \in InTable(t), t.allin[v] PROVE s.allin[v]
  <2>1. v \in User /\ v \notin G
    BY <1>4, <1>5
  <2> QED BY <1>2, <1>5, <2>1, Zenon
<1>6. /\ Holders(t) \subseteq Holders(s) /\ Stakers(t) \subseteq Stakers(s)
      /\ Holders(t) \subseteq InTable(t) /\ Stakers(t) \subseteq InTable(t)
  BY <1>3, <1>4 DEF Holders, Stakers, Players
<1>7. Numbers(s) /\ Numbers(t)
  BY <1>1 DEF Coins
<1>8. \A v \in Holders(t) : t.bet[v] >= s.bet[v]
  BY <1>4, <1>6, <1>7 DEF Numbers
<1>9. Narrowed(s, t)
  BY <1>3, <1>4, <1>5, <1>6, <1>8 DEF Narrowed
<1>10. Level(t)
  BY <1>7, <1>9, NarrowedLevel DEF Even
<1> QED BY <1>1, <1>7, <1>10 DEF Even, Typed, Shape, t

\* LeaveProcess in a hand
LEMMA LeaveHandEven ==
    ASSUME NEW u \in User, CInv, Even(table), LeaveHand(u)
    PROVE  Even(table')
<1> DEFINE s1 == Forfeit(table, u)
           s2 == IF table.currBet = u THEN GetNextBetPlayer(s1, u) ELSE s1
           sd == Discard(s2, u)
           s3 == SetNextFirst(sd, u)
           s4 == PlayersLeave(s3, {u})
<1>1. /\ IsActive(s4) /\ table' = GameOverIfDecided(s4)
      /\ u \in InTable(table) /\ IsActive(table)
  BY LeaveHandTable DEF InHand, Playing, At, CInv, HInv, LeaveHand
<1>2. Coins(table) /\ Typed(table) /\ Level(table)
  BY DEF CInv, TInv, Even
<1>3. /\ Even(s1) /\ Coins(s1) /\ Typed(s1) /\ s1.seat = table.seat
  <2>1. /\ Coins(s1) /\ s1.bet = table.bet
        /\ s1.seat = table.seat /\ s1.pst = table.pst
        /\ s1.hasAllin = table.hasAllin
        /\ s1.allin = table.allin /\ s1.allinCoin = table.allinCoin
        /\ s1.card = table.card /\ s1.currBet = table.currBet
    BY <1>1, <1>2, ForfeitCoins
  <2>2. Typed(s1)
    BY <1>2, CoinsTyped DEF Forfeit, Typed, Shape, Fields, FreshTable
  <2> HIDE DEF s1
  <2>3. Holders(s1) = Holders(table) /\ Stakers(s1) = Stakers(table)
    BY <2>1 DEF Holders, Stakers, Players, InTable
  <2>4. Numbers(s1) /\ Numbers(table)
    BY <1>2, <2>1 DEF Coins
  <2>5. \A v \in Holders(s1) : s1.bet[v] >= table.bet[v]
    BY <2>1, <2>4 DEF Numbers, Holders, InTable
  <2>6. \A v \in Holders(s1) : s1.allin[v] => table.allin[v]
    BY <2>1, Zenon
  <2>7. Narrowed(table, s1)
    BY <2>1, <2>3, <2>5, <2>6 DEF Narrowed
  <2>8. Level(s1)
    BY <1>2, <2>4, <2>7, NarrowedLevel
  <2> QED BY <2>1, <2>2, <2>4, <2>8 DEF Even, Typed, Shape
<1> HIDE DEF s1
<1>4. /\ Even(s2) /\ SameCoins(s1, s2) /\ Typed(s2)
  <2>1. CASE table.currBet = u
    <3>1. s2 = GetNextBetPlayer(s1, u)
      BY <2>1
    <3> QED BY <1>3, <3>1, GetNextBetPlayerEven, GetNextBetPlayerCoins,
               GetNextBetPlayerTyped DEF Coins
  <2>2. CASE table.currBet # u
    BY <1>3, <2>2, SteeringCoins DEF Coins
  <2> QED BY <2>1, <2>2
<1> HIDE DEF s2
<1>5. /\ Even(sd) /\ SameCoins(s2, sd) /\ Typed(sd)
  BY <1>4, DiscardEven, DiscardCoins, DiscardTyped DEF Even
<1> HIDE DEF sd
<1>6. /\ Even(s3) /\ SameCoins(sd, s3) /\ Typed(s3)
  BY <1>5, SteeringEven, SteeringCoins, SetNextFirstTyped DEF Even
<1> HIDE DEF s3
<1>7. SameCoins(s1, s3)
  BY <1>4, <1>5, <1>6, SameCoinsOn
<1>8. Coins(s3) /\ InTable(s3) = InTable(table)
  BY <1>3, <1>7, CoinsKept DEF SameCoins, InTable
<1>9. Even(s4)
  BY <1>1, <1>6, <1>8, LeaveLevel
<1> HIDE DEF s4
<1> QED BY <1>1, <1>9, SteeringEven

\* A hand that is left alone asks what it asked before.
LEMMA RestedLevel ==
    ASSUME CInv, CInv', Rested(table, table'), IsActive(table'),
           IsActive(table) => Level(table)
    PROVE  Level(table')
<1>1. Numbers(table) /\ Numbers(table')
  BY DEF CInv, Coins
<1>2. /\ IsActive(table) /\ Players(table') = Players(table)
      /\ table'.hasAllin = table.hasAllin /\ table'.currBet = table.currBet
  BY Zenon DEF Rested, SameHand
<1>3. \A u \in Players(table) :
        /\ table'.bet[u] = table.bet[u]
        /\ table'.allin[u] = table.allin[u]
        /\ table'.allinCoin[u] = table.allinCoin[u]
        /\ table'.card[u] = table.card[u]
  BY Zenon DEF Rested, SameHand
<1>4. /\ Holders(table') = Holders(table)
      /\ Holders(table) \subseteq Players(table)
  BY <1>2, <1>3 DEF Holders, Players, InTable
<1>5. /\ Stakers(table') = Stakers(table)
      /\ Stakers(table) \subseteq Players(table)
  BY <1>2, <1>4 DEF Stakers
<1>6. \A v \in Holders(table') : table'.bet[v] >= table.bet[v]
  BY <1>1, <1>3, <1>4 DEF Numbers, Holders, InTable
<1>7. \A v \in Holders(table') : table'.allin[v] => table.allin[v]
  BY <1>3, <1>4, Zenon
<1>8. Narrowed(table, table')
  BY <1>2, <1>3, <1>4, <1>5, <1>6, <1>7 DEF Narrowed
<1> QED BY <1>1, <1>2, <1>8, NarrowedLevel

\* A hand is dealt with the same asked of everybody in it.
LEMMA GameStartLevel ==
    ASSUME NEW s, NEW d, Core(s), Coins(s), ~ IsActive(s)
    PROVE  Level(GameStart(s, d))
<1> DEFINE here == InTable(s)
           dealer == FirstFrom(s, IF s.preWin >= 0 THEN s.preWin ELSE 0, here)
           speaker == NextAfter(s, dealer, here \ {dealer})
           In(f, x) == [u \in User |-> IF u \in here THEN x ELSE f[u]]
           purses == [u \in User |-> IF u \in here THEN s.money[u] - Ante
                                     ELSE s.money[u]]
           stakes == [u \in User |-> IF u \in here THEN s.bet[u] + Ante
                                     ELSE s.bet[u]]
           dealt == [CloseLobby(s) EXCEPT
             !.round = 1, !.card = In(@, "UNKNOWN"), !.pst = In(@, "ACTIVE"),
             !.money = [u \in User |-> IF u \in here THEN @[u] - Ante ELSE @[u]],
             !.bet = [u \in User |-> IF u \in here THEN @[u] + Ante ELSE @[u]],
             !.rank = [u \in User |-> IF u \in here THEN d[u] ELSE @[u]],
             !.pool = @ + Ante * Cardinality(here),
             !.betMax = Ante, !.maxCard = "UNKNOWN",
             !.first = s.seat[speaker]]
           asked == SetPlayerOptype(dealt, speaker)
           limited == SetPlayerLimitCoin(asked)
           t == [limited EXCEPT
                   !.status = "ACTIVE", !.currBet = speaker, !.betT = speaker]
           g == GameStart(s, d)
<1>1. g = t
  BY DEF GameStart
<1>2. /\ Players(g) = here /\ g.hasAllin = 0
      /\ \A u \in User : g.allin[u] = FALSE
  <2>1. /\ Moved(s, g) /\ Players(g) = InTable(s) /\ g.hasAllin = 0
        /\ InTable(g) = InTable(s) /\ g.leaveSum = 0
        /\ g.bet = [u \in User |-> IF u \in InTable(s) THEN Ante ELSE 0]
        /\ \A u \in InTable(s) : g.money[u] = s.money[u] - Ante
        /\ \A u \in User : g.allin[u] = FALSE
        /\ g.betMax = Ante
    <3> HIDE DEF here, t, dealer, speaker, In, purses, stakes, dealt, asked,
                 limited
    <3> QED BY GameStartMoved, ZenonT(40)
  <2> HIDE DEF g
  <2> QED BY <2>1
<1> HIDE DEF g
<1>3. Players(s) = {}
  BY DEF Core, Together, Players
<1>4. Numbers(s) /\ \A u \in User : s.allinCoin[u] = 0
  BY <1>3 DEF Coins, Quiet
<1>5. here \subseteq User /\ Cardinality(here) \in Nat
  BY InTableFinite, FS_CardinalityType DEF InTable
<1> HIDE DEF speaker
<1>6. /\ DOMAIN dealt = Fields
      /\ dealt.seat = s.seat
      /\ dealt.pst = In(s.pst, "ACTIVE") /\ dealt.card = In(s.card, "UNKNOWN")
      /\ dealt.money = purses /\ dealt.bet = stakes
      /\ dealt.pool = s.pool + Ante * Cardinality(here)
      /\ dealt.leaveSum = s.leaveSum
      /\ dealt.betMax = Ante /\ dealt.hasAllin = s.hasAllin
      /\ dealt.allinCoin = s.allinCoin
  BY <1>4 DEF CloseLobby, Numbers, Fields, FreshTable
<1>7. /\ purses \in [User -> Int] /\ stakes \in [User -> Int]
      /\ Ante * Cardinality(here) \in Int
  BY <1>4, <1>5, CoinAssumption DEF Numbers
<1> HIDE DEF dealt
<1>8. Numbers(dealt)
  BY <1>4, <1>6, <1>7, CoinAssumption DEF Numbers
<1>9. AsPlayed(dealt, asked) /\ Numbers(asked)
  <2>1. AsPlayed(dealt, asked)
    BY <1>8, SetPlayerOptypePlayed
  <2> QED BY <1>8, <2>1 DEF AsPlayed, Numbers
<1> HIDE DEF asked
<1>10. here \subseteq Holders(asked)
  <2>1. asked.seat = s.seat /\ asked.pst = In(s.pst, "ACTIVE")
        /\ asked.card = In(s.card, "UNKNOWN")
    BY <1>6, <1>9 DEF AsPlayed
  <2> QED BY <2>1 DEF Holders, InTable
<1>11. \A u \in User : asked.allinCoin[u] = 0
  BY <1>4, <1>6, <1>9 DEF AsPlayed
<1> HIDE DEF here, purses, stakes, In
<1>12. DOMAIN limited = Fields
       /\ \A v, w \in here : limited.allinCoin[v] = limited.allinCoin[w]
  <2> DEFINE new == [u \in User |-> IF u \in Holders(asked)
                                    THEN AllinStake(asked)
                                    ELSE asked.allinCoin[u]]
             lim == [asked EXCEPT !.allinCoin = new]
  <2>1. \A v, w \in here : new[v] = new[w]
    BY <1>5, <1>10
  <2> HIDE DEF new
  <2>2. DOMAIN lim = Fields /\ lim.allinCoin = new
    BY <1>9 DEF Numbers, Fields, FreshTable
  <2>3. limited = asked \/ limited = lim
    BY DEF SetPlayerLimitCoin, new
  <2> HIDE DEF lim, limited
  <2>4. CASE limited = asked
    BY <1>5, <1>9, <1>11, <2>4 DEF Numbers
  <2>5. CASE limited = lim
    BY <2>1, <2>2, <2>5
  <2> QED BY <2>3, <2>4, <2>5
<1> HIDE DEF limited
<1>13. t.allinCoin = limited.allinCoin
  BY <1>12 DEF Fields, FreshTable
<1>14. Stakers(g) \subseteq here /\ Holders(g) \subseteq User
  BY <1>2 DEF Stakers, Holders, Players, InTable
<1>15. \A v, w \in Stakers(g) : g.allinCoin[v] = g.allinCoin[w]
  BY <1>1, <1>12, <1>13, <1>14
<1>16. ~ (g.hasAllin > 0) /\ \A v \in Holders(g) : ~ g.allin[v]
  BY <1>2, <1>14
<1> QED BY <1>15, <1>16 DEF Level, g

-----------------------------------------------------------------------------
(* Paid all-ins: every step. *)

\* Nobody goes all in for nothing.
CoinsAllin == \A u \in User : Allin(u) => table.allinCoin[u] > 0

\* The inductive invariant of the all-ins
LInv == DInv /\ (IsActive(table) => Level(table))

\* What it says of the table after a step
AsksAlike == IsActive(table') => Level(table')

\* A message of a player in the hand asks everybody alike,
LEMMA BettingLevel ==
    ASSUME LInv, CoinsAllin, NEW u \in User,
           \/ LeaveHand(u)
           \/ Call(u) \/ Allin(u) \/ ThrowCard(u) \/ CheckCard(u)
           \/ \E x \in RaseChoices : Rase(u, x)
           \/ \E v \in User : CompareCards(u, v)
    PROVE  AsksAlike
<1>1. DInv /\ CInv
  BY DEF LInv, DInv
<1>2. IsActive(table)
  <2>1. CASE LeaveHand(u)
    BY <1>1, <2>1, LeaveHandTable DEF CInv, HInv
  <2>2. CASE ~ LeaveHand(u)
    <3>1. InHand(u)
      BY <2>2 DEF Call, Allin, ThrowCard, CheckCard, Rase, CompareCards, Turn
    <3> QED BY <1>1, <3>1, InHandBetting DEF Betting
  <2> QED BY <2>1, <2>2
<1>3. Even(table)
  BY <1>1, <1>2, EvenTable DEF LInv
<1>4. CASE LeaveHand(u)
  BY <1>1, <1>3, <1>4, LeaveHandEven DEF Even, AsksAlike
<1>5. CASE Call(u) \/ ThrowCard(u) \/ CheckCard(u)
  BY <1>1, <1>3, <1>5, CallEven, ThrowCardEven, CheckCardEven
  DEF Even, AsksAlike
<1>6. CASE Allin(u)
  BY <1>1, <1>3, <1>6, AllinEven DEF Even, AsksAlike, CoinsAllin
<1>7. CASE \E x \in RaseChoices : Rase(u, x)
  BY <1>1, <1>3, <1>7, RaseEven DEF Even, AsksAlike
<1>8. CASE \E v \in User : CompareCards(u, v)
  BY <1>1, <1>3, <1>8, CompareCardsEven DEF Even, AsksAlike
<1> QED BY <1>4, <1>5, <1>6, <1>7, <1>8

\* so does a step of the lobby,
LEMMA LobbyingLevel ==
    ASSUME LInv, CInv', Lobbying
    PROVE  AsksAlike
<1>1. CASE Rested(table, table')
  BY <1>1, RestedLevel DEF LInv, DInv, AsksAlike
<1>2. CASE \E q : Opens(q)
  <2>1. PICK q : Opens(q)
    BY <1>2
  <2>2. PICK d \in Deals : table' = GameStart(q, d)
    BY <2>1 DEF Opens
  <2>3. Core(q) /\ Coins(q) /\ ~ IsActive(q)
    BY <2>1 DEF Opens, Lobbied, TableInv, Moved
  <2> QED BY <2>2, <2>3, GameStartLevel DEF AsksAlike
<1> QED BY <1>1, <1>2 DEF Lobbying

\* and any message of a player,
LEMMA MessageLevel ==
    ASSUME LInv, CInv', MaxNum > 2, RobotsStay, CoinsAllin,
           NEW u \in User, Message(u)
    PROVE  AsksAlike
<1>0. CInv
  BY DEF LInv, DInv
<1>1. CASE LoginComing(u) \/ LoginRedirected(u) \/ RobotComing(u)
  <2>1. Rested(table, table')
    BY <1>0, <1>1, ComingCoins DEF Came
  <2> QED BY <1>0, <2>1, RestedLevel DEF LInv, AsksAlike
<1>2. CASE RobotReplaced(u)
  <2>1. PICK m \in RobotMoney :
          CheckMoney(m) /\ TableBecomes(PlayerReplaced(table, u, m))
    BY <1>2 DEF RobotReplaced
  <2>2. m \in Int /\ m >= MinMoney /\ u \in Robots
    BY <1>2, <2>1, MoneyAssumption DEF CheckMoney, RobotReplaced
  <2>3. u \notin Players(table)
    BY <1>2, <2>2 DEF RobotsStay, Playing, RobotReplaced, Players
  <2>4. Typed(table) /\ Coins(table)
    BY <1>0 DEF CInv, TInv
  <2>5. Rested(table, PlayerReplaced(table, u, m))
    <3>1. u \in User
      BY <2>2, RobotAssumption
    <3> QED BY <2>2, <2>3, <2>4, <3>1, ReplacedCoins
  <2> QED BY <1>0, <2>1, <2>5, RestedLevel DEF TableBecomes, LInv, AsksAlike
<1>3. CASE LeaveTable(u) \/ Drop(u) \/ Logout(u) \/ GetTableDetail(u)
  BY <1>0, <1>3, LeavingCoins, LobbyingLevel
<1>4. CASE StartGame(u)
  BY <1>0, <1>4, StartGameCoins, LobbyingLevel
<1>5. CASE \/ LeaveHand(u)
           \/ Call(u) \/ Allin(u) \/ ThrowCard(u) \/ CheckCard(u)
           \/ \E x \in RaseChoices : Rase(u, x)
           \/ \E v \in User : CompareCards(u, v)
  BY <1>5, BettingLevel
<1> QED BY <1>1, <1>2, <1>3, <1>4, <1>5 DEF Message

\* and any step at all.
LEMMA NextLevel ==
    ASSUME LInv, MaxNum > 2, MinMoney >= Ante,
           [Next]_vars, [RobotsStay]_vars, [CoinsAllin]_vars
    PROVE  LInv'
<1>1. DInv /\ CInv /\ DInv' /\ CInv'
  BY NextDInv DEF LInv, DInv
<1>2. AsksAlike
  <2>1. CASE UNCHANGED vars
    BY <2>1 DEF vars, LInv, AsksAlike
  <2>2. CASE Next /\ RobotsStay /\ CoinsAllin
    <3>1. CASE \E u \in User : Message(u)
      BY <1>1, <2>2, <3>1, MessageLevel
    <3>2. CASE HeartTimeOut \/ TableGameStartTimeOut \/ TableKickTimeOut
      BY <1>1, <3>2, LobbyTimerCoins, LobbyingLevel
    <3>3. CASE BetTimeOut \/ CompareResultNotifyTimeOut
      <4>1. Staking
        BY <1>1, <3>3, FoldStakes DEF CInv, Coins
      <4>2. table'.status = table.status
        BY <4>1 DEF Staking, SameCoins, Staked
      <4>3. IsActive(table') => Even(table)
        BY <1>1, <4>2, EvenTable DEF IsActive, LInv
      <4> QED BY <3>3, <4>3, BetTimeOutEven, CompareResultEven
              DEF Even, AsksAlike
    <3>4. CASE GameOverTimeOut
      <4>1. table' = table \/ ~ IsActive(table')
        BY <1>1, <3>4, GameOverCoins DEF Settled
      <4> QED BY <4>1 DEF LInv, AsksAlike
    <3> QED BY <2>2, <3>1, <3>2, <3>3, <3>4 DEF Next, Timer
  <2> QED BY <2>1, <2>2
<1> QED BY <1>1, <1>2 DEF LInv, AsksAlike

\* The invariant holds at any time of a run in which nobody goes all in for
\* nothing.
LEMMA LInvHolds ==
    ASSUME MaxNum > 2, MinMoney >= Ante
    PROVE  Spec /\ [][RobotsStay]_vars /\ [][CoinsAllin]_vars => []LInv
<1>1. Init => LInv
  <2> SUFFICES ASSUME Init PROVE LInv
    OBVIOUS
  <2>1. ~ IsActive(table)
    BY DEF Init, FreshTable, IsActive
  <2> QED BY <2>1, InitDInv DEF LInv
<1>2. LInv /\ [Next]_vars /\ [RobotsStay]_vars /\ [CoinsAllin]_vars => LInv'
  BY NextLevel
<1> QED BY <1>1, <1>2, PTL DEF Spec

\* Whoever is all in has staked what he was asked for.
LEMMA LevelPaid ==
    ASSUME LInv
    PROVE  AllinsPaid
<1>1. CInv
  BY DEF LInv, DInv
<1>2. CASE ~ IsActive(table)
  <2>1. Players(table) = {}
    BY <1>1, <1>2 DEF CInv, HInv, IInv, TableInv, Core, Together, Players
  <2> QED BY <2>1 DEF Players, Holders, AllinsPaid
<1>3. CASE IsActive(table)
  <2> SUFFICES ASSUME NEW u \in Holders(table), table.allin[u]
               PROVE  table.bet[u] >= table.allinCoin[u]
    BY DEF AllinsPaid
  <2>1. table.hasAllin > 0 /\ table.bet[u] >= table.hasAllin
    BY <1>3 DEF LInv, Level
  <2>2. table.allinCoin[u] = table.hasAllin
    BY <1>3, <2>1 DEF LInv, Level, Stakers
  <2> QED BY <2>1, <2>2
<1> QED BY <1>2, <1>3

\* setPlayerlimitcoin asks the same of every card holder, and of everybody what
\* the first all-in was for once there is one: whoever is all in has paid it, in
\* every run in which nobody goes all in for nothing.
THEOREM AllinsPaidHolds ==
    ASSUME MaxNum > 2, MinMoney >= Ante
    PROVE  Spec /\ [][RobotsStay]_vars /\ [][CoinsAllin]_vars => []AllinsPaid
<1>1. LInv => AllinsPaid
  BY LevelPaid
<1> QED BY <1>1, LInvHolds, PTL

\* The half that is given back is less than a loser has staked.
LEMMA LoserLoses ==
    ASSUME CInv, NonNeg(table), AllinsPaid, NEW u \in Losers(HandOver(table))
    PROVE  Booked(HandOver(table), u) < 0 /\ Booked(HandOver(table), u) \in Int
<1> DEFINE h == HandOver(table)
           fin == FinalGetCoin(h)
<1>1. Typed(table) /\ Coins(table)
  BY DEF CInv, TInv
<1>2. /\ Numbers(h) /\ h.bet = table.bet
      /\ h.allin = table.allin /\ h.allinCoin = table.allinCoin
  BY <1>1, PaidCoins
<1>3. Shown(h) = Holders(table)
  BY HandIsShown
<1> HIDE DEF h
<1>4. u \in Played(h) /\ u \in User /\ u \notin Winners(h) /\ u \in Losers(h)
  BY DEF Losers, Played, InTable, h
<1>5. h.bet[u] \in Int /\ h.allinCoin[u] \in Int /\ h.bet[u] > 0
      /\ h.allinCoin[u] >= 0
  BY <1>2, <1>4 DEF Numbers, NonNeg, Losers
<1>6. Returned(h, u) \in Int /\ Returned(h, u) < h.bet[u]
  <2>1. CASE Returned(h, u) = 0
    BY <1>5, <2>1
  <2>2. CASE Returned(h, u) # 0
    <3>1. /\ h.card[u] = "UNKNOWN" /\ h.allin[u]
          /\ Returned(h, u) = h.allinCoin[u] \div 2
      BY <2>2 DEF Returned
    <3>2. u \in Holders(table)
      BY <1>3, <1>4, <3>1 DEF Shown
    <3>3. h.bet[u] >= h.allinCoin[u]
      BY <1>2, <3>1, <3>2 DEF AllinsPaid
    <3> HIDE DEF Returned
    <3> QED BY <1>5, <3>1, <3>3
  <2> QED BY <2>1, <2>2
<1>7. fin[u] = Returned(h, u) - h.bet[u]
  BY <1>4 DEF FinalGetCoin
<1> HIDE DEF fin
<1>8. fin[u] \in Int /\ fin[u] < 0
  BY <1>5, <1>6, <1>7
<1>9. AfterTax(fin[u]) = fin[u]
  BY <1>8, TaxLeaves
<1>10. Booked(h, u) = AfterTax(fin[u])
  BY <1>4 DEF Booked, fin
<1> QED BY <1>8, <1>9, <1>10 DEF h

\* A loser who is all in loses, in every run in which nobody goes all in for
\* nothing: set_loser_coin gives back half of an all-in that was paid, which is
\* less than the loser has bet.
THEOREM AllinLoserLosesHolds ==
    ASSUME MaxNum > 2, MinMoney >= Ante
    PROVE  Spec /\ [][RobotsStay]_vars /\ [][CoinsAllin]_vars => AllinLoserLoses
<1> DEFINE Lose == Settles =>
         \A u \in Losers(HandOver(table)) \ Robots :
            table.allin[u] => acct'[u] < acct[u]
<1>1. ASSUME LInv, [Next]_vars PROVE Lose
  <2> SUFFICES ASSUME Settles, NEW u \in Losers(HandOver(table)) \ Robots
               PROVE  acct'[u] < acct[u]
    OBVIOUS
  <2>1. CInv /\ HInv /\ NonNeg(table) /\ AllinsPaid
    BY <1>1, LevelPaid DEF LInv, DInv, CInv, Solvent
  <2>2. table.over /\ ~ table'.over
    BY <1>1, <2>1, NextPlays DEF Settles, HInv, IInv, TableInv, Core, Settling
  <2>3. GameOverTimeOut
    BY <1>1, <2>1, <2>2, NextPlays
  <2>4. u \in User \ Robots
    BY DEF Losers, Played, InTable
  <2>5. acct'[u] = acct[u] + Booked(HandOver(table), u)
    BY <2>1, <2>2, <2>3, <2>4, GameOverCoins
  <2>6. Booked(HandOver(table), u) < 0 /\ Booked(HandOver(table), u) \in Int
    BY <2>1, LoserLoses
  <2>7. acct[u] \in Int
    BY <2>1, <2>4 DEF CInv
  <2> HIDE DEF Lose
  <2> QED BY <2>5, <2>6, <2>7, SMTT(20)
<1> HIDE DEF Lose
<1>2. Spec /\ [][RobotsStay]_vars /\ [][CoinsAllin]_vars => []LInv
  BY LInvHolds
<1>3. LInv /\ [Next]_vars => [Lose]_vars
  BY <1>1
<1>4. Spec /\ [][RobotsStay]_vars /\ [][CoinsAllin]_vars => [][Lose]_vars
  BY <1>2, <1>3, PTL DEF Spec
<1> QED BY <1>4 DEF Lose, AllinLoserLoses
=============================================================================
