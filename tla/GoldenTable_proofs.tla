--------------------------- MODULE GoldenTable_proofs ---------------------------
(***************************************************************************)
(* Proofs about one table, for every number of users and every             *)
(* configuration of three chairs or more: who sits at it, its status, its  *)
(* lock and its timers stay in step, and it implements GoldenHand.         *)
(*                                                                         *)
(* The invariant TableInv is proved of the operators of GoldenTableOps one *)
(* by one.  An action is a composition of them, so its proof is a chain of *)
(* these lemmas.  The types, the invariant Typed, are proved the same way  *)
(* in the second part.                                                     *)
(*                                                                         *)
(* The third part is about the hand.  Spoken and Dropped say what an       *)
(* operator in the middle of the chain has left of the hand; EndsSpoken    *)
(* turns that, at the end of the handler, into a step of the abstract      *)
(* hand.  Rests does the same for what leaves the hand alone.              *)
(***************************************************************************)
EXTENDS GoldenTableHand, FiniteSetTheorems, TLAPS

Fields == DOMAIN FreshTable

\* The types of the fields the invariant is about
Shape(s) ==
    /\ DOMAIN s = Fields
    /\ s.seat \in [User -> Seats \cup {NoSeat}]
    /\ s.pst \in [User -> PlayerStatus]
    /\ s.card \in [User -> CardStatus]
    /\ s.preWin \in Seats \cup {NoSeat}
    /\ {s.over, s.lock, s.startT, s.kickT, s.overT} \subseteq BOOLEAN

\* CountMatches, ActiveTogether, OverIsTimed, LobbyTimersOff, LockHasTimer and
\* TurnOwnsTimer as predicates on a table
Counted(s) == s.count = Cardinality(InTable(s))
Together(s) == IsActive(s) <=> \E u \in InTable(s) : s.pst[u] = "ACTIVE"
Settling(s) == s.over = s.overT /\ (s.over => IsActive(s))
Lobby(s) == (IsActive(s) => ~ s.startT /\ ~ s.kickT) /\ (s.lock => s.kickT)
Clock(s) ==
    s.betT # None => /\ s.betT = s.currBet /\ s.betT \in InTable(s)
                     /\ s.pst[s.betT] = "ACTIVE" /\ ~ s.over

\* What every operator preserves
Core(s) ==
    /\ Shape(s) /\ Counted(s) /\ Together(s)
    /\ Settling(s) /\ Lobby(s) /\ Clock(s)

\* Core of a table whose settlement is under way
Seated(s) == Shape(s) /\ Counted(s) /\ Together(s) /\ Lobby(s) /\ Clock(s)

\* A hand that is not decided has two card holders: what keeps a leaver from
\* being the last active player of the hand.
TwoIn(s) ==
    IsActive(s) /\ ~ s.over => \E u, v \in Holders(s) : u # v

TableInv(s) == Core(s) /\ TwoIn(s)

\* The two tables differ at most in bets, cards and offers.
SameButCards(s, t) ==
    /\ DOMAIN t = DOMAIN s
    /\ t.status = s.status /\ t.count = s.count
    /\ t.seat = s.seat /\ t.pst = s.pst /\ t.preWin = s.preWin
    /\ t.over = s.over /\ t.overT = s.overT /\ t.lock = s.lock
    /\ t.startT = s.startT /\ t.kickT = s.kickT
    /\ t.betT = s.betT /\ t.currBet = s.currBet

Same(s, t) == SameButCards(s, t) /\ t.card = s.card

\* The two tables play the same hand, with the same cards and the same turn.
HandKept(s, t) ==
    /\ IsActive(t) <=> IsActive(s)
    /\ Holders(t) = Holders(s) /\ t.card = s.card
    /\ t.over = s.over /\ t.betT = s.betT

-----------------------------------------------------------------------------
(* Seats. *)

\* Of a nonempty set of users one is met first on any walk over the chairs.
LEMMA SomebodyIsMet ==
    ASSUME NEW s, NEW from \in Int, NEW S, S # {},
           \A v \in S : s.seat[v] \in Int
    PROVE  \E v \in S : \A w \in S :
             (s.seat[v] - from) % MaxNum <= (s.seat[w] - from) % MaxNum
<1> DEFINE key(v) == (s.seat[v] - from) % MaxNum
<1>1. \A v \in S : key(v) \in 0..4
  BY SeatAssumption
<1>2. \E v \in S : \A w \in S : key(v) <= key(w)
  <2> HIDE DEF key
  <2>0. CASE \E v \in S : key(v) = 0
    BY <1>1, <2>0
  <2>1. CASE (\E v \in S : key(v) = 1) /\ ~ \E v \in S : key(v) = 0
    BY <1>1, <2>1
  <2>2. CASE (\E v \in S : key(v) = 2) /\ ~ \E v \in S : key(v) \in 0..1
    BY <1>1, <2>2
  <2>3. CASE (\E v \in S : key(v) = 3) /\ ~ \E v \in S : key(v) \in 0..2
    BY <1>1, <2>3
  <2>4. CASE ~ \E v \in S : key(v) \in 0..3
    <3>1. \A v \in S : key(v) = 4
      BY <1>1, <2>4
    <3> QED BY <3>1
  <2> QED BY <2>0, <2>1, <2>2, <2>3, <2>4
<1> QED BY <1>2

\* The walk over the chairs in setNextFirstPlayer, getNextBetPlayer and
\* gameStart finds that one.
LEMMA FirstFromIn ==
    ASSUME NEW s, NEW from \in Int, NEW S, S # {},
           \A v \in S : s.seat[v] \in Int
    PROVE  FirstFrom(s, from, S) \in S
BY SomebodyIsMet DEF FirstFrom

\* The walk round the chairs (getNextBetPlayer) finds a player wherever there
\* is one.
LEMMA NextAfterIn ==
    ASSUME NEW s, NEW u \in User, NEW S \in SUBSET User, S # {}, Shape(s)
    PROVE  NextAfter(s, u, S) \in S
<1>1. \A v \in User : s.seat[v] \in Int
  BY SeatAssumption DEF Shape, Seats, NoSeat
<1> QED BY <1>1, FirstFromIn DEF NextAfter

\* playerSeatInTab takes the first free chair of its order.
LEMMA FreeChairLeast ==
    ASSUME NEW s, FreeChairs(s) # {}
    PROVE  (CHOOSE i \in FreeChairs(s) : \A j \in FreeChairs(s) : i <= j)
             \in FreeChairs(s)
<1> DEFINE F == FreeChairs(s)
<1>1. F \subseteq 1..5 /\ F # {}
  BY SeatAssumption DEF FreeChairs
<1>2. \E i \in F : \A j \in F : i <= j
  <2> HIDE DEF F
  <2>1. CASE 1 \in F
    BY <1>1, <2>1
  <2>2. CASE 2 \in F /\ 1 \notin F
    BY <1>1, <2>2
  <2>3. CASE 3 \in F /\ 1 \notin F /\ 2 \notin F
    BY <1>1, <2>3
  <2>4. CASE 4 \in F /\ 1 \notin F /\ 2 \notin F /\ 3 \notin F
    BY <1>1, <2>4
  <2>5. CASE 1 \notin F /\ 2 \notin F /\ 3 \notin F /\ 4 \notin F
    <3>1. \A i \in F : i = 5
      BY <1>1, <2>5
    <3>2. PICK i \in F : TRUE
      BY <1>1
    <3>3. \A j \in F : i <= j
      BY <3>1, <3>2
    <3> QED BY <3>2, <3>3
  <2> QED BY <2>1, <2>2, <2>3, <2>4, <2>5
<1> QED BY <1>2

\* That chair is one the loops over the players visit.
LEMMA ChairIn ==
    ASSUME NEW s, FreeChairs(s) # {}, MaxNum > 2
    PROVE  SeatOrder[CHOOSE i \in FreeChairs(s) :
                       \A j \in FreeChairs(s) : i <= j] \in Seats
<1>1. (CHOOSE i \in FreeChairs(s) : \A j \in FreeChairs(s) : i <= j)
        \in 1..MaxNum
  BY FreeChairLeast DEF FreeChairs
<1> QED BY <1>1, SeatAssumption DEF SeatOrder, Seats

\* The highest of a nonempty set of chairs is one of them.
LEMMA MaxIn ==
    ASSUME NEW S \in SUBSET Seats, S # {}
    PROVE  Max(S) \in S
<1>1. S \subseteq 0..4
  BY SeatAssumption DEF Seats
<1>2. \E x \in S : \A y \in S : x >= y
  <2>1. CASE 4 \in S
    BY <1>1, <2>1
  <2>2. CASE 3 \in S /\ 4 \notin S
    BY <1>1, <2>2
  <2>3. CASE 2 \in S /\ 3 \notin S /\ 4 \notin S
    BY <1>1, <2>3
  <2>4. CASE 1 \in S /\ 2 \notin S /\ 3 \notin S /\ 4 \notin S
    BY <1>1, <2>4
  <2>5. CASE 1 \notin S /\ 2 \notin S /\ 3 \notin S /\ 4 \notin S
    <3>1. \A x \in S : x = 0
      BY <1>1, <2>5
    <3> QED BY <3>1
  <2> QED BY <2>1, <2>2, <2>3, <2>4, <2>5
<1> QED BY <1>2 DEF Max

\* The chairs as a circle: the remainders that the walks compute.
LEMMA OffIs ==
    ASSUME NEW a \in Seats, NEW b \in Seats
    PROVE  /\ (a - b) % MaxNum = IF a >= b THEN a - b ELSE a - b + MaxNum
           /\ (a - (b + 1)) % MaxNum
                = IF a > b THEN a - b - 1 ELSE a - b - 1 + MaxNum
<1>1. MaxNum = 2 \/ MaxNum = 3 \/ MaxNum = 4 \/ MaxNum = 5
  BY SeatAssumption
<1>2. CASE MaxNum = 2
  BY <1>2 DEF Seats
<1>3. CASE MaxNum = 3
  BY <1>3 DEF Seats
<1>4. CASE MaxNum = 4
  BY <1>4 DEF Seats
<1>5. CASE MaxNum = 5
  BY <1>5 DEF Seats
<1> QED BY <1>1, <1>2, <1>3, <1>4, <1>5

\* On the walk that starts after c, n is met no later than v.  If the walk
\* passes the first speaker f with n, or v comes before n in the round, then v
\* came before c.
LEMMA Circle ==
    ASSUME NEW f \in Seats, NEW c \in Seats, NEW n \in Seats, NEW v \in Seats,
           n # c, v # c, (n - (c + 1)) % MaxNum <= (v - (c + 1)) % MaxNum
    PROVE  /\ n = f => (v - f) % MaxNum < (c - f) % MaxNum
           /\ (v - f) % MaxNum < (n - f) % MaxNum
                => (v - f) % MaxNum < (c - f) % MaxNum
<1>1. /\ (v - f) % MaxNum = IF v >= f THEN v - f ELSE v - f + MaxNum
      /\ (c - f) % MaxNum = IF c >= f THEN c - f ELSE c - f + MaxNum
      /\ (n - f) % MaxNum = IF n >= f THEN n - f ELSE n - f + MaxNum
  BY OffIs
<1>2. /\ (n - (c + 1)) % MaxNum = IF n > c THEN n - c - 1 ELSE n - c - 1 + MaxNum
      /\ (v - (c + 1)) % MaxNum = IF v > c THEN v - c - 1 ELSE v - c - 1 + MaxNum
  BY OffIs
<1> DEFINE vf == (v - f) % MaxNum
           cf == (c - f) % MaxNum
           nf == (n - f) % MaxNum
           nc == (n - (c + 1)) % MaxNum
           vc == (v - (c + 1)) % MaxNum
<1>3. /\ vf = IF v >= f THEN v - f ELSE v - f + MaxNum
      /\ cf = IF c >= f THEN c - f ELSE c - f + MaxNum
      /\ nf = IF n >= f THEN n - f ELSE n - f + MaxNum
      /\ nc = IF n > c THEN n - c - 1 ELSE n - c - 1 + MaxNum
      /\ vc = IF v > c THEN v - c - 1 ELSE v - c - 1 + MaxNum
      /\ nc <= vc
  BY <1>1, <1>2
<1> HIDE DEF vf, cf, nf, nc, vc
<1>4. /\ n = f => vf < cf
      /\ vf < nf => vf < cf
  BY <1>3, SeatAssumption DEF Seats
<1> QED BY <1>4 DEF vf, cf, nf

\* If somebody sits at f and the walk that starts after c meets n first, it does
\* not pass f: n comes after c in the round.
LEMMA CircleBack ==
    ASSUME NEW f \in Seats, NEW c \in Seats, NEW n \in Seats,
           f # c, n # c, n # f, (n - (c + 1)) % MaxNum <= (f - (c + 1)) % MaxNum
    PROVE  (c - f) % MaxNum < (n - f) % MaxNum
<1> DEFINE cf == (c - f) % MaxNum
           nf == (n - f) % MaxNum
           nc == (n - (c + 1)) % MaxNum
           fc == (f - (c + 1)) % MaxNum
<1>1. /\ cf = IF c >= f THEN c - f ELSE c - f + MaxNum
      /\ nf = IF n >= f THEN n - f ELSE n - f + MaxNum
      /\ nc = IF n > c THEN n - c - 1 ELSE n - c - 1 + MaxNum
      /\ fc = IF f > c THEN f - c - 1 ELSE f - c - 1 + MaxNum
      /\ nc <= fc
  BY OffIs
<1> HIDE DEF cf, nf, nc, fc
<1>2. cf < nf
  BY <1>1, SeatAssumption DEF Seats
<1> QED BY <1>2 DEF cf, nf

\* The first speaker f hands the mark to w, who is met first after f: the others
\* keep their order.
LEMMA CircleOn ==
    ASSUME NEW f \in Seats, NEW w \in Seats, NEW x \in Seats, NEW y \in Seats,
           x # f, y # f, w # f,
           (w - (f + 1)) % MaxNum <= (x - (f + 1)) % MaxNum,
           (w - (f + 1)) % MaxNum <= (y - (f + 1)) % MaxNum
    PROVE  (x - w) % MaxNum < (y - w) % MaxNum
             <=> (x - f) % MaxNum < (y - f) % MaxNum
<1> DEFINE xw == (x - w) % MaxNum
           yw == (y - w) % MaxNum
           xf == (x - f) % MaxNum
           yf == (y - f) % MaxNum
           wk == (w - (f + 1)) % MaxNum
           xk == (x - (f + 1)) % MaxNum
           yk == (y - (f + 1)) % MaxNum
<1>1. /\ xw = IF x >= w THEN x - w ELSE x - w + MaxNum
      /\ yw = IF y >= w THEN y - w ELSE y - w + MaxNum
      /\ xf = IF x >= f THEN x - f ELSE x - f + MaxNum
      /\ yf = IF y >= f THEN y - f ELSE y - f + MaxNum
  BY OffIs
<1>2. /\ wk = IF w > f THEN w - f - 1 ELSE w - f - 1 + MaxNum
      /\ xk = IF x > f THEN x - f - 1 ELSE x - f - 1 + MaxNum
      /\ yk = IF y > f THEN y - f - 1 ELSE y - f - 1 + MaxNum
      /\ wk <= xk /\ wk <= yk
  BY OffIs
<1> HIDE DEF xw, yw, xf, yf, wk, xk, yk
<1>3. xw < yw <=> xf < yf
  BY <1>1, <1>2, SeatAssumption DEF Seats
<1> QED BY <1>3 DEF xw, yw, xf, yf

\* The player met first after u is met no later than anybody else.
LEMMA NextAfterLeast ==
    ASSUME NEW s, NEW u \in User, NEW S \in SUBSET User, S # {}, Shape(s)
    PROVE  LET n == NextAfter(s, u, S)
           IN n \in S /\ \A w \in S :
                (s.seat[n] - (s.seat[u] + 1)) % MaxNum
                  <= (s.seat[w] - (s.seat[u] + 1)) % MaxNum
<1>1. \A v \in User : s.seat[v] \in Int
  BY SeatAssumption DEF Shape, Seats, NoSeat
<1>2. s.seat[u] + 1 \in Int
  BY <1>1
<1>3. \E v \in S : \A w \in S :
         (s.seat[v] - (s.seat[u] + 1)) % MaxNum
           <= (s.seat[w] - (s.seat[u] + 1)) % MaxNum
  BY <1>1, <1>2, SomebodyIsMet
<1> QED BY <1>3, Zenon DEF NextAfter, FirstFrom

-----------------------------------------------------------------------------
(* What the operators leave alone. *)

\* Core does not look at anybody's cards.
LEMMA CoreKept ==
    ASSUME NEW s, NEW t, Core(s), SameButCards(s, t),
           t.card \in [User -> CardStatus]
    PROVE  Core(t)
<1>1. InTable(t) = InTable(s)
  BY DEF SameButCards, InTable
<1>2. Shape(t)
  BY DEF Core, Shape, SameButCards
<1>3. Counted(t) /\ Together(t)
  BY <1>1 DEF Core, Counted, Together, SameButCards, IsActive
<1>4. Settling(t) /\ Lobby(t) /\ Clock(t)
  BY <1>1 DEF Core, Settling, Lobby, Clock, SameButCards, IsActive
<1> QED BY <1>2, <1>3, <1>4 DEF Core

\* Tables that differ only in fields Core does not read have the same players
\* and card holders.
LEMMA HoldersKept ==
    ASSUME NEW s, NEW t, Same(s, t)
    PROVE  Holders(t) = Holders(s) /\ InTable(t) = InTable(s)
BY DEF Same, SameButCards, Holders, InTable

\* ... and keep TableInv together.
LEMMA InvKept ==
    ASSUME NEW s, NEW t, TableInv(s), Same(s, t)
    PROVE  TableInv(t)
<1>1. Core(t)
  BY CoreKept DEF TableInv, Core, Shape, Same
<1>2. TwoIn(t)
  BY HoldersKept DEF TableInv, TwoIn, IsActive, Same, SameButCards
<1> QED BY <1>1, <1>2 DEF TableInv

\* setPlayerOptype only tells a player what he may do.
LEMMA SetPlayerOptypeSame ==
    ASSUME NEW s, NEW u, Shape(s)
    PROVE  Same(s, SetPlayerOptype(s, u))
BY DEF SetPlayerOptype, Shape, Fields, FreshTable, Same, SameButCards

\* setPlayerlimitcoin only sets the all-in limits.
LEMMA SetPlayerLimitCoinSame ==
    ASSUME NEW s, Shape(s)
    PROVE  Same(s, SetPlayerLimitCoin(s))
BY DEF SetPlayerLimitCoin, Shape, Fields, FreshTable, Same, SameButCards

\* setNextFirstPlayer moves a mark, no cards and nobody's chair.
LEMMA SetNextFirstSame ==
    ASSUME NEW s, NEW u, Shape(s)
    PROVE  Same(s, SetNextFirst(s, u))
BY DEF SetNextFirst, Shape, Fields, FreshTable, Same, SameButCards

\* playerBetCoin moves coins, no cards and nobody's chair.
LEMMA PlayerBetCoinSame ==
    ASSUME NEW s, NEW u, NEW x, Shape(s)
    PROVE  Same(s, PlayerBetCoin(s, u, x))
BY DEF PlayerBetCoin, Shape, Fields, FreshTable, Same, SameButCards

\* What a leaver forfeits are coins.
LEMMA ForfeitSame ==
    ASSUME NEW s, NEW u, Shape(s)
    PROVE  Same(s, Forfeit(s, u))
BY DEF Forfeit, Shape, Fields, FreshTable, Same, SameButCards

\* Giving up the cards takes one holder out of the hand and changes nothing
\* else Core reads.
LEMMA DiscardKeeps ==
    ASSUME NEW s, NEW u, Core(s)
    PROVE  /\ Core(Discard(s, u)) /\ SameButCards(s, Discard(s, u))
           /\ Holders(Discard(s, u)) = Holders(s) \ {u}
<1>1. SameButCards(s, Discard(s, u))
  BY DEF Discard, Core, Shape, Fields, FreshTable, SameButCards
<1>2. Discard(s, u).card = [s.card EXCEPT ![u] = "DISCARD"]
  BY DEF Discard, Core, Shape, Fields, FreshTable
<1>3. Discard(s, u).card \in [User -> CardStatus]
  BY <1>2 DEF Core, Shape, CardStatus
<1>4. Holders(Discard(s, u)) = Holders(s) \ {u}
  BY <1>1, <1>2 DEF Holders, InTable, SameButCards, Core, Shape
<1> QED BY <1>1, <1>3, <1>4, CoreKept

-----------------------------------------------------------------------------
(* The hand. *)

\* gameOver is called on a table at play; it may be called twice.
LEMMA GameOverInv ==
    ASSUME NEW s, Core(s), IsActive(s)
    PROVE  /\ TableInv(GameOver(s)) /\ GameOver(s).betT = None
           /\ GameOver(s).over /\ InTable(GameOver(s)) = InTable(s)
           /\ GameOver(s).seat = s.seat /\ GameOver(s).pst = s.pst
           /\ GameOver(s).card = s.card /\ IsActive(GameOver(s))
<1> DEFINE t == GameOver(s)
<1>1. /\ DOMAIN t = Fields
      /\ t.status = s.status /\ t.count = s.count
      /\ t.seat = s.seat /\ t.pst = s.pst /\ t.preWin = s.preWin
      /\ t.card = s.card /\ t.over = TRUE /\ t.overT = TRUE
      /\ t.lock = s.lock /\ t.startT = s.startT /\ t.kickT = s.kickT
      /\ t.betT = None /\ t.currBet = s.currBet
  BY DEF GameOver, Core, Shape, Fields, FreshTable
<1>2. InTable(t) = InTable(s) /\ IsActive(t)
  BY <1>1 DEF InTable, IsActive
<1> HIDE DEF t
<1>3. Shape(t)
  BY <1>1 DEF Core, Shape
<1>4. Counted(t) /\ Together(t)
  BY <1>1, <1>2 DEF Core, Counted, Together
<1>5. Settling(t) /\ Lobby(t) /\ Clock(t) /\ TwoIn(t)
  BY <1>1, <1>2 DEF Core, Settling, Lobby, Clock, IsActive, TwoIn
<1>6. TableInv(t)
  BY <1>3, <1>4, <1>5 DEF TableInv, Core
<1> QED BY <1>1, <1>2, <1>6 DEF t

\* A handler that ends with "if (iscanGameOver()) gameOver()" leaves two card
\* holders or a hand that is over.
LEMMA GameOverIfDecidedInv ==
    ASSUME NEW s, Core(s)
    PROVE  TableInv(GameOverIfDecided(s))
<1>1. CASE IsCanGameOver(s)
  <2>1. IsActive(s)
    BY <1>1 DEF IsCanGameOver
  <2> QED BY <1>1, <2>1, GameOverInv DEF GameOverIfDecided
<1>2. CASE ~ IsCanGameOver(s)
  <2>1. TwoIn(s)
    BY <1>2 DEF IsCanGameOver, TwoIn
  <2> QED BY <1>2, <2>1 DEF GameOverIfDecided, TableInv
<1> QED BY <1>1, <1>2

\* getNextBetPlayer gives the clock to another card holder, stops it, or ends
\* the hand.
LEMMA GetNextBetPlayerCore ==
    ASSUME NEW s, NEW u \in User, Core(s), IsActive(s), ~ s.over
    PROVE  LET t == GetNextBetPlayer(s, u)
           IN /\ Core(t) /\ IsActive(t)
              /\ t.seat = s.seat /\ t.pst = s.pst /\ t.card = s.card
              /\ t.betT = None \/ t.betT \in Holders(s) \ {u}
<1> DEFINE able == AbleToBet(s, u)
           next == NextAfter(s, u, able)
           r == IF s.seat[next] = s.first THEN s.round + 1 ELSE s.round
           acted == [s EXCEPT !.betT = None,
                              !.tmo[u] = IF s.round # 1 THEN 0 ELSE @]
           turn == [acted EXCEPT !.round = r, !.currBet = next]
           asked == SetPlayerOptype(turn, next)
           clocked == [asked EXCEPT !.betT = next]
<1>1. /\ DOMAIN acted = Fields
      /\ acted.status = s.status /\ acted.count = s.count
      /\ acted.seat = s.seat /\ acted.pst = s.pst
      /\ acted.preWin = s.preWin /\ acted.card = s.card
      /\ acted.over = s.over /\ acted.overT = s.overT
      /\ acted.lock = s.lock /\ acted.startT = s.startT
      /\ acted.kickT = s.kickT /\ acted.betT = None
      /\ acted.currBet = s.currBet
  BY DEF Core, Shape, Fields, FreshTable
<1>2. Core(acted) /\ IsActive(acted)
  <2> HIDE DEF acted
  <2>1. InTable(acted) = InTable(s)
    BY <1>1 DEF InTable
  <2>2. Shape(acted) /\ Counted(acted)
    BY <1>1, <2>1 DEF Core, Shape, Counted
  <2>3. Together(acted) /\ Settling(acted) /\ Lobby(acted) /\ Clock(acted)
    BY <1>1, <2>1
    DEF Core, Together, Settling, Lobby, Clock, IsActive
  <2> QED BY <1>1, <2>2, <2>3 DEF Core, IsActive
<1>3. CASE able = {}
  <2>1. GetNextBetPlayer(s, u) = SetPlayerOptype(acted, u)
    BY <1>3 DEF GetNextBetPlayer
  <2>2. Same(acted, SetPlayerOptype(acted, u))
    BY <1>2, SetPlayerOptypeSame DEF Core
  <2> HIDE DEF acted
  <2>3. Core(SetPlayerOptype(acted, u))
    BY <1>2, <2>2, CoreKept DEF Same, Core, Shape
  <2> QED BY <1>1, <1>2, <2>1, <2>2, <2>3 DEF Same, SameButCards, IsActive
<1>4. CASE able # {} /\ PastLastRound(r)
  <2> DEFINE over == GameOver(acted)
             t == [over EXCEPT !.round = MaxRound]
  <2>1. GetNextBetPlayer(s, u) = t
    BY <1>4 DEF GetNextBetPlayer
  <2>2. TableInv(over) /\ over.betT = None /\ IsActive(over)
        /\ over.seat = acted.seat /\ over.pst = acted.pst
        /\ over.card = acted.card
    BY <1>2, GameOverInv
  <2> HIDE DEF over
  <2>3. Same(over, t)
    BY <2>2 DEF TableInv, Core, Shape, Fields, FreshTable, Same, SameButCards
  <2>4. Core(t)
    BY <2>2, <2>3, InvKept DEF TableInv
  <2> HIDE DEF t, acted
  <2> QED BY <1>1, <2>1, <2>2, <2>3, <2>4 DEF Same, SameButCards, IsActive
<1>5. CASE able # {} /\ ~ PastLastRound(r)
  <2>1. able \subseteq Holders(s) \ {u} /\ able \subseteq User
    BY DEF AbleToBet, Holders, InTable
  <2>2. next \in able
    BY <1>5, <2>1, NextAfterIn DEF Core
  <2>3. GetNextBetPlayer(s, u) = SetPlayerLimitCoin(clocked)
    BY <1>5 DEF GetNextBetPlayer
  <2> HIDE DEF able, next, r
  <2>4. Shape(turn)
    BY DEF Core, Shape, Fields, FreshTable
  <2>5. Same(turn, asked)
    BY <2>4, SetPlayerOptypeSame
  <2> HIDE DEF asked
  <2>6. /\ DOMAIN clocked = Fields
        /\ clocked.status = s.status /\ clocked.count = s.count
        /\ clocked.seat = s.seat /\ clocked.pst = s.pst
        /\ clocked.preWin = s.preWin /\ clocked.card = s.card
        /\ clocked.over = s.over /\ clocked.overT = s.overT
        /\ clocked.lock = s.lock /\ clocked.startT = s.startT
        /\ clocked.kickT = s.kickT /\ clocked.betT = next
        /\ clocked.currBet = next
    BY <2>5 DEF Core, Shape, Fields, FreshTable, Same, SameButCards
  <2> HIDE DEF clocked
  <2>7. Core(clocked)
    <3>1. InTable(clocked) = InTable(s)
      BY <2>6 DEF InTable
    <3>2. Shape(clocked) /\ Counted(clocked)
      BY <2>6, <3>1 DEF Core, Shape, Counted
    <3>3. Together(clocked) /\ Settling(clocked) /\ Lobby(clocked)
      BY <2>6, <3>1 DEF Core, Together, Settling, Lobby, IsActive
    <3>4. Clock(clocked)
      BY <2>1, <2>2, <2>6, <3>1 DEF Clock, Holders
    <3> QED BY <3>2, <3>3, <3>4 DEF Core
  <2>8. Same(clocked, SetPlayerLimitCoin(clocked))
    BY <2>7, SetPlayerLimitCoinSame DEF Core
  <2>9. Core(SetPlayerLimitCoin(clocked))
    BY <2>7, <2>8, CoreKept DEF Same, Core, Shape
  <2> QED BY <2>1, <2>2, <2>3, <2>6, <2>8, <2>9
          DEF Same, SameButCards, IsActive
<1> QED BY <1>3, <1>4, <1>5

-----------------------------------------------------------------------------
(* Coming and leaving. *)

\* A table has finitely many players, for there are finitely many users.
LEMMA InTableFinite ==
    ASSUME NEW s
    PROVE  IsFiniteSet(InTable(s)) /\ Cardinality(InTable(s)) \in Nat
<1>1. InTable(s) \subseteq User
  BY DEF InTable
<1> QED BY <1>1, UserAssumption, FS_Subset, FS_CardinalityType

\* A table that counts two players or more has two.
LEMMA TwoOrMore ==
    ASSUME NEW s, Counted(s), s.count > 1
    PROVE  InTable(s) # {} /\ \A u : InTable(s) # {u}
<1>1. Cardinality(InTable(s)) > 1
  BY DEF Counted
<1>2. InTable(s) # {}
  <2>1. Cardinality({}) = 0
    BY FS_EmptySet
  <2> QED BY <1>1, <2>1
<1>3. ASSUME NEW u, InTable(s) = {u} PROVE FALSE
  <2>1. Cardinality({u}) = 1
    BY FS_Singleton
  <2> QED BY <1>1, <1>3, <2>1
<1> QED BY <1>2, <1>3

\* setKickTimer never touches a table at play.
LEMMA SetKickTimerInv ==
    ASSUME NEW s, TableInv(s)
    PROVE  /\ TableInv(SetKickTimer(s))
           /\ SetKickTimer(s).pst = s.pst /\ SetKickTimer(s).seat = s.seat
           /\ SetKickTimer(s).status = s.status
           /\ SetKickTimer(s).count = s.count
<1> DEFINE t == [s EXCEPT !.kickT = TRUE, !.lock = TRUE]
<1>1. CASE IsActive(s) \/ s.count <= 1
  BY <1>1 DEF SetKickTimer
<1>2. CASE ~ (IsActive(s) \/ s.count <= 1)
  <2>1. SetKickTimer(s) = t
    BY <1>2 DEF SetKickTimer
  <2>2. /\ DOMAIN t = Fields
        /\ t.status = s.status /\ t.count = s.count
        /\ t.seat = s.seat /\ t.pst = s.pst /\ t.preWin = s.preWin
        /\ t.card = s.card /\ t.over = s.over /\ t.overT = s.overT
        /\ t.startT = s.startT /\ t.kickT = TRUE /\ t.lock = TRUE
        /\ t.betT = s.betT /\ t.currBet = s.currBet
    BY DEF TableInv, Core, Shape, Fields, FreshTable
  <2> HIDE DEF t
  <2>3. InTable(t) = InTable(s) /\ ~ IsActive(t)
    BY <1>2, <2>2 DEF InTable, IsActive
  <2>4. Shape(t) /\ Counted(t)
    BY <2>2, <2>3 DEF TableInv, Core, Shape, Counted
  <2>5. Together(t) /\ Settling(t) /\ Lobby(t) /\ Clock(t) /\ TwoIn(t)
    BY <1>2, <2>2, <2>3 DEF TableInv, Core, Together, Settling, Lobby, Clock,
                            TwoIn
  <2> QED BY <2>1, <2>2, <2>4, <2>5 DEF TableInv, Core
<1> QED BY <1>1, <1>2

\* playerComming: the newcomer gets a chair of the table, is counted, and is
\* not in the hand.
LEMMA PlayerCommingInv ==
    ASSUME NEW s, NEW u \in User, NEW m, TableInv(s), MaxNum > 2,
           s.seat[u] = NoSeat, FreeChairs(s) # {}
    PROVE  TableInv(PlayerComming(s, u, m)) /\ HandKept(s, PlayerComming(s, u, m))
<1> DEFINE chair == SeatOrder[CHOOSE i \in FreeChairs(s) :
                                \A j \in FreeChairs(s) : i <= j]
           t == PlayerComming(s, u, m)
<1>1. chair \in Seats
  BY ChairIn
<1> HIDE DEF chair
<1>2. /\ DOMAIN t = Fields
      /\ t.status = WaitingStatus(s) /\ t.count = s.count + 1
      /\ t.seat = [s.seat EXCEPT ![u] = chair]
      /\ t.pst = [s.pst EXCEPT ![u] = "COMING"]
      /\ t.preWin = s.preWin /\ t.card = s.card
      /\ t.over = s.over /\ t.overT = s.overT /\ t.lock = s.lock
      /\ t.startT = s.startT /\ t.kickT = s.kickT
      /\ t.betT = s.betT /\ t.currBet = s.currBet
  BY DEF PlayerComming, chair, TableInv, Core, Shape, Fields, FreshTable
<1> HIDE DEF t
<1>3. u \notin InTable(s)
  BY SeatAssumption DEF InTable, NoSeat, Seats
<1>4. InTable(t) = InTable(s) \cup {u}
  BY <1>1, <1>2 DEF InTable, TableInv, Core, Shape
<1>5. IsActive(t) <=> IsActive(s)
  BY <1>2 DEF IsActive, WaitingStatus
<1>6. Shape(t)
  BY <1>1, <1>2 DEF TableInv, Core, Shape, PlayerStatus
<1>7. Counted(t)
  BY <1>2, <1>3, <1>4, InTableFinite, FS_AddElement DEF TableInv, Core, Counted
<1>8. \A v \in InTable(s) : t.pst[v] = s.pst[v]
  BY <1>2, <1>3 DEF TableInv, Core, Shape, InTable
<1>9. t.pst[u] = "COMING"
  BY <1>2 DEF TableInv, Core, Shape
<1>10. Together(t)
  BY <1>4, <1>5, <1>8, <1>9 DEF TableInv, Core, Together
<1>11. Settling(t) /\ Lobby(t)
  BY <1>2, <1>5 DEF TableInv, Core, Settling, Lobby
<1>12. Clock(t)
  BY <1>2, <1>4, <1>8 DEF TableInv, Core, Clock
<1>13. Holders(t) = Holders(s)
  BY <1>2, <1>3, <1>4, <1>8, <1>9 DEF Holders
<1>14. TwoIn(t)
  BY <1>2, <1>5, <1>13 DEF TableInv, TwoIn
<1> QED BY <1>2, <1>5, <1>6, <1>7, <1>10, <1>11, <1>12, <1>13, <1>14
        DEF TableInv, Core, HandKept, t

\* playerLeave, of players none of whom has the clock, and not of all who play
LEMMA PlayersLeaveCore ==
    ASSUME NEW s, NEW G \in SUBSET InTable(s), Seated(s), s.betT \notin G,
           IsActive(s) => \E v \in InTable(s) \ G : s.pst[v] = "ACTIVE"
    PROVE  LET t == PlayersLeave(s, G)
           IN /\ Seated(t) /\ InTable(t) = InTable(s) \ G
              /\ IsActive(t) <=> IsActive(s)
              /\ t.count = s.count - Cardinality(G)
              /\ IsActive(s) => t.over = s.over
              /\ Settling(s) => Settling(t)
              /\ t.overT = s.overT
              /\ Holders(t) = Holders(s) \ G
              /\ \A v \in User \ G : t.pst[v] = s.pst[v] /\ t.card[v] = s.card[v]
              /\ \A v \in G : t.card[v] = "DISCARD"
              /\ IsActive(s) => t.betT = s.betT
<1> DEFINE n == CountAfter(s, G)
           Out(f, x) == [u \in User |-> IF u \in G THEN x ELSE f[u]]
           out == [s EXCEPT
             !.seat = Out(@, NoSeat), !.pst = Out(@, "LOGOUT"),
             !.card = Out(@, "DISCARD"), !.money = Out(@, 0),
             !.bet = Out(@, 0), !.allin = Out(@, FALSE),
             !.allinCoin = Out(@, 0), !.drop = Out(@, FALSE),
             !.tmo = Out(@, 0), !.rank = Out(@, 0),
             !.count = n, !.status = WaitingStatus(s)]
           one == [out EXCEPT !.kickT = FALSE, !.lock = FALSE]
           t == PlayersLeave(s, G)
<1>1. t = IF G = {} THEN s ELSE IF n = 0 THEN InitTable(out)
          ELSE IF n = 1 THEN one ELSE out
  BY DEF PlayersLeave
<1>2. /\ DOMAIN out = Fields
      /\ out.status = WaitingStatus(s) /\ out.count = n
      /\ out.seat = Out(s.seat, NoSeat) /\ out.pst = Out(s.pst, "LOGOUT")
      /\ out.card = Out(s.card, "DISCARD") /\ out.preWin = s.preWin
      /\ out.over = s.over /\ out.overT = s.overT /\ out.lock = s.lock
      /\ out.startT = s.startT /\ out.kickT = s.kickT
      /\ out.betT = s.betT /\ out.currBet = s.currBet
  BY DEF Seated, Shape, Fields, FreshTable
<1> HIDE DEF out
<1>3. /\ DOMAIN one = Fields
      /\ one.status = out.status /\ one.count = n
      /\ one.seat = out.seat /\ one.pst = out.pst
      /\ one.card = out.card /\ one.preWin = s.preWin
      /\ one.over = s.over /\ one.overT = s.overT /\ one.lock = FALSE
      /\ one.startT = s.startT /\ one.kickT = FALSE
      /\ one.betT = s.betT /\ one.currBet = s.currBet
  BY <1>2 DEF Fields, FreshTable
<1>4. LET i == InitTable(out)
      IN /\ DOMAIN i = Fields
         /\ i.status = "EMPTY" /\ i.count = 0
         /\ i.seat = out.seat /\ i.pst = out.pst
         /\ i.card = out.card /\ i.preWin = NoSeat
         /\ i.over = FALSE /\ i.overT = s.overT /\ i.lock = FALSE
         /\ i.startT = FALSE /\ i.kickT = FALSE
         /\ i.betT = None /\ i.currBet = s.currBet
  BY <1>2 DEF InitTable, Cleared, Fields, FreshTable
<1>5. n = Cardinality(InTable(s) \ G) /\ IsFiniteSet(InTable(s) \ G)
  <2>1. G = InTable(s) \cap G
    OBVIOUS
  <2>2. Cardinality(InTable(s) \ G) = Cardinality(InTable(s)) - Cardinality(G)
    BY <2>1, InTableFinite, FS_Difference
  <2>3. IsFiniteSet(InTable(s) \ G)
    BY InTableFinite, FS_Difference
  <2> QED BY <2>2, <2>3 DEF CountAfter, Seated, Counted
<1>6. n = 0 <=> InTable(s) \ G = {}
  BY <1>5, FS_EmptySet
<1>7. n \in Nat
  BY <1>5, FS_CardinalityType
<1> HIDE DEF n, one
<1>8. CASE G = {}
  <2>1. t = s /\ n = s.count
    BY <1>1, <1>8, FS_EmptySet, InTableFinite DEF n, CountAfter, Seated, Counted
  <2> QED BY <1>8, <2>1 DEF n, CountAfter
<1>9. CASE G # {}
  <2> HIDE DEF t
  <2>1. /\ DOMAIN t = Fields /\ t.count = n
        /\ t.seat = Out(s.seat, NoSeat) /\ t.pst = Out(s.pst, "LOGOUT")
        /\ t.card = Out(s.card, "DISCARD")
        /\ t.overT = s.overT /\ t.currBet = s.currBet
        /\ t.preWin \in {s.preWin, NoSeat}
    BY <1>1, <1>2, <1>3, <1>4, <1>9
  <2>2. InTable(t) = InTable(s) \ G
    BY <2>1, SeatAssumption DEF InTable, Seats, NoSeat
  <2>3. \A v \in User \ G : t.pst[v] = s.pst[v] /\ t.card[v] = s.card[v]
    BY <2>1
  <2>4. \/ /\ n = 0 /\ t.status = "EMPTY" /\ t.over = FALSE /\ t.lock = FALSE
           /\ t.startT = FALSE /\ t.kickT = FALSE /\ t.betT = None
        \/ /\ n # 0 /\ t.status = WaitingStatus(s) /\ t.over = s.over
           /\ t.startT = s.startT /\ t.betT = s.betT
           /\ \/ t.lock = FALSE /\ t.kickT = FALSE
              \/ t.lock = s.lock /\ t.kickT = s.kickT
    BY <1>1, <1>2, <1>3, <1>4, <1>9
  <2>5. IsActive(s) => n # 0
    BY <1>6
  <2>6. IsActive(t) <=> IsActive(s)
    BY <2>4, <2>5 DEF IsActive, WaitingStatus
  <2>7. Shape(t)
    <3>1. {t.over, t.lock, t.startT, t.kickT, t.overT} \subseteq BOOLEAN
      BY <2>1, <2>4 DEF Seated, Shape
    <3>2. t.seat \in [User -> Seats \cup {NoSeat}]
      BY <2>1 DEF Seated, Shape
    <3>3. t.pst \in [User -> PlayerStatus]
      BY <2>1 DEF Seated, Shape, PlayerStatus
    <3>4. t.card \in [User -> CardStatus]
      BY <2>1 DEF Seated, Shape, CardStatus
    <3> QED BY <2>1, <3>1, <3>2, <3>3, <3>4 DEF Seated, Shape
  <2>8. Counted(t)
    BY <1>5, <2>1, <2>2 DEF Counted
  <2>9. Together(t)
    BY <2>2, <2>3, <2>6 DEF Seated, Together, InTable
  <2>10. ASSUME Settling(s) PROVE Settling(t)
    <3>1. CASE n = 0
      BY <2>1, <2>4, <2>5, <2>10, <3>1 DEF Seated, Shape, Settling
    <3>2. CASE n # 0
      BY <2>1, <2>4, <2>6, <2>10, <3>2 DEF Settling
    <3> QED BY <3>1, <3>2
  <2>11. Lobby(t)
    BY <2>4, <2>6 DEF Seated, Lobby
  <2>12. Clock(t)
    BY <2>1, <2>2, <2>3, <2>4 DEF Seated, Clock, InTable
  <2>13. Holders(t) = Holders(s) \ G
    BY <2>2, <2>3 DEF Holders, InTable
  <2>14. \A v \in G : t.card[v] = "DISCARD"
    BY <2>1 DEF InTable
  <2> QED BY <2>1, <2>2, <2>3, <2>4, <2>5, <2>6, <2>7, <2>8, <2>9, <2>10,
             <2>11, <2>12, <2>13, <2>14 DEF Seated, t, n, CountAfter
<1> QED BY <1>8, <1>9

\* The same for a table that keeps the whole invariant, when nobody who goes
\* holds cards in a hand
LEMMA PlayersLeaveInv ==
    ASSUME NEW s, NEW G \in SUBSET InTable(s), TableInv(s),
           \A v \in G : s.pst[v] # "ACTIVE"
    PROVE  TableInv(PlayersLeave(s, G))
<1> DEFINE t == PlayersLeave(s, G)
<1>1. Seated(s) /\ Settling(s) /\ TwoIn(s)
  BY DEF TableInv, Core, Seated
<1>2. s.betT \notin G
  BY NoneAssumption DEF TableInv, Core, Clock, InTable
<1>3. IsActive(s) => \E v \in InTable(s) \ G : s.pst[v] = "ACTIVE"
  BY DEF TableInv, Core, Together
<1>4. /\ Seated(t) /\ Settling(t)
      /\ IsActive(t) <=> IsActive(s)
      /\ IsActive(s) => t.over = s.over
      /\ Holders(t) = Holders(s) \ G
  BY <1>1, <1>2, <1>3, PlayersLeaveCore
<1>5. Holders(t) = Holders(s)
  BY <1>4 DEF Holders
<1> HIDE DEF t
<1>6. TwoIn(t)
  BY <1>1, <1>4, <1>5 DEF TwoIn
<1> QED BY <1>4, <1>6 DEF TableInv, Core, Seated, t

-----------------------------------------------------------------------------
(* Dealing. *)

\* gameStart: everyone at the table is in the hand and holds cards, and the
\* first speaker has the clock.
LEMMA GameStartInv ==
    ASSUME NEW s, NEW d, Core(s), ~ IsActive(s), s.count > 1
    PROVE  LET t == GameStart(s, d)
           IN /\ TableInv(t) /\ IsActive(t) /\ ~ t.over
              /\ Holders(t) = InTable(s) /\ t.betT \in InTable(s)
              /\ \A v \in User \ InTable(s) : t.card[v] = s.card[v]
<1> DEFINE here == InTable(s)
           from == IF s.preWin >= 0 THEN s.preWin ELSE 0
           dealer == FirstFrom(s, from, here)
           speaker == NextAfter(s, dealer, here \ {dealer})
           In(f, x) == [u \in User |-> IF u \in here THEN x ELSE f[u]]
           dealt == [CloseLobby(s) EXCEPT
             !.round = 1, !.card = In(@, "UNKNOWN"), !.pst = In(@, "ACTIVE"),
             !.money = [u \in User |-> IF u \in here THEN @[u] - Ante ELSE @[u]],
             !.bet = [u \in User |-> IF u \in here THEN @[u] + Ante ELSE @[u]],
             !.rank = [u \in User |-> IF u \in here THEN d[u] ELSE @[u]],
             !.pool = @ + Ante * Cardinality(here),
             !.betMax = Ante, !.maxCard = "UNKNOWN",
             !.first = s.seat[speaker]]
           asked == SetPlayerLimitCoin(SetPlayerOptype(dealt, speaker))
           t == [asked EXCEPT
                   !.status = "ACTIVE", !.currBet = speaker, !.betT = speaker]
<1>1. GameStart(s, d) = t
  BY DEF GameStart
<1>2. \A u \in here : u \in User /\ s.seat[u] \in Int
  BY SeatAssumption DEF Core, Shape, InTable, Seats
<1>3. here # {} /\ \A u : here # {u}
  BY TwoOrMore DEF Core
<1>4. from \in Int
  BY SeatAssumption DEF Core, Shape, Seats, NoSeat
<1> HIDE DEF from, here
<1>5. dealer \in here
  BY <1>2, <1>3, <1>4, FirstFromIn
<1> HIDE DEF dealer
<1>6. here \ {dealer} # {} /\ here \ {dealer} \subseteq User
  BY <1>2, <1>3, <1>5
<1>7. speaker \in here \ {dealer}
  BY <1>2, <1>5, <1>6, NextAfterIn DEF Core
<1> HIDE DEF speaker
<1>8. /\ DOMAIN dealt = Fields
      /\ dealt.count = s.count /\ dealt.preWin = s.preWin
      /\ dealt.seat = s.seat /\ dealt.pst = In(s.pst, "ACTIVE")
      /\ dealt.card = In(s.card, "UNKNOWN")
      /\ dealt.over = s.over /\ dealt.overT = s.overT
      /\ dealt.lock = FALSE /\ dealt.startT = FALSE /\ dealt.kickT = FALSE
  BY DEF CloseLobby, Core, Shape, Fields, FreshTable
<1> HIDE DEF dealt
<1>9. Shape(dealt)
  <2>1. dealt.pst \in [User -> PlayerStatus]
    BY <1>8 DEF Core, Shape, PlayerStatus
  <2>2. dealt.card \in [User -> CardStatus]
    BY <1>8 DEF Core, Shape, CardStatus
  <2> QED BY <1>8, <2>1, <2>2 DEF Core, Shape
<1>10. Same(dealt, SetPlayerOptype(dealt, speaker))
  BY <1>9, SetPlayerOptypeSame
<1>11. Shape(SetPlayerOptype(dealt, speaker))
  BY <1>9, <1>10 DEF Shape, Same, SameButCards
<1>12. Same(SetPlayerOptype(dealt, speaker), asked)
  BY <1>11, SetPlayerLimitCoinSame
<1>13. Same(dealt, asked)
  BY <1>10, <1>12 DEF Same, SameButCards
<1> HIDE DEF asked
<1>14. /\ DOMAIN t = Fields /\ t.status = "ACTIVE"
       /\ t.count = s.count /\ t.preWin = s.preWin
       /\ t.seat = s.seat /\ t.pst = In(s.pst, "ACTIVE")
       /\ t.card = In(s.card, "UNKNOWN")
       /\ t.over = s.over /\ t.overT = s.overT
       /\ t.lock = FALSE /\ t.startT = FALSE /\ t.kickT = FALSE
       /\ t.betT = speaker /\ t.currBet = speaker
  BY <1>8, <1>13 DEF Same, SameButCards, Fields, FreshTable
<1> HIDE DEF t
<1>15. InTable(t) = here
  BY <1>14 DEF InTable, here
<1>16. \A u \in here : t.pst[u] = "ACTIVE" /\ t.card[u] = "UNKNOWN"
  BY <1>2, <1>14
<1>17. ~ s.over
  BY DEF Core, Settling
<1>18. Shape(t)
  <2>1. t.pst \in [User -> PlayerStatus]
    BY <1>14 DEF Core, Shape, PlayerStatus
  <2>2. t.card \in [User -> CardStatus]
    BY <1>14 DEF Core, Shape, CardStatus
  <2> QED BY <1>14, <2>1, <2>2 DEF Core, Shape
<1>19. Counted(t)
  BY <1>14, <1>15 DEF Core, Counted, here
<1>20. Together(t) /\ Settling(t) /\ Lobby(t)
  BY <1>3, <1>14, <1>15, <1>16, <1>17
  DEF Core, Together, Settling, Lobby, IsActive
<1>21. Clock(t)
  BY <1>7, <1>14, <1>15, <1>16, <1>17 DEF Clock
<1>22. Holders(t) = here
  BY <1>15, <1>16 DEF Holders
<1>23. TwoIn(t)
  BY <1>5, <1>7, <1>22 DEF TwoIn
<1> QED BY <1>1, <1>7, <1>14, <1>17, <1>18, <1>19, <1>20, <1>21, <1>22, <1>23
        DEF TableInv, Core, IsActive, here

\* A table at play has a player who is not ready, so no hand is dealt over it.
LEMMA NotAllReady ==
    ASSUME NEW s, Core(s), IsActive(s)
    PROVE  ~ IsAllReady(s)
<1>1. PICK u \in InTable(s) : s.pst[u] = "ACTIVE"
  BY DEF Core, Together
<1>2. Ready(s) \subseteq InTable(s) /\ u \notin Ready(s)
  BY <1>1 DEF Ready
<1>3. Cardinality(Ready(s)) <= Cardinality(InTable(s))
      /\ Cardinality(Ready(s)) # Cardinality(InTable(s))
  BY <1>1, <1>2, InTableFinite, FS_Subset
<1>4. Cardinality(Ready(s)) \in Nat
  BY <1>2, InTableFinite, FS_Subset, FS_CardinalityType
<1> QED BY <1>3, <1>4, InTableFinite DEF IsAllReady, Core, Counted

\* Dealing when everybody is ready keeps TableInv, whether cards are dealt or
\* not.
LEMMA StartIfAllReadyInv ==
    ASSUME NEW s, NEW d, TableInv(s)
    PROVE  TableInv(StartIfAllReady(s, d))
<1>1. CASE IsAllReady(s) /\ s.count > 1
  <2>1. Core(s) /\ ~ IsActive(s)
    BY <1>1, NotAllReady DEF TableInv
  <2> QED BY <1>1, <2>1, GameStartInv DEF StartIfAllReady
<1>2. CASE ~ (IsAllReady(s) /\ s.count > 1)
  BY <1>2 DEF StartIfAllReady
<1> QED BY <1>1, <1>2

-----------------------------------------------------------------------------
(* Settling. *)

\* GameOverTimeOut closes the hand, puts players out and resets the table.
LEMMA SettleInv ==
    ASSUME NEW s, Core(s), s.overT
    PROVE  LET t == Settle(HandOver(s))
           IN /\ TableInv(t) /\ ~ IsActive(t)
              /\ \A u \in User : \/ t.card[u] = "DISCARD"
                                 \/ u \notin InTable(s) /\ t.card[u] = s.card[u]
<1> DEFINE h == HandOver(s)
           final == FinalGetCoin(h)
           won == {u \in Played(h) : final[u] > 0}
           paid == [Refunded(h) EXCEPT
             !.money = [u \in User |->
               IF u \in Played(h) THEN @[u] + AfterTax(final[u]) ELSE @[u]],
             !.preWin = IF won = {} THEN @ ELSE Max({h.seat[u] : u \in won})]
           left == PlayersLeave(paid, PutOut(h))
           t == ReSetInfo(left)
<1>1. /\ DOMAIN h = Fields /\ h.status = "OVER" /\ h.count = s.count
      /\ h.seat = s.seat /\ h.card = s.card /\ h.preWin = s.preWin
      /\ h.pst = [u \in User |-> IF u \in InTable(s) /\ s.pst[u] = "ACTIVE"
                                 THEN "OVER" ELSE s.pst[u]]
      /\ h.over = s.over /\ h.overT = FALSE /\ h.lock = s.lock
      /\ h.startT = s.startT /\ h.kickT = s.kickT
      /\ h.betT = s.betT /\ h.currBet = s.currBet
  BY DEF HandOver, Core, Shape, Fields, FreshTable
<1> HIDE DEF h
<1>2. InTable(h) = InTable(s)
  BY <1>1 DEF InTable
<1>3. won \subseteq InTable(h)
  BY DEF Played
<1> HIDE DEF won
<1>4. won # {} => Max({h.seat[u] : u \in won}) \in Seats
  <2>1. {h.seat[u] : u \in won} \subseteq Seats
    BY <1>3 DEF InTable
  <2>2. won # {} => {h.seat[u] : u \in won} # {}
    OBVIOUS
  <2> QED BY <2>1, <2>2, MaxIn
<1>5. /\ DOMAIN paid = Fields /\ paid.status = h.status /\ paid.count = h.count
      /\ paid.seat = h.seat /\ paid.card = h.card /\ paid.pst = h.pst
      /\ paid.over = h.over /\ paid.overT = h.overT /\ paid.lock = h.lock
      /\ paid.startT = h.startT /\ paid.kickT = h.kickT
      /\ paid.betT = h.betT /\ paid.currBet = h.currBet
      /\ paid.preWin = IF won = {} THEN h.preWin
                       ELSE Max({h.seat[u] : u \in won})
  BY <1>1 DEF Refunded, Fields, FreshTable
<1> HIDE DEF paid, final
<1>6. InTable(paid) = InTable(s) /\ ~ IsActive(paid)
  BY <1>1, <1>2, <1>5 DEF InTable, IsActive
<1>7. s.betT = None
  BY DEF Core, Shape, Settling, Clock
<1>8. Seated(paid)
  <2>1. Shape(paid)
    <3>1. Shape(s)
      BY DEF Core
    <3>2. h.pst \in [User -> PlayerStatus]
      BY <1>1, <3>1 DEF Shape, PlayerStatus
    <3>3. paid.preWin \in Seats \cup {NoSeat}
      BY <1>1, <1>4, <1>5, <3>1 DEF Shape
    <3>4. /\ h.seat = s.seat /\ h.card = s.card /\ h.over = s.over
          /\ h.lock = s.lock /\ h.startT = s.startT /\ h.kickT = s.kickT
          /\ h.overT \in BOOLEAN
      BY <1>1
    <3> QED BY <1>5, <3>1, <3>2, <3>3, <3>4 DEF Shape
  <2>2. Counted(paid)
    BY <1>1, <1>5, <1>6 DEF Core, Counted
  <2>3. Together(paid)
    BY <1>1, <1>5, <1>6 DEF Together, InTable
  <2>4. Lobby(paid) /\ Clock(paid)
    BY <1>1, <1>5, <1>6, <1>7 DEF Core, Lobby, Clock
  <2> QED BY <2>1, <2>2, <2>3, <2>4 DEF Seated
<1>9. PutOut(h) \subseteq InTable(paid)
  BY <1>2, <1>6 DEF PutOut
<1>10. paid.betT \notin PutOut(h)
  BY <1>1, <1>5, <1>7, NoneAssumption DEF PutOut, InTable
<1>11. /\ Seated(left) /\ ~ IsActive(left) /\ left.overT = FALSE
       /\ InTable(left) = InTable(s) \ PutOut(h)
       /\ \A u \in PutOut(h) : left.card[u] = "DISCARD"
       /\ \A u \in User \ PutOut(h) : left.card[u] = s.card[u]
  BY <1>1, <1>5, <1>6, <1>8, <1>9, <1>10, PlayersLeaveCore
<1> HIDE DEF left
<1>12. /\ DOMAIN t = Fields /\ t.status = left.status /\ t.count = left.count
       /\ t.seat = left.seat /\ t.pst = left.pst /\ t.preWin = left.preWin
       /\ t.card = [u \in User |-> IF u \in InTable(left) THEN "DISCARD"
                                  ELSE left.card[u]]
       /\ t.over = FALSE /\ t.overT = FALSE /\ t.lock = FALSE
       /\ t.startT = left.startT /\ t.kickT = left.kickT
       /\ t.betT = left.betT /\ t.currBet = left.currBet
  BY <1>11 DEF ReSetInfo, Cleared, Seated, Shape, Fields, FreshTable
<1> HIDE DEF t
<1>13. InTable(t) = InTable(left) /\ ~ IsActive(t)
  BY <1>11, <1>12 DEF InTable, IsActive
<1>14. Shape(t)
  <2>1. t.card \in [User -> CardStatus]
    BY <1>11, <1>12 DEF Seated, Shape, CardStatus
  <2> QED BY <1>11, <1>12, <2>1 DEF Seated, Shape
<1>15. Counted(t) /\ Together(t)
  BY <1>11, <1>12, <1>13 DEF Seated, Counted, Together
<1>16. Settling(t) /\ Lobby(t) /\ TwoIn(t)
  BY <1>12, <1>13 DEF Settling, Lobby, TwoIn
<1>17. Clock(t)
  BY <1>11, <1>12, <1>13 DEF Seated, Clock
<1>18. Settle(h) = t
  BY DEF Settle, t, left, paid, won, final
<1>19. \A u \in User : \/ t.card[u] = "DISCARD"
                       \/ u \notin InTable(s) /\ t.card[u] = s.card[u]
  BY <1>11, <1>12
<1> QED BY <1>13, <1>14, <1>15, <1>16, <1>17, <1>18, <1>19 DEF TableInv, Core, h

-----------------------------------------------------------------------------
(* The steps: coming, leaving and starting. *)

IInv == TableInv(table)

\* A table that was just constructed satisfies the invariant.
LEMMA InitInv == Init => IInv
<1> SUFFICES ASSUME Init PROVE TableInv(table)
  BY DEF IInv
<1>1. /\ DOMAIN table = Fields /\ table.status = "EMPTY" /\ table.count = 0
      /\ table.seat = [u \in User |-> NoSeat]
      /\ table.pst = [u \in User |-> "LOGOUT"]
      /\ table.card = [u \in User |-> "DISCARD"]
      /\ table.preWin = NoSeat /\ table.over = FALSE /\ table.overT = FALSE
      /\ table.lock = FALSE /\ table.startT = FALSE /\ table.kickT = FALSE
      /\ table.betT = None
  BY DEF Init, FreshTable, Fields
<1>2. InTable(table) = {} /\ ~ IsActive(table)
  BY <1>1, SeatAssumption DEF InTable, Seats, NoSeat, IsActive
<1>3. Shape(table)
  BY <1>1 DEF Shape, PlayerStatus, CardStatus
<1>4. Counted(table) /\ Together(table)
  BY <1>1, <1>2, FS_EmptySet DEF Counted, Together
<1>5. Settling(table) /\ Lobby(table) /\ Clock(table) /\ TwoIn(table)
  BY <1>1, <1>2 DEF Settling, Lobby, Clock, TwoIn
<1> QED BY <1>3, <1>4, <1>5 DEF TableInv, Core

\* A newcomer finds a free chair, and the hand does not count him in.
LEMMA LoginStep ==
    ASSUME NEW u \in User, MaxNum > 2, IInv,
           LoginComing(u) \/ LoginRedirected(u) \/ RobotComing(u)
    PROVE  IInv'
<1>1. CASE LoginComing(u)
  <2>1. TableInv(PlayerComming(table, u, acct[u]))
    BY <1>1, PlayerCommingInv DEF LoginComing, IInv
  <2> QED BY <1>1, <2>1, SetKickTimerInv DEF LoginComing, TableBecomes, IInv
<1>2. CASE LoginRedirected(u)
  BY <1>2, PlayerCommingInv DEF LoginRedirected, TableBecomes, IInv
<1>3. CASE RobotComing(u)
  BY <1>3, PlayerCommingInv DEF RobotComing, TableBecomes, IInv
<1> QED BY <1>1, <1>2, <1>3

\* A robot that logs in again keeps its chair, its status and its cards.
LEMMA ReplacedSame ==
    ASSUME NEW s, NEW u, NEW m, Shape(s)
    PROVE  Same(s, PlayerReplaced(s, u, m))
<1> DEFINE t == PlayerReplaced(s, u, m)
<1>1. /\ DOMAIN t = DOMAIN s
      /\ t.status = s.status /\ t.count = s.count
      /\ t.seat = s.seat /\ t.pst = s.pst /\ t.preWin = s.preWin
  BY DEF PlayerReplaced, Shape, Fields, FreshTable
<1>2. /\ t.over = s.over /\ t.overT = s.overT /\ t.lock = s.lock
      /\ t.startT = s.startT /\ t.kickT = s.kickT
      /\ t.betT = s.betT /\ t.currBet = s.currBet /\ t.card = s.card
  BY DEF PlayerReplaced, Shape, Fields, FreshTable
<1> QED BY <1>1, <1>2 DEF Same, SameButCards

\* A robot that logs in again, and the steps that only note whether the client
\* is there, change nothing the invariant reads.
LEMMA NoteStep ==
    ASSUME NEW u \in User, IInv,
           RobotReplaced(u) \/ Drop(u) \/ GetTableDetail(u)
    PROVE  IInv'
<1>1. Shape(table)
  BY DEF IInv, TableInv, Core
<1>2. \A m : Same(table, PlayerReplaced(table, u, m))
  BY <1>1, ReplacedSame
<1>3. \A b : Same(table, [table EXCEPT !.drop[u] = b])
  BY <1>1 DEF Shape, Fields, FreshTable, Same, SameButCards
<1>4. Same(table, table')
  BY <1>2, <1>3 DEF RobotReplaced, Drop, GetTableDetail, TableBecomes
<1> QED BY <1>4, InvKept DEF IInv

\* A player in the hand sits at a table at play.
LEMMA InHandFacts ==
    ASSUME NEW u \in User, IInv, InHand(u)
    PROVE  /\ Core(table) /\ IsActive(table) /\ ~ table.over
           /\ u \in InTable(table) /\ TwoIn(table)
BY DEF IInv, TableInv, InHand, Playing, At, Core, Together

\* A player leaves the hand he is in: it stays at play with whoever is left, or
\* is over, and no other is dealt.
LEMMA LeaveHandTable ==
    ASSUME NEW u \in User, IInv, LeaveHand(u)
    PROVE  LET s1 == Forfeit(table, u)
               s2 == IF table.currBet = u THEN GetNextBetPlayer(s1, u) ELSE s1
               s4 == PlayersLeave(SetNextFirst(Discard(s2, u), u), {u})
           IN /\ Core(s4) /\ IsActive(s4) /\ table' = GameOverIfDecided(s4)
              /\ InHand(u) /\ IsActive(table)
<1> DEFINE s1 == Forfeit(table, u)
           s2 == IF table.currBet = u THEN GetNextBetPlayer(s1, u) ELSE s1
           sd == Discard(s2, u)
           s3 == SetNextFirst(sd, u)
           s4 == PlayersLeave(s3, {u})
<1>1. InHand(u) /\ \E d \in Deals :
         table' = IF IsCanGameOver(s4) THEN GameOver(s4)
                  ELSE StartIfAllReady(s4, d)
  BY DEF LeaveHand
<1>2. Core(table) /\ IsActive(table) /\ ~ table.over /\ TwoIn(table)
      /\ u \in InTable(table)
  BY <1>1, InHandFacts
<1>3. Same(table, s1) /\ Core(s1) /\ IsActive(s1) /\ ~ s1.over
  <2>1. Same(table, s1)
    BY <1>2, ForfeitSame DEF Core
  <2>2. TableInv(s1)
    BY <2>1, InvKept DEF IInv
  <2> HIDE DEF s1
  <2> QED BY <1>2, <2>1, <2>2 DEF TableInv, Same, SameButCards, IsActive
<1>4. /\ Core(s2) /\ IsActive(s2) /\ s2.betT # u
      /\ s2.seat = table.seat /\ s2.pst = table.pst /\ s2.card = table.card
  <2>1. CASE table.currBet = u
    <3>1. s2 = GetNextBetPlayer(s1, u)
      BY <2>1
    <3> HIDE DEF s1, s2
    <3> QED BY <1>3, <3>1, GetNextBetPlayerCore, NoneAssumption
            DEF Same, SameButCards
  <2>2. CASE table.currBet # u
    <3>1. s2 = s1
      BY <2>2
    <3> HIDE DEF s1, s2
    <3> QED BY <1>2, <1>3, <2>2, <3>1, NoneAssumption
            DEF Same, SameButCards, Core, Clock
  <2> QED BY <2>1, <2>2
<1> HIDE DEF s1, s2
<1>5. Core(sd) /\ SameButCards(s2, sd) /\ Holders(sd) = Holders(s2) \ {u}
  BY <1>4, DiscardKeeps
<1> HIDE DEF sd
<1>6. Same(sd, s3)
  BY <1>5, SetNextFirstSame DEF Core
<1> HIDE DEF s3
<1>7. Core(s3) /\ IsActive(s3) /\ s3.betT # u
      /\ s3.seat = table.seat /\ s3.pst = table.pst
  <2>1. Core(s3)
    BY <1>5, <1>6, CoreKept DEF Same, Core, Shape
  <2> QED BY <1>4, <1>5, <1>6, <2>1 DEF Same, SameButCards, IsActive
<1>8. \E v \in InTable(s3) \ {u} : s3.pst[v] = "ACTIVE"
  BY <1>2, <1>7 DEF TwoIn, Holders, InTable
<1>9. {u} \in SUBSET InTable(s3)
  BY <1>2, <1>7 DEF InTable
<1>10. Core(s4) /\ IsActive(s4)
  <2>1. Seated(s3) /\ Settling(s3)
    BY <1>7 DEF Core, Seated
  <2> QED BY <1>7, <1>8, <1>9, <2>1, PlayersLeaveCore DEF Core, Seated
<1> HIDE DEF s4
<1>11. table' = GameOverIfDecided(s4)
  BY <1>1, <1>10, NotAllReady DEF GameOverIfDecided, StartIfAllReady
<1> QED BY <1>1, <1>2, <1>10, <1>11 DEF s4, s3, sd, s2, s1

\* Somebody who leaves in the middle of a hand leaves it decided or contested.
LEMMA LeaveHandStep ==
    ASSUME NEW u \in User, IInv, LeaveHand(u)
    PROVE  IInv'
BY LeaveHandTable, GameOverIfDecidedInv DEF IInv

\* Leaving between two hands may let the others start: the invariant holds
\* either way.
LEMMA LeaveTableStep ==
    ASSUME NEW u \in User, IInv, LeaveTable(u)
    PROVE  IInv'
<1> DEFINE s1 == PlayersLeave(table, {u})
<1>1. {u} \in SUBSET InTable(table) /\ \A v \in {u} : table.pst[v] # "ACTIVE"
  BY DEF LeaveTable, At
<1>2. TableInv(s1)
  BY <1>1, PlayersLeaveInv DEF IInv
<1>3. \E d \in Deals : table' = IF IsCanGameOver(s1) THEN GameOver(s1)
                               ELSE StartIfAllReady(s1, d)
  BY DEF LeaveTable, TableBecomes
<1> HIDE DEF s1
<1>4. CASE IsCanGameOver(s1)
  <2>1. Core(s1) /\ IsActive(s1)
    BY <1>2, <1>4 DEF TableInv, IsCanGameOver
  <2> QED BY <1>3, <1>4, <2>1, GameOverInv DEF IInv
<1>5. CASE ~ IsCanGameOver(s1)
  BY <1>2, <1>3, <1>5, StartIfAllReadyInv DEF IInv
<1> QED BY <1>4, <1>5

\* A logout takes a player out of his chair only when no hand counts on him.
LEMMA LogoutStep ==
    ASSUME NEW u \in User, IInv, Logout(u)
    PROVE  IInv'
<1> DEFINE s1 == [table EXCEPT !.drop[u] = TRUE]
           s2 == IF table.pst[u] = "ACTIVE" THEN s1 ELSE PlayersLeave(s1, {u})
<1>1. u \in InTable(table) /\ \E d \in Deals : table' = StartIfAllReady(s2, d)
  BY DEF Logout, At, TableBecomes
<1>2. Same(table, s1)
  BY DEF IInv, TableInv, Core, Shape, Fields, FreshTable, Same, SameButCards
<1> HIDE DEF s1
<1>3. TableInv(s1)
  BY <1>2, InvKept DEF IInv
<1>4. TableInv(s2)
  <2>1. CASE table.pst[u] = "ACTIVE"
    BY <1>3, <2>1
  <2>2. CASE table.pst[u] # "ACTIVE"
    <3>1. {u} \in SUBSET InTable(s1) /\ \A v \in {u} : s1.pst[v] # "ACTIVE"
      BY <1>1, <1>2, <2>2 DEF Same, SameButCards, InTable
    <3> QED BY <1>3, <2>2, <3>1, PlayersLeaveInv
  <2> QED BY <2>1, <2>2
<1> HIDE DEF s2
<1> QED BY <1>1, <1>4, StartIfAllReadyInv DEF IInv

\* Silent clients are put out, players of a hand are not.
LEMMA HeartTimeOutStep ==
    ASSUME IInv, HeartTimeOut
    PROVE  IInv'
<1>1. PICK G \in SUBSET {u \in InTable(table) : table.pst[u] # "ACTIVE"} :
        table' = PlayersLeave(table, G)
  BY DEF HeartTimeOut, TableBecomes
<1>2. G \in SUBSET InTable(table) /\ \A v \in G : table.pst[v] # "ACTIVE"
  OBVIOUS
<1> QED BY <1>1, <1>2, PlayersLeaveInv DEF IInv

\* A player outside the hand gets ready.
LEMMA ReadyInv ==
    ASSUME NEW u \in InTable(table), IInv, table.pst[u] # "ACTIVE"
    PROVE  TableInv([table EXCEPT !.pst[u] = "RSTART"])
<1> DEFINE t == [table EXCEPT !.pst[u] = "RSTART"]
<1>1. /\ DOMAIN t = Fields /\ t.status = table.status
      /\ t.count = table.count /\ t.seat = table.seat
      /\ t.pst = [table.pst EXCEPT ![u] = "RSTART"]
      /\ t.card = table.card /\ t.preWin = table.preWin
      /\ t.over = table.over /\ t.overT = table.overT
      /\ t.lock = table.lock /\ t.startT = table.startT
      /\ t.kickT = table.kickT /\ t.betT = table.betT
      /\ t.currBet = table.currBet
  BY DEF IInv, TableInv, Core, Shape, Fields, FreshTable
<1> HIDE DEF t
<1>2. /\ InTable(t) = InTable(table)
      /\ IsActive(t) <=> IsActive(table)
  BY <1>1 DEF InTable, IsActive
<1>3. \A v \in InTable(t) : t.pst[v] = "ACTIVE" <=> table.pst[v] = "ACTIVE"
  BY <1>1, <1>2 DEF IInv, TableInv, Core, Shape, InTable
<1>4. Shape(t)
  BY <1>1 DEF IInv, TableInv, Core, Shape, PlayerStatus
<1>5. Counted(t) /\ Together(t)
  BY <1>1, <1>2, <1>3 DEF IInv, TableInv, Core, Counted, Together
<1>6. Settling(t) /\ Lobby(t) /\ Clock(t)
  BY <1>1, <1>2, <1>3 DEF IInv, TableInv, Core, Settling, Lobby, Clock
<1>7. Holders(t) = Holders(table)
  BY <1>1, <1>2, <1>3 DEF Holders
<1>8. TwoIn(t)
  BY <1>1, <1>2, <1>7 DEF IInv, TableInv, TwoIn
<1> QED BY <1>4, <1>5, <1>6, <1>8 DEF TableInv, Core, t

\* Starting or stopping the timers of a lobby
LEMMA LobbyInv ==
    ASSUME NEW s, NEW t, TableInv(s), ~ IsActive(s) \/ (~ t.startT /\ ~ t.kickT),
           t.startT \in BOOLEAN, t.kickT \in BOOLEAN, t.lock \in BOOLEAN,
           t.lock => t.kickT,
           /\ DOMAIN t = DOMAIN s /\ t.status = s.status
           /\ t.count = s.count /\ t.seat = s.seat /\ t.pst = s.pst
           /\ t.card = s.card /\ t.preWin = s.preWin /\ t.over = s.over
           /\ t.overT = s.overT /\ t.betT = s.betT /\ t.currBet = s.currBet
    PROVE  TableInv(t)
<1>1. /\ InTable(t) = InTable(s)
      /\ IsActive(t) <=> IsActive(s)
  BY DEF InTable, IsActive
<1>2. Shape(t)
  BY DEF TableInv, Core, Shape
<1>3. Counted(t) /\ Together(t)
  BY <1>1 DEF TableInv, Core, Counted, Together
<1>4. Settling(t) /\ Lobby(t) /\ Clock(t)
  BY <1>1 DEF TableInv, Core, Settling, Lobby, Clock
<1>5. TwoIn(t)
  BY <1>1 DEF TableInv, TwoIn, Holders
<1> QED BY <1>2, <1>3, <1>4, <1>5 DEF TableInv, Core

\* The last one to get ready starts the hand; others start the timers of the
\* lobby.
LEMMA StartGameStep ==
    ASSUME NEW u \in User, IInv, StartGame(u)
    PROVE  IInv'
<1> DEFINE s1 == [table EXCEPT !.pst[u] = "RSTART"]
           s2 == IF s1.lock THEN s1 ELSE SetKickTimer(s1)
           s3 == IF ~ IsActive(s2) /\ IsCanGameStart(s2)
                 THEN [s2 EXCEPT !.startT = TRUE] ELSE s2
<1>1. /\ u \in InTable(table) /\ table.pst[u] # "ACTIVE"
      /\ \E d \in Deals : table' = IF IsAllReady(s1) /\ s1.count > 1
                                  THEN GameStart(s1, d) ELSE s3
  BY DEF StartGame, At, TableBecomes
<1>2. TableInv(s1)
  BY <1>1, ReadyInv
<1> HIDE DEF s1
<1>3. TableInv(s2)
  BY <1>2, SetKickTimerInv
<1> HIDE DEF s2
<1>4. TableInv(s3)
  <2>1. CASE ~ IsActive(s2) /\ IsCanGameStart(s2)
    <3> DEFINE t == [s2 EXCEPT !.startT = TRUE]
    <3>1. /\ DOMAIN t = DOMAIN s2 /\ t.status = s2.status
          /\ t.count = s2.count /\ t.seat = s2.seat /\ t.pst = s2.pst
          /\ t.card = s2.card /\ t.preWin = s2.preWin /\ t.over = s2.over
          /\ t.overT = s2.overT /\ t.betT = s2.betT /\ t.currBet = s2.currBet
          /\ t.lock = s2.lock /\ t.kickT = s2.kickT /\ t.startT = TRUE
      BY <1>3 DEF TableInv, Core, Shape, Fields, FreshTable
    <3> HIDE DEF t
    <3>2. t.kickT \in BOOLEAN /\ t.lock \in BOOLEAN /\ (t.lock => t.kickT)
      BY <1>3, <3>1 DEF TableInv, Core, Shape, Lobby
    <3>3. TableInv(t)
      BY <1>3, <2>1, <3>1, <3>2, LobbyInv
    <3> QED BY <2>1, <3>3 DEF t
  <2>2. CASE ~ (~ IsActive(s2) /\ IsCanGameStart(s2))
    BY <1>3, <2>2
  <2> QED BY <2>1, <2>2
<1> HIDE DEF s3
<1>5. CASE IsAllReady(s1) /\ s1.count > 1
  <2>1. Core(s1) /\ ~ IsActive(s1)
    BY <1>2, <1>5, NotAllReady DEF TableInv
  <2> QED BY <1>1, <1>5, <2>1, GameStartInv DEF IInv
<1>6. CASE ~ (IsAllReady(s1) /\ s1.count > 1)
  BY <1>1, <1>4, <1>6 DEF IInv
<1> QED BY <1>5, <1>6

\* The start timer puts out who is not ready and deals to the others.
LEMMA TableGameStartTimeOutStep ==
    ASSUME IInv, TableGameStartTimeOut
    PROVE  IInv'
<1> DEFINE s1 == [table EXCEPT !.startT = FALSE]
           late == {u \in InTable(s1) : s1.pst[u] \in {"COMING", "OVER"}}
           s2 == PlayersLeave(s1, late)
<1>1. \E d \in Deals : table' = IF IsActive(s1) \/ ~ IsCanGameStart(s1) THEN s1
                               ELSE StartIfAllReady(s2, d)
  BY DEF TableGameStartTimeOut, TableBecomes
<1>2. /\ DOMAIN s1 = DOMAIN table /\ s1.status = table.status
      /\ s1.count = table.count /\ s1.seat = table.seat
      /\ s1.pst = table.pst /\ s1.card = table.card
      /\ s1.preWin = table.preWin /\ s1.over = table.over
      /\ s1.overT = table.overT /\ s1.betT = table.betT
      /\ s1.currBet = table.currBet /\ s1.lock = table.lock
      /\ s1.kickT = table.kickT /\ s1.startT = FALSE
  BY DEF IInv, TableInv, Core, Shape, Fields, FreshTable
<1> HIDE DEF s1
<1>3. /\ s1.kickT \in BOOLEAN /\ s1.lock \in BOOLEAN /\ (s1.lock => s1.kickT)
      /\ ~ IsActive(table) \/ (~ s1.startT /\ ~ s1.kickT)
  BY <1>2 DEF IInv, TableInv, Core, Shape, Lobby
<1>4. TableInv(s1)
  BY <1>2, <1>3, LobbyInv DEF IInv
<1>5. TableInv(s2)
  BY <1>4, PlayersLeaveInv
<1> HIDE DEF s2
<1> QED BY <1>1, <1>4, <1>5, StartIfAllReadyInv DEF IInv

\* The kick timer puts out who is not ready and deals to the others.
LEMMA TableKickTimeOutStep ==
    ASSUME IInv, TableKickTimeOut
    PROVE  IInv'
<1> DEFINE s1 == [table EXCEPT !.kickT = FALSE, !.lock = FALSE]
           late == InTable(s1) \ Ready(s1)
           s2 == PlayersLeave(s1, late)
<1>1. \E d \in Deals : table' = IF IsActive(s1) \/ s1.count = 1 THEN s1
                               ELSE StartIfAllReady(s2, d)
  BY DEF TableKickTimeOut, TableBecomes
<1>2. /\ DOMAIN s1 = DOMAIN table /\ s1.status = table.status
      /\ s1.count = table.count /\ s1.seat = table.seat
      /\ s1.pst = table.pst /\ s1.card = table.card
      /\ s1.preWin = table.preWin /\ s1.over = table.over
      /\ s1.overT = table.overT /\ s1.betT = table.betT
      /\ s1.currBet = table.currBet /\ s1.lock = FALSE
      /\ s1.kickT = FALSE /\ s1.startT = table.startT
  BY DEF IInv, TableInv, Core, Shape, Fields, FreshTable
<1> HIDE DEF s1
<1>3. /\ s1.startT \in BOOLEAN /\ s1.kickT \in BOOLEAN /\ s1.lock \in BOOLEAN
      /\ s1.lock => s1.kickT
      /\ ~ IsActive(table) \/ (~ s1.startT /\ ~ s1.kickT)
  BY <1>2 DEF IInv, TableInv, Core, Shape, Lobby
<1>4. TableInv(s1)
  BY <1>2, <1>3, LobbyInv DEF IInv
<1>5. CASE IsActive(s1) \/ s1.count = 1
  BY <1>1, <1>4, <1>5 DEF IInv
<1>6. CASE ~ (IsActive(s1) \/ s1.count = 1)
  <2>1. \A v \in late : s1.pst[v] # "ACTIVE"
    BY <1>4, <1>6 DEF TableInv, Core, Together
  <2>2. TableInv(s2)
    BY <1>4, <2>1, PlayersLeaveInv
  <2> HIDE DEF s2
  <2> QED BY <1>1, <1>6, <2>2, StartIfAllReadyInv DEF IInv
<1> QED BY <1>5, <1>6

-----------------------------------------------------------------------------
(* The steps: betting and comparing. *)

\* Passing the turn in a hand at play keeps TableInv, also when it ends the
\* hand.
LEMMA GetNextBetPlayerInv ==
    ASSUME NEW s, NEW u \in User, TableInv(s), IsActive(s), ~ s.over
    PROVE  TableInv(GetNextBetPlayer(s, u))
<1> DEFINE t == GetNextBetPlayer(s, u)
<1>1. /\ Core(t) /\ t.seat = s.seat /\ t.pst = s.pst /\ t.card = s.card
  BY GetNextBetPlayerCore DEF TableInv
<1> HIDE DEF t
<1>2. Holders(t) = Holders(s)
  BY <1>1 DEF Holders, InTable
<1> QED BY <1>1, <1>2 DEF TableInv, TwoIn, t

\* A bet that sets money and stakes only, and then passes the turn
LEMMA BetInv ==
    ASSUME NEW s, NEW u \in User, NEW x, IInv, InHand(u), Same(table, s)
    PROVE  TableInv(GetNextBetPlayer(PlayerBetCoin(s, u, x), u))
<1> DEFINE b == PlayerBetCoin(s, u, x)
<1>1. TableInv(s)
  BY InvKept DEF IInv
<1>2. Same(s, b)
  BY <1>1, PlayerBetCoinSame DEF TableInv, Core
<1>3. TableInv(b)
  BY <1>1, <1>2, InvKept
<1>4. IsActive(b) /\ ~ b.over
  BY <1>2, InHandFacts DEF Same, SameButCards, IsActive
<1> HIDE DEF b
<1> QED BY <1>3, <1>4, GetNextBetPlayerInv DEF b

\* A bet passes the turn or ends the hand.
LEMMA BetStep ==
    ASSUME NEW u \in User, IInv,
           Call(u) \/ Allin(u) \/ \E x \in RaseChoices : Rase(u, x)
    PROVE  IInv'
<1>0. Shape(table)
  BY DEF IInv, TableInv, Core
<1>1. CASE Call(u)
  <2> DEFINE someAllin == HasSomeOneAllin(table)
             coin == IF someAllin THEN table.allinCoin[u]
                     ELSE CallMoney(table, u)
             s1 == [table EXCEPT !.allin[u] = @ \/ someAllin]
             next == GetNextBetPlayer(PlayerBetCoin(s1, u, coin), u)
  <2>1. InHand(u) /\ table' = GameOverIfDecided(next)
    BY <1>1 DEF Call, Turn, TableBecomes
  <2>2. Same(table, s1)
    BY <1>0 DEF Shape, Fields, FreshTable, Same, SameButCards
  <2> HIDE DEF s1, coin
  <2>3. TableInv(next)
    BY <2>1, <2>2, BetInv
  <2> QED BY <2>1, <2>3, GameOverIfDecidedInv DEF TableInv, IInv
<1>2. CASE Allin(u)
  <2> DEFINE coin == table.allinCoin[u]
             s1 == IF coin > table.betMax
                   THEN [table EXCEPT !.betMax = coin, !.maxCard = table.card[u]]
                   ELSE table
             s2 == [s1 EXCEPT !.hasAllin = coin, !.allin[u] = TRUE]
             next == GetNextBetPlayer(PlayerBetCoin(s2, u, coin), u)
  <2>1. InHand(u) /\ table' = GameOverIfDecided(next)
    BY <1>2 DEF Allin, Turn, TableBecomes
  <2>2. Same(table, s2)
    BY <1>0 DEF Shape, Fields, FreshTable, Same, SameButCards
  <2> HIDE DEF s2
  <2>3. TableInv(next)
    BY <2>1, <2>2, BetInv
  <2> QED BY <2>1, <2>3, GameOverIfDecidedInv DEF TableInv, IInv
<1>3. ASSUME NEW x \in RaseChoices, Rase(u, x) PROVE IInv'
  <2> DEFINE coin == IF table.card[u] = "UNKNOWN" THEN x ELSE Doubled(x)
             s1 == [table EXCEPT !.betMax = x, !.maxCard = table.card[u]]
             next == GetNextBetPlayer(PlayerBetCoin(s1, u, coin), u)
  <2>1. InHand(u) /\ table' = next
    BY <1>3 DEF Rase, Turn, TableBecomes
  <2>2. Same(table, s1)
    BY <1>0 DEF Shape, Fields, FreshTable, Same, SameButCards
  <2> HIDE DEF s1, coin
  <2> QED BY <2>1, <2>2, BetInv DEF IInv
<1> QED BY <1>1, <1>2, <1>3

\* setNextFirstPlayer keeps Core.
LEMMA NextFirstCore ==
    ASSUME NEW s, NEW w, Core(s)
    PROVE  Core(SetNextFirst(s, w)) /\ Same(s, SetNextFirst(s, w))
<1>1. Same(s, SetNextFirst(s, w))
  BY SetNextFirstSame DEF Core
<1> QED BY <1>1, CoreKept DEF Same, Core, Shape

\* setPlayerOptype keeps Core.
LEMMA OptypeCore ==
    ASSUME NEW s, NEW w, Core(s)
    PROVE  Core(SetPlayerOptype(s, w))
<1>1. Same(s, SetPlayerOptype(s, w))
  BY SetPlayerOptypeSame DEF Core
<1> QED BY <1>1, CoreKept DEF Same, Core, Shape

\* A fold, on turn or not, leaves two holders or a decided hand.
LEMMA ThrowCardStep ==
    ASSUME NEW u \in User, IInv, ThrowCard(u)
    PROVE  IInv'
<1> DEFINE s1 == Discard(table, u)
           s2 == IF table.currBet = u THEN GetNextBetPlayer(s1, u)
                 ELSE IF table.currBet = None THEN s1
                 ELSE SetPlayerOptype(s1, table.currBet)
<1>1. InHand(u) /\ table' = GameOverIfDecided(SetNextFirst(s2, u))
  BY DEF ThrowCard, TableBecomes
<1>2. Core(table) /\ IsActive(table) /\ ~ table.over
  BY <1>1, InHandFacts
<1>3. Core(s1) /\ IsActive(s1) /\ ~ s1.over
  BY <1>2, DiscardKeeps DEF SameButCards, IsActive
<1> HIDE DEF s1
<1>4. Core(s2)
  BY <1>3, GetNextBetPlayerCore, OptypeCore
<1> HIDE DEF s2
<1> QED BY <1>1, <1>4, NextFirstCore, GameOverIfDecidedInv DEF IInv

\* Looking at the cards keeps them; on turn it only restarts the clock.
LEMMA CheckCardStep ==
    ASSUME NEW u \in User, IInv, CheckCard(u)
    PROVE  IInv'
<1> DEFINE s1 == [table EXCEPT !.card[u] = "KNOWN"]
           s2 == [s1 EXCEPT !.betT = u]
<1>1. InHand(u) /\ table.card[u] = "UNKNOWN"
      /\ table' = IF table.currBet = u THEN SetPlayerOptype(s2, u) ELSE s1
  BY DEF CheckCard, TableBecomes
<1>2. Core(table) /\ IsActive(table) /\ ~ table.over /\ TwoIn(table)
      /\ u \in InTable(table) /\ table.pst[u] = "ACTIVE"
  BY <1>1, InHandFacts DEF InHand, Playing
<1>3. SameButCards(table, s1) /\ s1.card = [table.card EXCEPT ![u] = "KNOWN"]
  BY <1>2 DEF Core, Shape, Fields, FreshTable, SameButCards
<1> HIDE DEF s1
<1>4. Core(s1)
  BY <1>2, <1>3, CoreKept DEF Core, Shape, CardStatus
<1>5. Holders(s1) = Holders(table)
  BY <1>1, <1>2, <1>3 DEF SameButCards, Holders, InTable, Core, Shape
<1>6. TableInv(s1)
  BY <1>2, <1>3, <1>4, <1>5 DEF TableInv, TwoIn
<1>7. ASSUME table.currBet = u PROVE TableInv(s2)
  <2>1. /\ DOMAIN s2 = Fields /\ s2.status = s1.status
        /\ s2.count = s1.count /\ s2.seat = s1.seat
        /\ s2.pst = s1.pst /\ s2.card = s1.card /\ s2.preWin = s1.preWin
        /\ s2.over = s1.over /\ s2.overT = s1.overT
        /\ s2.lock = s1.lock /\ s2.startT = s1.startT
        /\ s2.kickT = s1.kickT /\ s2.betT = u /\ s2.currBet = s1.currBet
    BY <1>4 DEF Core, Shape, Fields, FreshTable
  <2> HIDE DEF s2
  <2>2. InTable(s2) = InTable(s1) /\ Holders(s2) = Holders(s1)
    BY <2>1 DEF InTable, Holders
  <2>3. Shape(s2) /\ Counted(s2)
    BY <1>4, <2>1, <2>2 DEF Core, Shape, Counted
  <2>4. Together(s2) /\ Settling(s2) /\ Lobby(s2)
    BY <1>4, <2>1, <2>2 DEF Core, Together, Settling, Lobby, IsActive
  <2>5. Clock(s2)
    BY <1>2, <1>3, <1>7, <2>1, <2>2 DEF Clock, SameButCards, InTable
  <2>6. TwoIn(s2)
    BY <1>6, <2>1, <2>2 DEF TableInv, TwoIn, IsActive
  <2> QED BY <2>3, <2>4, <2>5, <2>6 DEF TableInv, Core
<1> HIDE DEF s2
<1>8. CASE table.currBet = u
  <2>1. Same(s2, SetPlayerOptype(s2, u))
    BY <1>7, <1>8, SetPlayerOptypeSame DEF TableInv, Core
  <2>2. TableInv(SetPlayerOptype(s2, u))
    BY <1>7, <1>8, <2>1, InvKept
  <2> QED BY <1>1, <1>8, <2>2 DEF IInv
<1>9. CASE table.currBet # u
  BY <1>1, <1>6, <1>9 DEF IInv
<1> QED BY <1>8, <1>9

\* After a comparison, forced or asked for, two holders are left or the hand is
\* decided.
LEMMA CompareCardsStep ==
    ASSUME NEW u \in User, NEW v \in User, IInv, CompareCards(u, v)
    PROVE  IInv'
<1> DEFINE cost == Min({CallMoney(table, u), table.money[u]})
           s1 == PlayerBetCoin(table, u, cost)
           win == CompareCard(table.rank[u], table.rank[v]) = "win"
           won == GetNextBetPlayer(SetNextFirst(Discard(s1, v), v), u)
           forced == /\ won.betT # None /\ won.money[u] = 0
                     /\ Cardinality(Holders(won)) <= 2
           lost == SetNextFirst(GetNextBetPlayer(Discard(s1, u), u), u)
           force == ForceCompareCard(won, u, won.betT)
<1>1. InHand(u) /\ table' = GameOverIfDecided(
         IF ~ win THEN lost ELSE IF forced THEN force ELSE won)
  BY DEF CompareCards, Turn, TableBecomes
<1>2. Core(table) /\ IsActive(table) /\ ~ table.over
  BY <1>1, InHandFacts
<1> HIDE DEF cost, win
<1>3. Same(table, s1)
  BY <1>2, PlayerBetCoinSame DEF Core
<1> HIDE DEF s1
<1>4. Core(s1) /\ IsActive(s1) /\ ~ s1.over
  BY <1>2, <1>3, CoreKept DEF Same, SameButCards, IsActive, Core, Shape
<1>5. Core(lost)
  <2>1. Core(Discard(s1, u)) /\ IsActive(Discard(s1, u)) /\ ~ Discard(s1, u).over
    BY <1>4, DiscardKeeps DEF SameButCards, IsActive
  <2>2. Core(GetNextBetPlayer(Discard(s1, u), u))
    BY <2>1, GetNextBetPlayerCore
  <2> QED BY <2>2, NextFirstCore
<1>6. Core(won)
  <2> DEFINE sd == Discard(s1, v)
             sn == SetNextFirst(sd, v)
  <2>1. Core(sd) /\ IsActive(sd) /\ ~ sd.over
    BY <1>4, DiscardKeeps DEF SameButCards, IsActive
  <2> HIDE DEF sd
  <2>2. Core(sn) /\ IsActive(sn) /\ ~ sn.over
    BY <2>1, NextFirstCore DEF Same, SameButCards, IsActive
  <2> HIDE DEF sn
  <2>3. Core(GetNextBetPlayer(sn, u))
    BY <2>2, GetNextBetPlayerCore
  <2> QED BY <2>3 DEF sn, sd
<1> HIDE DEF lost, won, forced
<1>7. Core(force)
  <2> DEFINE b == PlayerBetCoin(won, u, won.money[u])
  <2>1. Same(won, b)
    BY <1>6, PlayerBetCoinSame DEF Core
  <2>2. Shape(b)
    BY <1>6, <2>1 DEF Core, Shape, Same, SameButCards
  <2> HIDE DEF b
  <2>3. force = [b EXCEPT
           !.cmp = [kept |-> TRUE, p1 |-> u, p2 |-> won.betT,
                    result |-> CompareCard(won.rank[u], won.rank[won.betT])],
           !.cmpT = TRUE]
    BY DEF ForceCompareCard, b
  <2>4. Same(b, force)
    BY <2>2, <2>3 DEF Shape, Fields, FreshTable, Same, SameButCards
  <2> HIDE DEF force
  <2>5. SameButCards(won, force) /\ force.card = won.card
    BY <2>1, <2>4 DEF Same, SameButCards
  <2> QED BY <1>6, <2>5, CoreKept DEF Core, Shape
<1> HIDE DEF force
<1> QED BY <1>1, <1>5, <1>6, <1>7, GameOverIfDecidedInv DEF IInv

-----------------------------------------------------------------------------
(* The steps: the timers of a hand. *)

\* stopBetTimer alone keeps the invariant.
LEMMA ClockStopped ==
    ASSUME NEW s, TableInv(s)
    PROVE  LET t == [s EXCEPT !.betT = None]
           IN /\ TableInv(t) /\ InTable(t) = InTable(s)
              /\ t.status = s.status /\ t.over = s.over
<1> DEFINE t == [s EXCEPT !.betT = None]
<1>1. /\ DOMAIN t = Fields /\ t.status = s.status
      /\ t.count = s.count /\ t.seat = s.seat
      /\ t.pst = s.pst /\ t.card = s.card /\ t.preWin = s.preWin
      /\ t.over = s.over /\ t.overT = s.overT
      /\ t.lock = s.lock /\ t.startT = s.startT
      /\ t.kickT = s.kickT /\ t.betT = None
  BY DEF TableInv, Core, Shape, Fields, FreshTable
<1> HIDE DEF t
<1>2. InTable(t) = InTable(s) /\ Holders(t) = Holders(s)
  BY <1>1 DEF InTable, Holders
<1>3. Shape(t) /\ Counted(t) /\ Clock(t)
  BY <1>1, <1>2 DEF TableInv, Core, Shape, Counted, Clock
<1>4. Together(t) /\ Settling(t) /\ Lobby(t) /\ TwoIn(t)
  BY <1>1, <1>2 DEF TableInv, Core, Together, Settling, Lobby, TwoIn, IsActive
<1> QED BY <1>1, <1>2, <1>3, <1>4 DEF TableInv, Core, t

\* A time-out folds for the player on turn as his own fold would.
LEMMA BetTimeOutStep ==
    ASSUME IInv, BetTimeOut
    PROVE  IInv'
<1> DEFINE u == table.betT
           s1 == [table EXCEPT !.betT = None]
           st == [s1 EXCEPT !.tmo[u] = IF s1.round = 1 THEN @ + 1 ELSE @]
           s2 == Discard(st, u)
           s3 == GetNextBetPlayer(s2, u)
           s4 == IF s3.betT = None THEN s3 ELSE SetPlayerOptype(s3, s3.betT)
<1>1. /\ u # None
      /\ table' = IF u \in InTable(table) /\ table.currBet = u
                  THEN GameOverIfDecided(SetNextFirst(s4, u)) ELSE s1
  BY DEF BetTimeOut, TableBecomes
<1>2. TableInv(s1) /\ s1.status = table.status /\ s1.over = table.over
  BY ClockStopped DEF IInv
<1>3. u \in User /\ IsActive(table) /\ ~ table.over
  <2>1. /\ u \in InTable(table) /\ table.pst[u] = "ACTIVE" /\ ~ table.over
        /\ Together(table)
    BY <1>1 DEF IInv, TableInv, Core, Clock
  <2> QED BY <2>1 DEF Together, InTable
<1> HIDE DEF s1, u
<1>4. Same(s1, st)
  BY <1>2 DEF TableInv, Core, Shape, Fields, FreshTable, Same, SameButCards
<1>5. TableInv(st) /\ IsActive(st) /\ ~ st.over
  <2>1. TableInv(st)
    BY <1>2, <1>4, InvKept
  <2>2. st.status = table.status /\ st.over = table.over
    BY <1>2, <1>4 DEF Same, SameButCards
  <2> QED BY <1>3, <2>1, <2>2 DEF IsActive
<1> HIDE DEF st
<1>6. Core(s2) /\ IsActive(s2) /\ ~ s2.over
  <2>1. Core(st)
    BY <1>5 DEF TableInv
  <2>2. Core(s2) /\ SameButCards(st, s2)
    BY <2>1, DiscardKeeps
  <2> QED BY <1>5, <2>2 DEF SameButCards, IsActive
<1> HIDE DEF s2
<1>7. Core(s3)
  BY <1>3, <1>6, GetNextBetPlayerCore
<1> HIDE DEF s3
<1>8. Core(s4)
  BY <1>7, OptypeCore
<1> HIDE DEF s4
<1>9. TableInv(GameOverIfDecided(SetNextFirst(s4, u)))
  BY <1>8, NextFirstCore, GameOverIfDecidedInv
<1> QED BY <1>1, <1>2, <1>9 DEF IInv

\* A late announcement leaves two holders or a decided hand.
LEMMA CompareResultNotifyTimeOutStep ==
    ASSUME IInv, CompareResultNotifyTimeOut
    PROVE  IInv'
<1> DEFINE c == table.cmp
           s1 == [table EXCEPT !.cmpT = FALSE]
           loser == IF c.result = "win" THEN c.p2 ELSE c.p1
           s2 == IF loser = None THEN s1 ELSE Discard(s1, loser)
           s3 == [s2 EXCEPT !.cmp = NoCompare]
<1>1. table' = IF ~ c.kept THEN s1 ELSE GameOverIfDecided(s3)
  BY DEF CompareResultNotifyTimeOut, TableBecomes
<1>2. Same(table, s1)
  BY DEF IInv, TableInv, Core, Shape, Fields, FreshTable, Same, SameButCards
<1> HIDE DEF s1, loser
<1>3. TableInv(s1)
  BY <1>2, InvKept DEF IInv
<1>4. Core(s2)
  BY <1>3, DiscardKeeps DEF TableInv
<1> HIDE DEF s2
<1>5. Same(s2, s3)
  BY <1>4 DEF Core, Shape, Fields, FreshTable, Same, SameButCards
<1> HIDE DEF s3
<1>6. Core(s3)
  BY <1>4, <1>5, CoreKept DEF Same, Core, Shape
<1> QED BY <1>1, <1>3, <1>6, GameOverIfDecidedInv DEF IInv

\* The settlement empties the hand, or crashes and changes nothing.
LEMMA GameOverTimeOutStep ==
    ASSUME IInv, GameOverTimeOut
    PROVE  IInv'
<1>1. table.overT
  BY DEF GameOverTimeOut
<1>2. CASE Shown(HandOver(table)) = {}
  BY <1>2 DEF GameOverTimeOut, IInv
<1>3. CASE Shown(HandOver(table)) # {}
  <2>1. table' = Settle(HandOver(table))
    BY <1>3 DEF GameOverTimeOut
  <2>2. Core(table)
    BY DEF IInv, TableInv
  <2> QED BY <1>1, <2>1, <2>2, SettleInv DEF IInv
<1> QED BY <1>2, <1>3

-----------------------------------------------------------------------------
(* The specification. *)

\* Every message of a client, of a robot or of the network
LEMMA MessageStep ==
    ASSUME NEW u \in User, MaxNum > 2, IInv, Message(u)
    PROVE  IInv'
<1>1. CASE LoginComing(u) \/ LoginRedirected(u) \/ RobotComing(u)
  BY <1>1, LoginStep
<1>2. CASE RobotReplaced(u) \/ Drop(u) \/ GetTableDetail(u)
  BY <1>2, NoteStep
<1>3. CASE LeaveHand(u)
  BY <1>3, LeaveHandStep
<1>4. CASE LeaveTable(u)
  BY <1>4, LeaveTableStep
<1>5. CASE Logout(u)
  BY <1>5, LogoutStep
<1>6. CASE StartGame(u)
  BY <1>6, StartGameStep
<1>7. CASE Call(u) \/ Allin(u) \/ \E x \in RaseChoices : Rase(u, x)
  BY <1>7, BetStep
<1>8. CASE ThrowCard(u)
  BY <1>8, ThrowCardStep
<1>9. CASE CheckCard(u)
  BY <1>9, CheckCardStep
<1>10. CASE \E v \in User : CompareCards(u, v)
  BY <1>10, CompareCardsStep
<1> QED BY <1>1, <1>2, <1>3, <1>4, <1>5, <1>6, <1>7, <1>8, <1>9, <1>10
        DEF Message

\* Every timer of the table keeps the invariant.
LEMMA TimerStep ==
    ASSUME IInv, Timer
    PROVE  IInv'
<1>1. CASE HeartTimeOut
  BY <1>1, HeartTimeOutStep
<1>2. CASE TableGameStartTimeOut
  BY <1>2, TableGameStartTimeOutStep
<1>3. CASE TableKickTimeOut
  BY <1>3, TableKickTimeOutStep
<1>4. CASE BetTimeOut
  BY <1>4, BetTimeOutStep
<1>5. CASE CompareResultNotifyTimeOut
  BY <1>5, CompareResultNotifyTimeOutStep
<1>6. CASE GameOverTimeOut
  BY <1>6, GameOverTimeOutStep
<1> QED BY <1>1, <1>2, <1>3, <1>4, <1>5, <1>6 DEF Timer

\* Every step keeps the invariant.
LEMMA NextInv ==
    ASSUME MaxNum > 2, IInv, [Next]_vars
    PROVE  IInv'
<1>1. CASE Timer
  BY <1>1, TimerStep
<1>2. CASE \E u \in User : Message(u)
  BY <1>2, MessageStep
<1>3. CASE UNCHANGED vars
  BY <1>3 DEF vars, IInv
<1> QED BY <1>1, <1>2, <1>3 DEF Next

\* The inductive invariant holds of every table of three chairs or more: chairs,
\* statuses, lock and timers stay in step under every handler and timer.
THEOREM InvHolds ==
    ASSUME MaxNum > 2
    PROVE  Spec => []IInv
<1>1. IInv /\ [Next]_vars => IInv'
  BY NextInv
<1> QED BY <1>1, InitInv, PTL DEF Spec

\* m_nCountPlayer is the number of chairs taken, whoever comes, leaves or is
\* put out (playerComming, playerLeave, init).
THEOREM CountMatchesHolds ==
    ASSUME MaxNum > 2
    PROVE  Spec => []CountMatches
<1>1. IInv => CountMatches
  BY DEF IInv, TableInv, Core, Counted, CountMatches
<1> QED BY <1>1, InvHolds, PTL

\* The table is at play exactly while a player at it is (gameStart, gameOver's
\* settlement, and every way of leaving in between).
THEOREM ActiveTogetherHolds ==
    ASSUME MaxNum > 2
    PROVE  Spec => []ActiveTogether
<1>1. IInv => ActiveTogether
  BY DEF IInv, TableInv, Core, Together, ActiveTogether
<1> QED BY <1>1, InvHolds, PTL

\* m_bIsOverTimer is set exactly while the settlement timer runs, and only
\* during a hand: no table is closed to bets without a timer that opens it.
THEOREM OverIsTimedHolds ==
    ASSUME MaxNum > 2
    PROVE  Spec => []OverIsTimed
<1>1. IInv => OverIsTimed
  BY DEF IInv, TableInv, Core, Settling, OverIsTimed
<1> QED BY <1>1, InvHolds, PTL

\* The start and kick timers do not run during a hand (gameStart stops both,
\* and no handler starts one for an active table).
THEOREM LobbyTimersOffHolds ==
    ASSUME MaxNum > 2
    PROVE  Spec => []LobbyTimersOff
<1>1. IInv => LobbyTimersOff
  BY DEF IInv, TableInv, Core, Lobby, LobbyTimersOff
<1> QED BY <1>1, InvHolds, PTL

\* A locked table has its kick timer running (lockTable is always followed by
\* startKickTimer, and whatever stops that timer unlocks).
THEOREM LockHasTimerHolds ==
    ASSUME MaxNum > 2
    PROVE  Spec => []LockHasTimer
<1>1. IInv => LockHasTimer
  BY DEF IInv, TableInv, Core, Lobby, LockHasTimer
<1> QED BY <1>1, InvHolds, PTL

\* The bet timer runs only for the active player whose turn it is, and not once
\* the hand is to be settled: TableTimer::BetTimeOut folds nobody else.
THEOREM TurnOwnsTimerHolds ==
    ASSUME MaxNum > 2
    PROVE  Spec => []TurnOwnsTimer
<1>1. IInv => TurnOwnsTimer
  BY DEF IInv, TableInv, Core, Clock, TurnOwnsTimer
<1> QED BY <1>1, InvHolds, PTL

-----------------------------------------------------------------------------
(***************************************************************************)
(* The fields that steer a table keep their types, and nobody is seated on *)
(* an occupied chair.  The count of players is bounded by the chairs       *)
(* because they sit on different ones.                                     *)
(***************************************************************************)

\* The steering fields that Shape leaves out
Steering(s) ==
    /\ s.status \in TableStatus
    /\ s.round \in 0..MaxRound
    /\ s.currBet \in UserOrNone /\ s.betT \in UserOrNone
    /\ s.first \in Seats
    /\ s.maxCard \in CardStatus
    /\ s.offer \subseteq OpType
    /\ s.canAllin \in BOOLEAN /\ s.cmpT \in BOOLEAN

\* The last comparison, and what is noted of each player
Notes(s) ==
    /\ s.cmp \in [kept : BOOLEAN, p1 : UserOrNone, p2 : UserOrNone,
                  result : {"win", "draw", "lose", "none"}]
    /\ s.allin \in [User -> BOOLEAN]
    /\ s.drop \in [User -> BOOLEAN]
    /\ s.rank \in [User -> Nat]
    /\ s.tmo \in [User -> Nat]

Apart(s) == \A u, v \in InTable(s) : s.seat[u] = s.seat[v] => u = v

Typed(s) ==
    Shape(s) /\ Counted(s) /\ Apart(s) /\ Steering(s) /\ Notes(s)

\* t has the players of s on the same chairs.
SameChairs(s, t) == DOMAIN t = DOMAIN s /\ t.seat = s.seat /\ t.count = s.count

\* The properties of the chairs depend on who sits where alone.
LEMMA ChairsKept ==
    ASSUME NEW s, NEW t, Typed(s), SameChairs(s, t)
    PROVE  /\ Counted(t) /\ Apart(t) /\ InTable(t) = InTable(s)
           /\ DOMAIN t = Fields /\ t.seat \in [User -> Seats \cup {NoSeat}]
BY DEF SameChairs, Typed, Shape, Counted, Apart, InTable

\* Players on different chairs are at most as many as the chairs.
LEMMA CountBound ==
    ASSUME NEW s, Shape(s), Counted(s), Apart(s)
    PROVE  s.count \in 0..MaxNum
<1> DEFINE here == InTable(s)
           f == [u \in here |-> s.seat[u]]
<1>1. f \in [here -> Seats]
  BY DEF InTable
<1>2. IsFiniteSet(Seats) /\ Cardinality(Seats) = MaxNum
  BY FS_Interval, SeatAssumption DEF Seats
<1>3. IsFiniteSet(here) /\ Cardinality(here) \in Nat
  BY InTableFinite
<1>4. ~ \E x, y \in here : x # y /\ f[x] = f[y]
  BY DEF Apart
<1> HIDE DEF f
<1>5. ~ Cardinality(Seats) < Cardinality(here)
  BY <1>1, <1>2, <1>3, <1>4, FS_PigeonHole
<1> QED BY <1>2, <1>3, <1>5, SeatAssumption DEF Counted

-----------------------------------------------------------------------------
(* What the operators keep. *)

\* setPlayerOptype keeps the types.
LEMMA SetPlayerOptypeTyped ==
    ASSUME NEW s, NEW u, Typed(s)
    PROVE  Typed(SetPlayerOptype(s, u))
<1> DEFINE t == SetPlayerOptype(s, u)
<1>1. /\ SameChairs(s, t) /\ t.status = s.status /\ t.round = s.round
      /\ t.currBet = s.currBet /\ t.betT = s.betT /\ t.first = s.first
      /\ t.maxCard = s.maxCard /\ t.cmpT = s.cmpT /\ t.pst = s.pst
      /\ t.card = s.card /\ t.preWin = s.preWin /\ t.over = s.over
      /\ t.lock = s.lock /\ t.startT = s.startT /\ t.kickT = s.kickT
      /\ t.overT = s.overT /\ t.cmp = s.cmp /\ t.allin = s.allin
      /\ t.drop = s.drop /\ t.rank = s.rank /\ t.tmo = s.tmo
  BY DEF SetPlayerOptype, Typed, Shape, Fields, FreshTable, SameChairs
<1>2. t.offer \subseteq OpType /\ t.canAllin \in BOOLEAN
  BY DEF SetPlayerOptype, Typed, Shape, Steering, Fields, FreshTable, OpType,
         HasSomeOneAllin
<1> HIDE DEF t
<1>3. Shape(t) /\ Counted(t) /\ Apart(t)
  BY <1>1, ChairsKept DEF Typed, Shape
<1>4. Steering(t) /\ Notes(t)
  BY <1>1, <1>2 DEF Typed, Steering, Notes
<1> QED BY <1>3, <1>4 DEF Typed, t

\* setPlayerlimitcoin keeps the types: its limits are sums and minima of coins.
LEMMA SetPlayerLimitCoinTyped ==
    ASSUME NEW s, Typed(s)
    PROVE  Typed(SetPlayerLimitCoin(s))
<1> DEFINE t == SetPlayerLimitCoin(s)
<1>1. SameChairs(s, t)
  BY DEF SetPlayerLimitCoin, Typed, Shape, Fields, FreshTable, SameChairs
<1>2. Shape(t) /\ Steering(t) /\ Notes(t)
  BY DEF SetPlayerLimitCoin, Typed, Shape, Steering, Notes, Fields, FreshTable
<1> QED BY <1>1, <1>2, ChairsKept DEF Typed

\* setNextFirstPlayer keeps the types: the mark goes to a chair of the table.
LEMMA SetNextFirstTyped ==
    ASSUME NEW s, NEW u \in User, Typed(s)
    PROVE  Typed(SetNextFirst(s, u))
<1> DEFINE rest == Holders(s) \ {u}
           next == NextAfter(s, u, rest)
           t == [s EXCEPT !.first = s.seat[next]]
<1>1. CASE s.seat[u] # s.first \/ rest = {}
  BY <1>1 DEF SetNextFirst
<1>2. CASE ~ (s.seat[u] # s.first \/ rest = {})
  <2>1. SetNextFirst(s, u) = t
    BY <1>2 DEF SetNextFirst
  <2>2. rest \subseteq InTable(s) /\ rest \subseteq User
    BY DEF Holders, InTable
  <2>3. next \in rest
    BY <1>2, <2>2, NextAfterIn DEF Typed
  <2>4. s.seat[next] \in Seats
    BY <2>2, <2>3 DEF InTable
  <2> HIDE DEF next
  <2>5. SameChairs(s, t)
    BY DEF Typed, Shape, Fields, FreshTable, SameChairs
  <2>6. Shape(t) /\ Steering(t) /\ Notes(t)
    BY <2>4 DEF Typed, Shape, Steering, Notes, Fields, FreshTable
  <2> QED BY <2>1, <2>5, <2>6, ChairsKept DEF Typed
<1> QED BY <1>1, <1>2

\* Bets, forfeits and folds
LEMMA CoinsTyped ==
    ASSUME NEW s, NEW u \in User, NEW x, Typed(s)
    PROVE  /\ Typed(PlayerBetCoin(s, u, x))
           /\ Typed(Forfeit(s, u))
<1>1. SameChairs(s, PlayerBetCoin(s, u, x)) /\ SameChairs(s, Forfeit(s, u))
  BY DEF PlayerBetCoin, Forfeit, Typed, Shape, Fields, FreshTable, SameChairs
<1>2. /\ Shape(PlayerBetCoin(s, u, x)) /\ Steering(PlayerBetCoin(s, u, x))
      /\ Notes(PlayerBetCoin(s, u, x))
  BY DEF PlayerBetCoin, Typed, Shape, Steering, Notes, Fields, FreshTable
<1>3. /\ Shape(Forfeit(s, u)) /\ Steering(Forfeit(s, u))
      /\ Notes(Forfeit(s, u))
  BY DEF Forfeit, Typed, Shape, Steering, Notes, Fields, FreshTable
<1> QED BY <1>1, <1>2, <1>3, ChairsKept DEF Typed

\* Giving up the cards keeps the types.
LEMMA DiscardTyped ==
    ASSUME NEW s, NEW u, Typed(s)
    PROVE  Typed(Discard(s, u))
<1> DEFINE t == Discard(s, u)
<1>1. SameChairs(s, t)
  BY DEF Discard, Typed, Shape, Fields, FreshTable, SameChairs
<1>2. Steering(t) /\ Notes(t)
  BY DEF Discard, Typed, Shape, Steering, Notes, Fields, FreshTable
<1>3. Shape(t)
  BY DEF Discard, Typed, Shape, CardStatus, Fields, FreshTable
<1> QED BY <1>1, <1>2, <1>3, ChairsKept DEF Typed

\* Ending the hand keeps the types.
LEMMA GameOverTyped ==
    ASSUME NEW s, Typed(s)
    PROVE  Typed(GameOver(s)) /\ Typed(GameOverIfDecided(s))
<1> DEFINE t == GameOver(s)
<1>1. SameChairs(s, t)
  BY DEF GameOver, Typed, Shape, Fields, FreshTable, SameChairs
<1>2. Shape(t) /\ Steering(t) /\ Notes(t)
  BY DEF GameOver, Typed, Shape, Steering, Notes, Fields, FreshTable,
         UserOrNone
<1>3. Typed(t)
  BY <1>1, <1>2, ChairsKept DEF Typed
<1> QED BY <1>3 DEF GameOverIfDecided

\* getNextBetPlayer counts no further than max_round.
LEMMA GetNextBetPlayerTyped ==
    ASSUME NEW s, NEW u \in User, Typed(s)
    PROVE  /\ Typed(GetNextBetPlayer(s, u))
           /\ GetNextBetPlayer(s, u).seat = s.seat
<1> DEFINE able == AbleToBet(s, u)
           next == NextAfter(s, u, able)
           r == IF s.seat[next] = s.first THEN s.round + 1 ELSE s.round
           acted == [s EXCEPT !.betT = None,
                              !.tmo[u] = IF s.round # 1 THEN 0 ELSE @]
           turn == [acted EXCEPT !.round = r, !.currBet = next]
           asked == SetPlayerOptype(turn, next)
           clocked == [asked EXCEPT !.betT = next]
<1>1. Typed(acted) /\ acted.seat = s.seat
  <2>1. SameChairs(s, acted)
    BY DEF Typed, Shape, Fields, FreshTable, SameChairs
  <2>2. Shape(acted) /\ Steering(acted)
    BY DEF Typed, Shape, Steering, Fields, FreshTable, UserOrNone
  <2>3. acted.tmo \in [User -> Nat]
    BY DEF Typed, Shape, Notes, Fields, FreshTable
  <2>4. Notes(acted)
    BY <2>3 DEF Typed, Shape, Notes, Fields, FreshTable
  <2> QED BY <2>1, <2>2, <2>4, ChairsKept DEF Typed, SameChairs
<1>2. CASE able = {}
  <2>1. GetNextBetPlayer(s, u) = SetPlayerOptype(acted, u)
    BY <1>2 DEF GetNextBetPlayer
  <2> HIDE DEF acted
  <2> QED BY <1>1, <2>1, SetPlayerOptypeTyped, SetPlayerOptypeSame
          DEF Typed, Same, SameButCards
<1>3. CASE able # {} /\ PastLastRound(r)
  <2> DEFINE over == GameOver(acted)
             t == [over EXCEPT !.round = MaxRound]
  <2>1. GetNextBetPlayer(s, u) = t
    BY <1>3 DEF GetNextBetPlayer
  <2> HIDE DEF acted
  <2>2. Typed(over) /\ over.seat = s.seat
    <3>1. over.seat = acted.seat
      BY <1>1 DEF GameOver, Typed, Shape, Fields, FreshTable
    <3> QED BY <1>1, <3>1, GameOverTyped
  <2> HIDE DEF over
  <2>3. SameChairs(over, t)
    BY <2>2 DEF Typed, Shape, Fields, FreshTable, SameChairs
  <2>4. Shape(t) /\ Steering(t) /\ Notes(t)
    BY <2>2, RoundAssumption
    DEF Typed, Shape, Steering, Notes, Fields, FreshTable
  <2> QED BY <2>1, <2>2, <2>3, <2>4, ChairsKept DEF Typed, SameChairs
<1>4. CASE able # {} /\ ~ PastLastRound(r)
  <2>1. able \subseteq User
    BY DEF AbleToBet, Holders, InTable
  <2>2. next \in User
    BY <1>4, <2>1, NextAfterIn DEF Typed
  <2>3. GetNextBetPlayer(s, u) = SetPlayerLimitCoin(clocked)
    BY <1>4 DEF GetNextBetPlayer
  <2>4. r \in 0..MaxRound
    BY <1>4, RoundAssumption DEF PastLastRound, Typed, Steering
  <2> HIDE DEF able, next, r, acted
  <2>5. Typed(turn) /\ turn.seat = s.seat
    <3>1. SameChairs(acted, turn)
      BY <1>1 DEF Typed, Shape, Fields, FreshTable, SameChairs
    <3>2. Shape(turn) /\ Steering(turn) /\ Notes(turn)
      BY <1>1, <2>2, <2>4
      DEF Typed, Shape, Steering, Notes, Fields, FreshTable, UserOrNone
    <3> QED BY <1>1, <3>1, <3>2, ChairsKept DEF Typed, SameChairs
  <2> HIDE DEF turn
  <2>6. Typed(asked) /\ asked.seat = s.seat
    BY <2>5, SetPlayerOptypeTyped, SetPlayerOptypeSame
    DEF Typed, Same, SameButCards
  <2> HIDE DEF asked
  <2>7. Typed(clocked) /\ clocked.seat = s.seat
    <3>1. SameChairs(asked, clocked)
      BY <2>6 DEF Typed, Shape, Fields, FreshTable, SameChairs
    <3>2. Shape(clocked) /\ Steering(clocked) /\ Notes(clocked)
      BY <2>2, <2>6
      DEF Typed, Shape, Steering, Notes, Fields, FreshTable, UserOrNone
    <3> QED BY <2>6, <3>1, <3>2, ChairsKept DEF Typed, SameChairs
  <2> HIDE DEF clocked
  <2> QED BY <2>3, <2>7, SetPlayerLimitCoinTyped, SetPlayerLimitCoinSame
          DEF Typed, Same, SameButCards
<1> QED BY <1>2, <1>3, <1>4

-----------------------------------------------------------------------------
(* Coming, leaving and dealing. *)

\* Starting and stopping the timers of the lobby
LEMMA SetKickTimerTyped ==
    ASSUME NEW s, Typed(s)
    PROVE  Typed(SetKickTimer(s))
<1>1. SameChairs(s, SetKickTimer(s))
  BY DEF SetKickTimer, Typed, Shape, Fields, FreshTable, SameChairs
<1>2. Shape(SetKickTimer(s))
  BY DEF SetKickTimer, Typed, Shape, Fields, FreshTable
<1>3. Steering(SetKickTimer(s))
  BY DEF SetKickTimer, Typed, Shape, Steering, Fields, FreshTable
<1>4. Notes(SetKickTimer(s))
  BY DEF SetKickTimer, Typed, Shape, Notes, Fields, FreshTable
<1> QED BY <1>1, <1>2, <1>3, <1>4, ChairsKept DEF Typed

\* A newcomer keeps the types: his chair was free, and the count goes up by
\* one.
LEMMA PlayerCommingTyped ==
    ASSUME NEW s, NEW u \in User, NEW m, Typed(s), MaxNum > 2,
           s.seat[u] = NoSeat, FreeChairs(s) # {}
    PROVE  Typed(PlayerComming(s, u, m))
<1> DEFINE i0 == CHOOSE i \in FreeChairs(s) : \A j \in FreeChairs(s) : i <= j
           chair == SeatOrder[i0]
           t == PlayerComming(s, u, m)
<1>1. chair \in Seats
  BY ChairIn
<1>2. \A v \in User : s.seat[v] # chair
  BY FreeChairLeast DEF FreeChairs
<1> HIDE DEF chair
<1>3. /\ DOMAIN t = Fields /\ t.count = s.count + 1
      /\ t.seat = [s.seat EXCEPT ![u] = chair]
      /\ t.status = WaitingStatus(s)
      /\ t.pst = [s.pst EXCEPT ![u] = "COMING"]
  BY DEF PlayerComming, chair, Typed, Shape, Fields, FreshTable
<1>4. Shape(t)
  <2>1. t.pst \in [User -> PlayerStatus]
    BY <1>3 DEF Typed, Shape, PlayerStatus
  <2>2. t.seat \in [User -> Seats \cup {NoSeat}]
    BY <1>1, <1>3 DEF Typed, Shape
  <2>3. /\ t.card = s.card /\ t.preWin = s.preWin /\ t.over = s.over
        /\ t.lock = s.lock /\ t.startT = s.startT /\ t.kickT = s.kickT
        /\ t.overT = s.overT
    BY DEF PlayerComming, Typed, Shape, Fields, FreshTable
  <2> QED BY <1>3, <2>1, <2>2, <2>3 DEF Typed, Shape
<1>5. t.status \in TableStatus
  BY <1>3 DEF WaitingStatus, Typed, Steering, TableStatus
<1>6. Steering(t) /\ Notes(t)
  BY <1>5 DEF PlayerComming, Typed, Shape, Steering, Notes, Fields, FreshTable
<1> HIDE DEF t
<1>7. u \notin InTable(s)
  BY SeatAssumption DEF InTable, NoSeat, Seats
<1>8. InTable(t) = InTable(s) \cup {u}
  BY <1>1, <1>3 DEF InTable, Typed, Shape
<1>9. Counted(t)
  BY <1>3, <1>7, <1>8, InTableFinite, FS_AddElement DEF Typed, Counted
<1>10. Apart(t)
  BY <1>2, <1>3, <1>8 DEF Apart, InTable, Typed, Shape
<1> QED BY <1>4, <1>6, <1>9, <1>10 DEF Typed, t

\* A player who comes back keeps the types.
LEMMA PlayerReplacedTyped ==
    ASSUME NEW s, NEW u \in User, NEW m, Typed(s)
    PROVE  Typed(PlayerReplaced(s, u, m))
<1> DEFINE t == PlayerReplaced(s, u, m)
<1>1. Same(s, t)
  BY ReplacedSame DEF Typed
<1>2. /\ t.round = s.round /\ t.first = s.first /\ t.maxCard = s.maxCard
      /\ t.offer = s.offer /\ t.canAllin = s.canAllin /\ t.cmpT = s.cmpT
  BY DEF PlayerReplaced, Typed, Shape, Fields, FreshTable
<1>3. /\ t.allin = [s.allin EXCEPT ![u] = FALSE]
      /\ t.drop = [s.drop EXCEPT ![u] = FALSE]
      /\ t.tmo = [s.tmo EXCEPT ![u] = 0] /\ t.rank = s.rank
  BY DEF PlayerReplaced, Typed, Shape, Fields, FreshTable
<1>4. t.cmp \in [kept : BOOLEAN, p1 : UserOrNone, p2 : UserOrNone,
                 result : {"win", "draw", "lose", "none"}]
  <2>1. t.cmp = [s.cmp EXCEPT !.p1 = IF @ = u THEN None ELSE @,
                              !.p2 = IF @ = u THEN None ELSE @]
    BY DEF PlayerReplaced, Typed, Shape, Fields, FreshTable
  <2> HIDE DEF t
  <2> QED BY <2>1 DEF Typed, Notes, UserOrNone
<1> HIDE DEF t
<1>5. Notes(t)
  BY <1>3, <1>4 DEF Typed, Notes
<1>6. Shape(t) /\ SameChairs(s, t)
  BY <1>1 DEF Typed, Shape, Same, SameButCards, SameChairs
<1>7. Steering(t)
  BY <1>1, <1>2 DEF Typed, Steering, Same, SameButCards
<1> QED BY <1>5, <1>6, <1>7, ChairsKept DEF Typed, t

\* Leavers keep the types, and the table is left to the others.
LEMMA PlayersLeaveTyped ==
    ASSUME NEW s, NEW G \in SUBSET InTable(s), Typed(s)
    PROVE  /\ Typed(PlayersLeave(s, G))
           /\ InTable(PlayersLeave(s, G)) = InTable(s) \ G
<1> DEFINE n == CountAfter(s, G)
           Out(f, x) == [u \in User |-> IF u \in G THEN x ELSE f[u]]
           out == [s EXCEPT
             !.seat = Out(@, NoSeat), !.pst = Out(@, "LOGOUT"),
             !.card = Out(@, "DISCARD"), !.money = Out(@, 0),
             !.bet = Out(@, 0), !.allin = Out(@, FALSE),
             !.allinCoin = Out(@, 0), !.drop = Out(@, FALSE),
             !.tmo = Out(@, 0), !.rank = Out(@, 0),
             !.count = n, !.status = WaitingStatus(s)]
           one == [out EXCEPT !.kickT = FALSE, !.lock = FALSE]
           init == InitTable(out)
           t == PlayersLeave(s, G)
<1>1. t = IF G = {} THEN s ELSE IF n = 0 THEN init
          ELSE IF n = 1 THEN one ELSE out
  BY DEF PlayersLeave
<1>2. n = Cardinality(InTable(s) \ G)
  <2>1. G = InTable(s) \cap G
    OBVIOUS
  <2>2. Cardinality(InTable(s) \ G) = Cardinality(InTable(s)) - Cardinality(G)
    BY <2>1, InTableFinite, FS_Difference
  <2> QED BY <2>2 DEF CountAfter, Typed, Counted
<1> HIDE DEF n
<1>3. /\ DOMAIN out = Fields /\ out.count = n
      /\ out.status = WaitingStatus(s)
      /\ out.seat = Out(s.seat, NoSeat) /\ out.pst = Out(s.pst, "LOGOUT")
      /\ out.card = Out(s.card, "DISCARD") /\ out.preWin = s.preWin
      /\ out.over = s.over /\ out.overT = s.overT /\ out.lock = s.lock
      /\ out.startT = s.startT /\ out.kickT = s.kickT
      /\ out.betT = s.betT /\ out.currBet = s.currBet
      /\ out.round = s.round /\ out.first = s.first
      /\ out.maxCard = s.maxCard /\ out.offer = s.offer
      /\ out.canAllin = s.canAllin /\ out.cmpT = s.cmpT
      /\ out.cmp = s.cmp /\ out.allin = Out(s.allin, FALSE)
      /\ out.drop = Out(s.drop, FALSE) /\ out.rank = Out(s.rank, 0)
      /\ out.tmo = Out(s.tmo, 0)
  <2>1. DOMAIN s = Fields
    BY DEF Typed, Shape
  <2> QED BY <2>1, Zenon DEF Fields, FreshTable
<1> HIDE DEF out
<1>4. Shape(out)
  <2>1. out.seat \in [User -> Seats \cup {NoSeat}]
    BY <1>3 DEF Typed, Shape
  <2>2. out.pst \in [User -> PlayerStatus]
    BY <1>3 DEF Typed, Shape, PlayerStatus
  <2>3. out.card \in [User -> CardStatus]
    BY <1>3 DEF Typed, Shape, CardStatus
  <2> QED BY <1>3, <2>1, <2>2, <2>3 DEF Typed, Shape
<1>5. Steering(out)
  <2>1. out.status \in TableStatus
    BY <1>3 DEF WaitingStatus, Typed, Steering, TableStatus
  <2> QED BY <1>3, <2>1 DEF Typed, Steering
<1>6. Notes(out)
  <2>1. out.cmp = s.cmp /\ out.rank \in [User -> Nat] /\ out.tmo \in [User -> Nat]
    BY <1>3 DEF Typed, Notes
  <2>2. /\ out.allin = Out(s.allin, FALSE) /\ s.allin \in [User -> BOOLEAN]
        /\ out.drop = Out(s.drop, FALSE) /\ s.drop \in [User -> BOOLEAN]
    BY <1>3 DEF Typed, Notes
  <2>3. ASSUME NEW f \in [User -> BOOLEAN]
        PROVE  Out(f, FALSE) \in [User -> BOOLEAN]
    BY Zenon
  <2> QED BY <2>1, <2>2, <2>3 DEF Typed, Notes
<1>7. /\ InTable(out) = InTable(s) \ G
      /\ \A v \in InTable(out) : out.seat[v] = s.seat[v]
  BY <1>3, SeatAssumption DEF InTable, Seats, NoSeat
<1>8. Typed(out)
  BY <1>2, <1>3, <1>4, <1>5, <1>6, <1>7 DEF Typed, Counted, Apart
<1>9. Typed(one) /\ InTable(one) = InTable(out)
  <2>1. SameChairs(out, one)
    BY <1>4 DEF Shape, Fields, FreshTable, SameChairs
  <2>2. Shape(one)
    BY <1>4 DEF Shape, Fields, FreshTable
  <2>3. Steering(one)
    BY <1>4, <1>5 DEF Shape, Steering, Fields, FreshTable
  <2>4. Notes(one)
    BY <1>4, <1>6 DEF Shape, Notes, Fields, FreshTable
  <2> QED BY <1>8, <2>1, <2>2, <2>3, <2>4, ChairsKept DEF Typed
<1>10. CASE n = 0
  <2>1. SameChairs(out, init)
    BY <1>3, <1>4, <1>10
    DEF InitTable, Cleared, Shape, Fields, FreshTable, SameChairs
  <2>2. Shape(init)
    <3>1. /\ DOMAIN init = Fields /\ init.seat = out.seat /\ init.pst = out.pst
          /\ init.card = out.card /\ init.overT = out.overT
      BY <1>4 DEF InitTable, Cleared, Shape, Fields, FreshTable
    <3>2. /\ init.preWin = NoSeat /\ init.over = FALSE /\ init.lock = FALSE
          /\ init.startT = FALSE /\ init.kickT = FALSE
      BY <1>4 DEF InitTable, Cleared, Shape, Fields, FreshTable
    <3> QED BY <1>4, <3>1, <3>2 DEF Shape
  <2>5. Notes(init)
    <3>1. /\ init.cmp = out.cmp /\ init.allin = out.allin /\ init.drop = out.drop
          /\ init.rank = out.rank /\ init.tmo = out.tmo
      BY <1>4 DEF InitTable, Cleared, Shape, Fields, FreshTable
    <3> QED BY <1>6, <3>1 DEF Notes
  <2>3. Steering(init)
    <3>1. /\ init.status = "EMPTY" /\ init.round = 0 /\ init.first = 0
          /\ init.betT = None /\ init.canAllin = FALSE
          /\ init.currBet = out.currBet /\ init.maxCard = out.maxCard
          /\ init.offer = out.offer /\ init.cmpT = out.cmpT
      BY <1>4 DEF InitTable, Cleared, Shape, Fields, FreshTable
    <3>2. 0 \in 0..MaxRound /\ 0 \in Seats
      BY SeatAssumption, RoundAssumption DEF Seats
    <3> QED BY <1>5, <3>1, <3>2 DEF Steering, UserOrNone, TableStatus
  <2>4. Typed(init) /\ InTable(init) = InTable(out)
    BY <1>8, <2>1, <2>2, <2>3, <2>5, ChairsKept DEF Typed
  <2> HIDE DEF init
  <2> QED BY <1>1, <1>7, <1>10, <2>4
<1>11. CASE n # 0
  <2> HIDE DEF one, init
  <2> QED BY <1>1, <1>7, <1>8, <1>9, <1>11
<1> QED BY <1>10, <1>11

\* gameStart, with hands of the strengths d
LEMMA GameStartTyped ==
    ASSUME NEW s, NEW d \in Deals, Typed(s), s.count > 1
    PROVE  Typed(GameStart(s, d))
<1> DEFINE here == InTable(s)
           from == IF s.preWin >= 0 THEN s.preWin ELSE 0
           dealer == FirstFrom(s, from, here)
           speaker == NextAfter(s, dealer, here \ {dealer})
           In(f, x) == [u \in User |-> IF u \in here THEN x ELSE f[u]]
           dealt == [CloseLobby(s) EXCEPT
             !.round = 1, !.card = In(@, "UNKNOWN"), !.pst = In(@, "ACTIVE"),
             !.money = [u \in User |-> IF u \in here THEN @[u] - Ante ELSE @[u]],
             !.bet = [u \in User |-> IF u \in here THEN @[u] + Ante ELSE @[u]],
             !.rank = [u \in User |-> IF u \in here THEN d[u] ELSE @[u]],
             !.pool = @ + Ante * Cardinality(here),
             !.betMax = Ante, !.maxCard = "UNKNOWN",
             !.first = s.seat[speaker]]
           asked == SetPlayerLimitCoin(SetPlayerOptype(dealt, speaker))
           t == [asked EXCEPT
                   !.status = "ACTIVE", !.currBet = speaker, !.betT = speaker]
<1>1. GameStart(s, d) = t
  BY DEF GameStart
<1>2. \A u \in here : u \in User /\ s.seat[u] \in Seats /\ s.seat[u] \in Int
  BY SeatAssumption DEF InTable, Seats
<1>3. here # {} /\ \A u : here # {u}
  BY TwoOrMore DEF Typed
<1>4. from \in Int
  BY SeatAssumption DEF Typed, Shape, Seats, NoSeat
<1> HIDE DEF from, here
<1>5. dealer \in here
  BY <1>2, <1>3, <1>4, FirstFromIn
<1> HIDE DEF dealer
<1>6. here \ {dealer} # {} /\ here \ {dealer} \subseteq User
  BY <1>2, <1>3, <1>5
<1>7. speaker \in User /\ s.seat[speaker] \in Seats
  BY <1>2, <1>5, <1>6, NextAfterIn DEF Typed
<1> HIDE DEF speaker
<1>8. SameChairs(s, dealt)
  BY DEF CloseLobby, Typed, Shape, Fields, FreshTable, SameChairs
<1>9. Shape(dealt)
  <2>1. /\ dealt.pst = In(s.pst, "ACTIVE") /\ dealt.card = In(s.card, "UNKNOWN")
        /\ DOMAIN dealt = Fields /\ dealt.seat = s.seat
        /\ dealt.preWin = s.preWin /\ dealt.over = s.over
        /\ dealt.lock = FALSE /\ dealt.startT = FALSE /\ dealt.kickT = FALSE
        /\ dealt.overT = s.overT
    BY DEF CloseLobby, Typed, Shape, Fields, FreshTable
  <2> HIDE DEF dealt
  <2>2. dealt.pst \in [User -> PlayerStatus]
    BY <2>1 DEF Typed, Shape, PlayerStatus
  <2>3. dealt.card \in [User -> CardStatus]
    BY <2>1 DEF Typed, Shape, CardStatus
  <2> QED BY <2>1, <2>2, <2>3 DEF Typed, Shape
<1>10. Steering(dealt)
  BY <1>7, RoundAssumption
  DEF CloseLobby, Typed, Shape, Steering, Fields, FreshTable, CardStatus
<1>11. Notes(dealt)
  <2>1. dealt.rank = [u \in User |-> IF u \in here THEN d[u] ELSE s.rank[u]]
    BY DEF CloseLobby, Typed, Shape, Fields, FreshTable
  <2>2. dealt.rank \in [User -> Nat]
    BY <2>1, DealAssumption DEF Typed, Notes
  <2>3. /\ dealt.cmp = s.cmp /\ dealt.allin = s.allin /\ dealt.drop = s.drop
        /\ dealt.tmo = s.tmo
    BY DEF CloseLobby, Typed, Shape, Fields, FreshTable
  <2> QED BY <2>2, <2>3 DEF Typed, Notes
<1> HIDE DEF dealt
<1>12. Typed(dealt)
  BY <1>8, <1>9, <1>10, <1>11, ChairsKept DEF Typed
<1>13. Typed(asked)
  BY <1>12, SetPlayerOptypeTyped, SetPlayerLimitCoinTyped
<1> HIDE DEF asked
<1>14. SameChairs(asked, t)
  BY <1>13 DEF Typed, Shape, Fields, FreshTable, SameChairs
<1>15. Shape(t) /\ Steering(t) /\ Notes(t)
  BY <1>7, <1>13 DEF Typed, Shape, Steering, Notes, Fields, FreshTable,
                     UserOrNone, TableStatus
<1> QED BY <1>1, <1>13, <1>14, <1>15, ChairsKept DEF Typed

\* Dealing when everybody is ready keeps the types.
LEMMA StartIfAllReadyTyped ==
    ASSUME NEW s, NEW d \in Deals, Typed(s)
    PROVE  Typed(StartIfAllReady(s, d))
BY GameStartTyped DEF StartIfAllReady

\* h after calcCoin has booked the result, before anybody is put out
Paid(h) ==
    LET final == FinalGetCoin(h)
        won == {u \in Played(h) : final[u] > 0}
    IN [Refunded(h) EXCEPT
          !.money = [u \in User |->
            IF u \in Played(h) THEN @[u] + AfterTax(final[u]) ELSE @[u]],
          !.preWin = IF won = {} THEN @ ELSE Max({h.seat[u] : u \in won})]

\* Booking the result keeps the table's type and whoever is at it.
LEMMA PaidTyped ==
    ASSUME NEW s, Typed(s)
    PROVE  /\ Typed(HandOver(s))
           /\ Typed(Paid(HandOver(s)))
           /\ InTable(Paid(HandOver(s))) = InTable(HandOver(s))
<1> DEFINE h == HandOver(s)
           final == FinalGetCoin(h)
           won == {u \in Played(h) : final[u] > 0}
           paid == [Refunded(h) EXCEPT
             !.money = [u \in User |->
               IF u \in Played(h) THEN @[u] + AfterTax(final[u]) ELSE @[u]],
             !.preWin = IF won = {} THEN @ ELSE Max({h.seat[u] : u \in won})]
<1>1. Paid(h) = paid
  BY DEF Paid
<1>2. Typed(h)
  <2>1. SameChairs(s, h)
    BY DEF HandOver, Typed, Shape, Fields, FreshTable, SameChairs
  <2>2. Shape(h)
    BY DEF HandOver, Typed, Shape, Fields, FreshTable, PlayerStatus
  <2>3. Steering(h) /\ Notes(h)
    BY DEF HandOver, Typed, Shape, Steering, Notes, Fields, FreshTable,
           TableStatus
  <2> QED BY <2>1, <2>2, <2>3, ChairsKept DEF Typed
<1> HIDE DEF h
<1>3. won \subseteq InTable(h)
  BY DEF Played
<1> HIDE DEF won, final
<1>4. won # {} => Max({h.seat[u] : u \in won}) \in Seats
  <2>1. {h.seat[u] : u \in won} \subseteq Seats
    BY <1>3 DEF InTable
  <2>2. won # {} => {h.seat[u] : u \in won} # {}
    OBVIOUS
  <2> QED BY <2>1, <2>2, MaxIn
<1>5. Typed(paid) /\ InTable(paid) = InTable(h)
  <2>1. SameChairs(h, paid)
    BY <1>2 DEF Refunded, Typed, Shape, Fields, FreshTable, SameChairs
  <2>2. Shape(paid)
    BY <1>2, <1>4 DEF Refunded, Typed, Shape, Fields, FreshTable
  <2>3. Steering(paid)
    BY <1>2 DEF Refunded, Typed, Shape, Steering, Fields, FreshTable
  <2>4. Notes(paid)
    BY <1>2 DEF Refunded, Typed, Shape, Notes, Fields, FreshTable
  <2> QED BY <1>2, <2>1, <2>2, <2>3, <2>4, ChairsKept DEF Typed
<1> QED BY <1>1, <1>2, <1>5 DEF h

\* The settlement keeps the types.
LEMMA SettleTyped ==
    ASSUME NEW s, Typed(s)
    PROVE  Typed(Settle(HandOver(s)))
<1> DEFINE h == HandOver(s)
           paid == Paid(h)
           left == PlayersLeave(paid, PutOut(h))
           here == InTable(left)
           reset == [left EXCEPT
             !.card = [u \in User |-> IF u \in here THEN "DISCARD" ELSE @[u]],
             !.bet = [u \in User |-> IF u \in here THEN 0 ELSE @[u]],
             !.allin = [u \in User |-> IF u \in here THEN FALSE ELSE @[u]],
             !.allinCoin = [u \in User |-> IF u \in here THEN 0 ELSE @[u]],
             !.rank = [u \in User |-> IF u \in here THEN 0 ELSE @[u]],
             !.offer = {}]
           t == Cleared(reset)
<1>1. Settle(h) = t
  BY DEF Settle, ReSetInfo, Paid
<1>5. Typed(paid) /\ InTable(paid) = InTable(h)
  BY PaidTyped
<1> HIDE DEF h, paid
<1>6. Typed(left)
  BY <1>5, PlayersLeaveTyped DEF PutOut
<1> HIDE DEF left, here
<1>7. Typed(reset)
  <2>1. SameChairs(left, reset)
    BY <1>6 DEF Typed, Shape, Fields, FreshTable, SameChairs
  <2>2. Shape(reset)
    BY <1>6 DEF Typed, Shape, Fields, FreshTable, CardStatus
  <2>3. Steering(reset)
    BY <1>6 DEF Typed, Shape, Steering, Fields, FreshTable, OpType
  <2>4. Notes(reset)
    <3>1. /\ reset.cmp = left.cmp /\ reset.drop = left.drop /\ reset.tmo = left.tmo
          /\ reset.allin =
               [u \in User |-> IF u \in here THEN FALSE ELSE left.allin[u]]
          /\ reset.rank = [u \in User |-> IF u \in here THEN 0 ELSE left.rank[u]]
      BY <1>6 DEF Typed, Shape, Fields, FreshTable
    <3> HIDE DEF reset
    <3>2. reset.allin \in [User -> BOOLEAN]
      <4>1. left.allin \in [User -> BOOLEAN]
        BY <1>6 DEF Typed, Notes
      <4>2. [u \in User |-> IF u \in here THEN FALSE ELSE left.allin[u]]
              \in [User -> BOOLEAN]
        BY <4>1, Zenon
      <4> QED BY <3>1, <4>2
    <3>3. reset.rank \in [User -> Nat]
      BY <1>6, <3>1 DEF Typed, Notes
    <3> QED BY <1>6, <3>1, <3>2, <3>3 DEF Typed, Notes
  <2> QED BY <1>6, <2>1, <2>2, <2>3, <2>4, ChairsKept DEF Typed
<1> HIDE DEF reset
<1>8. Typed(t)
  <2>1. SameChairs(reset, t)
    BY <1>7 DEF Cleared, Typed, Shape, Fields, FreshTable, SameChairs
  <2>2. Shape(t)
    <3>1. /\ DOMAIN t = Fields /\ t.seat = reset.seat /\ t.pst = reset.pst
          /\ t.card = reset.card /\ t.preWin = reset.preWin
          /\ t.overT = reset.overT /\ t.startT = reset.startT
          /\ t.kickT = reset.kickT
      BY <1>7 DEF Cleared, Typed, Shape, Fields, FreshTable
    <3>2. t.over = FALSE /\ t.lock = FALSE
      BY <1>7 DEF Cleared, Typed, Shape, Fields, FreshTable
    <3> HIDE DEF t
    <3> QED BY <1>7, <3>1, <3>2 DEF Typed, Shape
  <2>3. Notes(t)
    <3>1. /\ t.cmp = reset.cmp /\ t.allin = reset.allin /\ t.drop = reset.drop
          /\ t.rank = reset.rank /\ t.tmo = reset.tmo
      BY <1>7 DEF Cleared, Typed, Shape, Fields, FreshTable
    <3> HIDE DEF t
    <3> QED BY <1>7, <3>1 DEF Typed, Notes
  <2>4. Steering(t)
    <3>1. /\ t.round = 0 /\ t.first = 0 /\ t.canAllin = FALSE
          /\ t.status = reset.status /\ t.currBet = reset.currBet
          /\ t.betT = reset.betT /\ t.maxCard = reset.maxCard
          /\ t.offer = reset.offer /\ t.cmpT = reset.cmpT
      BY <1>7 DEF Cleared, Typed, Shape, Fields, FreshTable
    <3>2. 0 \in 0..MaxRound /\ 0 \in Seats
      BY SeatAssumption, RoundAssumption DEF Seats
    <3> HIDE DEF t
    <3> QED BY <1>7, <3>1, <3>2 DEF Typed, Steering
  <2> HIDE DEF t
  <2> QED BY <1>7, <2>1, <2>2, <2>3, <2>4, ChairsKept DEF Typed
<1> QED BY <1>1, <1>8 DEF h

-----------------------------------------------------------------------------
(* The steps. *)

TInv == Typed(table)

\* A table that was just constructed has its types.
LEMMA InitTyped == Init => TInv
<1> SUFFICES ASSUME Init PROVE Typed(table)
  BY DEF TInv
<1>1. Shape(table) /\ Counted(table) /\ InTable(table) = {}
  BY InitInv, SeatAssumption
  DEF IInv, TableInv, Core, Init, FreshTable, InTable, Seats, NoSeat
<1>2. Apart(table)
  BY <1>1 DEF Apart
<1>3. Steering(table) /\ Notes(table)
  BY SeatAssumption, RoundAssumption
  DEF Init, FreshTable, Steering, Notes, TableStatus, UserOrNone, Seats,
      CardStatus, NoCompare
<1> QED BY <1>1, <1>2, <1>3 DEF Typed

\* The messages of newcomers keep the types.
LEMMA ComingTyped ==
    ASSUME NEW u \in User, MaxNum > 2, TInv,
           \/ LoginComing(u) \/ LoginRedirected(u)
           \/ RobotComing(u) \/ RobotReplaced(u)
    PROVE  TInv'
<1>1. CASE LoginComing(u)
  <2>1. Typed(PlayerComming(table, u, acct[u]))
    BY <1>1, PlayerCommingTyped DEF LoginComing, TInv
  <2> QED BY <1>1, <2>1, SetKickTimerTyped DEF LoginComing, TableBecomes, TInv
<1>2. CASE LoginRedirected(u)
  BY <1>2, PlayerCommingTyped DEF LoginRedirected, TableBecomes, TInv
<1>3. CASE RobotComing(u)
  BY <1>3, PlayerCommingTyped DEF RobotComing, TableBecomes, TInv
<1>4. CASE RobotReplaced(u)
  BY <1>4, PlayerReplacedTyped DEF RobotReplaced, TableBecomes, TInv
<1> QED BY <1>1, <1>2, <1>3, <1>4

\* A note whether the client is there, or that a player is ready
LEMMA NoteTyped ==
    ASSUME NEW u \in User, TInv
    PROVE  /\ \A b \in BOOLEAN : Typed([table EXCEPT !.drop[u] = b])
           /\ Typed([table EXCEPT !.pst[u] = "RSTART"])
<1>1. ASSUME NEW b \in BOOLEAN PROVE Typed([table EXCEPT !.drop[u] = b])
  <2> DEFINE t == [table EXCEPT !.drop[u] = b]
  <2>1. SameChairs(table, t)
    BY DEF TInv, Typed, Shape, Fields, FreshTable, SameChairs
  <2>2. Shape(t) /\ Steering(t) /\ Notes(t)
    BY DEF TInv, Typed, Shape, Steering, Notes, Fields, FreshTable
  <2> QED BY <2>1, <2>2, ChairsKept DEF TInv, Typed
<1>2. Typed([table EXCEPT !.pst[u] = "RSTART"])
  <2> DEFINE t == [table EXCEPT !.pst[u] = "RSTART"]
  <2>1. SameChairs(table, t)
    BY DEF TInv, Typed, Shape, Fields, FreshTable, SameChairs
  <2>2. Shape(t)
    BY DEF TInv, Typed, Shape, Fields, FreshTable, PlayerStatus
  <2>3. Steering(t) /\ Notes(t)
    BY DEF TInv, Typed, Shape, Steering, Notes, Fields, FreshTable
  <2> QED BY <2>1, <2>2, <2>3, ChairsKept DEF TInv, Typed
<1> QED BY <1>1, <1>2

\* The messages of players who are not in a hand keep the types.
LEMMA LeavingTyped ==
    ASSUME NEW u \in User, TInv,
           \/ LeaveTable(u) \/ Logout(u) \/ Drop(u) \/ GetTableDetail(u)
    PROVE  TInv'
<1>1. CASE LeaveTable(u)
  <2>1. Typed(PlayersLeave(table, {u}))
    BY <1>1, PlayersLeaveTyped DEF LeaveTable, At, TInv
  <2> QED BY <1>1, <2>1, GameOverTyped, StartIfAllReadyTyped
          DEF LeaveTable, TableBecomes, TInv
<1>2. CASE Logout(u)
  <2> DEFINE s1 == [table EXCEPT !.drop[u] = TRUE]
             s2 == IF table.pst[u] = "ACTIVE" THEN s1
                   ELSE PlayersLeave(s1, {u})
  <2>1. u \in InTable(table)
        /\ \E d \in Deals : table' = StartIfAllReady(s2, d)
    BY <1>2 DEF Logout, At, TableBecomes
  <2>2. Typed(s1)
    BY NoteTyped
  <2>3. InTable(s1) = InTable(table)
    BY DEF TInv, Typed, Shape, Fields, FreshTable, InTable
  <2> HIDE DEF s1
  <2>4. Typed(s2)
    BY <2>1, <2>2, <2>3, PlayersLeaveTyped
  <2> HIDE DEF s2
  <2> QED BY <2>1, <2>4, StartIfAllReadyTyped DEF TInv
<1>3. CASE Drop(u) \/ GetTableDetail(u)
  BY <1>3, NoteTyped DEF Drop, GetTableDetail, TableBecomes, TInv
<1> QED BY <1>1, <1>2, <1>3

\* Leaving in the middle of a hand keeps the types.
LEMMA LeaveHandTyped ==
    ASSUME NEW u \in User, TInv, LeaveHand(u)
    PROVE  TInv'
<1> DEFINE s1 == Forfeit(table, u)
           s2 == IF table.currBet = u THEN GetNextBetPlayer(s1, u) ELSE s1
           sd == Discard(s2, u)
           s3 == SetNextFirst(sd, u)
           s4 == PlayersLeave(s3, {u})
<1>1. u \in InTable(table) /\ \E d \in Deals :
         table' = IF IsCanGameOver(s4) THEN GameOver(s4)
                  ELSE StartIfAllReady(s4, d)
  BY DEF LeaveHand, InHand, Playing, At
<1>2. Typed(s1) /\ s1.seat = table.seat
  BY CoinsTyped DEF Forfeit, TInv, Typed, Shape, Fields, FreshTable
<1> HIDE DEF s1
<1>3. Typed(s2) /\ s2.seat = table.seat
  BY <1>2, GetNextBetPlayerTyped
<1> HIDE DEF s2
<1>4. Typed(sd) /\ sd.seat = table.seat
  BY <1>3, DiscardTyped DEF Discard, Typed, Shape, Fields, FreshTable
<1> HIDE DEF sd
<1>5. Typed(s3) /\ s3.seat = table.seat
  BY <1>4, SetNextFirstTyped, SetNextFirstSame DEF Typed, Same, SameButCards
<1> HIDE DEF s3
<1>6. {u} \in SUBSET InTable(s3)
  BY <1>1, <1>5 DEF InTable
<1>7. Typed(s4)
  BY <1>5, <1>6, PlayersLeaveTyped
<1> HIDE DEF s4
<1> QED BY <1>1, <1>7, GameOverTyped, StartIfAllReadyTyped DEF TInv

\* The timers that put players out of the lobby
LEMMA LobbyTimerTyped ==
    ASSUME TInv, HeartTimeOut \/ TableGameStartTimeOut \/ TableKickTimeOut
    PROVE  TInv'
<1>1. CASE HeartTimeOut
  <2>1. PICK G \in SUBSET {u \in InTable(table) : table.pst[u] # "ACTIVE"} :
          table' = PlayersLeave(table, G)
    BY <1>1 DEF HeartTimeOut, TableBecomes
  <2>2. G \in SUBSET InTable(table)
    OBVIOUS
  <2> QED BY <2>1, <2>2, PlayersLeaveTyped DEF TInv
<1>2. CASE TableGameStartTimeOut
  <2> DEFINE s1 == [table EXCEPT !.startT = FALSE]
             late == {u \in InTable(s1) : s1.pst[u] \in {"COMING", "OVER"}}
             s2 == PlayersLeave(s1, late)
  <2>1. \E d \in Deals :
          table' = IF IsActive(s1) \/ ~ IsCanGameStart(s1) THEN s1
                   ELSE StartIfAllReady(s2, d)
    BY <1>2 DEF TableGameStartTimeOut, TableBecomes
  <2>2. Typed(s1)
    <3>1. SameChairs(table, s1)
      BY DEF TInv, Typed, Shape, Fields, FreshTable, SameChairs
    <3>2. Shape(s1) /\ Steering(s1) /\ Notes(s1)
      BY DEF TInv, Typed, Shape, Steering, Notes, Fields, FreshTable
    <3> QED BY <3>1, <3>2, ChairsKept DEF TInv, Typed
  <2> HIDE DEF s1
  <2>3. Typed(s2)
    BY <2>2, PlayersLeaveTyped
  <2> HIDE DEF s2
  <2> QED BY <2>1, <2>2, <2>3, StartIfAllReadyTyped DEF TInv
<1>3. CASE TableKickTimeOut
  <2> DEFINE s1 == [table EXCEPT !.kickT = FALSE, !.lock = FALSE]
             late == InTable(s1) \ Ready(s1)
             s2 == PlayersLeave(s1, late)
  <2>1. \E d \in Deals : table' = IF IsActive(s1) \/ s1.count = 1 THEN s1
                                 ELSE StartIfAllReady(s2, d)
    BY <1>3 DEF TableKickTimeOut, TableBecomes
  <2>2. Typed(s1)
    <3>1. SameChairs(table, s1)
      BY DEF TInv, Typed, Shape, Fields, FreshTable, SameChairs
    <3>2. Shape(s1) /\ Steering(s1) /\ Notes(s1)
      BY DEF TInv, Typed, Shape, Steering, Notes, Fields, FreshTable
    <3> QED BY <3>1, <3>2, ChairsKept DEF TInv, Typed
  <2> HIDE DEF s1
  <2>3. Typed(s2)
    BY <2>2, PlayersLeaveTyped
  <2> HIDE DEF s2
  <2> QED BY <2>1, <2>2, <2>3, StartIfAllReadyTyped DEF TInv
<1> QED BY <1>1, <1>2, <1>3

\* Getting ready keeps the types.
LEMMA StartGameTyped ==
    ASSUME NEW u \in User, TInv, StartGame(u)
    PROVE  TInv'
<1> DEFINE s1 == [table EXCEPT !.pst[u] = "RSTART"]
           s2 == IF s1.lock THEN s1 ELSE SetKickTimer(s1)
           s3 == IF ~ IsActive(s2) /\ IsCanGameStart(s2)
                 THEN [s2 EXCEPT !.startT = TRUE] ELSE s2
<1>1. \E d \in Deals : table' = IF IsAllReady(s1) /\ s1.count > 1
                               THEN GameStart(s1, d) ELSE s3
  BY DEF StartGame, TableBecomes
<1>2. Typed(s1)
  BY NoteTyped
<1> HIDE DEF s1
<1>3. Typed(s2)
  BY <1>2, SetKickTimerTyped
<1> HIDE DEF s2
<1>4. Typed(s3)
  <2> DEFINE t == [s2 EXCEPT !.startT = TRUE]
  <2>1. SameChairs(s2, t)
    BY <1>3 DEF Typed, Shape, Fields, FreshTable, SameChairs
  <2>2. Shape(t) /\ Steering(t) /\ Notes(t)
    BY <1>3 DEF Typed, Shape, Steering, Notes, Fields, FreshTable
  <2>3. Typed(t)
    BY <1>3, <2>1, <2>2, ChairsKept DEF Typed
  <2> QED BY <1>3, <2>3
<1> HIDE DEF s3
<1> QED BY <1>1, <1>2, <1>4, GameStartTyped DEF TInv

\* Stakes and stopped or started clocks: what the betting handlers set before
\* they call the operators above
LEMMA StakeTyped ==
    ASSUME NEW s, NEW u \in User, NEW x, NEW y, Typed(s)
    PROVE  /\ Typed([s EXCEPT !.betMax = x, !.maxCard = s.card[u]])
           /\ Typed([s EXCEPT !.hasAllin = y, !.allin[u] = TRUE])
           /\ \A b \in BOOLEAN : Typed([s EXCEPT !.allin[u] = @ \/ b])
<1>1. Typed([s EXCEPT !.betMax = x, !.maxCard = s.card[u]])
  <2> DEFINE t == [s EXCEPT !.betMax = x, !.maxCard = s.card[u]]
  <2>1. SameChairs(s, t)
    BY DEF Typed, Shape, Fields, FreshTable, SameChairs
  <2>2. Shape(t) /\ Steering(t) /\ Notes(t)
    BY DEF Typed, Shape, Steering, Notes, Fields, FreshTable
  <2> QED BY <2>1, <2>2, ChairsKept DEF Typed
<1>2. Typed([s EXCEPT !.hasAllin = y, !.allin[u] = TRUE])
  <2> DEFINE t == [s EXCEPT !.hasAllin = y, !.allin[u] = TRUE]
  <2>1. SameChairs(s, t)
    BY DEF Typed, Shape, Fields, FreshTable, SameChairs
  <2>2. Shape(t) /\ Steering(t) /\ Notes(t)
    BY DEF Typed, Shape, Steering, Notes, Fields, FreshTable
  <2> QED BY <2>1, <2>2, ChairsKept DEF Typed
<1>3. ASSUME NEW b \in BOOLEAN
      PROVE  Typed([s EXCEPT !.allin[u] = @ \/ b])
  <2> DEFINE t == [s EXCEPT !.allin[u] = @ \/ b]
  <2>1. SameChairs(s, t)
    BY DEF Typed, Shape, Fields, FreshTable, SameChairs
  <2>2. Shape(t) /\ Steering(t)
    BY DEF Typed, Shape, Steering, Fields, FreshTable
  <2>3. Notes(t)
    <3>1. CASE b
      BY <3>1 DEF Typed, Shape, Notes, Fields, FreshTable
    <3>2. CASE ~ b
      BY <3>2 DEF Typed, Shape, Notes, Fields, FreshTable
    <3> QED BY <3>1, <3>2
  <2> QED BY <2>1, <2>2, <2>3, ChairsKept DEF Typed
<1> QED BY <1>1, <1>2, <1>3

\* A bet keeps the types.
LEMMA BetTyped ==
    ASSUME NEW u \in User, TInv,
           Call(u) \/ Allin(u) \/ \E x \in RaseChoices : Rase(u, x)
    PROVE  TInv'
<1>1. CASE Call(u)
  <2> DEFINE someAllin == HasSomeOneAllin(table)
             coin == IF someAllin THEN table.allinCoin[u]
                     ELSE CallMoney(table, u)
             s1 == [table EXCEPT !.allin[u] = @ \/ someAllin]
             s2 == PlayerBetCoin(s1, u, coin)
             s3 == GetNextBetPlayer(s2, u)
  <2>1. table' = GameOverIfDecided(s3)
    BY <1>1 DEF Call, TableBecomes
  <2>2. someAllin \in BOOLEAN
    BY DEF HasSomeOneAllin
  <2> HIDE DEF someAllin, coin
  <2>3. Typed(s1)
    BY <2>2, StakeTyped DEF TInv
  <2> HIDE DEF s1
  <2>4. Typed(s2)
    BY <2>3, CoinsTyped
  <2> HIDE DEF s2
  <2>5. Typed(s3)
    BY <2>4, GetNextBetPlayerTyped
  <2> QED BY <2>1, <2>5, GameOverTyped DEF TInv
<1>2. CASE Allin(u)
  <2> DEFINE coin == table.allinCoin[u]
             s1 == IF coin > table.betMax
                   THEN [table EXCEPT !.betMax = coin, !.maxCard = table.card[u]]
                   ELSE table
             s2 == [s1 EXCEPT !.hasAllin = coin, !.allin[u] = TRUE]
             s3 == PlayerBetCoin(s2, u, coin)
             s4 == GetNextBetPlayer(s3, u)
  <2>1. table' = GameOverIfDecided(s4)
    BY <1>2 DEF Allin, TableBecomes
  <2> HIDE DEF coin
  <2>2. Typed(s1)
    BY StakeTyped DEF TInv
  <2> HIDE DEF s1
  <2>3. Typed(s2)
    BY <2>2, StakeTyped
  <2> HIDE DEF s2
  <2>4. Typed(s3)
    BY <2>3, CoinsTyped
  <2> HIDE DEF s3
  <2>5. Typed(s4)
    BY <2>4, GetNextBetPlayerTyped
  <2> QED BY <2>1, <2>5, GameOverTyped DEF TInv
<1>3. ASSUME NEW x \in RaseChoices, Rase(u, x) PROVE TInv'
  <2> DEFINE coin == IF table.card[u] = "UNKNOWN" THEN x ELSE Doubled(x)
             s1 == [table EXCEPT !.betMax = x, !.maxCard = table.card[u]]
             s2 == PlayerBetCoin(s1, u, coin)
  <2>1. table' = GetNextBetPlayer(s2, u)
    BY <1>3 DEF Rase, TableBecomes
  <2> HIDE DEF coin
  <2>2. Typed(s1)
    BY StakeTyped DEF TInv
  <2> HIDE DEF s1
  <2>3. Typed(s2)
    BY <2>2, CoinsTyped
  <2> QED BY <2>1, <2>3, GetNextBetPlayerTyped DEF TInv
<1> QED BY <1>1, <1>2, <1>3

\* Folding and looking at the cards keep the types.
LEMMA CardTyped ==
    ASSUME NEW u \in User, TInv, ThrowCard(u) \/ CheckCard(u)
    PROVE  TInv'
<1>1. CASE ThrowCard(u)
  <2> DEFINE s1 == Discard(table, u)
             s2 == IF table.currBet = u THEN GetNextBetPlayer(s1, u)
                   ELSE IF table.currBet = None THEN s1
                   ELSE SetPlayerOptype(s1, table.currBet)
             s3 == SetNextFirst(s2, u)
  <2>1. table' = GameOverIfDecided(s3)
    BY <1>1 DEF ThrowCard, TableBecomes
  <2>2. Typed(s1)
    BY DiscardTyped DEF TInv
  <2> HIDE DEF s1
  <2>3. Typed(s2)
    BY <2>2, GetNextBetPlayerTyped, SetPlayerOptypeTyped
  <2> HIDE DEF s2
  <2>4. Typed(s3)
    BY <2>3, SetNextFirstTyped
  <2> QED BY <2>1, <2>4, GameOverTyped DEF TInv
<1>2. CASE CheckCard(u)
  <2> DEFINE s1 == [table EXCEPT !.card[u] = "KNOWN"]
             s2 == [s1 EXCEPT !.betT = u]
  <2>1. table' = IF table.currBet = u THEN SetPlayerOptype(s2, u) ELSE s1
    BY <1>2 DEF CheckCard, TableBecomes
  <2>2. Typed(s1)
    <3>1. SameChairs(table, s1)
      BY DEF TInv, Typed, Shape, Fields, FreshTable, SameChairs
    <3>2. Shape(s1)
      BY DEF TInv, Typed, Shape, Fields, FreshTable, CardStatus
    <3>3. Steering(s1) /\ Notes(s1)
      BY DEF TInv, Typed, Shape, Steering, Notes, Fields, FreshTable
    <3> QED BY <3>1, <3>2, <3>3, ChairsKept DEF TInv, Typed
  <2> HIDE DEF s1
  <2>3. Typed(s2)
    <3>1. SameChairs(s1, s2)
      BY <2>2 DEF Typed, Shape, Fields, FreshTable, SameChairs
    <3>2. Shape(s2) /\ Steering(s2) /\ Notes(s2)
      BY <2>2 DEF Typed, Shape, Steering, Notes, Fields, FreshTable, UserOrNone
    <3> QED BY <2>2, <3>1, <3>2, ChairsKept DEF Typed
  <2> HIDE DEF s2
  <2> QED BY <2>1, <2>2, <2>3, SetPlayerOptypeTyped DEF TInv
<1> QED BY <1>1, <1>2

\* A comparison keeps the types.
LEMMA CompareCardsTyped ==
    ASSUME NEW u \in User, NEW v \in User, TInv, CompareCards(u, v)
    PROVE  TInv'
<1> DEFINE cost == Min({CallMoney(table, u), table.money[u]})
           s1 == PlayerBetCoin(table, u, cost)
           win == CompareCard(table.rank[u], table.rank[v]) = "win"
           won == GetNextBetPlayer(SetNextFirst(Discard(s1, v), v), u)
           forced == /\ won.betT # None /\ won.money[u] = 0
                     /\ Cardinality(Holders(won)) <= 2
           lost == SetNextFirst(GetNextBetPlayer(Discard(s1, u), u), u)
           force == ForceCompareCard(won, u, won.betT)
<1>1. table' = GameOverIfDecided(
         IF ~ win THEN lost ELSE IF forced THEN force ELSE won)
  BY DEF CompareCards, TableBecomes
<1> HIDE DEF cost, win
<1>2. Typed(s1)
  BY CoinsTyped DEF TInv
<1> HIDE DEF s1
<1>3. Typed(lost) /\ Typed(won)
  BY <1>2, DiscardTyped, SetNextFirstTyped, GetNextBetPlayerTyped
<1> HIDE DEF lost, won
<1>4. ASSUME forced PROVE Typed(force)
  <2> DEFINE b == PlayerBetCoin(won, u, won.money[u])
             c == [kept |-> TRUE, p1 |-> u, p2 |-> won.betT,
                   result |-> CompareCard(won.rank[u], won.rank[won.betT])]
             t == [b EXCEPT !.cmp = c, !.cmpT = TRUE]
  <2>1. Typed(b)
    BY <1>3, CoinsTyped
  <2>2. force = t
    BY DEF ForceCompareCard
  <2>3. c \in [kept : BOOLEAN, p1 : UserOrNone, p2 : UserOrNone,
               result : {"win", "draw", "lose", "none"}]
    BY <1>3 DEF CompareCard, Typed, Steering, UserOrNone
  <2> HIDE DEF b, c
  <2>4. SameChairs(b, t)
    BY <2>1 DEF Typed, Shape, Fields, FreshTable, SameChairs
  <2>5. Shape(t) /\ Steering(t) /\ Notes(t)
    BY <2>1, <2>3 DEF Typed, Shape, Steering, Notes, Fields, FreshTable
  <2> QED BY <2>1, <2>2, <2>4, <2>5, ChairsKept DEF Typed
<1> HIDE DEF force, forced
<1> QED BY <1>1, <1>3, <1>4, GameOverTyped DEF TInv

\* The timers of a hand keep the types.
LEMMA HandTimerTyped ==
    ASSUME TInv, BetTimeOut \/ CompareResultNotifyTimeOut \/ GameOverTimeOut
    PROVE  TInv'
<1>1. CASE BetTimeOut
  <2> DEFINE u == table.betT
             s1 == [table EXCEPT !.betT = None]
             st == [s1 EXCEPT !.tmo[u] = IF s1.round = 1 THEN @ + 1 ELSE @]
             s2 == Discard(st, u)
             s3 == GetNextBetPlayer(s2, u)
             s4 == IF s3.betT = None THEN s3 ELSE SetPlayerOptype(s3, s3.betT)
             s5 == SetNextFirst(s4, u)
  <2>1. /\ u # None
        /\ table' = IF u \in InTable(table) /\ table.currBet = u
                    THEN GameOverIfDecided(s5) ELSE s1
    BY <1>1 DEF BetTimeOut, TableBecomes
  <2>2. u \in User
    BY <2>1 DEF TInv, Typed, Steering, UserOrNone
  <2> HIDE DEF u
  <2>3. Typed(s1)
    <3>1. SameChairs(table, s1)
      BY DEF TInv, Typed, Shape, Fields, FreshTable, SameChairs
    <3>2. Shape(s1) /\ Steering(s1) /\ Notes(s1)
      BY DEF TInv, Typed, Shape, Steering, Notes, Fields, FreshTable, UserOrNone
    <3> QED BY <3>1, <3>2, ChairsKept DEF TInv, Typed
  <2> HIDE DEF s1
  <2>4. Typed(st)
    <3>1. SameChairs(s1, st)
      BY <2>3 DEF Typed, Shape, Fields, FreshTable, SameChairs
    <3>2. Shape(st) /\ Steering(st) /\ Notes(st)
      BY <2>2, <2>3 DEF Typed, Shape, Steering, Notes, Fields, FreshTable
    <3> QED BY <2>3, <3>1, <3>2, ChairsKept DEF Typed
  <2> HIDE DEF st
  <2>5. Typed(s3)
    BY <2>2, <2>4, DiscardTyped, GetNextBetPlayerTyped
  <2> HIDE DEF s2, s3
  <2>6. Typed(s4)
    BY <2>5, SetPlayerOptypeTyped
  <2> HIDE DEF s4
  <2>7. Typed(s5)
    BY <2>2, <2>6, SetNextFirstTyped
  <2> QED BY <2>1, <2>3, <2>7, GameOverTyped DEF TInv
<1>2. CASE CompareResultNotifyTimeOut
  <2> DEFINE c == table.cmp
             s1 == [table EXCEPT !.cmpT = FALSE]
             loser == IF c.result = "win" THEN c.p2 ELSE c.p1
             s2 == IF loser = None THEN s1 ELSE Discard(s1, loser)
             s3 == [s2 EXCEPT !.cmp = NoCompare]
  <2>1. table' = IF ~ c.kept THEN s1 ELSE GameOverIfDecided(s3)
    BY <1>2 DEF CompareResultNotifyTimeOut, TableBecomes
  <2> HIDE DEF loser
  <2>2. Typed(s1)
    <3>1. SameChairs(table, s1)
      BY DEF TInv, Typed, Shape, Fields, FreshTable, SameChairs
    <3>2. Shape(s1) /\ Steering(s1) /\ Notes(s1)
      BY DEF TInv, Typed, Shape, Steering, Notes, Fields, FreshTable
    <3> QED BY <3>1, <3>2, ChairsKept DEF TInv, Typed
  <2> HIDE DEF s1
  <2>3. Typed(s2)
    BY <2>2, DiscardTyped
  <2> HIDE DEF s2
  <2>4. Typed(s3)
    <3>1. SameChairs(s2, s3)
      BY <2>3 DEF Typed, Shape, Fields, FreshTable, SameChairs
    <3>2. Shape(s3) /\ Steering(s3)
      BY <2>3 DEF Typed, Shape, Steering, Fields, FreshTable
    <3>3. Notes(s3)
      BY <2>3 DEF Typed, Shape, Notes, Fields, FreshTable, NoCompare, UserOrNone
    <3> QED BY <2>3, <3>1, <3>2, <3>3, ChairsKept DEF Typed
  <2> HIDE DEF s3
  <2> QED BY <2>1, <2>2, <2>4, GameOverTyped DEF TInv
<1>3. CASE GameOverTimeOut
  <2>1. table' = table \/ table' = Settle(HandOver(table))
    BY <1>3 DEF GameOverTimeOut
  <2> QED BY <2>1, SettleTyped DEF TInv
<1> QED BY <1>1, <1>2, <1>3

-----------------------------------------------------------------------------
(* The specification. *)

\* Every step keeps the types.
LEMMA NextTyped ==
    ASSUME MaxNum > 2, TInv, [Next]_vars
    PROVE  TInv'
<1>1. CASE Timer
  BY <1>1, LobbyTimerTyped, HandTimerTyped DEF Timer
<1>2. ASSUME NEW u \in User, Message(u) PROVE TInv'
  <2>1. CASE \/ LoginComing(u) \/ LoginRedirected(u)
             \/ RobotComing(u) \/ RobotReplaced(u)
    BY <2>1, ComingTyped
  <2>2. CASE LeaveHand(u)
    BY <2>2, LeaveHandTyped
  <2>3. CASE LeaveTable(u) \/ Logout(u) \/ Drop(u) \/ GetTableDetail(u)
    BY <2>3, LeavingTyped
  <2>4. CASE StartGame(u)
    BY <2>4, StartGameTyped
  <2>5. CASE Call(u) \/ Allin(u) \/ \E x \in RaseChoices : Rase(u, x)
    BY <2>5, BetTyped
  <2>6. CASE ThrowCard(u) \/ CheckCard(u)
    BY <2>6, CardTyped
  <2>7. CASE \E v \in User : CompareCards(u, v)
    BY <2>7, CompareCardsTyped
  <2> QED BY <1>2, <2>1, <2>2, <2>3, <2>4, <2>5, <2>6, <2>7 DEF Message
<1>3. CASE UNCHANGED vars
  BY <1>3 DEF vars, TInv
<1> QED BY <1>1, <1>2, <1>3 DEF Next

\* The types and the chairs together: what every handler and timer keeps.
THEOREM TypedHolds ==
    ASSUME MaxNum > 2
    PROVE  Spec => []TInv
<1>1. TInv /\ [Next]_vars => TInv'
  BY NextTyped
<1> QED BY <1>1, InitTyped, PTL DEF Spec

\* Every field that steers the table keeps its type under every handler and
\* timer: m_bCurrRound stays within max_round, m_nCountPlayer within the chairs,
\* m_bFirst on a chair, and the timers run for users.
THEOREM ControlHolds ==
    ASSUME MaxNum > 2
    PROVE  Spec => []ControlOK
<1>1. TInv => ControlOK
  <2> SUFFICES ASSUME Typed(table) PROVE Control(table)
    BY DEF TInv, ControlOK
  <2>1. table.count \in 0..MaxNum
    BY CountBound DEF Typed
  <2> QED BY <2>1 DEF Typed, Shape, Steering, Notes, Control, Fields
<1> QED BY <1>1, TypedHolds, PTL

\* Whoever comes, by whatever way, gets a chair of player_array nobody sits on
\* (playerSeatInTab), and nobody moves.
THEOREM OneToAChairHolds ==
    ASSUME MaxNum > 2
    PROVE  Spec => []OneToAChair
<1>1. TInv => OneToAChair
  BY DEF TInv, Typed, Apart, OneToAChair
<1> QED BY <1>1, TypedHolds, PTL

-----------------------------------------------------------------------------
(* The hand. *)


\* Whoever is not in the hand holds no cards.
NoStray(s) == \A u \in User \ Holders(s) : s.card[u] = "DISCARD"

\* The invariant of the implementation proof
HInv == IInv /\ NoStray(table)

Betting(s) == IsActive(s) /\ ~ s.over

\* Who loses the comparison that is still to be announced
Loser(s) == IF s.cmp.result = "win" THEN s.cmp.p2 ELSE s.cmp.p1

\* The result of a forced comparison that costs the cards of the player on turn
\* is announced in the hand it belongs to: he is one of the last two holders.
LastTwoCompare ==
    (/\ Betting(table) /\ table.cmpT /\ table.cmp.kept
     /\ Loser(table) = table.betT /\ Loser(table) \in Holders(table))
    => \A u, v \in Holders(table) \ {Loser(table)} : u = v

\* A step of the abstract hand, or one that leaves it alone
HandStep == [Hand!Step]_(Hand!hand)

\* A step of the hand that does not settle it
Plays == HandStep /\ NoStray(table') /\ (table.over => table'.over)

\* The step leaves the hand alone.
LEMMA Stutters ==
    ASSUME IsActive(table') <=> IsActive(table),
           Holders(table') = Holders(table),
           table'.over <=> table.over, table'.betT = table.betT
    PROVE  HandStep
BY DEF HandStep, Hand!hand, Phase, CardHolders, IsActive

\* Between two hands nobody has the turn.
LEMMA NoTurn ==
    ASSUME NEW s, Core(s), ~ Betting(s)
    PROVE  s.betT = None
BY DEF Core, Clock, Together, Betting

\* Between two hands a table is the idle hand.
LEMMA IdleStutters ==
    ASSUME IInv, TableInv(table'), ~ IsActive(table), ~ IsActive(table')
    PROVE  HandStep
<1>1. table.betT = None /\ table'.betT = None
  BY NoTurn DEF IInv, TableInv, Betting
<1> QED BY <1>1 DEF HandStep, Hand!hand, Phase, CardHolders

\* A hand is dealt.
LEMMA Begins ==
    ASSUME IInv, TableInv(table'), ~ IsActive(table), Betting(table'),
           table'.betT \in Holders(table')
    PROVE  HandStep
<1>1. Phase(table) = "idle" /\ Phase(table') = "betting"
  BY DEF Phase, Betting
<1>2. Hand!Contested(Holders(table'))
  BY DEF TableInv, TwoIn, Betting, Hand!Contested
<1>3. CardHolders(table') = Holders(table') /\ Holders(table') \in SUBSET User
  BY DEF CardHolders, Betting, Holders, InTable
<1>4. Hand!Deal
  BY <1>1, <1>2, <1>3 DEF Hand!Deal
<1> QED BY <1>4 DEF HandStep, Hand!Step

\* What an operator leaves of a hand after u has spoken
Spoken(t) ==
    /\ Core(t) /\ IsActive(t) /\ NoStray(t)
    /\ \/ Holders(t) = Holders(table)
       \/ \E x \in Holders(table) : Holders(t) = Holders(table) \ {x}
    /\ t.betT \in Holders(t) \cup {None}
    /\ table.betT # None => t.betT # table.betT

\* What is left of it after somebody has dropped out whose turn it is not
Dropped(t) ==
    /\ Core(t) /\ Betting(t) /\ NoStray(t)
    /\ \/ Holders(t) = Holders(table)
       \/ \E x \in Holders(table) \ {table.betT} :
             Holders(t) = Holders(table) \ {x}
    /\ t.betT = table.betT

\* The hand ends, by what somebody did or by nobody being left to speak.
LEMMA Decides ==
    ASSUME Betting(table), IsActive(table'), table'.over, table'.betT = None,
           \/ Holders(table') = Holders(table)
           \/ \E x \in Holders(table) : Holders(table') = Holders(table) \ {x}
    PROVE  HandStep
<1>1. Phase(table) = "betting" /\ Phase(table') = "settling"
  BY DEF Phase, Betting
<1>2. CardHolders(table) = Holders(table) /\ CardHolders(table') = Holders(table')
  BY DEF CardHolders, Betting
<1>3. Hand!Decide
  BY <1>1, <1>2 DEF Hand!Decide, Hand!OneDrops
<1> QED BY <1>3 DEF HandStep, Hand!Step

\* Somebody speaks and the hand goes on.
LEMMA Speaks ==
    ASSUME HInv, Betting(table), Betting(table'), TwoIn(table'),
           Spoken(table')
    PROVE  HandStep
<1>1. Phase(table) = "betting" /\ Phase(table') = "betting"
  BY DEF Phase, Betting
<1>2. CardHolders(table) = Holders(table) /\ CardHolders(table') = Holders(table')
  BY DEF CardHolders, Betting
<1>3. Hand!Contested(Holders(table'))
  BY DEF TwoIn, Betting, Hand!Contested
<1>4. Hand!Speak
  BY <1>1, <1>2, <1>3 DEF Hand!Speak, Hand!OneDrops, Spoken
<1> QED BY <1>4 DEF HandStep, Hand!Step

\* Somebody drops out of turn and the hand goes on.
LEMMA DropsOut ==
    ASSUME HInv, Betting(table), Betting(table'), TwoIn(table'),
           Dropped(table')
    PROVE  HandStep
<1>1. Phase(table) = "betting" /\ Phase(table') = "betting"
  BY DEF Phase, Betting
<1>2. CardHolders(table) = Holders(table) /\ CardHolders(table') = Holders(table')
  BY DEF CardHolders, Betting
<1>3. Hand!Contested(Holders(table'))
  BY DEF TwoIn, Betting, Hand!Contested
<1>4. CASE Holders(table') = Holders(table)
  BY <1>1, <1>2, <1>4 DEF HandStep, Hand!hand, Dropped
<1>5. CASE Holders(table') # Holders(table)
  <2>1. Hand!DropOut
    BY <1>1, <1>2, <1>3, <1>5 DEF Hand!DropOut, Dropped
  <2> QED BY <2>1 DEF HandStep, Hand!Step
<1> QED BY <1>4, <1>5

\* Ending the hand moves no cards.
LEMMA GameOverStray ==
    ASSUME NEW s, Core(s), IsActive(s), NoStray(s)
    PROVE  NoStray(GameOver(s)) /\ Holders(GameOver(s)) = Holders(s)
<1>1. /\ GameOver(s).seat = s.seat /\ GameOver(s).pst = s.pst
      /\ GameOver(s).card = s.card
  BY GameOverInv
<1>2. Holders(GameOver(s)) = Holders(s)
  BY <1>1 DEF Holders, InTable
<1> QED BY <1>1, <1>2 DEF NoStray

\* GameOver after a change of the hand decides it.
LEMMA OverDecides ==
    ASSUME HInv, Betting(table), NEW t, Spoken(t) \/ Dropped(t),
           table' = GameOver(t)
    PROVE  Plays
<1> SUFFICES HandStep /\ NoStray(table')
  BY DEF Plays, Betting
<1>1. Core(t) /\ IsActive(t) /\ NoStray(t)
  BY DEF Spoken, Dropped, Betting
<1>2. /\ NoStray(GameOver(t)) /\ Holders(GameOver(t)) = Holders(t)
      /\ IsActive(GameOver(t)) /\ GameOver(t).over /\ GameOver(t).betT = None
  BY <1>1, GameOverStray, GameOverInv
<1>3. \/ Holders(t) = Holders(table)
      \/ \E x \in Holders(table) : Holders(t) = Holders(table) \ {x}
  BY DEF Spoken, Dropped
<1>4. HandStep
  BY <1>2, <1>3, Decides
<1> QED BY <1>2, <1>4

\* A handler that ends with looking for the end of the hand
LEMMA EndsSpoken ==
    ASSUME HInv, Betting(table), NEW t, Spoken(t) \/ Dropped(t),
           table' = GameOverIfDecided(t)
    PROVE  Plays
<1> SUFFICES HandStep /\ NoStray(table')
  BY DEF Plays, Betting
<1>1. CASE IsCanGameOver(t)
  BY <1>1, OverDecides DEF GameOverIfDecided, Plays
<1>2. CASE ~ IsCanGameOver(t)
  <2>1. table' = t
    BY <1>2 DEF GameOverIfDecided
  <2>2. Core(t) /\ IsActive(t) /\ NoStray(t)
    BY DEF Spoken, Dropped, Betting
  <2>3. \E u, v \in Holders(t) : u # v
    BY <1>2, <2>2 DEF IsCanGameOver
  <2>4. TwoIn(t)
    BY <2>3 DEF TwoIn
  <2>5. CASE t.over
    <3>1. t.betT = None
      BY <2>2, <2>5, NoTurn DEF Betting
    <3>2. \/ Holders(t) = Holders(table)
          \/ \E x \in Holders(table) : Holders(t) = Holders(table) \ {x}
      BY DEF Spoken, Dropped
    <3> QED BY <2>1, <2>2, <2>5, <3>1, <3>2, Decides
  <2>6. CASE ~ t.over
    <3>1. Betting(t)
      BY <2>2, <2>6 DEF Betting
    <3> QED BY <2>1, <2>2, <2>4, <3>1, Speaks, DropsOut
  <2> QED BY <2>5, <2>6
<1> QED BY <1>1, <1>2

-----------------------------------------------------------------------------
(* The steps: betting and comparing. *)

\* A handler that ends without looking for the end of the hand
LEMMA StaysSpoken ==
    ASSUME HInv, Betting(table), NEW t, Spoken(t), TwoIn(t), table' = t
    PROVE  Plays
<1> SUFFICES HandStep /\ NoStray(table')
  BY DEF Plays, Betting
<1>1. CASE t.over
  <2>1. t.betT = None
    BY <1>1, NoTurn DEF Betting, Spoken
  <2> QED BY <1>1, <2>1, Decides DEF Spoken
<1>2. CASE ~ t.over
  BY <1>2, Speaks DEF Spoken, Betting
<1> QED BY <1>1, <1>2

\* Whoever holds cards is seen from fields that the helpers leave alone.
LEMMA StrayKept ==
    ASSUME NEW s, NEW t, Same(s, t), NoStray(s)
    PROVE  NoStray(t) /\ Holders(t) = Holders(s)
BY HoldersKept DEF NoStray, Same

\* Somebody has spoken: seen from fields that the helpers leave alone.
LEMMA SpokenKept ==
    ASSUME NEW s, NEW t, Same(s, t), Spoken(s)
    PROVE  Spoken(t)
<1>1. Core(t)
  BY CoreKept DEF Same, Spoken, Core, Shape
<1>2. NoStray(t) /\ Holders(t) = Holders(s)
  BY StrayKept DEF Spoken
<1> QED BY <1>1, <1>2 DEF Spoken, Same, SameButCards, IsActive

\* Somebody has dropped out: seen from fields that the helpers leave alone.
LEMMA DroppedKept ==
    ASSUME NEW s, NEW t, Same(s, t), Dropped(s)
    PROVE  Dropped(t)
<1>1. Core(t)
  BY CoreKept DEF Same, Dropped, Core, Shape
<1>2. NoStray(t) /\ Holders(t) = Holders(s)
  BY StrayKept DEF Dropped
<1> QED BY <1>1, <1>2 DEF Dropped, Same, SameButCards, IsActive, Betting

\* Giving up the cards leaves nobody outside the hand with cards, and the hand
\* at play if it was.
LEMMA DiscardStray ==
    ASSUME NEW s, NEW u, Core(s), NoStray(s)
    PROVE  NoStray(Discard(s, u)) /\ Betting(Discard(s, u)) = Betting(s)
<1>1. /\ SameButCards(s, Discard(s, u))
      /\ Holders(Discard(s, u)) = Holders(s) \ {u}
  BY DiscardKeeps
<1>2. Discard(s, u).card = [s.card EXCEPT ![u] = "DISCARD"]
  BY DEF Discard, Core, Shape, Fields, FreshTable
<1>3. \A v \in User : v = u \/ v \notin Holders(s)
                       => Discard(s, u).card[v] = "DISCARD"
  BY <1>2 DEF NoStray, Core, Shape
<1> QED BY <1>1, <1>3 DEF NoStray, SameButCards, Betting, IsActive

\* getNextBetPlayer after u has acted whose turn it is
LEMMA PassesOn ==
    ASSUME NEW s, NEW u \in User, Core(s), Betting(s), NoStray(s),
           \/ Holders(s) = Holders(table)
           \/ \E x \in Holders(table) : Holders(s) = Holders(table) \ {x},
           table.betT # None => table.betT = u
    PROVE  Spoken(GetNextBetPlayer(s, u))
<1> DEFINE t == GetNextBetPlayer(s, u)
<1>1. /\ Core(t) /\ IsActive(t)
      /\ t.seat = s.seat /\ t.pst = s.pst /\ t.card = s.card
      /\ t.betT = None \/ t.betT \in Holders(s) \ {u}
  BY GetNextBetPlayerCore DEF Betting
<1> HIDE DEF t
<1>2. Holders(t) = Holders(s)
  BY <1>1 DEF Holders, InTable
<1>3. NoStray(t)
  BY <1>1, <1>2 DEF NoStray
<1>4. /\ t.betT \in Holders(t) \cup {None}
      /\ table.betT # None => t.betT # table.betT
  BY <1>1, <1>2
<1> QED BY <1>1, <1>2, <1>3, <1>4 DEF Spoken, t

\* A player in the hand who acts has the turn, or nobody has.
LEMMA ActorTurn ==
    ASSUME NEW u \in User, HInv, InHand(u)
    PROVE  /\ Core(table) /\ Betting(table) /\ NoStray(table)
           /\ u \in InTable(table) /\ table.pst[u] = "ACTIVE"
           /\ table.betT # None => table.betT = table.currBet
BY InHandFacts DEF HInv, Core, Clock, Betting, InHand, Playing

\* A bet that passes the turn is somebody speaking.
LEMMA BetSpoken ==
    ASSUME NEW s, NEW u \in User, NEW x, HInv, Turn(u), Same(table, s)
    PROVE  Spoken(GetNextBetPlayer(PlayerBetCoin(s, u, x), u))
<1> DEFINE b == PlayerBetCoin(s, u, x)
<1>0. /\ Core(table) /\ Betting(table) /\ NoStray(table)
      /\ table.betT # None => table.betT = u
  BY ActorTurn DEF Turn
<1>1. Core(s) /\ NoStray(s) /\ Holders(s) = Holders(table)
  BY <1>0, CoreKept, StrayKept DEF Same, Core, Shape
<1>2. Same(s, b)
  BY <1>1, PlayerBetCoinSame DEF Core
<1> HIDE DEF b
<1>3. Core(b) /\ NoStray(b) /\ Holders(b) = Holders(table)
  BY <1>1, <1>2, CoreKept, StrayKept DEF Same, Core, Shape
<1>4. Betting(b)
  BY <1>0, <1>2 DEF Same, SameButCards, Betting, IsActive
<1> QED BY <1>0, <1>3, <1>4, PassesOn DEF b

\* A bet is a step of the hand.
LEMMA BetPlays ==
    ASSUME NEW u \in User, HInv,
           Call(u) \/ Allin(u) \/ \E x \in RaseChoices : Rase(u, x)
    PROVE  Plays
<1>0. Shape(table)
  BY DEF HInv, IInv, TableInv, Core
<1>1. CASE Call(u)
  <2> DEFINE someAllin == HasSomeOneAllin(table)
             coin == IF someAllin THEN table.allinCoin[u]
                     ELSE CallMoney(table, u)
             s1 == [table EXCEPT !.allin[u] = @ \/ someAllin]
             next == GetNextBetPlayer(PlayerBetCoin(s1, u, coin), u)
  <2>1. Turn(u) /\ table' = GameOverIfDecided(next)
    BY <1>1 DEF Call, TableBecomes
  <2>2. Same(table, s1)
    BY <1>0 DEF Shape, Fields, FreshTable, Same, SameButCards
  <2> HIDE DEF s1, coin
  <2>3. Spoken(next) /\ Betting(table)
    BY <2>1, <2>2, BetSpoken, ActorTurn DEF Turn
  <2> HIDE DEF next
  <2> QED BY <2>1, <2>3, EndsSpoken
<1>2. CASE Allin(u)
  <2> DEFINE coin == table.allinCoin[u]
             s1 == IF coin > table.betMax
                   THEN [table EXCEPT !.betMax = coin, !.maxCard = table.card[u]]
                   ELSE table
             s2 == [s1 EXCEPT !.hasAllin = coin, !.allin[u] = TRUE]
             next == GetNextBetPlayer(PlayerBetCoin(s2, u, coin), u)
  <2>1. Turn(u) /\ table' = GameOverIfDecided(next)
    BY <1>2 DEF Allin, TableBecomes
  <2>2. Same(table, s2)
    BY <1>0 DEF Shape, Fields, FreshTable, Same, SameButCards
  <2> HIDE DEF s2
  <2>3. Spoken(next) /\ Betting(table)
    BY <2>1, <2>2, BetSpoken, ActorTurn DEF Turn
  <2> HIDE DEF next
  <2> QED BY <2>1, <2>3, EndsSpoken
<1>3. ASSUME NEW x \in RaseChoices, Rase(u, x)
      PROVE  Plays
  <2> DEFINE coin == IF table.card[u] = "UNKNOWN" THEN x ELSE Doubled(x)
             s1 == [table EXCEPT !.betMax = x, !.maxCard = table.card[u]]
             next == GetNextBetPlayer(PlayerBetCoin(s1, u, coin), u)
  <2>1. Turn(u) /\ table' = next
    BY <1>3 DEF Rase, TableBecomes
  <2>2. Same(table, s1)
    BY <1>0 DEF Shape, Fields, FreshTable, Same, SameButCards
  <2> HIDE DEF s1, coin
  <2>3. TableInv(next)
    BY <2>1, <2>2, BetInv DEF Turn, HInv
  <2>4. Spoken(next) /\ Betting(table)
    BY <2>1, <2>2, BetSpoken, ActorTurn DEF Turn
  <2> HIDE DEF next
  <2> QED BY <2>1, <2>3, <2>4, StaysSpoken DEF TableInv
<1> QED BY <1>1, <1>2, <1>3

\* A fold on turn is speaking, one out of turn is dropping out.
LEMMA ThrowCardPlays ==
    ASSUME NEW u \in User, HInv, ThrowCard(u)
    PROVE  Plays
<1> DEFINE s1 == Discard(table, u)
           s2 == IF table.currBet = u THEN GetNextBetPlayer(s1, u)
                 ELSE IF table.currBet = None THEN s1
                 ELSE SetPlayerOptype(s1, table.currBet)
           s3 == SetNextFirst(s2, u)
<1>1. /\ InHand(u) /\ table.card[u] # "DISCARD"
      /\ table' = GameOverIfDecided(s3)
  BY DEF ThrowCard, TableBecomes
<1>2. /\ Core(table) /\ Betting(table) /\ NoStray(table)
      /\ u \in Holders(table)
      /\ table.betT # None => table.betT = table.currBet
  BY <1>1, ActorTurn DEF Holders
<1>3. /\ Core(s1) /\ Betting(s1) /\ NoStray(s1)
      /\ Holders(s1) = Holders(table) \ {u} /\ SameButCards(table, s1)
  BY <1>2, DiscardKeeps, DiscardStray
<1> HIDE DEF s1
<1>4. CASE table.currBet = u
  <2>1. Spoken(GetNextBetPlayer(s1, u))
    BY <1>2, <1>3, <1>4, PassesOn
  <2>2. s2 = GetNextBetPlayer(s1, u)
    BY <1>4
  <2> HIDE DEF s2
  <2>3. Same(s2, s3)
    BY <2>1, <2>2, SetNextFirstSame DEF Spoken, Core
  <2> HIDE DEF s3
  <2> QED BY <1>1, <1>2, <2>1, <2>2, <2>3, SpokenKept, EndsSpoken
<1>5. CASE table.currBet # u
  <2>1. Dropped(s1)
    BY <1>2, <1>3, <1>5, NoneAssumption DEF Dropped, SameButCards, Holders
  <2>2. Same(s1, s2)
    BY <1>3, <1>5, SetPlayerOptypeSame DEF Core, Same, SameButCards
  <2> HIDE DEF s2
  <2>3. Dropped(s2)
    BY <2>1, <2>2, DroppedKept
  <2>4. Same(s2, s3)
    BY <2>3, SetNextFirstSame DEF Dropped, Core
  <2> HIDE DEF s3
  <2> QED BY <1>1, <1>2, <2>3, <2>4, DroppedKept, EndsSpoken
<1> QED BY <1>4, <1>5

\* Looking at the cards is no step of the hand.
LEMMA CheckCardPlays ==
    ASSUME NEW u \in User, HInv, CheckCard(u)
    PROVE  Plays
<1> DEFINE s1 == [table EXCEPT !.card[u] = "KNOWN"]
           s2 == [s1 EXCEPT !.betT = u]
<1>1. InHand(u) /\ table.card[u] = "UNKNOWN"
      /\ table' = IF table.currBet = u THEN SetPlayerOptype(s2, u) ELSE s1
  BY DEF CheckCard, TableBecomes
<1>2. /\ Core(table) /\ Betting(table) /\ NoStray(table)
      /\ u \in Holders(table)
      /\ table.betT # None => table.betT = table.currBet
  BY <1>1, ActorTurn DEF Holders
<1> SUFFICES HandStep /\ NoStray(table')
  BY <1>2 DEF Plays, Betting
<1>3. /\ DOMAIN s1 = Fields /\ s1.card = [table.card EXCEPT ![u] = "KNOWN"]
      /\ s1.seat = table.seat /\ s1.pst = table.pst
      /\ s1.status = table.status /\ s1.over = table.over
      /\ s1.betT = table.betT
  BY <1>2 DEF Core, Shape, Fields, FreshTable
<1>4. /\ s2.card = s1.card /\ s2.seat = s1.seat /\ s2.pst = s1.pst
      /\ s2.status = s1.status /\ s2.over = s1.over /\ s2.betT = u
      /\ DOMAIN s2 = Fields
  BY <1>3 DEF Fields, FreshTable
<1> HIDE DEF s1, s2
<1>5. Holders(s1) = Holders(table)
  BY <1>1, <1>2, <1>3 DEF Holders, InTable, Core, Shape
<1>6. \A v \in User \ Holders(table) : s1.card[v] = "DISCARD"
  BY <1>2, <1>3 DEF NoStray, Core, Shape
<1>7. CASE table.currBet = u
  <2>1. Holders(s2) = Holders(s1)
    BY <1>4 DEF Holders, InTable
  <2>2. Shape(s2)
    <3>1. s2.card \in [User -> CardStatus]
      BY <1>2, <1>3, <1>4 DEF Core, Shape, CardStatus
    <3>2. /\ s2.preWin = table.preWin /\ s2.lock = table.lock
          /\ s2.startT = table.startT /\ s2.kickT = table.kickT
          /\ s2.overT = table.overT
      BY <1>2 DEF s1, s2, Core, Shape, Fields, FreshTable
    <3> QED BY <1>2, <1>3, <1>4, <3>1, <3>2 DEF Core, Shape
  <2>3. Same(s2, table')
    BY <1>1, <1>7, <2>2, SetPlayerOptypeSame
  <2>4. /\ Holders(table') = Holders(table) /\ NoStray(table')
        /\ Betting(table') /\ table'.betT = u
    BY <1>2, <1>3, <1>4, <1>5, <1>6, <2>1, <2>3, HoldersKept
    DEF Same, SameButCards, NoStray, Betting, IsActive
  <2>5. TableInv(table')
    BY CheckCardStep DEF HInv, IInv
  <2>6. CASE table.betT = u
    BY <1>2, <2>4, <2>6, Stutters DEF Betting
  <2>7. CASE table.betT # u
    <3>1. Core(table') /\ IsActive(table')
      BY <2>4, <2>5 DEF TableInv, Betting
    <3>2. table'.betT \in Holders(table') /\ table.betT = None
      BY <1>2, <1>7, <2>4, <2>7
    <3>3. Spoken(table')
      BY <2>4, <3>1, <3>2 DEF Spoken
    <3> QED BY <1>2, <2>4, <2>5, <3>3, Speaks DEF TableInv
  <2> QED BY <2>4, <2>6, <2>7
<1>8. CASE table.currBet # u
  <2>1. table' = s1
    BY <1>1, <1>8
  <2>2. NoStray(table')
    BY <1>5, <1>6, <2>1 DEF NoStray
  <2> QED BY <1>3, <1>5, <2>1, <2>2, Stutters DEF IsActive
<1> QED BY <1>7, <1>8

\* A comparison is speaking: the asker or the asked drops out, never both.
LEMMA CompareCardsPlays ==
    ASSUME NEW u \in User, NEW v \in User, HInv, CompareCards(u, v)
    PROVE  Plays
<1> DEFINE cost == Min({CallMoney(table, u), table.money[u]})
           s1 == PlayerBetCoin(table, u, cost)
           win == CompareCard(table.rank[u], table.rank[v]) = "win"
           won == GetNextBetPlayer(SetNextFirst(Discard(s1, v), v), u)
           forced == /\ won.betT # None /\ won.money[u] = 0
                     /\ Cardinality(Holders(won)) <= 2
           lost == SetNextFirst(GetNextBetPlayer(Discard(s1, u), u), u)
           force == ForceCompareCard(won, u, won.betT)
<1>1. /\ Turn(u) /\ {u, v} \subseteq Holders(table)
      /\ table' = GameOverIfDecided(
           IF ~ win THEN lost ELSE IF forced THEN force ELSE won)
  BY DEF CompareCards, TableBecomes
<1>2. /\ Core(table) /\ Betting(table) /\ NoStray(table)
      /\ table.betT # None => table.betT = u
  BY <1>1, ActorTurn DEF Turn
<1> HIDE DEF cost, win
<1>3. Same(table, s1)
  BY <1>2, PlayerBetCoinSame DEF Core
<1> HIDE DEF s1
<1>4. /\ Core(s1) /\ Betting(s1) /\ NoStray(s1)
      /\ Holders(s1) = Holders(table)
  BY <1>2, <1>3, CoreKept, StrayKept
  DEF Same, SameButCards, Betting, IsActive, Core, Shape
<1>5. \A x \in Holders(table) :
         /\ Core(Discard(s1, x)) /\ Betting(Discard(s1, x))
         /\ NoStray(Discard(s1, x))
         /\ Holders(Discard(s1, x)) = Holders(table) \ {x}
  BY <1>4, DiscardKeeps, DiscardStray
<1>6. Spoken(lost)
  <2> DEFINE n == GetNextBetPlayer(Discard(s1, u), u)
  <2>1. Spoken(n)
    BY <1>1, <1>2, <1>5, PassesOn
  <2> HIDE DEF n
  <2>2. Same(n, SetNextFirst(n, u))
    BY <2>1, SetNextFirstSame DEF Spoken, Core
  <2> QED BY <2>1, <2>2, SpokenKept DEF n
<1>7. Spoken(won)
  <2> DEFINE sd == Discard(s1, v)
             sn == SetNextFirst(sd, v)
  <2>1. /\ Core(sd) /\ Betting(sd) /\ NoStray(sd)
        /\ Holders(sd) = Holders(table) \ {v}
    BY <1>1, <1>5
  <2> HIDE DEF sd
  <2>2. Same(sd, sn)
    BY <2>1, SetNextFirstSame DEF Core
  <2> HIDE DEF sn
  <2>3. /\ Core(sn) /\ Betting(sn) /\ NoStray(sn)
        /\ Holders(sn) = Holders(table) \ {v}
    BY <2>1, <2>2, CoreKept, StrayKept
    DEF Same, SameButCards, Betting, IsActive, Core, Shape
  <2>4. Spoken(GetNextBetPlayer(sn, u))
    BY <1>1, <1>2, <2>3, PassesOn
  <2> QED BY <2>4 DEF sn, sd
<1> HIDE DEF lost, won, forced
<1>8. Spoken(force)
  <2> DEFINE b == PlayerBetCoin(won, u, won.money[u])
  <2>1. Same(won, b)
    BY <1>7, PlayerBetCoinSame DEF Spoken, Core
  <2>2. Spoken(b)
    BY <1>7, <2>1, SpokenKept
  <2> HIDE DEF b
  <2>3. force = [b EXCEPT
           !.cmp = [kept |-> TRUE, p1 |-> u, p2 |-> won.betT,
                    result |-> CompareCard(won.rank[u], won.rank[won.betT])],
           !.cmpT = TRUE]
    BY DEF ForceCompareCard, b
  <2>4. Same(b, force)
    BY <2>2, <2>3 DEF Spoken, Core, Shape, Fields, FreshTable, Same, SameButCards
  <2> HIDE DEF force
  <2> QED BY <2>2, <2>4, SpokenKept
<1> HIDE DEF force
<1> QED BY <1>1, <1>2, <1>6, <1>7, <1>8, EndsSpoken

-----------------------------------------------------------------------------
(* The steps: the timers of a hand. *)

\* A time-out is speaking: the player on turn drops out.
LEMMA BetTimeOutPlays ==
    ASSUME HInv, BetTimeOut
    PROVE  Plays
<1> DEFINE u == table.betT
           s1 == [table EXCEPT !.betT = None]
           st == [s1 EXCEPT !.tmo[u] = IF s1.round = 1 THEN @ + 1 ELSE @]
           s2 == Discard(st, u)
           s3 == GetNextBetPlayer(s2, u)
           s4 == IF s3.betT = None THEN s3 ELSE SetPlayerOptype(s3, s3.betT)
           s5 == SetNextFirst(s4, u)
<1>1. /\ u # None
      /\ table' = IF u \in InTable(table) /\ table.currBet = u
                  THEN GameOverIfDecided(s5) ELSE s1
  BY DEF BetTimeOut, TableBecomes
<1>2. /\ u \in InTable(table) /\ table.currBet = u
      /\ u \in User /\ Betting(table) /\ NoStray(table)
  BY <1>1
  DEF HInv, IInv, TableInv, Core, Clock, Together, InTable, Betting
<1>3. TableInv(s1) /\ s1.status = table.status /\ s1.over = table.over
  BY ClockStopped DEF HInv, IInv
<1>4. /\ s1.seat = table.seat /\ s1.pst = table.pst /\ s1.card = table.card
  BY DEF HInv, IInv, TableInv, Core, Shape, Fields, FreshTable
<1> HIDE DEF s1
<1>5. Holders(s1) = Holders(table)
  BY <1>4 DEF Holders, InTable
<1>6. Same(s1, st)
  BY <1>3 DEF TableInv, Core, Shape, Fields, FreshTable, Same, SameButCards
<1> HIDE DEF u, st
<1>7. /\ Core(st) /\ Betting(st) /\ NoStray(st)
      /\ Holders(st) = Holders(table)
  <2>1. NoStray(s1)
    BY <1>2, <1>4, <1>5 DEF NoStray
  <2>2. TableInv(st)
    BY <1>3, <1>6, InvKept
  <2> QED BY <1>2, <1>3, <1>5, <1>6, <2>1, <2>2, StrayKept
          DEF TableInv, Same, SameButCards, Betting, IsActive
<1>8. /\ Core(s2) /\ Betting(s2) /\ NoStray(s2)
      /\ Holders(s2) = Holders(table) \ {u}
  BY <1>7, DiscardKeeps, DiscardStray
<1> HIDE DEF s2
<1>9. Spoken(s3)
  <2>1. \/ Holders(s2) = Holders(table)
        \/ \E x \in Holders(table) : Holders(s2) = Holders(table) \ {x}
    BY <1>8
  <2> QED BY <1>2, <1>8, <2>1, PassesOn DEF u
<1> HIDE DEF s3
<1>10. Same(s3, s4)
  BY <1>9, SetPlayerOptypeSame DEF Spoken, Core, Same, SameButCards
<1> HIDE DEF s4
<1>11. Spoken(s4)
  BY <1>9, <1>10, SpokenKept
<1>12. Same(s4, s5)
  BY <1>11, SetNextFirstSame DEF Spoken, Core
<1> HIDE DEF s5
<1>13. Spoken(s5)
  BY <1>11, <1>12, SpokenKept
<1> QED BY <1>1, <1>2, <1>13, EndsSpoken

\* A late announcement is a step of the hand under LastTwoCompare; it deals no
\* cards and undoes no decision in any case.
LEMMA NotifyPlays ==
    ASSUME HInv, CompareResultNotifyTimeOut
    PROVE  /\ LastTwoCompare => HandStep
           /\ NoStray(table') /\ (table.over => table'.over)
<1> DEFINE c == table.cmp
           s1 == [table EXCEPT !.cmpT = FALSE]
           loser == IF c.result = "win" THEN c.p2 ELSE c.p1
           s2 == IF loser = None THEN s1 ELSE Discard(s1, loser)
           s3 == [s2 EXCEPT !.cmp = NoCompare]
<1>1. /\ table.cmpT
      /\ table' = IF ~ c.kept THEN s1 ELSE GameOverIfDecided(s3)
  BY DEF CompareResultNotifyTimeOut, TableBecomes
<1>2. Same(table, s1)
  BY DEF HInv, IInv, TableInv, Core, Shape, Fields, FreshTable, Same, SameButCards
<1>3. loser = Loser(table)
  BY DEF Loser
<1> HIDE DEF s1, loser
<1>4. TableInv(s1) /\ NoStray(s1) /\ Holders(s1) = Holders(table)
  BY <1>2, InvKept, StrayKept DEF HInv, IInv
<1>5. CASE ~ c.kept
  <2>1. table' = s1
    BY <1>1, <1>5
  <2> QED BY <1>2, <1>4, <2>1, Stutters DEF Same, SameButCards, IsActive
<1>6. CASE c.kept
  <2>1. table' = GameOverIfDecided(s3)
    BY <1>1, <1>6
  <2>2. /\ Core(s2) /\ NoStray(s2) /\ SameButCards(s1, s2)
        /\ \/ Holders(s2) = Holders(table)
           \/ Holders(s2) = Holders(table) \ {loser}
    BY <1>4, DiscardKeeps, DiscardStray DEF TableInv, SameButCards
  <2>3. loser \notin Holders(table) => Holders(s2) = Holders(table)
    BY <2>2
  <2>4. loser \in Holders(table) => Holders(s2) = Holders(table) \ {loser}
    <3>1. loser \in Holders(table) => loser # None
      BY NoneAssumption DEF Holders, InTable
    <3> QED BY <1>4, <3>1, DiscardKeeps DEF TableInv
  <2> HIDE DEF s2
  <2>5. Same(s2, s3)
    BY <2>2 DEF Core, Shape, Fields, FreshTable, Same, SameButCards
  <2> HIDE DEF s3
  <2>6. /\ Core(s3) /\ NoStray(s3) /\ Holders(s3) = Holders(s2)
        /\ IsActive(s3) = IsActive(table)
        /\ s3.over = table.over /\ s3.betT = table.betT
    BY <1>2, <2>2, <2>5, CoreKept, StrayKept
    DEF Same, SameButCards, Core, Shape, IsActive
  <2>7. CASE ~ IsActive(table)
    <3>1. table' = s3
      BY <2>1, <2>6, <2>7 DEF GameOverIfDecided, IsCanGameOver
    <3>2. TableInv(table')
      BY CompareResultNotifyTimeOutStep DEF HInv, IInv
    <3> QED BY <2>6, <2>7, <3>1, <3>2, IdleStutters DEF HInv
  <2>8. CASE IsActive(table) /\ table.over
    <3>1. /\ IsActive(table') /\ table'.over /\ table'.betT = None
          /\ NoStray(table') /\ Holders(table') = Holders(s3)
      <4>1. s3.betT = None
        BY <2>6, <2>8, NoTurn DEF Betting
      <4> QED BY <2>1, <2>6, <2>8, <4>1, GameOverStray, GameOverInv
              DEF GameOverIfDecided
    <3>2. table.betT = None
      BY <2>8, NoTurn DEF HInv, IInv, TableInv, Betting
    <3>3. CASE loser \notin Holders(table)
      BY <2>3, <2>6, <2>8, <3>1, <3>2, <3>3, Stutters
    <3>4. CASE loser \in Holders(table)
      <4>1. /\ Phase(table) = "settling" /\ Phase(table') = "settling"
            /\ CardHolders(table) = Holders(table)
            /\ CardHolders(table') = Holders(table) \ {loser}
        BY <2>4, <2>6, <2>8, <3>1, <3>4 DEF Phase, CardHolders
      <4>2. Hand!Announce
        BY <3>1, <3>2, <3>4, <4>1 DEF Hand!Announce
      <4> QED BY <3>1, <4>2 DEF HandStep, Hand!Step
    <3> QED BY <3>1, <3>3, <3>4
  <2>9. CASE Betting(table)
    <3>1. CASE loser \notin Holders(table)
      <4>1. Dropped(s3)
        BY <2>3, <2>6, <2>9, <3>1 DEF Dropped, Betting
      <4> QED BY <2>1, <2>9, <4>1, EndsSpoken DEF Plays
    <3>2. CASE loser \in Holders(table) /\ loser # table.betT
      <4>1. Dropped(s3)
        BY <2>4, <2>6, <2>9, <3>2 DEF Dropped, Betting
      <4> QED BY <2>1, <2>9, <4>1, EndsSpoken DEF Plays
    <3>3. CASE loser \in Holders(table) /\ loser = table.betT /\ LastTwoCompare
      <4>1. \A x, y \in Holders(s3) : x = y
        BY <1>1, <1>3, <1>6, <2>4, <2>6, <2>9, <3>3 DEF LastTwoCompare
      <4>2. IsCanGameOver(s3)
        BY <2>6, <2>9, <4>1 DEF IsCanGameOver, Betting
      <4>3. table' = GameOver(s3)
        BY <2>1, <4>2 DEF GameOverIfDecided
      <4>4. /\ IsActive(table') /\ table'.over /\ table'.betT = None
            /\ NoStray(table') /\ Holders(table') = Holders(table) \ {loser}
        BY <2>4, <2>6, <2>9, <3>3, <4>3, GameOverStray, GameOverInv
        DEF Betting
      <4> QED BY <2>9, <3>3, <4>4, Decides
    <3>4. NoStray(table')
      BY <2>1, <2>6, <2>9, GameOverStray DEF GameOverIfDecided, Betting
    <3> QED BY <2>9, <3>1, <3>2, <3>3, <3>4 DEF Betting
  <2> QED BY <2>7, <2>8, <2>9 DEF Betting
<1> QED BY <1>5, <1>6

\* calcCoin pays a card holder, who held them in the hand.
LEMMA GameOverPlays ==
    ASSUME HInv, GameOverTimeOut
    PROVE  HandStep /\ NoStray(table')
<1> DEFINE h == HandOver(table)
<1>1. /\ Core(table) /\ NoStray(table) /\ table.overT
      /\ table.over /\ IsActive(table) /\ table.betT = None
  <2>1. Core(table) /\ NoStray(table) /\ table.overT
    BY DEF HInv, IInv, TableInv, GameOverTimeOut
  <2>2. table.over /\ IsActive(table)
    BY <2>1 DEF Core, Settling
  <2> QED BY <2>1, <2>2, NoTurn DEF Betting
<1>2. CASE Shown(h) = {}
  <2>1. table' = table
    BY <1>2 DEF GameOverTimeOut
  <2> QED BY <1>1, <2>1, Stutters
<1>3. CASE Shown(h) # {}
  <2>1. table' = Settle(h)
    BY <1>3 DEF GameOverTimeOut
  <2>2. h.card = table.card /\ h.seat = table.seat
    BY <1>1 DEF HandOver, Core, Shape, Fields, FreshTable
  <2>3. Shown(h) \subseteq Holders(table)
    BY <1>1, <2>2 DEF Shown, Played, InTable, NoStray
  <2>4. TableInv(table') /\ ~ IsActive(table') /\ NoStray(table')
    <3>1. /\ TableInv(table') /\ ~ IsActive(table')
          /\ \A u \in User : \/ table'.card[u] = "DISCARD"
                            \/ /\ u \notin InTable(table)
                               /\ table'.card[u] = table.card[u]
      BY <1>1, <2>1, SettleInv
    <3>2. \A u \in User \ InTable(table) : table.card[u] = "DISCARD"
      BY <1>1 DEF NoStray, Holders
    <3>3. \A u \in User : table'.card[u] = "DISCARD"
      BY <3>1, <3>2
    <3> QED BY <3>1, <3>3 DEF NoStray
  <2>5. Phase(table) = "settling" /\ Phase(table') = "idle"
    BY <1>1, <2>4 DEF Phase
  <2>6. /\ CardHolders(table) # {} /\ CardHolders(table') = {}
        /\ table'.betT = None
    BY <1>1, <1>3, <2>3, <2>4, NoTurn DEF CardHolders, TableInv, Betting
  <2>7. Hand!Settle
    BY <2>5, <2>6 DEF Hand!Settle
  <2> QED BY <2>4, <2>7 DEF HandStep, Hand!Step
<1> QED BY <1>2, <1>3

-----------------------------------------------------------------------------
(* The steps: coming, leaving and getting ready. *)

\* The table t is as s for the hand: who holds cards, whose turn it is.
Rests(s, t) ==
    /\ TableInv(t) /\ NoStray(t)
    /\ IsActive(t) <=> IsActive(s)
    /\ Holders(t) = Holders(s)
    /\ t.over <=> s.over
    /\ t.betT = s.betT

\* Leaving the hand alone twice is leaving it alone.
LEMMA RestsOn ==
    ASSUME NEW r, NEW s, NEW t, Rests(r, s), Rests(s, t)
    PROVE  Rests(r, t)
BY DEF Rests

\* The two tables differ in nothing a hand is made of.
LEMMA RestsAsSame ==
    ASSUME NEW s, NEW t, TableInv(t), NoStray(s),
           t.status = s.status, t.seat = s.seat, t.pst = s.pst,
           t.card = s.card, t.over = s.over, t.betT = s.betT
    PROVE  Rests(s, t)
<1>1. Holders(t) = Holders(s)
  BY DEF Holders, InTable
<1> QED BY <1>1 DEF Rests, NoStray, IsActive

\* A change outside the hand leaves the hand alone.
LEMMA RestsAsKept ==
    ASSUME NEW s, NEW t, TableInv(t), NoStray(s), HandKept(s, t)
    PROVE  Rests(s, t)
BY DEF Rests, HandKept, NoStray

\* Players outside the hand go.
LEMMA RestsAsTheyLeave ==
    ASSUME NEW s, NEW G \in SUBSET InTable(s), TableInv(s), NoStray(s),
           \A v \in G : s.pst[v] # "ACTIVE"
    PROVE  Rests(s, PlayersLeave(s, G))
<1> DEFINE t == PlayersLeave(s, G)
<1>1. TableInv(t)
  BY PlayersLeaveInv
<1>2. /\ Seated(s) /\ s.betT \notin G
      /\ IsActive(s) => \E v \in InTable(s) \ G : s.pst[v] = "ACTIVE"
  BY NoneAssumption
  DEF TableInv, Core, Clock, Together, Seated, InTable
<1>3. /\ IsActive(t) <=> IsActive(s)
      /\ IsActive(s) => t.over = s.over
      /\ Holders(t) = Holders(s) \ G
      /\ \A v \in User \ G : t.card[v] = s.card[v]
      /\ \A v \in G : t.card[v] = "DISCARD"
      /\ IsActive(s) => t.betT = s.betT
  BY <1>2, PlayersLeaveCore
<1> HIDE DEF t
<1>4. Holders(t) = Holders(s)
  BY <1>3 DEF Holders
<1>5. NoStray(t)
  BY <1>3, <1>4 DEF NoStray
<1>6. ~ IsActive(s) => s.betT = None /\ t.betT = None /\ ~ s.over /\ ~ t.over
  BY <1>1, <1>3, NoTurn DEF TableInv, Core, Settling, Betting
<1>7. t.over <=> s.over
  BY <1>3, <1>6
<1> QED BY <1>1, <1>3, <1>4, <1>5, <1>6, <1>7 DEF Rests, t

\* A step that leaves the hand alone is no step of the hand.
LEMMA RestStutters ==
    ASSUME Rests(table, table')
    PROVE  Plays
BY Stutters DEF Rests, Plays

\* A handler that deals when everyone left is ready
LEMMA DealsOrRests ==
    ASSUME HInv, NEW s, NEW d, Rests(table, s),
           table' = StartIfAllReady(s, d)
           \/ (table' = GameStart(s, d) /\ IsAllReady(s) /\ s.count > 1)
    PROVE  Plays
<1>1. CASE table' = GameStart(s, d) /\ IsAllReady(s) /\ s.count > 1
  <2>1. Core(s) /\ ~ IsActive(s) /\ ~ IsActive(table) /\ NoStray(s)
    BY <1>1, NotAllReady DEF Rests, TableInv
  <2>2. /\ TableInv(table') /\ Betting(table')
        /\ Holders(table') = InTable(s) /\ table'.betT \in Holders(table')
        /\ \A v \in User \ InTable(s) : table'.card[v] = s.card[v]
    BY <1>1, <2>1, GameStartInv DEF Betting
  <2>3. NoStray(table')
    BY <2>1, <2>2 DEF NoStray, Holders
  <2>4. ~ table.over
    BY <2>1 DEF HInv, IInv, TableInv, Core, Settling
  <2> QED BY <2>1, <2>2, <2>3, <2>4, Begins DEF HInv, Plays
<1>2. CASE table' = s
  BY <1>2, RestStutters
<1> QED BY <1>1, <1>2 DEF StartIfAllReady

\* A newcomer is no step of the hand.
LEMMA LoginPlays ==
    ASSUME NEW u \in User, MaxNum > 2, HInv,
           LoginComing(u) \/ LoginRedirected(u) \/ RobotComing(u)
    PROVE  Plays
<1>1. PICK m : /\ table.seat[u] = NoSeat /\ FreeChairs(table) # {}
               /\ \/ table' = PlayerComming(table, u, m)
                  \/ table' = SetKickTimer(PlayerComming(table, u, m))
  BY DEF LoginComing, LoginRedirected, RobotComing, TableBecomes
<1> DEFINE s == PlayerComming(table, u, m)
<1>2. TableInv(s) /\ HandKept(table, s)
  BY <1>1, PlayerCommingInv DEF HInv, IInv
<1>3. Rests(table, s)
  BY <1>2, RestsAsKept DEF HInv
<1> HIDE DEF s
<1>4. Rests(s, SetKickTimer(s))
  <2>1. /\ SetKickTimer(s).card = s.card /\ SetKickTimer(s).over = s.over
        /\ SetKickTimer(s).betT = s.betT
    BY <1>2 DEF SetKickTimer, TableInv, Core, Shape, Fields, FreshTable
  <2> QED BY <1>2, <1>3, <2>1, SetKickTimerInv, RestsAsSame DEF Rests
<1>5. Rests(table, table')
  BY <1>1, <1>3, <1>4, RestsOn DEF s
<1> QED BY <1>5, RestStutters

\* Notes about a player are no step of the hand.
LEMMA NotePlays ==
    ASSUME NEW u \in User, HInv,
           RobotReplaced(u) \/ Drop(u) \/ GetTableDetail(u)
    PROVE  Plays
<1>1. Shape(table)
  BY DEF HInv, IInv, TableInv, Core
<1>2. \A m : Same(table, PlayerReplaced(table, u, m))
  BY <1>1, ReplacedSame
<1>3. \A b : Same(table, [table EXCEPT !.drop[u] = b])
  BY <1>1 DEF Shape, Fields, FreshTable, Same, SameButCards
<1>4. Same(table, table')
  BY <1>2, <1>3 DEF RobotReplaced, Drop, GetTableDetail, TableBecomes
<1>5. TableInv(table')
  BY <1>4, InvKept DEF HInv, IInv
<1>6. Rests(table, table')
  BY <1>4, <1>5, RestsAsSame DEF HInv, Same, SameButCards
<1> QED BY <1>6, RestStutters

\* Leaving is speaking for the player on turn, dropping out for the others.
LEMMA LeaveHandPlays ==
    ASSUME NEW u \in User, HInv, LeaveHand(u)
    PROVE  Plays
<1> DEFINE s1 == Forfeit(table, u)
           s2 == IF table.currBet = u THEN GetNextBetPlayer(s1, u) ELSE s1
           sd == Discard(s2, u)
           s3 == SetNextFirst(sd, u)
           s4 == PlayersLeave(s3, {u})
<1>1. InHand(u) /\ \E d \in Deals :
         table' = IF IsCanGameOver(s4) THEN GameOver(s4)
                  ELSE StartIfAllReady(s4, d)
  BY DEF LeaveHand
<1>2. /\ Core(table) /\ Betting(table) /\ NoStray(table)
      /\ u \in InTable(table) /\ table.pst[u] = "ACTIVE"
      /\ table.betT # None => table.betT = table.currBet
  BY <1>1, ActorTurn
<1>3. Same(table, s1)
  BY <1>2, ForfeitSame DEF Core
<1> HIDE DEF s1
<1>4. /\ Core(s1) /\ Betting(s1) /\ NoStray(s1)
      /\ Holders(s1) = Holders(table)
  BY <1>2, <1>3, CoreKept, StrayKept
  DEF Same, SameButCards, Betting, IsActive, Core, Shape
<1>5. /\ Core(s2) /\ IsActive(s2) /\ NoStray(s2)
      /\ s2.seat = table.seat /\ s2.pst = table.pst
      /\ Holders(s2) = Holders(table)
      /\ \/ /\ table.currBet = u
            /\ s2.betT = None \/ s2.betT \in Holders(table) \ {u}
         \/ /\ table.currBet # u
            /\ s2.betT = table.betT /\ s2.over = table.over
  <2>1. CASE table.currBet = u
    <3>1. s2 = GetNextBetPlayer(s1, u)
      BY <2>1
    <3> HIDE DEF s2
    <3>2. /\ Core(s2) /\ IsActive(s2) /\ s2.seat = s1.seat
          /\ s2.pst = s1.pst /\ s2.card = s1.card
          /\ s2.betT = None \/ s2.betT \in Holders(s1) \ {u}
      BY <1>4, <3>1, GetNextBetPlayerCore DEF Betting
    <3>3. Holders(s2) = Holders(s1)
      BY <3>2 DEF Holders, InTable
    <3> QED BY <1>3, <1>4, <2>1, <3>2, <3>3 DEF NoStray, Same, SameButCards
  <2>2. CASE table.currBet # u
    <3>1. s2 = s1
      BY <2>2
    <3> HIDE DEF s2
    <3> QED BY <1>3, <1>4, <2>2, <3>1 DEF Same, SameButCards, Betting
  <2> QED BY <2>1, <2>2
<1> HIDE DEF s2
<1>6. /\ Core(sd) /\ NoStray(sd) /\ SameButCards(s2, sd)
      /\ Holders(sd) = Holders(table) \ {u}
  BY <1>5, DiscardKeeps, DiscardStray
<1> HIDE DEF sd
<1>7. Same(sd, s3)
  BY <1>6, SetNextFirstSame DEF Core
<1> HIDE DEF s3
<1>8. /\ Core(s3) /\ IsActive(s3) /\ NoStray(s3)
      /\ Holders(s3) = Holders(table) \ {u}
      /\ s3.seat = table.seat /\ s3.pst = table.pst
      /\ s3.betT = s2.betT /\ s3.over = s2.over
  BY <1>5, <1>6, <1>7, CoreKept, StrayKept
  DEF Same, SameButCards, IsActive, Core, Shape
<1>9. s3.betT # u
  BY <1>2, <1>5, <1>8, NoneAssumption
<1>10. \E v \in InTable(s3) \ {u} : s3.pst[v] = "ACTIVE"
  BY <1>2, <1>8 DEF HInv, IInv, TableInv, TwoIn, Betting, Holders, InTable
<1>11. {u} \in SUBSET InTable(s3)
  BY <1>2, <1>8 DEF InTable
<1>12. /\ Core(s4) /\ IsActive(s4)
       /\ Holders(s4) = Holders(table) \ {u}
       /\ s4.over = s3.over /\ s4.betT = s3.betT
       /\ \A v \in User \ {u} : s4.card[v] = s3.card[v]
       /\ s4.card[u] = "DISCARD"
  <2>1. Seated(s3) /\ Settling(s3)
    BY <1>8 DEF Core, Seated
  <2>2. /\ Seated(s4) /\ Settling(s4) /\ IsActive(s4)
        /\ s4.over = s3.over /\ s4.betT = s3.betT
        /\ Holders(s4) = Holders(s3) \ {u}
        /\ \A v \in User \ {u} : s4.card[v] = s3.card[v]
        /\ s4.card[u] = "DISCARD"
    BY <1>8, <1>9, <1>10, <1>11, <2>1, PlayersLeaveCore
  <2> QED BY <1>8, <2>2 DEF Core, Seated
<1> HIDE DEF s4
<1>13. NoStray(s4)
  BY <1>8, <1>12 DEF NoStray
<1>14. Spoken(s4) \/ Dropped(s4)
  <2>0. \/ Holders(s4) = Holders(table)
        \/ \E x \in Holders(table) : Holders(s4) = Holders(table) \ {x}
    BY <1>12
  <2>1. CASE table.currBet = u
    <3>1. s4.betT \in Holders(s4) \cup {None}
      BY <1>5, <1>8, <1>12, <2>1
    <3>2. table.betT # None => s4.betT # table.betT
      BY <1>2, <1>8, <1>9, <1>12, <2>1
    <3> QED BY <1>12, <1>13, <2>0, <3>1, <3>2 DEF Spoken
  <2>2. CASE table.currBet # u
    <3>1. u # table.betT
      BY <1>2, <2>2, NoneAssumption
    <3>2. Betting(s4) /\ s4.betT = table.betT
      BY <1>2, <1>5, <1>8, <1>12, <2>2 DEF Betting
    <3>3. \/ Holders(s4) = Holders(table)
          \/ \E x \in Holders(table) \ {table.betT} :
                Holders(s4) = Holders(table) \ {x}
      BY <1>12, <3>1
    <3> QED BY <1>12, <1>13, <3>2, <3>3 DEF Dropped
  <2> QED BY <2>1, <2>2
<1>15. table' = GameOverIfDecided(s4)
  <2>1. ~ IsAllReady(s4)
    BY <1>12, NotAllReady
  <2> QED BY <1>1, <2>1 DEF GameOverIfDecided, StartIfAllReady
<1> QED BY <1>2, <1>14, <1>15, EndsSpoken

\* Leaving between two hands may deal the next one.
LEMMA LeaveTablePlays ==
    ASSUME NEW u \in User, HInv, LeaveTable(u)
    PROVE  Plays
<1> DEFINE s == PlayersLeave(table, {u})
<1>1. {u} \in SUBSET InTable(table) /\ \A v \in {u} : table.pst[v] # "ACTIVE"
  BY DEF LeaveTable, At
<1>2. ~ table.over /\ \E d \in Deals :
         table' = IF IsCanGameOver(s) THEN GameOver(s)
                  ELSE StartIfAllReady(s, d)
  BY DEF LeaveTable, TableBecomes
<1>3. Rests(table, s)
  BY <1>1, RestsAsTheyLeave DEF HInv, IInv
<1> HIDE DEF s
<1>4. CASE IsCanGameOver(s)
  <2>1. Betting(table) /\ Dropped(s)
    BY <1>2, <1>3, <1>4 DEF IsCanGameOver, Betting, Dropped, Rests, TableInv
  <2> QED BY <1>2, <1>4, <2>1, OverDecides
<1>5. CASE ~ IsCanGameOver(s)
  BY <1>2, <1>3, <1>5, DealsOrRests
<1> QED BY <1>4, <1>5

\* A logout is no step of a hand at play; between two hands it may deal the
\* next.
LEMMA LogoutPlays ==
    ASSUME NEW u \in User, HInv, Logout(u)
    PROVE  Plays
<1> DEFINE s1 == [table EXCEPT !.drop[u] = TRUE]
           s2 == IF table.pst[u] = "ACTIVE" THEN s1 ELSE PlayersLeave(s1, {u})
<1>1. u \in InTable(table) /\ \E d \in Deals : table' = StartIfAllReady(s2, d)
  BY DEF Logout, At, TableBecomes
<1>2. Same(table, s1)
  BY DEF HInv, IInv, TableInv, Core, Shape, Fields, FreshTable, Same,
         SameButCards
<1> HIDE DEF s1
<1>3. TableInv(s1)
  BY <1>2, InvKept DEF HInv, IInv
<1>4. Rests(table, s1)
  BY <1>2, <1>3, RestsAsSame DEF HInv, Same, SameButCards
<1>5. Rests(table, s2)
  <2>1. CASE table.pst[u] = "ACTIVE"
    BY <1>4, <2>1
  <2>2. CASE table.pst[u] # "ACTIVE"
    <3>1. {u} \in SUBSET InTable(s1) /\ \A v \in {u} : s1.pst[v] # "ACTIVE"
      BY <1>1, <1>2, <2>2 DEF Same, SameButCards, InTable
    <3>2. Rests(s1, PlayersLeave(s1, {u}))
      BY <1>3, <1>4, <3>1, RestsAsTheyLeave DEF Rests
    <3> QED BY <1>4, <2>2, <3>2, RestsOn
  <2> QED BY <2>1, <2>2
<1> HIDE DEF s2
<1> QED BY <1>1, <1>5, DealsOrRests

\* Putting silent clients out is no step of the hand.
LEMMA HeartTimeOutPlays ==
    ASSUME HInv, HeartTimeOut
    PROVE  Plays
<1>1. PICK G \in SUBSET {u \in InTable(table) : table.pst[u] # "ACTIVE"} :
        table' = PlayersLeave(table, G)
  BY DEF HeartTimeOut, TableBecomes
<1>2. G \in SUBSET InTable(table) /\ \A v \in G : table.pst[v] # "ACTIVE"
  OBVIOUS
<1>3. Rests(table, table')
  BY <1>1, <1>2, RestsAsTheyLeave DEF HInv, IInv
<1> QED BY <1>3, RestStutters

\* The last one to get ready deals.
LEMMA StartGamePlays ==
    ASSUME NEW u \in User, HInv, StartGame(u)
    PROVE  Plays
<1> DEFINE s1 == [table EXCEPT !.pst[u] = "RSTART"]
           s2 == IF s1.lock THEN s1 ELSE SetKickTimer(s1)
           s3 == IF ~ IsActive(s2) /\ IsCanGameStart(s2)
                 THEN [s2 EXCEPT !.startT = TRUE] ELSE s2
<1>1. /\ u \in InTable(table) /\ table.pst[u] # "ACTIVE"
      /\ \E d \in Deals : table' = IF IsAllReady(s1) /\ s1.count > 1
                                  THEN GameStart(s1, d) ELSE s3
  BY DEF StartGame, At, TableBecomes
<1>2. TableInv(s1)
  BY <1>1, ReadyInv DEF HInv
<1>3. Rests(table, s1)
  <2>1. /\ s1.status = table.status /\ s1.seat = table.seat
        /\ s1.pst = [table.pst EXCEPT ![u] = "RSTART"]
        /\ s1.card = table.card /\ s1.over = table.over
        /\ s1.betT = table.betT
    BY DEF HInv, IInv, TableInv, Core, Shape, Fields, FreshTable
  <2> HIDE DEF s1
  <2>2. Holders(s1) = Holders(table)
    BY <1>1, <2>1 DEF Holders, InTable, HInv, IInv, TableInv, Core, Shape
  <2> QED BY <1>2, <2>1, <2>2 DEF Rests, IsActive, NoStray, HInv
<1> HIDE DEF s1
<1>4. /\ DOMAIN s2 = Fields /\ s2.status = s1.status /\ s2.seat = s1.seat
      /\ s2.pst = s1.pst /\ s2.card = s1.card /\ s2.over = s1.over
      /\ s2.betT = s1.betT
  BY <1>2 DEF SetKickTimer, TableInv, Core, Shape, Fields, FreshTable
<1> HIDE DEF s2
<1>5. /\ s3.status = s1.status /\ s3.seat = s1.seat
      /\ s3.pst = s1.pst /\ s3.card = s1.card /\ s3.over = s1.over
      /\ s3.betT = s1.betT
  BY <1>4 DEF Fields, FreshTable
<1> HIDE DEF s3
<1>6. CASE IsAllReady(s1) /\ s1.count > 1
  BY <1>1, <1>3, <1>6, DealsOrRests
<1>7. CASE ~ (IsAllReady(s1) /\ s1.count > 1)
  <2>1. table' = s3 /\ TableInv(table')
    BY <1>1, <1>7, StartGameStep DEF HInv, IInv
  <2>2. Rests(table, table')
    BY <1>3, <1>5, <2>1, RestsAsSame, RestsOn DEF Rests
  <2> QED BY <2>2, RestStutters
<1> QED BY <1>6, <1>7

\* The start timer deals to two or more, or leaves the table idle.
LEMMA TableGameStartTimeOutPlays ==
    ASSUME HInv, TableGameStartTimeOut
    PROVE  Plays
<1> DEFINE s1 == [table EXCEPT !.startT = FALSE]
           late == {u \in InTable(s1) : s1.pst[u] \in {"COMING", "OVER"}}
           s2 == PlayersLeave(s1, late)
<1>1. \E d \in Deals : table' = IF IsActive(s1) \/ ~ IsCanGameStart(s1) THEN s1
                               ELSE StartIfAllReady(s2, d)
  BY DEF TableGameStartTimeOut, TableBecomes
<1>2. /\ DOMAIN s1 = DOMAIN table /\ s1.status = table.status
      /\ s1.count = table.count /\ s1.seat = table.seat
      /\ s1.pst = table.pst /\ s1.card = table.card
      /\ s1.preWin = table.preWin /\ s1.over = table.over
      /\ s1.overT = table.overT /\ s1.betT = table.betT
      /\ s1.currBet = table.currBet /\ s1.lock = table.lock
      /\ s1.kickT = table.kickT /\ s1.startT = FALSE
  BY DEF HInv, IInv, TableInv, Core, Shape, Fields, FreshTable
<1> HIDE DEF s1
<1>3. /\ s1.kickT \in BOOLEAN /\ s1.lock \in BOOLEAN /\ (s1.lock => s1.kickT)
      /\ ~ IsActive(table) \/ (~ s1.startT /\ ~ s1.kickT)
  BY <1>2 DEF HInv, IInv, TableInv, Core, Shape, Lobby
<1>4. TableInv(s1)
  BY <1>2, <1>3, LobbyInv DEF HInv, IInv
<1>5. Rests(table, s1)
  BY <1>2, <1>4, RestsAsSame DEF HInv
<1>6. Rests(s1, s2)
  BY <1>4, <1>5, RestsAsTheyLeave DEF Rests
<1> HIDE DEF s2
<1>7. Rests(table, s2)
  BY <1>5, <1>6, RestsOn
<1>8. CASE table' = s1
  BY <1>5, <1>8, RestStutters
<1>9. CASE \E d \in Deals : table' = StartIfAllReady(s2, d)
  BY <1>7, <1>9, DealsOrRests
<1> QED BY <1>1, <1>8, <1>9

\* The kick timer deals to two or more, or leaves the table idle.
LEMMA TableKickTimeOutPlays ==
    ASSUME HInv, TableKickTimeOut
    PROVE  Plays
<1> DEFINE s1 == [table EXCEPT !.kickT = FALSE, !.lock = FALSE]
           late == InTable(s1) \ Ready(s1)
           s2 == PlayersLeave(s1, late)
<1>1. \E d \in Deals : table' = IF IsActive(s1) \/ s1.count = 1 THEN s1
                               ELSE StartIfAllReady(s2, d)
  BY DEF TableKickTimeOut, TableBecomes
<1>2. /\ DOMAIN s1 = DOMAIN table /\ s1.status = table.status
      /\ s1.count = table.count /\ s1.seat = table.seat
      /\ s1.pst = table.pst /\ s1.card = table.card
      /\ s1.preWin = table.preWin /\ s1.over = table.over
      /\ s1.overT = table.overT /\ s1.betT = table.betT
      /\ s1.currBet = table.currBet /\ s1.lock = FALSE
      /\ s1.kickT = FALSE /\ s1.startT = table.startT
  BY DEF HInv, IInv, TableInv, Core, Shape, Fields, FreshTable
<1> HIDE DEF s1
<1>3. /\ s1.startT \in BOOLEAN /\ s1.kickT \in BOOLEAN /\ s1.lock \in BOOLEAN
      /\ s1.lock => s1.kickT
      /\ ~ IsActive(table) \/ (~ s1.startT /\ ~ s1.kickT)
  BY <1>2 DEF HInv, IInv, TableInv, Core, Shape, Lobby
<1>4. TableInv(s1)
  BY <1>2, <1>3, LobbyInv DEF HInv, IInv
<1>5. Rests(table, s1)
  BY <1>2, <1>4, RestsAsSame DEF HInv
<1>6. CASE IsActive(s1) \/ s1.count = 1
  BY <1>1, <1>5, <1>6, RestStutters
<1>7. CASE ~ (IsActive(s1) \/ s1.count = 1)
  <2>1. late \in SUBSET InTable(s1) /\ \A v \in late : s1.pst[v] # "ACTIVE"
    BY <1>4, <1>7 DEF TableInv, Core, Together
  <2>2. Rests(s1, s2)
    BY <1>4, <1>5, <2>1, RestsAsTheyLeave DEF Rests
  <2> HIDE DEF s2
  <2>3. Rests(table, s2)
    BY <1>5, <2>2, RestsOn
  <2> QED BY <1>1, <1>7, <2>3, DealsOrRests
<1> QED BY <1>6, <1>7

-----------------------------------------------------------------------------
(* The table implements the hand. *)

\* A table that was just constructed is the idle hand.
LEMMA InitHand == Init => NoStray(table) /\ Hand!Idle
<1> SUFFICES ASSUME Init PROVE NoStray(table) /\ Hand!Idle
  OBVIOUS
<1>1. /\ table.card = [u \in User |-> "DISCARD"]
      /\ table.status = "EMPTY" /\ table.betT = None
  BY DEF Init, FreshTable
<1>2. ~ IsActive(table)
  BY <1>1 DEF IsActive
<1> QED BY <1>1, <1>2 DEF NoStray, Hand!Idle, Phase, CardHolders

\* Every message is a step of the hand, or none.
LEMMA MessagePlays ==
    ASSUME NEW u \in User, MaxNum > 2, HInv, Message(u)
    PROVE  Plays
<1>1. CASE LoginComing(u) \/ LoginRedirected(u) \/ RobotComing(u)
  BY <1>1, LoginPlays
<1>2. CASE RobotReplaced(u) \/ Drop(u) \/ GetTableDetail(u)
  BY <1>2, NotePlays
<1>3. CASE LeaveHand(u)
  BY <1>3, LeaveHandPlays
<1>4. CASE LeaveTable(u)
  BY <1>4, LeaveTablePlays
<1>5. CASE Logout(u)
  BY <1>5, LogoutPlays
<1>6. CASE StartGame(u)
  BY <1>6, StartGamePlays
<1>7. CASE Call(u) \/ Allin(u) \/ \E x \in RaseChoices : Rase(u, x)
  BY <1>7, BetPlays
<1>8. CASE ThrowCard(u)
  BY <1>8, ThrowCardPlays
<1>9. CASE CheckCard(u)
  BY <1>9, CheckCardPlays
<1>10. CASE \E v \in User : CompareCards(u, v)
  BY <1>10, CompareCardsPlays
<1> QED BY <1>1, <1>2, <1>3, <1>4, <1>5, <1>6, <1>7, <1>8, <1>9, <1>10
        DEF Message

\* Every timer is a step of the hand, or none; only GameOverTimeOut ends a
\* decided hand.
LEMMA TimerPlays ==
    ASSUME HInv, Timer
    PROVE  /\ LastTwoCompare => HandStep
           /\ NoStray(table')
           /\ GameOverTimeOut \/ (table.over => table'.over)
<1>1. CASE HeartTimeOut
  BY <1>1, HeartTimeOutPlays DEF Plays
<1>2. CASE TableGameStartTimeOut
  BY <1>2, TableGameStartTimeOutPlays DEF Plays
<1>3. CASE TableKickTimeOut
  BY <1>3, TableKickTimeOutPlays DEF Plays
<1>4. CASE BetTimeOut
  BY <1>4, BetTimeOutPlays DEF Plays
<1>5. CASE CompareResultNotifyTimeOut
  BY <1>5, NotifyPlays
<1>6. CASE GameOverTimeOut
  BY <1>6, GameOverPlays
<1> QED BY <1>1, <1>2, <1>3, <1>4, <1>5, <1>6 DEF Timer

\* Every step of the table is a step of the hand, or none; only GameOverTimeOut
\* ends a decided hand.
LEMMA NextPlays ==
    ASSUME MaxNum > 2, HInv, [Next]_vars
    PROVE  /\ LastTwoCompare => HandStep
           /\ HInv'
           /\ GameOverTimeOut \/ (table.over => table'.over)
<1>1. IInv'
  BY NextInv DEF HInv
<1>2. CASE Timer
  BY <1>1, <1>2, TimerPlays DEF HInv
<1>3. CASE \E u \in User : Message(u)
  BY <1>1, <1>3, MessagePlays DEF HInv, Plays
<1>4. CASE UNCHANGED vars
  <2>1. table' = table
    BY <1>4 DEF vars
  <2>2. HandStep
    BY <2>1, Stutters
  <2> QED BY <1>1, <2>1, <2>2 DEF HInv
<1> QED BY <1>2, <1>3, <1>4 DEF Next

\* Whoever is not in the hand holds no cards: no leave, kick, settlement or
\* newcomer (playerLeave, reset, playerComming) leaves a chair with the cards of
\* a hand, which calcCoin would count.
THEOREM HInvHolds ==
    ASSUME MaxNum > 2
    PROVE  Spec => []HInv
<1>1. HInv /\ [Next]_vars => HInv'
  BY NextPlays
<1>2. Init => HInv
  BY InitInv, InitHand DEF HInv
<1> QED BY <1>1, <1>2, PTL DEF Spec

\* Every handler and every timer of the table plays the hand of GoldenHand, as
\* long as a comparison that is announced late does not cost the cards of a
\* player on turn who is not one of the last two (CompareResultNotifyTimeOut).
THEOREM PlaysAHandHolds ==
    ASSUME MaxNum > 2
    PROVE  Spec /\ []LastTwoCompare => PlaysAHand
<1>1. HInv /\ LastTwoCompare /\ [Next]_vars => HandStep
  BY NextPlays
<1>2. Init => Hand!Idle
  BY InitHand
<1>3. Spec => []HInv
  BY HInvHolds
<1>4. Spec /\ []LastTwoCompare => Hand!Idle /\ [][Hand!Step]_(Hand!hand)
  BY <1>1, <1>2, <1>3, PTL DEF Spec, HandStep
<1> QED BY <1>4 DEF PlaysAHand, Hand!HandSafe

-----------------------------------------------------------------------------
(* The first speaker. *)

\* The first speaker of the round holds cards.
FirstHolds(s) == \E v \in Holders(s) : s.seat[v] = s.first

\* One or two hold cards.
Few(s) == \A u, v, w \in Holders(s) : u = v \/ v = w \/ u = w

\* FInv: the first speaker holds cards as long as a hand is bet on.
FInv == HInv /\ (Betting(table) => FirstHolds(table))

\* The comparison that is still to be announced takes no cards in a hand that is
\* bet on, or those of one of the last two.
OfLastTwo ==
    (/\ Betting(table) /\ table.cmpT /\ table.cmp.kept
     /\ Loser(table) \in Holders(table))
    => \A u, v \in Holders(table) \ {Loser(table)} : u = v

\* A comparison waits for its announcement only in the hand of the last two.
CompareInv == table.cmpT => IsActive(table) /\ Few(table)

\* The two tables agree on the first speaker and on the notification timer.
SameFirst(s, t) ==
    DOMAIN t = DOMAIN s /\ t.first = s.first /\ t.cmpT = s.cmpT

\* For whoever is in the hand the first speaker is the same, nobody is offered
\* anything else or goes all in, and no notification is started.
Leads(s, t) ==
    /\ t.cmpT => s.cmpT
    /\ IsActive(s) => t.first = s.first /\ t.offer = s.offer
    /\ \A v \in Holders(s) : t.seat[v] = s.seat[v]
    /\ \A v \in User : t.allin[v] => s.allin[v]

\* Tables that agree on the cards and on the mark agree on who is marked.
LEMMA FirstKept ==
    ASSUME NEW s, NEW t, Same(s, t), SameFirst(s, t), FirstHolds(s)
    PROVE  FirstHolds(t)
BY HoldersKept DEF Same, SameButCards, SameFirst, FirstHolds

\* setPlayerOptype moves no mark.
LEMMA SetPlayerOptypeFirst ==
    ASSUME NEW s, NEW u, DOMAIN s = Fields
    PROVE  SameFirst(s, SetPlayerOptype(s, u))
BY DEF SetPlayerOptype, Fields, FreshTable, SameFirst

\* setPlayerlimitcoin moves no mark.
LEMMA SetPlayerLimitCoinFirst ==
    ASSUME NEW s, DOMAIN s = Fields
    PROVE  SameFirst(s, SetPlayerLimitCoin(s))
BY DEF SetPlayerLimitCoin, Fields, FreshTable, SameFirst

\* playerBetCoin moves no mark.
LEMMA PlayerBetCoinFirst ==
    ASSUME NEW s, NEW u, NEW x, DOMAIN s = Fields
    PROVE  SameFirst(s, PlayerBetCoin(s, u, x))
BY DEF PlayerBetCoin, Fields, FreshTable, SameFirst

\* Giving up the cards moves no mark: that is left to setNextFirstPlayer.
LEMMA DiscardFirst ==
    ASSUME NEW s, NEW u, DOMAIN s = Fields
    PROVE  SameFirst(s, Discard(s, u)) /\ Discard(s, u).seat = s.seat
BY DEF Discard, Fields, FreshTable, SameFirst

\* Ending the hand moves no mark.
LEMMA GameOverFirst ==
    ASSUME NEW s, DOMAIN s = Fields
    PROVE  SameFirst(s, GameOver(s))
BY DEF GameOver, Fields, FreshTable, SameFirst

\* Passing the turn moves the round on, never its first speaker.
LEMMA GetNextBetPlayerFirst ==
    ASSUME NEW s, NEW u, DOMAIN s = Fields
    PROVE  SameFirst(s, GetNextBetPlayer(s, u))
<1> DEFINE able == AbleToBet(s, u)
           next == NextAfter(s, u, able)
           r == IF s.seat[next] = s.first THEN s.round + 1 ELSE s.round
           acted == [s EXCEPT !.betT = None,
                              !.tmo[u] = IF s.round # 1 THEN 0 ELSE @]
           turn == [acted EXCEPT !.round = r, !.currBet = next]
           asked == SetPlayerOptype(turn, next)
           clocked == [asked EXCEPT !.betT = next]
           over == GameOver(acted)
           last == [over EXCEPT !.round = MaxRound]
           stop == SetPlayerOptype(acted, u)
           go == SetPlayerLimitCoin(clocked)
<1>1. GetNextBetPlayer(s, u) \in {stop, last, go}
  BY DEF GetNextBetPlayer
<1> HIDE DEF able, next, r
<1>2. SameFirst(s, acted) /\ SameFirst(acted, turn)
  BY DEF Fields, FreshTable, SameFirst
<1> HIDE DEF acted, turn
<1>3. DOMAIN acted = Fields /\ DOMAIN turn = Fields
  BY <1>2 DEF SameFirst
<1>4. SameFirst(s, stop)
  BY <1>2, <1>3, SetPlayerOptypeFirst DEF SameFirst
<1>5. SameFirst(s, last)
  <2>1. SameFirst(s, over)
    BY <1>2, <1>3, GameOverFirst DEF SameFirst
  <2> HIDE DEF over
  <2> QED BY <2>1 DEF SameFirst, Fields, FreshTable
<1>6. SameFirst(s, go)
  <2>1. SameFirst(s, asked)
    BY <1>2, <1>3, SetPlayerOptypeFirst DEF SameFirst
  <2> HIDE DEF asked
  <2>2. SameFirst(s, clocked)
    BY <2>1 DEF SameFirst, Fields, FreshTable
  <2> HIDE DEF clocked
  <2>3. SameFirst(clocked, go)
    BY <2>2, SetPlayerLimitCoinFirst DEF SameFirst
  <2> HIDE DEF go
  <2> QED BY <2>2, <2>3 DEF SameFirst
<1> QED BY <1>1, <1>4, <1>5, <1>6

\* setNextFirstPlayer, when u has given up the cards: the first speaker holds
\* cards again, if anybody does.
LEMMA SetNextFirstLeads ==
    ASSUME NEW s, NEW u \in User, Shape(s), u \notin Holders(s),
           \E v \in Holders(s) \cup {u} : s.seat[v] = s.first
    PROVE  LET t == SetNextFirst(s, u)
           IN t.cmpT = s.cmpT /\ (Holders(t) # {} => FirstHolds(t))
<1> DEFINE rest == Holders(s) \ {u}
           w == NextAfter(s, u, rest)
           t == SetNextFirst(s, u)
<1>1. t.cmpT = s.cmpT /\ t.seat = s.seat
  BY DEF SetNextFirst, Shape, Fields, FreshTable
<1>2. Holders(t) = Holders(s)
  BY SetNextFirstSame, HoldersKept
<1>3. rest = Holders(s) /\ rest \in SUBSET User
  BY DEF Holders, InTable
<1>4. CASE s.seat[u] # s.first \/ rest = {}
  <2>1. t = s
    BY <1>4 DEF SetNextFirst
  <2> QED BY <1>3, <1>4, <2>1 DEF FirstHolds
<1>5. CASE s.seat[u] = s.first /\ rest # {}
  <2>1. w \in rest
    BY <1>3, <1>5, NextAfterIn
  <2>2. t.first = s.seat[w]
    BY <1>5 DEF SetNextFirst, Shape, Fields, FreshTable
  <2> HIDE DEF w, rest, t
  <2>3. FirstHolds(t)
    BY <1>1, <1>2, <1>3, <2>1, <2>2 DEF FirstHolds
  <2> QED BY <1>1, <2>3 DEF t
<1> HIDE DEF t
<1> QED BY <1>4, <1>5 DEF t

\* Of several who leave, nobody who stays loses his chair or cards; the first
\* speaker is forgotten only with the last player of the table.
LEMMA PlayersLeaveFirst ==
    ASSUME NEW s, NEW G \in SUBSET InTable(s), Shape(s)
    PROVE  LET t == PlayersLeave(s, G)
           IN /\ t.cmpT = s.cmpT
              /\ IsActive(t) => t.first = s.first /\ t.offer = s.offer
              /\ Holders(t) = Holders(s) \ G
              /\ \A v \in User \ G : /\ t.seat[v] = s.seat[v]
                                     /\ t.allin[v] = s.allin[v]
              /\ \A v \in G : ~ t.allin[v]
<1> DEFINE n == CountAfter(s, G)
           Out(f, x) == [u \in User |-> IF u \in G THEN x ELSE f[u]]
           out == [s EXCEPT
             !.seat = Out(@, NoSeat), !.pst = Out(@, "LOGOUT"),
             !.card = Out(@, "DISCARD"), !.money = Out(@, 0),
             !.bet = Out(@, 0), !.allin = Out(@, FALSE),
             !.allinCoin = Out(@, 0), !.drop = Out(@, FALSE),
             !.tmo = Out(@, 0), !.rank = Out(@, 0),
             !.count = n, !.status = WaitingStatus(s)]
           one == [out EXCEPT !.kickT = FALSE, !.lock = FALSE]
           none == InitTable(out)
           t == PlayersLeave(s, G)
<1>1. (G = {} /\ t = s) \/ t \in {none, one, out}
  BY DEF PlayersLeave
<1>2. /\ DOMAIN out = Fields
      /\ out.seat = Out(s.seat, NoSeat) /\ out.pst = Out(s.pst, "LOGOUT")
      /\ out.card = Out(s.card, "DISCARD")
      /\ out.first = s.first /\ out.cmpT = s.cmpT
      /\ out.offer = s.offer /\ out.allin = Out(s.allin, FALSE)
  BY DEF Shape, Fields, FreshTable
<1> HIDE DEF out, n
<1>3. /\ one.seat = out.seat /\ one.pst = out.pst /\ one.card = out.card
      /\ one.first = s.first /\ one.cmpT = s.cmpT
      /\ one.offer = s.offer /\ one.allin = out.allin
  BY <1>2 DEF Fields, FreshTable
<1>4. /\ none.seat = out.seat /\ none.pst = out.pst /\ none.card = out.card
      /\ ~ IsActive(none) /\ none.cmpT = s.cmpT /\ none.allin = out.allin
  BY <1>2 DEF InitTable, Cleared, IsActive, Fields, FreshTable
<1> HIDE DEF one, none, t
<1>5. CASE G = {} /\ t = s
  BY <1>5 DEF t
<1>6. CASE t \in {none, one, out}
  <2>1. /\ t.seat = Out(s.seat, NoSeat) /\ t.pst = Out(s.pst, "LOGOUT")
        /\ t.card = Out(s.card, "DISCARD") /\ t.cmpT = s.cmpT
        /\ IsActive(t) => t.first = s.first /\ t.offer = s.offer
        /\ t.allin = Out(s.allin, FALSE)
    BY <1>2, <1>3, <1>4, <1>6
  <2>2. \A v \in User \ G : /\ t.seat[v] = s.seat[v] /\ t.pst[v] = s.pst[v]
                            /\ t.card[v] = s.card[v]
    BY <2>1
  <2>3. \A v \in User \cap G : t.card[v] = "DISCARD"
    BY <2>1
  <2>4. Holders(t) = Holders(s) \ G
    BY <2>2, <2>3 DEF Holders, InTable
  <2>5. /\ \A v \in User \ G : t.allin[v] = s.allin[v]
        /\ \A v \in User \cap G : ~ t.allin[v]
    BY <2>1, Zenon
  <2>6. G \subseteq User
    BY DEF InTable
  <2> QED BY <2>1, <2>2, <2>4, <2>5, <2>6 DEF t
<1> QED BY <1>1, <1>5, <1>6

\* gameStart: the first speaker gets cards like everyone else.
LEMMA GameStartFirst ==
    ASSUME NEW s, NEW d, Core(s), ~ IsActive(s), s.count > 1
    PROVE  LET t == GameStart(s, d) IN t.cmpT = s.cmpT /\ FirstHolds(t)
<1> DEFINE here == InTable(s)
           from == IF s.preWin >= 0 THEN s.preWin ELSE 0
           dealer == FirstFrom(s, from, here)
           speaker == NextAfter(s, dealer, here \ {dealer})
           In(f, x) == [u \in User |-> IF u \in here THEN x ELSE f[u]]
           dealt == [CloseLobby(s) EXCEPT
             !.round = 1, !.card = In(@, "UNKNOWN"), !.pst = In(@, "ACTIVE"),
             !.money = [u \in User |-> IF u \in here THEN @[u] - Ante ELSE @[u]],
             !.bet = [u \in User |-> IF u \in here THEN @[u] + Ante ELSE @[u]],
             !.rank = [u \in User |-> IF u \in here THEN d[u] ELSE @[u]],
             !.pool = @ + Ante * Cardinality(here),
             !.betMax = Ante, !.maxCard = "UNKNOWN",
             !.first = s.seat[speaker]]
           offered == SetPlayerOptype(dealt, speaker)
           asked == SetPlayerLimitCoin(offered)
           t == [asked EXCEPT
                   !.status = "ACTIVE", !.currBet = speaker, !.betT = speaker]
<1>1. GameStart(s, d) = t
  BY DEF GameStart
<1>2. \A u \in here : u \in User /\ s.seat[u] \in Int
  BY SeatAssumption DEF Core, Shape, InTable, Seats
<1>3. here # {} /\ \A u : here # {u}
  BY TwoOrMore DEF Core
<1>4. from \in Int
  BY SeatAssumption DEF Core, Shape, Seats, NoSeat
<1>5. Holders(GameStart(s, d)) = here
  BY GameStartInv
<1> HIDE DEF from, here
<1>6. dealer \in here
  BY <1>2, <1>3, <1>4, FirstFromIn
<1> HIDE DEF dealer
<1>7. here \ {dealer} # {} /\ here \ {dealer} \subseteq User
  BY <1>2, <1>3, <1>6
<1>8. speaker \in here
  BY <1>2, <1>6, <1>7, NextAfterIn DEF Core
<1> HIDE DEF speaker
<1>9. /\ DOMAIN dealt = Fields /\ dealt.seat = s.seat
      /\ dealt.first = s.seat[speaker] /\ dealt.cmpT = s.cmpT
  BY DEF CloseLobby, Core, Shape, Fields, FreshTable
<1> HIDE DEF dealt
<1>10. SameFirst(dealt, offered) /\ offered.seat = dealt.seat
  <2>1. offered.seat = dealt.seat
    BY <1>9 DEF SetPlayerOptype, Fields, FreshTable
  <2> QED BY <1>9, <2>1, SetPlayerOptypeFirst
<1> HIDE DEF offered
<1>11. SameFirst(offered, asked) /\ asked.seat = offered.seat
  <2>1. DOMAIN offered = Fields
    BY <1>9, <1>10 DEF SameFirst
  <2>2. asked.seat = offered.seat
    BY <2>1 DEF SetPlayerLimitCoin, Fields, FreshTable
  <2> QED BY <2>1, <2>2, SetPlayerLimitCoinFirst
<1> HIDE DEF asked
<1>12. /\ t.seat = s.seat /\ t.first = s.seat[speaker]
       /\ t.cmpT = s.cmpT
  BY <1>9, <1>10, <1>11 DEF SameFirst, Fields, FreshTable
<1> HIDE DEF t
<1> QED BY <1>1, <1>5, <1>8, <1>12 DEF FirstHolds

\* The settlement leaves the notification timer alone.
LEMMA SettleFirst ==
    ASSUME NEW s, Typed(s)
    PROVE  Settle(HandOver(s)).cmpT = s.cmpT
<1> DEFINE h == HandOver(s)
           paid == Paid(h)
           left == PlayersLeave(paid, PutOut(h))
<1>1. Settle(h) = ReSetInfo(left)
  BY DEF Settle, Paid
<1>2. DOMAIN h = Fields /\ h.cmpT = s.cmpT
  BY DEF HandOver, Typed, Shape, Fields, FreshTable
<1>3. Typed(paid) /\ InTable(paid) = InTable(h)
  BY PaidTyped
<1> HIDE DEF h
<1>4. paid.cmpT = s.cmpT
  BY <1>2 DEF Paid, Refunded, Fields, FreshTable
<1> HIDE DEF paid
<1>5. PutOut(h) \in SUBSET InTable(paid)
  BY <1>3 DEF PutOut
<1>6. left.cmpT = s.cmpT /\ DOMAIN left = Fields
  BY <1>3, <1>4, <1>5, PlayersLeaveFirst, PlayersLeaveTyped DEF Typed, Shape
<1> HIDE DEF left
<1>7. ReSetInfo(left).cmpT = left.cmpT
  BY <1>6 DEF ReSetInfo, Cleared, Fields, FreshTable
<1> QED BY <1>1, <1>6, <1>7 DEF h

-----------------------------------------------------------------------------
(* The first speaker: the steps of a hand. *)

\* Whom the first speaker's mark is on: a card holder, or u, who gives up
\* the cards.
FirstOr(s, u) == \E v \in Holders(s) \cup {u} : s.seat[v] = s.first

\* An operator of a handler leaves the mark on somebody who holds cards.
Led(t) ==
    /\ t.cmpT => table.cmpT
    /\ Holders(t) # {} => FirstHolds(t)

\* What a step has to show
Leading ==
    /\ table'.cmpT => table.cmpT
    /\ Betting(table') => FirstHolds(table')

\* The operators between two looks at the first speaker
Marks(s, t) == SameFirst(s, t) /\ t.seat = s.seat /\ Holders(t) = Holders(s)

\* What keeps cards, chairs and mark keeps Marks.
LEMMA SameMarks ==
    ASSUME NEW s, NEW t, Same(s, t), SameFirst(s, t)
    PROVE  Marks(s, t)
BY HoldersKept DEF Marks, Same, SameButCards

\* Passing the turn moves no cards, no chair and no mark.
LEMMA GetNextBetPlayerMarks ==
    ASSUME NEW s, NEW u \in User, Core(s), Betting(s)
    PROVE  Marks(s, GetNextBetPlayer(s, u))
<1> DEFINE t == GetNextBetPlayer(s, u)
<1>1. t.seat = s.seat /\ t.pst = s.pst /\ t.card = s.card
  BY GetNextBetPlayerCore DEF Betting
<1>2. SameFirst(s, t)
  BY GetNextBetPlayerFirst DEF Core, Shape
<1> HIDE DEF t
<1>3. Holders(t) = Holders(s)
  BY <1>1 DEF Holders, InTable
<1> QED BY <1>1, <1>2, <1>3 DEF Marks, t

\* An operator that moves no mark leaves it on a card holder.
LEMMA LedOn ==
    ASSUME NEW s, NEW t, Led(s), Marks(s, t)
    PROVE  Led(t)
BY DEF Led, Marks, SameFirst, FirstHolds

\* setNextFirstPlayer at the end of a chain of calls
LEMMA NextFirstLed ==
    ASSUME NEW s, NEW u \in User, Shape(s), u \notin Holders(s),
           FirstOr(s, u), s.cmpT => table.cmpT
    PROVE  Led(SetNextFirst(s, u))
BY SetNextFirstLeads DEF Led, FirstOr

\* A handler ends the hand or leaves it to the two who still hold cards.
LEMMA EndsLed ==
    ASSUME NEW t, IInv', DOMAIN t = Fields, Led(t),
           table' = GameOverIfDecided(t) \/ table' = t
    PROVE  Leading
<1>1. CASE table' = GameOver(t)
  <2>1. table'.over = TRUE /\ table'.cmpT = t.cmpT
    BY <1>1 DEF GameOver, Fields, FreshTable
  <2> QED BY <2>1 DEF Leading, Led, Betting
<1>2. CASE table' = t
  <2>1. Betting(table') => Holders(table') # {}
    BY DEF IInv, TableInv, TwoIn, Betting
  <2> QED BY <1>2, <2>1 DEF Leading, Led
<1> QED BY <1>1, <1>2 DEF GameOverIfDecided

\* A hand that is bet on, with the first speaker among the card holders
LEMMA ActorLed ==
    ASSUME NEW u \in User, FInv, InHand(u)
    PROVE  /\ Core(table) /\ Betting(table) /\ NoStray(table)
           /\ FirstHolds(table) /\ Led(table)
BY ActorTurn DEF FInv, Led

\* A bet leaves the mark where it was.
LEMMA BetLed ==
    ASSUME NEW s, NEW u \in User, NEW x, FInv, Turn(u), Same(table, s),
           SameFirst(table, s)
    PROVE  LET t == GetNextBetPlayer(PlayerBetCoin(s, u, x), u)
           IN DOMAIN t = Fields /\ Led(t)
<1> DEFINE b == PlayerBetCoin(s, u, x)
           t == GetNextBetPlayer(b, u)
<1>1. Core(table) /\ Betting(table) /\ Led(table)
  BY ActorLed DEF Turn
<1>2. Core(s)
  BY <1>1, CoreKept DEF Same, Core, Shape
<1>3. Led(s)
  BY <1>1, SameMarks, LedOn
<1>4. Same(s, b) /\ SameFirst(s, b)
  BY <1>2, PlayerBetCoinSame, PlayerBetCoinFirst DEF Core, Shape
<1> HIDE DEF b
<1>5. Led(b)
  BY <1>3, <1>4, SameMarks, LedOn
<1>6. Core(b)
  BY <1>2, <1>4, CoreKept DEF Same, Core, Shape
<1>7. Betting(b)
  BY <1>1, <1>4 DEF Same, SameButCards, Betting, IsActive
<1>8. Marks(b, t)
  BY <1>6, <1>7, GetNextBetPlayerMarks
<1> HIDE DEF t
<1>9. DOMAIN t = Fields
  BY <1>6, <1>8 DEF Marks, SameFirst, Core, Shape
<1>10. Led(t)
  BY <1>5, <1>8, LedOn
<1> QED BY <1>9, <1>10 DEF t, b

\* No bet takes cards, so the first speaker keeps his.
LEMMA BetLeads ==
    ASSUME NEW u \in User, FInv, IInv',
           Call(u) \/ Allin(u) \/ \E x \in RaseChoices : Rase(u, x)
    PROVE  Leading
<1>0. Shape(table)
  BY DEF FInv, HInv, IInv, TableInv, Core
<1>1. CASE Call(u)
  <2> DEFINE someAllin == HasSomeOneAllin(table)
             coin == IF someAllin THEN table.allinCoin[u]
                     ELSE CallMoney(table, u)
             s1 == [table EXCEPT !.allin[u] = @ \/ someAllin]
             next == GetNextBetPlayer(PlayerBetCoin(s1, u, coin), u)
  <2>1. Turn(u) /\ table' = GameOverIfDecided(next)
    BY <1>1 DEF Call, TableBecomes
  <2>2. Same(table, s1) /\ SameFirst(table, s1)
    BY <1>0 DEF Shape, Fields, FreshTable, Same, SameButCards, SameFirst
  <2> HIDE DEF s1, coin
  <2>3. DOMAIN next = Fields /\ Led(next)
    BY <2>1, <2>2, BetLed
  <2> HIDE DEF next
  <2> QED BY <2>1, <2>3, EndsLed
<1>2. CASE Allin(u)
  <2> DEFINE coin == table.allinCoin[u]
             s1 == IF coin > table.betMax
                   THEN [table EXCEPT !.betMax = coin, !.maxCard = table.card[u]]
                   ELSE table
             s2 == [s1 EXCEPT !.hasAllin = coin, !.allin[u] = TRUE]
             next == GetNextBetPlayer(PlayerBetCoin(s2, u, coin), u)
  <2>1. Turn(u) /\ table' = GameOverIfDecided(next)
    BY <1>2 DEF Allin, TableBecomes
  <2>2. Same(table, s2) /\ SameFirst(table, s2)
    BY <1>0 DEF Shape, Fields, FreshTable, Same, SameButCards, SameFirst
  <2> HIDE DEF s2
  <2>3. DOMAIN next = Fields /\ Led(next)
    BY <2>1, <2>2, BetLed
  <2> HIDE DEF next
  <2> QED BY <2>1, <2>3, EndsLed
<1>3. ASSUME NEW x \in RaseChoices, Rase(u, x)
      PROVE  Leading
  <2> DEFINE coin == IF table.card[u] = "UNKNOWN" THEN x ELSE Doubled(x)
             s1 == [table EXCEPT !.betMax = x, !.maxCard = table.card[u]]
             next == GetNextBetPlayer(PlayerBetCoin(s1, u, coin), u)
  <2>1. Turn(u) /\ table' = next
    BY <1>3 DEF Rase, TableBecomes
  <2>2. Same(table, s1) /\ SameFirst(table, s1)
    BY <1>0 DEF Shape, Fields, FreshTable, Same, SameButCards, SameFirst
  <2> HIDE DEF s1, coin
  <2>3. DOMAIN next = Fields /\ Led(next)
    BY <2>1, <2>2, BetLed
  <2> HIDE DEF next
  <2> QED BY <2>1, <2>3, EndsLed
<1> QED BY <1>1, <1>2, <1>3

\* u gives up the cards: the mark stays where it is.
LEMMA DiscardFirstOr ==
    ASSUME NEW s, NEW u \in User, Core(s), Betting(s), FirstHolds(s)
    PROVE  LET t == Discard(s, u)
           IN /\ Core(t) /\ Betting(t) /\ FirstOr(t, u) /\ t.cmpT = s.cmpT
              /\ Holders(t) = Holders(s) \ {u}
<1> DEFINE t == Discard(s, u)
<1>1. /\ Core(t) /\ Holders(t) = Holders(s) \ {u} /\ SameButCards(s, t)
  BY DiscardKeeps
<1>2. t.first = s.first /\ t.cmpT = s.cmpT /\ t.seat = s.seat
  BY DiscardFirst DEF Core, Shape, SameFirst
<1> HIDE DEF t
<1>3. FirstOr(t, u)
  BY <1>1, <1>2 DEF FirstOr, FirstHolds
<1>4. Betting(t)
  BY <1>1 DEF SameButCards, Betting, IsActive
<1> QED BY <1>1, <1>2, <1>3, <1>4 DEF t

\* Operators that leave the mark alone may come before setNextFirstPlayer.
LEMMA FirstOrOn ==
    ASSUME NEW s, NEW t, NEW u, FirstOr(s, u), Marks(s, t)
    PROVE  FirstOr(t, u) /\ t.cmpT = s.cmpT /\ Holders(t) = Holders(s)
BY DEF FirstOr, Marks, SameFirst

\* setNextFirstPlayer leaves a table a table.
LEMMA NextFirstFields ==
    ASSUME NEW s, NEW u, Shape(s)
    PROVE  DOMAIN SetNextFirst(s, u) = Fields
BY SetNextFirstSame DEF Same, SameButCards, Shape

\* A fold hands on the mark after the cards are gone.
LEMMA ThrowCardLeads ==
    ASSUME NEW u \in User, FInv, IInv', ThrowCard(u)
    PROVE  Leading
<1> DEFINE s1 == Discard(table, u)
           s2 == IF table.currBet = u THEN GetNextBetPlayer(s1, u)
                 ELSE IF table.currBet = None THEN s1
                 ELSE SetPlayerOptype(s1, table.currBet)
           s3 == SetNextFirst(s2, u)
<1>1. InHand(u) /\ table' = GameOverIfDecided(s3)
  BY DEF ThrowCard, TableBecomes
<1>2. Core(table) /\ Betting(table) /\ FirstHolds(table)
  BY <1>1, ActorLed
<1>3. /\ Core(s1) /\ Betting(s1) /\ FirstOr(s1, u) /\ s1.cmpT = table.cmpT
      /\ Holders(s1) = Holders(table) \ {u}
  BY <1>2, DiscardFirstOr
<1> HIDE DEF s1
<1>4. Marks(s1, s2) /\ Shape(s2)
  <2>1. Shape(s1)
    BY <1>3 DEF Core
  <2>2. CASE s2 = GetNextBetPlayer(s1, u)
    BY <1>3, <2>2, GetNextBetPlayerMarks, GetNextBetPlayerCore
    DEF Core, Betting
  <2>3. CASE s2 = s1
    BY <2>1, <2>3 DEF Marks, SameFirst
  <2>4. CASE s2 = SetPlayerOptype(s1, table.currBet)
    <3>1. Same(s1, s2) /\ SameFirst(s1, s2)
      BY <2>1, <2>4, SetPlayerOptypeSame, SetPlayerOptypeFirst DEF Shape
    <3> HIDE DEF s2
    <3> QED BY <2>1, <3>1, SameMarks DEF Same, SameButCards, Shape
  <2> QED BY <2>2, <2>3, <2>4
<1> HIDE DEF s2
<1>5. FirstOr(s2, u) /\ s2.cmpT = table.cmpT /\ u \notin Holders(s2)
  BY <1>3, <1>4, FirstOrOn
<1>6. Led(s3) /\ DOMAIN s3 = Fields
  BY <1>4, <1>5, NextFirstLed, NextFirstFields
<1> HIDE DEF s3
<1> QED BY <1>1, <1>6, EndsLed

\* Looking at the cards keeps them.
LEMMA CheckCardLeads ==
    ASSUME NEW u \in User, FInv, IInv', CheckCard(u)
    PROVE  Leading
<1> DEFINE s1 == [table EXCEPT !.card[u] = "KNOWN"]
           s2 == [s1 EXCEPT !.betT = u]
<1>1. InHand(u) /\ table.card[u] = "UNKNOWN"
      /\ table' = IF table.currBet = u THEN SetPlayerOptype(s2, u) ELSE s1
  BY DEF CheckCard, TableBecomes
<1>2. /\ Core(table) /\ Betting(table) /\ FirstHolds(table)
      /\ u \in InTable(table) /\ table.pst[u] = "ACTIVE"
  BY <1>1, ActorLed, ActorTurn DEF FInv
<1>3. /\ DOMAIN s1 = Fields /\ s1.card = [table.card EXCEPT ![u] = "KNOWN"]
      /\ s1.seat = table.seat /\ s1.pst = table.pst
      /\ s1.first = table.first /\ s1.cmpT = table.cmpT
  BY <1>2 DEF Core, Shape, Fields, FreshTable
<1>4. /\ s2.card = s1.card /\ s2.seat = s1.seat /\ s2.pst = s1.pst
      /\ SameFirst(s1, s2) /\ DOMAIN s2 = Fields
  BY <1>3 DEF Fields, FreshTable, SameFirst
<1> HIDE DEF s1, s2
<1>5. Holders(s1) = Holders(table)
  BY <1>1, <1>2, <1>3 DEF Holders, InTable, Core, Shape
<1>6. Led(s1)
  BY <1>2, <1>3, <1>5 DEF Led, FirstHolds
<1>7. Led(s2)
  <2>1. Marks(s1, s2)
    BY <1>4 DEF Marks, Holders, InTable
  <2> QED BY <1>6, <2>1, LedOn
<1>8. CASE table' = s1
  BY <1>3, <1>6, <1>8, EndsLed
<1>9. CASE table' = SetPlayerOptype(s2, u)
  <2> DEFINE t == SetPlayerOptype(s2, u)
  <2>0. DOMAIN s2 = Fields
    BY <1>4
  <2>1. SameFirst(s2, t) /\ t.seat = s2.seat /\ t.pst = s2.pst /\ t.card = s2.card
    <3>1. t.seat = s2.seat /\ t.pst = s2.pst /\ t.card = s2.card
      BY <2>0 DEF SetPlayerOptype, Fields, FreshTable
    <3> QED BY <2>0, <3>1, SetPlayerOptypeFirst
  <2> HIDE DEF t
  <2>2. Marks(s2, t)
    BY <2>1 DEF Marks, Holders, InTable
  <2>3. Led(t) /\ DOMAIN t = Fields
    BY <1>4, <1>7, <2>1, <2>2, LedOn DEF SameFirst
  <2> QED BY <1>9, <2>3, EndsLed DEF t
<1> QED BY <1>1, <1>8, <1>9

\* Two card holders at most
LEMMA TwoAreFew ==
    ASSUME NEW s, Cardinality(Holders(s)) <= 2
    PROVE  Few(s)
<1> SUFFICES ASSUME NEW u \in Holders(s), NEW v \in Holders(s),
                    NEW w \in Holders(s), u # v, v # w, u # w
             PROVE  FALSE
  BY DEF Few
<1>1. IsFiniteSet(Holders(s))
  BY UserAssumption, FS_Subset DEF Holders, InTable
<1>2. /\ IsFiniteSet({u}) /\ Cardinality({u}) = 1
      /\ IsFiniteSet({u, v}) /\ Cardinality({u, v}) = 2
  <2>1. IsFiniteSet({u}) /\ Cardinality({u}) = 1
    BY FS_Singleton
  <2>2. {u, v} = {u} \cup {v}
    OBVIOUS
  <2> QED BY <2>1, <2>2, FS_AddElement
<1>3. Cardinality({u, v, w}) = 3
  <2>1. {u, v, w} = {u, v} \cup {w}
    OBVIOUS
  <2> QED BY <1>2, <2>1, FS_AddElement
<1>4. Cardinality({u, v, w}) <= Cardinality(Holders(s))
  BY <1>1, FS_Subset
<1>5. Cardinality(Holders(s)) \in Nat
  BY <1>1, FS_CardinalityType
<1> QED BY <1>3, <1>4, <1>5

\* Of a comparison one gives up the cards; the notification is started only
\* for the last two.
LEMMA CompareCardsLeads ==
    ASSUME NEW u \in User, NEW v \in User, FInv, IInv', CompareCards(u, v)
    PROVE  /\ table'.cmpT => table.cmpT \/ Few(table')
           /\ Betting(table') => FirstHolds(table')
<1> DEFINE cost == Min({CallMoney(table, u), table.money[u]})
           s1 == PlayerBetCoin(table, u, cost)
           win == CompareCard(table.rank[u], table.rank[v]) = "win"
           sv == Discard(s1, v)
           nv == SetNextFirst(sv, v)
           won == GetNextBetPlayer(nv, u)
           forced == /\ won.betT # None /\ won.money[u] = 0
                     /\ Cardinality(Holders(won)) <= 2
           su == Discard(s1, u)
           gu == GetNextBetPlayer(su, u)
           lost == SetNextFirst(gu, u)
           force == ForceCompareCard(won, u, won.betT)
<1>1. /\ Turn(u)
      /\ table' = GameOverIfDecided(
           IF ~ win THEN lost ELSE IF forced THEN force ELSE won)
  BY DEF CompareCards, TableBecomes
<1>2. Core(table) /\ Betting(table) /\ FirstHolds(table)
  BY <1>1, ActorLed DEF Turn
<1> HIDE DEF cost, win
<1>3. Same(table, s1) /\ SameFirst(table, s1)
  BY <1>2, PlayerBetCoinSame, PlayerBetCoinFirst DEF Core, Shape
<1> HIDE DEF s1
<1>4. /\ Core(s1) /\ Betting(s1) /\ FirstHolds(s1) /\ s1.cmpT = table.cmpT
  BY <1>2, <1>3, CoreKept, FirstKept
  DEF Same, SameButCards, SameFirst, Betting, IsActive, Core, Shape
<1>5. Led(lost) /\ DOMAIN lost = Fields
  <2>1. Core(su) /\ Betting(su) /\ FirstOr(su, u) /\ su.cmpT = table.cmpT
        /\ Holders(su) = Holders(s1) \ {u}
    BY <1>4, DiscardFirstOr
  <2> HIDE DEF su
  <2>2. Marks(su, gu) /\ Shape(gu)
    BY <2>1, GetNextBetPlayerMarks, GetNextBetPlayerCore DEF Core, Betting
  <2> HIDE DEF gu
  <2>3. FirstOr(gu, u) /\ gu.cmpT = table.cmpT /\ u \notin Holders(gu)
    BY <2>1, <2>2, FirstOrOn
  <2> QED BY <2>2, <2>3, NextFirstLed, NextFirstFields
<1>6. Led(won) /\ Core(won)
  <2>1. Core(sv) /\ Betting(sv) /\ FirstOr(sv, v) /\ sv.cmpT = table.cmpT
        /\ Holders(sv) = Holders(s1) \ {v}
    BY <1>4, DiscardFirstOr
  <2> HIDE DEF sv
  <2>2. Led(nv)
    BY <2>1, NextFirstLed DEF Core
  <2>3. Same(sv, nv)
    BY <2>1, SetNextFirstSame DEF Core
  <2> HIDE DEF nv
  <2>4. Core(nv) /\ Betting(nv)
    BY <2>1, <2>3, CoreKept
    DEF Same, SameButCards, Betting, IsActive, Core, Shape
  <2>5. Marks(nv, won) /\ Core(won)
    BY <2>4, GetNextBetPlayerMarks, GetNextBetPlayerCore DEF Betting
  <2> HIDE DEF won
  <2> QED BY <2>2, <2>5, LedOn
<1> HIDE DEF lost, won
<1>7. CASE ~ win
  BY <1>1, <1>5, <1>7, EndsLed DEF Leading
<1>8. CASE win /\ ~ forced
  <2>1. DOMAIN won = Fields
    BY <1>6 DEF Core, Shape
  <2> QED BY <1>1, <1>6, <1>8, <2>1, EndsLed DEF Leading
<1>9. CASE win /\ forced
  <2> DEFINE b == PlayerBetCoin(won, u, won.money[u])
  <2>1. Same(won, b) /\ SameFirst(won, b)
    BY <1>6, PlayerBetCoinSame, PlayerBetCoinFirst DEF Core, Shape
  <2> HIDE DEF b
  <2>2. force = [b EXCEPT
           !.cmp = [kept |-> TRUE, p1 |-> u, p2 |-> won.betT,
                    result |-> CompareCard(won.rank[u], won.rank[won.betT])],
           !.cmpT = TRUE]
    BY DEF ForceCompareCard, b
  <2>3. DOMAIN b = Fields
    BY <1>6, <2>1 DEF Core, Shape, SameFirst
  <2>4. /\ DOMAIN force = Fields /\ force.first = b.first
        /\ force.seat = b.seat /\ force.pst = b.pst /\ force.card = b.card
        /\ force.over = b.over /\ force.status = b.status
    BY <2>2, <2>3 DEF Fields, FreshTable
  <2> HIDE DEF force
  <2>5. Holders(force) = Holders(won) /\ force.seat = won.seat
        /\ force.first = won.first
    <3>1. Marks(won, b)
      BY <2>1, SameMarks
    <3>2. Holders(force) = Holders(b)
      BY <2>4 DEF Holders, InTable
    <3> QED BY <2>4, <3>1, <3>2 DEF Marks, SameFirst
  <2>6. Few(force)
    <3>1. Few(won)
      BY <1>9, TwoAreFew
    <3> QED BY <2>5, <3>1 DEF Few
  <2>7. Holders(force) # {} => FirstHolds(force)
    BY <1>6, <2>5 DEF Led, FirstHolds
  <2>8. table' = GameOverIfDecided(force)
    BY <1>1, <1>9
  <2>9. Few(table')
    <3>1. Few(GameOver(force))
      <4>1. /\ GameOver(force).seat = force.seat
            /\ GameOver(force).pst = force.pst
            /\ GameOver(force).card = force.card
        BY <2>4 DEF GameOver, Fields, FreshTable
      <4>2. Holders(GameOver(force)) = Holders(force)
        BY <4>1 DEF Holders, InTable
      <4> QED BY <2>6, <4>2 DEF Few
    <3> QED BY <2>6, <2>8, <3>1 DEF GameOverIfDecided
  <2>10. ASSUME Betting(table') PROVE FirstHolds(table')
    <3>1. CASE IsCanGameOver(force)
      <4>1. table'.over = TRUE
        BY <2>4, <2>8, <3>1 DEF GameOverIfDecided, GameOver, Fields, FreshTable
      <4> QED BY <2>10, <4>1 DEF Betting
    <3>2. CASE ~ IsCanGameOver(force)
      <4>1. table' = force
        BY <2>8, <3>2 DEF GameOverIfDecided
      <4>2. Holders(table') # {}
        BY <2>10 DEF IInv, TableInv, TwoIn, Betting
      <4> QED BY <2>7, <4>1, <4>2
    <3> QED BY <3>1, <3>2
  <2> QED BY <2>9, <2>10
<1> QED BY <1>7, <1>8, <1>9

-----------------------------------------------------------------------------
(* The first speaker: the timers of a hand. *)

\* Stopping the bet timer and counting the time-out move no mark.
LEMMA BetTimeOutLeads ==
    ASSUME FInv, IInv', BetTimeOut
    PROVE  Leading
<1> DEFINE u == table.betT
           s1 == [table EXCEPT !.betT = None]
           st == [s1 EXCEPT !.tmo[u] = IF s1.round = 1 THEN @ + 1 ELSE @]
           s2 == Discard(st, u)
           s3 == GetNextBetPlayer(s2, u)
           s4 == IF s3.betT = None THEN s3 ELSE SetPlayerOptype(s3, s3.betT)
           s5 == SetNextFirst(s4, u)
<1>1. /\ u # None
      /\ table' = IF u \in InTable(table) /\ table.currBet = u
                  THEN GameOverIfDecided(s5) ELSE s1
  BY DEF BetTimeOut, TableBecomes
<1>2. /\ u \in InTable(table) /\ table.currBet = u
      /\ u \in User /\ Betting(table) /\ FirstHolds(table)
  BY <1>1
  DEF FInv, HInv, IInv, TableInv, Core, Clock, Together, InTable, Betting
<1>3. TableInv(s1) /\ s1.status = table.status /\ s1.over = table.over
  BY ClockStopped DEF FInv, HInv, IInv
<1>4. /\ s1.seat = table.seat /\ s1.pst = table.pst /\ s1.card = table.card
      /\ s1.first = table.first /\ s1.cmpT = table.cmpT
  BY DEF FInv, HInv, IInv, TableInv, Core, Shape, Fields, FreshTable
<1> HIDE DEF s1
<1>5. Same(s1, st) /\ SameFirst(s1, st)
  BY <1>3
  DEF TableInv, Core, Shape, Fields, FreshTable, Same, SameButCards, SameFirst
<1> HIDE DEF u, st
<1>6. Core(st) /\ Betting(st) /\ FirstHolds(st) /\ st.cmpT = table.cmpT
  <2>1. TableInv(st)
    BY <1>3, <1>5, InvKept
  <2>2. FirstHolds(s1)
    BY <1>2, <1>4 DEF FirstHolds, Holders, InTable
  <2>3. FirstHolds(st)
    BY <1>5, <2>2, FirstKept
  <2>4. st.cmpT = table.cmpT
    BY <1>4, <1>5 DEF SameFirst
  <2> QED BY <1>2, <1>3, <1>5, <2>1, <2>3, <2>4
          DEF TableInv, Same, SameButCards, Betting, IsActive
<1>7. Core(s2) /\ Betting(s2) /\ FirstOr(s2, u) /\ s2.cmpT = table.cmpT
      /\ Holders(s2) = Holders(st) \ {u}
  BY <1>2, <1>6, DiscardFirstOr
<1> HIDE DEF s2
<1>8. Marks(s2, s3) /\ Shape(s3)
  BY <1>2, <1>7, GetNextBetPlayerMarks, GetNextBetPlayerCore DEF Core, Betting
<1> HIDE DEF s3
<1>9. FirstOr(s3, u) /\ s3.cmpT = table.cmpT /\ u \notin Holders(s3)
  BY <1>7, <1>8, FirstOrOn
<1>10. Marks(s3, s4) /\ Shape(s4)
  <2>1. CASE s3.betT = None
    BY <1>8, <2>1 DEF Marks, SameFirst
  <2>2. CASE s3.betT # None
    <3>1. Same(s3, s4) /\ SameFirst(s3, s4)
      BY <1>8, <2>2, SetPlayerOptypeSame, SetPlayerOptypeFirst DEF Shape
    <3> HIDE DEF s4
    <3> QED BY <1>8, <3>1, SameMarks DEF Same, SameButCards, Shape
  <2> QED BY <2>1, <2>2
<1> HIDE DEF s4
<1>11. FirstOr(s4, u) /\ s4.cmpT = table.cmpT /\ u \notin Holders(s4)
  BY <1>9, <1>10, FirstOrOn
<1>12. Led(s5) /\ DOMAIN s5 = Fields
  BY <1>2, <1>10, <1>11, NextFirstLed, NextFirstFields
<1> HIDE DEF s5
<1> QED BY <1>1, <1>2, <1>12, EndsLed

\* A notification costs cards only in the hand of the last two, which it
\* decides: no new first speaker is needed.
LEMMA NotifyLeads ==
    ASSUME FInv, OfLastTwo, IInv', CompareResultNotifyTimeOut
    PROVE  Leading
<1> DEFINE c == table.cmp
           s1 == [table EXCEPT !.cmpT = FALSE]
           loser == IF c.result = "win" THEN c.p2 ELSE c.p1
           s2 == IF loser = None THEN s1 ELSE Discard(s1, loser)
           s3 == [s2 EXCEPT !.cmp = NoCompare]
<1>1. /\ table.cmpT
      /\ table' = IF ~ c.kept THEN s1 ELSE GameOverIfDecided(s3)
  BY DEF CompareResultNotifyTimeOut, TableBecomes
<1>2. /\ Betting(table) => FirstHolds(table)
      /\ loser = Loser(table)
  BY DEF FInv, Loser
<1>3. Same(table, s1) /\ s1.first = table.first /\ s1.cmpT = FALSE
      /\ DOMAIN s1 = Fields
  BY DEF FInv, HInv, IInv, TableInv, Core, Shape, Fields, FreshTable, Same,
         SameButCards
<1> HIDE DEF s1, loser
<1>4. TableInv(s1) /\ Holders(s1) = Holders(table)
  BY <1>3, InvKept, HoldersKept DEF FInv, HInv, IInv
<1>5. /\ DOMAIN s2 = Fields /\ s2.first = table.first /\ s2.cmpT = FALSE
      /\ s2.seat = table.seat /\ s2.status = table.status
      /\ s2.over = table.over
  BY <1>3 DEF Discard, Same, SameButCards, Fields, FreshTable
<1>6. Holders(s2) = Holders(table) \ {loser}
  <2>1. loser = None => Holders(table) = Holders(table) \ {loser}
    BY NoneAssumption DEF Holders, InTable
  <2> QED BY <1>4, <2>1, DiscardKeeps DEF TableInv
<1> HIDE DEF s2
<1>7. /\ DOMAIN s3 = Fields /\ s3.first = table.first /\ s3.cmpT = FALSE
      /\ s3.seat = table.seat /\ s3.status = table.status
      /\ s3.over = table.over /\ Holders(s3) = Holders(table) \ {loser}
  BY <1>5, <1>6 DEF Holders, InTable, Fields, FreshTable
<1> HIDE DEF s3
<1>8. CASE table' = s1
  BY <1>2, <1>3, <1>4, <1>8
  DEF Leading, FirstHolds, Betting, IsActive, Same, SameButCards
<1>9. CASE c.kept /\ table' = s3
  <2>1. ASSUME Betting(table') PROVE FirstHolds(table')
    <3>1. Betting(table) /\ FirstHolds(table)
      BY <1>2, <1>7, <1>9, <2>1 DEF Betting, IsActive
    <3>2. PICK x, y \in Holders(table') : x # y
      BY <2>1 DEF IInv, TableInv, TwoIn, Betting
    <3>3. loser \notin Holders(table)
      BY <1>1, <1>2, <1>7, <1>9, <3>1, <3>2 DEF OfLastTwo
    <3> QED BY <1>7, <1>9, <3>1, <3>3 DEF FirstHolds
  <2> QED BY <1>7, <1>9, <2>1 DEF Leading
<1>10. CASE table' = GameOver(s3)
  <2>1. table'.over = TRUE /\ table'.cmpT = FALSE
    BY <1>7, <1>10 DEF GameOver, Fields, FreshTable
  <2> QED BY <2>1 DEF Leading, Betting
<1> QED BY <1>1, <1>8, <1>9, <1>10 DEF GameOverIfDecided

\* A settlement leaves no hand to lead.
LEMMA GameOverLeads ==
    ASSUME TInv, FInv, IInv', GameOverTimeOut
    PROVE  Leading
<1> DEFINE h == HandOver(table)
<1>1. CASE Shown(h) = {}
  <2>1. table' = table
    BY <1>1 DEF GameOverTimeOut
  <2>2. table.over
    BY DEF GameOverTimeOut, FInv, HInv, IInv, TableInv, Core, Settling
  <2> QED BY <2>1, <2>2 DEF Leading, Betting
<1>2. CASE Shown(h) # {}
  <2>1. table' = Settle(h) /\ table.overT
    BY <1>2 DEF GameOverTimeOut
  <2>2. table'.cmpT = table.cmpT
    BY <2>1, SettleFirst DEF TInv
  <2>3. ~ IsActive(table')
    BY <2>1, SettleInv DEF FInv, HInv, IInv, TableInv
  <2> QED BY <2>2, <2>3 DEF Leading, Betting
<1> QED BY <1>1, <1>2

-----------------------------------------------------------------------------
(* The first speaker: coming, leaving and getting ready. *)

\* t is as s for the hand and for its first speaker.
Follows(s, t) == Rests(s, t) /\ Leads(s, t)

\* Following twice is following.
LEMMA FollowsOn ==
    ASSUME NEW r, NEW s, NEW t, Follows(r, s), Follows(s, t)
    PROVE  Follows(r, t)
<1>1. Rests(r, t)
  BY RestsOn DEF Follows
<1>2. Leads(r, t)
  BY DEF Follows, Rests, Leads
<1> QED BY <1>1, <1>2 DEF Follows

\* The two tables differ in nothing a hand and its first speaker are made of.
LEMMA FollowsAsSame ==
    ASSUME NEW s, NEW t, TableInv(t), NoStray(s),
           t.status = s.status, t.seat = s.seat, t.pst = s.pst,
           t.card = s.card, t.over = s.over, t.betT = s.betT,
           t.first = s.first, t.cmpT = s.cmpT, t.offer = s.offer,
           \A v \in User : t.allin[v] => s.allin[v]
    PROVE  Follows(s, t)
<1>1. Rests(s, t)
  BY RestsAsSame
<1> QED BY <1>1 DEF Follows, Leads

\* Players outside the hand go.
LEMMA FollowsAsTheyLeave ==
    ASSUME NEW s, NEW G \in SUBSET InTable(s), TableInv(s), NoStray(s),
           \A v \in G : s.pst[v] # "ACTIVE"
    PROVE  Follows(s, PlayersLeave(s, G))
<1> DEFINE t == PlayersLeave(s, G)
<1>1. Rests(s, t)
  BY RestsAsTheyLeave
<1>2. /\ t.cmpT = s.cmpT
      /\ IsActive(t) => t.first = s.first /\ t.offer = s.offer
      /\ \A v \in User \ G : t.seat[v] = s.seat[v] /\ t.allin[v] = s.allin[v]
      /\ \A v \in G : ~ t.allin[v]
  BY PlayersLeaveFirst DEF TableInv, Core
<1> HIDE DEF t
<1>3. Holders(s) \subseteq User \ G
  BY DEF Holders, InTable
<1>4. Leads(s, t)
  BY <1>1, <1>2, <1>3 DEF Leads, Rests
<1> QED BY <1>1, <1>4 DEF Follows, t

\* Between two hands a new one is dealt at s.
DealsAt(s) ==
    /\ ~ IsActive(s) /\ s.count > 1
    /\ \E d \in Deals : table' = GameStart(s, d)

\* A step around a hand leaves the hand and its first speaker alone; then it may
\* deal the next hand, or end this one.
Around ==
    \E s : /\ Follows(table, s)
           /\ table' = s \/ table' = GameOver(s) \/ DealsAt(s)

\* A handler that does no more than what leaves the hand alone
LEMMA FollowsAround ==
    ASSUME Follows(table, table')
    PROVE  Around
BY DEF Around

\* A handler that deals when everyone left is ready
LEMMA DealsAround ==
    ASSUME NEW s, NEW d \in Deals, Follows(table, s),
           table' = StartIfAllReady(s, d)
           \/ (table' = GameStart(s, d) /\ IsAllReady(s) /\ s.count > 1)
    PROVE  Around
<1>1. CASE table' = GameStart(s, d) /\ IsAllReady(s) /\ s.count > 1
  <2>1. ~ IsActive(s)
    BY <1>1, NotAllReady DEF Follows, Rests, TableInv
  <2> QED BY <1>1, <2>1 DEF Around, DealsAt
<1>2. CASE table' = s
  BY <1>2 DEF Around
<1> QED BY <1>1, <1>2 DEF StartIfAllReady

\* A step around a hand leaves its first speaker alone or marks the next one.
LEMMA AroundLeads ==
    ASSUME FInv, Around
    PROVE  Leading
<1>1. PICK s : /\ Follows(table, s)
               /\ table' = s \/ table' = GameOver(s) \/ DealsAt(s)
  BY DEF Around
<1>2. CASE table' = s
  BY <1>1, <1>2
  DEF FInv, Follows, Rests, Leads, Leading, Betting, FirstHolds
<1>3. CASE table' = GameOver(s)
  <2>1. DOMAIN s = Fields
    BY <1>1 DEF Follows, Rests, TableInv, Core, Shape
  <2>2. table'.over = TRUE /\ table'.cmpT = s.cmpT
    BY <1>3, <2>1 DEF GameOver, Fields, FreshTable
  <2> QED BY <1>1, <2>2 DEF Leading, Betting, Follows, Leads
<1>4. CASE DealsAt(s)
  <2>1. Core(s) /\ ~ IsActive(s) /\ s.count > 1 /\ (s.cmpT => table.cmpT)
    BY <1>1, <1>4 DEF DealsAt, Follows, Rests, TableInv, Leads
  <2>2. table'.cmpT = s.cmpT /\ FirstHolds(table')
    BY <1>4, <2>1, GameStartFirst DEF DealsAt
  <2> QED BY <2>1, <2>2 DEF Leading
<1> QED BY <1>1, <1>2, <1>3, <1>4

\* A newcomer takes a free chair: nobody's cards and no chair in the hand.
LEMMA LoginAround ==
    ASSUME NEW u \in User, MaxNum > 2, HInv, IInv',
           LoginComing(u) \/ LoginRedirected(u) \/ RobotComing(u)
    PROVE  Around
<1>1. PICK m : /\ table.seat[u] = NoSeat /\ FreeChairs(table) # {}
               /\ \/ table' = PlayerComming(table, u, m)
                  \/ table' = SetKickTimer(PlayerComming(table, u, m))
  BY DEF LoginComing, LoginRedirected, RobotComing, TableBecomes
<1> DEFINE s == PlayerComming(table, u, m)
           chair == SeatOrder[CHOOSE i \in FreeChairs(table) :
                                \A j \in FreeChairs(table) : i <= j]
<1>2. TableInv(s) /\ Rests(table, s)
  BY <1>1, PlayerCommingInv, RestsAsKept DEF HInv, IInv
<1>3. Follows(table, s)
  <2>1. Shape(table)
    BY DEF HInv, IInv, TableInv, Core
  <2>2. /\ s.seat = [table.seat EXCEPT ![u] = chair]
        /\ s.first = table.first /\ s.cmpT = table.cmpT
        /\ s.offer = table.offer /\ s.allin = table.allin
    BY <2>1 DEF PlayerComming, Shape, Fields, FreshTable
  <2> HIDE DEF s, chair
  <2>3. u \notin Holders(table)
    BY <1>1, SeatAssumption DEF Holders, InTable, NoSeat, Seats
  <2>4. \A v \in Holders(table) : s.seat[v] = table.seat[v]
    BY <2>1, <2>2, <2>3 DEF Shape, Holders, InTable
  <2> QED BY <1>2, <2>2, <2>4 DEF Follows, Leads
<1> HIDE DEF s
<1>4. Follows(s, SetKickTimer(s))
  <2>1. /\ SetKickTimer(s).card = s.card /\ SetKickTimer(s).over = s.over
        /\ SetKickTimer(s).betT = s.betT
    BY <1>2 DEF SetKickTimer, TableInv, Core, Shape, Fields, FreshTable
  <2>2. /\ SetKickTimer(s).first = s.first /\ SetKickTimer(s).cmpT = s.cmpT
        /\ SetKickTimer(s).offer = s.offer /\ SetKickTimer(s).allin = s.allin
    BY <1>2 DEF SetKickTimer, TableInv, Core, Shape, Fields, FreshTable
  <2> QED BY <1>2, <2>1, <2>2, SetKickTimerInv, FollowsAsSame DEF Rests
<1>5. Follows(table, table')
  BY <1>1, <1>3, <1>4, FollowsOn DEF s
<1> QED BY <1>5, FollowsAround

\* Notes about a player move no mark.
LEMMA NoteAround ==
    ASSUME NEW u \in User, TInv, HInv, IInv',
           RobotReplaced(u) \/ Drop(u) \/ GetTableDetail(u)
    PROVE  Around
<1>1. Shape(table)
  BY DEF HInv, IInv, TableInv, Core
<1>2. ASSUME RobotReplaced(u)
      PROVE  /\ Same(table, table') /\ SameFirst(table, table')
             /\ table'.offer = table.offer
             /\ \A v \in User : table'.allin[v] => table.allin[v]
  <2>1. PICK m : table' = PlayerReplaced(table, u, m)
    BY <1>2 DEF RobotReplaced, TableBecomes
  <2>2. SameFirst(table, table') /\ table'.offer = table.offer
    BY <1>1, <2>1 DEF PlayerReplaced, Shape, Fields, FreshTable, SameFirst
  <2>3. table'.allin = [table.allin EXCEPT ![u] = FALSE]
    BY <1>1, <2>1 DEF PlayerReplaced, Shape, Fields, FreshTable
  <2>4. table.allin \in [User -> BOOLEAN]
    BY DEF TInv, Typed, Notes
  <2>5. \A v \in User : table'.allin[v] => table.allin[v]
    BY <2>3, <2>4, Zenon
  <2> QED BY <1>1, <2>1, <2>2, <2>5, ReplacedSame
<1>3. ASSUME NEW b, table' = [table EXCEPT !.drop[u] = b]
      PROVE  /\ Same(table, table') /\ SameFirst(table, table')
             /\ table'.offer = table.offer
             /\ \A v \in User : table'.allin[v] => table.allin[v]
  <2>1. /\ Same(table, table') /\ SameFirst(table, table')
        /\ table'.offer = table.offer /\ table'.allin = table.allin
    BY <1>1, <1>3
    DEF Shape, Fields, FreshTable, Same, SameButCards, SameFirst
  <2> QED BY <2>1
<1>4. /\ Same(table, table') /\ SameFirst(table, table')
      /\ table'.offer = table.offer
      /\ \A v \in User : table'.allin[v] => table.allin[v]
  BY <1>2, <1>3 DEF Drop, GetTableDetail, TableBecomes
<1>5. Follows(table, table')
  BY <1>4, FollowsAsSame
  DEF HInv, IInv, Same, SameButCards, SameFirst
<1> QED BY <1>5, FollowsAround

\* Leaving between two hands may deal the next one, which marks its first
\* speaker.
LEMMA LeaveTableAround ==
    ASSUME NEW u \in User, HInv, LeaveTable(u)
    PROVE  Around
<1> DEFINE s == PlayersLeave(table, {u})
<1>1. {u} \in SUBSET InTable(table) /\ \A v \in {u} : table.pst[v] # "ACTIVE"
  BY DEF LeaveTable, At
<1>2. \E d \in Deals :
         table' = IF IsCanGameOver(s) THEN GameOver(s)
                  ELSE StartIfAllReady(s, d)
  BY DEF LeaveTable, TableBecomes
<1>3. Follows(table, s)
  BY <1>1, FollowsAsTheyLeave DEF HInv, IInv
<1> HIDE DEF s
<1>4. CASE table' = GameOver(s)
  BY <1>3, <1>4 DEF Around
<1>5. CASE \E d \in Deals : table' = StartIfAllReady(s, d)
  BY <1>3, <1>5, DealsAround
<1> QED BY <1>2, <1>4, <1>5

\* A logout takes no chair in the hand; between two hands it may deal the next.
LEMMA LogoutAround ==
    ASSUME NEW u \in User, HInv, Logout(u)
    PROVE  Around
<1> DEFINE s1 == [table EXCEPT !.drop[u] = TRUE]
           s2 == IF table.pst[u] = "ACTIVE" THEN s1 ELSE PlayersLeave(s1, {u})
<1>1. u \in InTable(table) /\ \E d \in Deals : table' = StartIfAllReady(s2, d)
  BY DEF Logout, At, TableBecomes
<1>2. /\ Same(table, s1) /\ SameFirst(table, s1)
      /\ s1.offer = table.offer /\ s1.allin = table.allin
  BY DEF HInv, IInv, TableInv, Core, Shape, Fields, FreshTable, Same,
         SameButCards, SameFirst
<1> HIDE DEF s1
<1>3. TableInv(s1)
  BY <1>2, InvKept DEF HInv, IInv
<1>4. Follows(table, s1)
  BY <1>2, <1>3, FollowsAsSame DEF HInv, Same, SameButCards, SameFirst
<1>5. Follows(table, s2)
  <2>1. CASE table.pst[u] = "ACTIVE"
    BY <1>4, <2>1
  <2>2. CASE table.pst[u] # "ACTIVE"
    <3>1. {u} \in SUBSET InTable(s1) /\ \A v \in {u} : s1.pst[v] # "ACTIVE"
      BY <1>1, <1>2, <2>2 DEF Same, SameButCards, InTable
    <3>2. Follows(s1, PlayersLeave(s1, {u}))
      BY <1>3, <1>4, <3>1, FollowsAsTheyLeave DEF Follows, Rests
    <3> QED BY <1>4, <2>2, <3>2, FollowsOn
  <2> QED BY <2>1, <2>2
<1> HIDE DEF s2
<1> QED BY <1>1, <1>5, DealsAround

\* Silent clients who are put out hold no cards.
LEMMA HeartTimeOutAround ==
    ASSUME HInv, HeartTimeOut
    PROVE  Around
<1>1. PICK G \in SUBSET {u \in InTable(table) : table.pst[u] # "ACTIVE"} :
        table' = PlayersLeave(table, G)
  BY DEF HeartTimeOut, TableBecomes
<1>2. G \in SUBSET InTable(table) /\ \A v \in G : table.pst[v] # "ACTIVE"
  OBVIOUS
<1>3. Follows(table, table')
  BY <1>1, <1>2, FollowsAsTheyLeave DEF HInv, IInv
<1> QED BY <1>3, FollowsAround

\* The hand that the last ready player starts has its first speaker marked.
LEMMA StartGameAround ==
    ASSUME NEW u \in User, HInv, IInv', StartGame(u)
    PROVE  Around
<1> DEFINE s1 == [table EXCEPT !.pst[u] = "RSTART"]
           s2 == IF s1.lock THEN s1 ELSE SetKickTimer(s1)
           s3 == IF ~ IsActive(s2) /\ IsCanGameStart(s2)
                 THEN [s2 EXCEPT !.startT = TRUE] ELSE s2
<1>1. /\ u \in InTable(table) /\ table.pst[u] # "ACTIVE"
      /\ \E d \in Deals : table' = IF IsAllReady(s1) /\ s1.count > 1
                                  THEN GameStart(s1, d) ELSE s3
  BY DEF StartGame, At, TableBecomes
<1>2. TableInv(s1)
  BY <1>1, ReadyInv DEF HInv
<1>3. Follows(table, s1)
  <2>1. /\ s1.status = table.status /\ s1.seat = table.seat
        /\ s1.pst = [table.pst EXCEPT ![u] = "RSTART"]
        /\ s1.card = table.card /\ s1.over = table.over
        /\ s1.betT = table.betT
        /\ s1.first = table.first /\ s1.cmpT = table.cmpT
        /\ s1.offer = table.offer /\ s1.allin = table.allin
    BY DEF HInv, IInv, TableInv, Core, Shape, Fields, FreshTable
  <2> HIDE DEF s1
  <2>2. Holders(s1) = Holders(table)
    BY <1>1, <2>1
    DEF Holders, InTable, HInv, IInv, TableInv, Core, Shape
  <2>3. Rests(table, s1)
    BY <1>2, <2>1, <2>2 DEF Rests, IsActive, NoStray, HInv
  <2> QED BY <2>1, <2>3 DEF Follows, Leads
<1> HIDE DEF s1
<1>4. /\ DOMAIN s2 = Fields /\ s2.status = s1.status /\ s2.seat = s1.seat
      /\ s2.pst = s1.pst /\ s2.card = s1.card /\ s2.over = s1.over
      /\ s2.betT = s1.betT /\ s2.first = s1.first /\ s2.cmpT = s1.cmpT
      /\ s2.offer = s1.offer /\ s2.allin = s1.allin
  BY <1>2 DEF SetKickTimer, TableInv, Core, Shape, Fields, FreshTable
<1> HIDE DEF s2
<1>5. /\ s3.status = s1.status /\ s3.seat = s1.seat
      /\ s3.pst = s1.pst /\ s3.card = s1.card /\ s3.over = s1.over
      /\ s3.betT = s1.betT /\ s3.first = s1.first /\ s3.cmpT = s1.cmpT
      /\ s3.offer = s1.offer /\ s3.allin = s1.allin
  BY <1>4 DEF Fields, FreshTable
<1> HIDE DEF s3
<1>6. CASE IsAllReady(s1) /\ s1.count > 1
  BY <1>1, <1>3, <1>6, DealsAround
<1>7. CASE ~ (IsAllReady(s1) /\ s1.count > 1)
  <2>1. table' = s3 /\ TableInv(table') /\ NoStray(s1)
    BY <1>1, <1>3, <1>7 DEF IInv, Follows, Rests
  <2>2. Follows(table, table')
    BY <1>3, <1>5, <2>1, FollowsAsSame, FollowsOn
  <2> QED BY <2>2, FollowsAround
<1> QED BY <1>6, <1>7

\* The start timer puts out nobody of a hand, and deals with the mark set.
LEMMA TableGameStartTimeOutAround ==
    ASSUME HInv, TableGameStartTimeOut
    PROVE  Around
<1> DEFINE s1 == [table EXCEPT !.startT = FALSE]
           late == {u \in InTable(s1) : s1.pst[u] \in {"COMING", "OVER"}}
           s2 == PlayersLeave(s1, late)
<1>1. \E d \in Deals : table' = IF IsActive(s1) \/ ~ IsCanGameStart(s1) THEN s1
                               ELSE StartIfAllReady(s2, d)
  BY DEF TableGameStartTimeOut, TableBecomes
<1>2. /\ DOMAIN s1 = DOMAIN table /\ s1.status = table.status
      /\ s1.count = table.count /\ s1.seat = table.seat
      /\ s1.pst = table.pst /\ s1.card = table.card
      /\ s1.preWin = table.preWin /\ s1.over = table.over
      /\ s1.overT = table.overT /\ s1.betT = table.betT
      /\ s1.currBet = table.currBet /\ s1.lock = table.lock
      /\ s1.kickT = table.kickT /\ s1.startT = FALSE
      /\ s1.first = table.first /\ s1.cmpT = table.cmpT
      /\ s1.offer = table.offer /\ s1.allin = table.allin
  BY DEF HInv, IInv, TableInv, Core, Shape, Fields, FreshTable
<1> HIDE DEF s1
<1>3. /\ s1.kickT \in BOOLEAN /\ s1.lock \in BOOLEAN /\ (s1.lock => s1.kickT)
      /\ ~ IsActive(table) \/ (~ s1.startT /\ ~ s1.kickT)
  BY <1>2 DEF HInv, IInv, TableInv, Core, Shape, Lobby
<1>4. TableInv(s1)
  BY <1>2, <1>3, LobbyInv DEF HInv, IInv
<1>5. Follows(table, s1)
  BY <1>2, <1>4, FollowsAsSame DEF HInv
<1>6. Follows(s1, s2)
  BY <1>4, <1>5, FollowsAsTheyLeave DEF Follows, Rests
<1> HIDE DEF s2
<1>7. Follows(table, s2)
  BY <1>5, <1>6, FollowsOn
<1>8. CASE table' = s1
  BY <1>5, <1>8, FollowsAround
<1>9. CASE \E d \in Deals : table' = StartIfAllReady(s2, d)
  BY <1>7, <1>9, DealsAround
<1> QED BY <1>1, <1>8, <1>9

\* The kick timer puts out nobody of a hand, and deals with the mark set.
LEMMA TableKickTimeOutAround ==
    ASSUME HInv, TableKickTimeOut
    PROVE  Around
<1> DEFINE s1 == [table EXCEPT !.kickT = FALSE, !.lock = FALSE]
           late == InTable(s1) \ Ready(s1)
           s2 == PlayersLeave(s1, late)
<1>1. \E d \in Deals : table' = IF IsActive(s1) \/ s1.count = 1 THEN s1
                               ELSE StartIfAllReady(s2, d)
  BY DEF TableKickTimeOut, TableBecomes
<1>2. /\ DOMAIN s1 = DOMAIN table /\ s1.status = table.status
      /\ s1.count = table.count /\ s1.seat = table.seat
      /\ s1.pst = table.pst /\ s1.card = table.card
      /\ s1.preWin = table.preWin /\ s1.over = table.over
      /\ s1.overT = table.overT /\ s1.betT = table.betT
      /\ s1.currBet = table.currBet /\ s1.lock = FALSE
      /\ s1.kickT = FALSE /\ s1.startT = table.startT
      /\ s1.first = table.first /\ s1.cmpT = table.cmpT
      /\ s1.offer = table.offer /\ s1.allin = table.allin
  BY DEF HInv, IInv, TableInv, Core, Shape, Fields, FreshTable
<1> HIDE DEF s1
<1>3. /\ s1.startT \in BOOLEAN /\ s1.kickT \in BOOLEAN /\ s1.lock \in BOOLEAN
      /\ s1.lock => s1.kickT
      /\ ~ IsActive(table) \/ (~ s1.startT /\ ~ s1.kickT)
  BY <1>2 DEF HInv, IInv, TableInv, Core, Shape, Lobby
<1>4. TableInv(s1)
  BY <1>2, <1>3, LobbyInv DEF HInv, IInv
<1>5. Follows(table, s1)
  BY <1>2, <1>4, FollowsAsSame DEF HInv
<1>6. CASE table' = s1
  BY <1>5, <1>6, FollowsAround
<1>7. CASE ~ IsActive(s1) /\ \E d \in Deals : table' = StartIfAllReady(s2, d)
  <2>1. late \in SUBSET InTable(s1) /\ \A v \in late : s1.pst[v] # "ACTIVE"
    BY <1>4, <1>7 DEF TableInv, Core, Together
  <2>2. Follows(s1, s2)
    BY <1>4, <1>5, <2>1, FollowsAsTheyLeave DEF Follows, Rests
  <2> HIDE DEF s2
  <2>3. Follows(table, s2)
    BY <1>5, <2>2, FollowsOn
  <2> QED BY <1>7, <2>3, DealsAround
<1> QED BY <1>1, <1>6, <1>7

\* Whoever leaves the hand hands on the mark before he goes.
LEMMA LeaveHandLeads ==
    ASSUME NEW u \in User, FInv, IInv', LeaveHand(u)
    PROVE  Leading
<1> DEFINE s1 == Forfeit(table, u)
           s2 == IF table.currBet = u THEN GetNextBetPlayer(s1, u) ELSE s1
           sd == Discard(s2, u)
           s3 == SetNextFirst(sd, u)
           s4 == PlayersLeave(s3, {u})
<1>1. /\ Core(s4) /\ IsActive(s4) /\ table' = GameOverIfDecided(s4)
      /\ InHand(u)
  BY LeaveHandTable DEF FInv, HInv
<1>2. /\ Core(table) /\ Betting(table) /\ FirstHolds(table)
      /\ u \in InTable(table)
  BY <1>1, ActorLed, ActorTurn DEF FInv
<1>3. Same(table, s1) /\ SameFirst(table, s1)
  <2>1. SameFirst(table, s1)
    BY <1>2 DEF Forfeit, Core, Shape, Fields, FreshTable, SameFirst
  <2> QED BY <1>2, <2>1, ForfeitSame DEF Core
<1> HIDE DEF s1
<1>4. Core(s1) /\ Betting(s1) /\ FirstHolds(s1) /\ s1.cmpT = table.cmpT
  BY <1>2, <1>3, CoreKept, FirstKept
  DEF Same, SameButCards, SameFirst, Betting, IsActive, Core, Shape
<1>5. Core(s2) /\ Marks(s1, s2)
  <2>1. CASE table.currBet = u
    BY <1>4, <2>1, GetNextBetPlayerMarks, GetNextBetPlayerCore DEF Betting
  <2>2. CASE table.currBet # u
    BY <1>4, <2>2 DEF Marks, SameFirst
  <2> QED BY <2>1, <2>2
<1>6. FirstHolds(s2) /\ s2.cmpT = table.cmpT /\ s2.seat = table.seat
  BY <1>3, <1>4, <1>5
  DEF Marks, SameFirst, FirstHolds, Same, SameButCards
<1> HIDE DEF s2
<1>7. Core(sd) /\ FirstOr(sd, u) /\ sd.cmpT = table.cmpT
      /\ u \notin Holders(sd) /\ sd.seat = table.seat
  <2>1. Core(sd) /\ Holders(sd) = Holders(s2) \ {u}
    BY <1>5, DiscardKeeps
  <2>2. sd.first = s2.first /\ sd.cmpT = s2.cmpT /\ sd.seat = s2.seat
    BY <1>5, DiscardFirst DEF Core, Shape, SameFirst
  <2> HIDE DEF sd
  <2> QED BY <1>6, <2>1, <2>2 DEF FirstOr, FirstHolds
<1> HIDE DEF sd
<1>8. Led(s3) /\ Same(sd, s3)
  BY <1>7, NextFirstLed, SetNextFirstSame DEF Core
<1> HIDE DEF s3
<1>9. Shape(s3) /\ {u} \in SUBSET InTable(s3) /\ u \notin Holders(s3)
  <2>1. Holders(s3) = Holders(sd) /\ InTable(s3) = InTable(sd)
    BY <1>8, HoldersKept
  <2>2. u \in InTable(sd)
    BY <1>2, <1>7 DEF InTable
  <2>3. Shape(s3)
    BY <1>7, <1>8 DEF Core, Shape, Same, SameButCards
  <2> QED BY <1>7, <2>1, <2>2, <2>3
<1>10. /\ s4.cmpT = s3.cmpT /\ s4.first = s3.first
       /\ Holders(s4) = Holders(s3)
       /\ \A v \in Holders(s3) : s4.seat[v] = s3.seat[v]
  <2>1. /\ s4.cmpT = s3.cmpT
        /\ IsActive(s4) => s4.first = s3.first
        /\ Holders(s4) = Holders(s3) \ {u}
        /\ \A v \in User \ {u} : s4.seat[v] = s3.seat[v]
    BY <1>9, PlayersLeaveFirst
  <2> QED BY <1>1, <1>9, <2>1 DEF Holders, InTable
<1> HIDE DEF s4
<1>11. Led(s4)
  BY <1>8, <1>10 DEF Led, FirstHolds
<1> QED BY <1>1, <1>11, EndsLed DEF Core, Shape

\* Every timer keeps a first speaker who holds cards.
LEMMA TimerLeads ==
    ASSUME TInv, FInv, OfLastTwo, IInv', Timer
    PROVE  Leading
<1>1. CASE HeartTimeOut
  BY <1>1, HeartTimeOutAround, AroundLeads DEF FInv
<1>2. CASE TableGameStartTimeOut
  BY <1>2, TableGameStartTimeOutAround, AroundLeads DEF FInv
<1>3. CASE TableKickTimeOut
  BY <1>3, TableKickTimeOutAround, AroundLeads DEF FInv
<1>4. CASE BetTimeOut
  BY <1>4, BetTimeOutLeads
<1>5. CASE CompareResultNotifyTimeOut
  BY <1>5, NotifyLeads
<1>6. CASE GameOverTimeOut
  BY <1>6, GameOverLeads
<1> QED BY <1>1, <1>2, <1>3, <1>4, <1>5, <1>6 DEF Timer

\* A message leads on, or compares the cards of the last two.
LEMMA MessageLeads ==
    ASSUME NEW u \in User, MaxNum > 2, TInv, FInv, IInv', Message(u)
    PROVE  /\ table'.cmpT => table.cmpT \/ (Betting(table) /\ Few(table'))
           /\ Betting(table') => FirstHolds(table')
<1>1. CASE LoginComing(u) \/ LoginRedirected(u) \/ RobotComing(u)
  BY <1>1, LoginAround, AroundLeads DEF Leading, FInv
<1>2. CASE RobotReplaced(u) \/ Drop(u) \/ GetTableDetail(u)
  BY <1>2, NoteAround, AroundLeads DEF Leading, FInv
<1>3. CASE LeaveHand(u)
  BY <1>3, LeaveHandLeads DEF Leading
<1>4. CASE LeaveTable(u)
  BY <1>4, LeaveTableAround, AroundLeads DEF Leading, FInv
<1>5. CASE Logout(u)
  BY <1>5, LogoutAround, AroundLeads DEF Leading, FInv
<1>6. CASE StartGame(u)
  BY <1>6, StartGameAround, AroundLeads DEF Leading, FInv
<1>7. CASE Call(u) \/ Allin(u) \/ \E x \in RaseChoices : Rase(u, x)
  BY <1>7, BetLeads DEF Leading
<1>8. CASE ThrowCard(u)
  BY <1>8, ThrowCardLeads DEF Leading
<1>9. CASE CheckCard(u)
  BY <1>9, CheckCardLeads DEF Leading
<1>10. CASE \E v \in User : CompareCards(u, v)
  <2>1. Betting(table)
    BY <1>10, ActorLed DEF CompareCards, Turn
  <2> QED BY <1>10, <2>1, CompareCardsLeads
<1> QED BY <1>1, <1>2, <1>3, <1>4, <1>5, <1>6, <1>7, <1>8, <1>9, <1>10
        DEF Message

\* Every step keeps a first speaker who holds cards and is a step of the hand;
\* the notification timer is started only with two holders left.
LEMMA NextLeads ==
    ASSUME MaxNum > 2, TInv, FInv, OfLastTwo, [Next]_vars
    PROVE  /\ FInv' /\ HandStep
           /\ table'.cmpT => table.cmpT \/ (Betting(table) /\ Few(table'))
<1>1. HandStep /\ HInv'
  BY NextPlays DEF FInv, OfLastTwo, LastTwoCompare
<1>2. IInv'
  BY <1>1 DEF HInv
<1>3. CASE Timer
  BY <1>1, <1>2, <1>3, TimerLeads DEF Leading, FInv
<1>4. CASE \E u \in User : Message(u)
  BY <1>1, <1>2, <1>4, MessageLeads DEF FInv
<1>5. CASE UNCHANGED vars
  <2>1. table' = table
    BY <1>5 DEF vars
  <2> QED BY <1>1, <2>1 DEF FInv
<1> QED BY <1>3, <1>4, <1>5 DEF Next

\* setNextFirstPlayer moves the mark of the first speaker on whenever he gives up
\* the cards, before the turn can come round to an empty chair: the round goes on.
\* It does so in every hand whose bets are not interrupted by the late
\* announcement of an older comparison (CompareResultNotifyTimeOut, which passes
\* the mark on to nobody).
THEOREM FirstIsHolderHolds ==
    ASSUME MaxNum > 2
    PROVE  Spec /\ []OfLastTwo => []FirstIsHolder
<1>1. TInv /\ FInv /\ OfLastTwo /\ [Next]_vars => FInv'
  BY NextLeads
<1>2. Init => FInv
  <2>1. Init => ~ Betting(table)
    BY DEF Init, FreshTable, Betting, IsActive
  <2> QED BY <2>1, InitInv, InitHand DEF FInv, HInv
<1>3. FInv => FirstIsHolder
  BY DEF FInv, Betting, FirstHolds, FirstIsHolder
<1> QED BY <1>1, <1>2, <1>3, TypedHolds, PTL DEF Spec

-----------------------------------------------------------------------------
(* The comparison that is announced late. *)

\* A step that does not settle a hand under way leaves it under way, and deals
\* no cards in it.
LEMMA HandGoesOn ==
    ASSUME HandStep, IsActive(table), ~ Hand!Settle
    PROVE  IsActive(table') /\ Holders(table') \subseteq Holders(table)
<1>1. Phase(table) # "idle" /\ CardHolders(table) = Holders(table)
  BY DEF Phase, CardHolders
<1>2. /\ Phase(table') # "idle"
      /\ CardHolders(table') \subseteq CardHolders(table)
  <2>1. CASE UNCHANGED Hand!hand
    BY <1>1, <2>1 DEF Hand!hand
  <2>2. CASE Hand!Speak \/ Hand!DropOut
    BY <1>1, <2>2 DEF Hand!Speak, Hand!DropOut, Hand!OneDrops
  <2>3. CASE Hand!Decide \/ Hand!Announce
    BY <1>1, <2>3 DEF Hand!Decide, Hand!Announce, Hand!OneDrops
  <2>4. CASE Hand!Deal
    BY <1>1, <2>4 DEF Hand!Deal
  <2> QED BY <2>1, <2>2, <2>3, <2>4 DEF HandStep, Hand!Step
<1>3. IsActive(table')
  BY <1>2 DEF Phase
<1> QED BY <1>1, <1>2, <1>3 DEF CardHolders

\* The settlement of the hand is that of the table.
LEMMA HandSettles ==
    ASSUME Core(table), Core(table'), Hand!Settle
    PROVE  Settles
<1>1. Phase(table) = "settling" /\ Phase(table') = "idle"
  BY DEF Hand!Settle
<1>2. table.over /\ ~ IsActive(table')
  BY <1>1 DEF Phase
<1> QED BY <1>2 DEF Settles, Core, Settling

\* Without a settlement before its announcement a comparison stays that of the
\* last two.
LEMMA NextFew ==
    ASSUME MaxNum > 2, TInv, FInv, CompareInv, [Next]_vars,
           Settles => ~ table.cmpT
    PROVE  FInv' /\ CompareInv'
<1>1. OfLastTwo
  BY DEF CompareInv, Few, OfLastTwo
<1>2. /\ FInv' /\ HandStep
      /\ table'.cmpT => table.cmpT \/ (Betting(table) /\ Few(table'))
  BY <1>1, NextLeads
<1>3. CompareInv'
  <2>1. Core(table) /\ Core(table')
    BY <1>2 DEF FInv, HInv, IInv, TableInv
  <2>2. CASE table.cmpT
    <3>1. IsActive(table) /\ Few(table)
      BY <2>2 DEF CompareInv
    <3>2. ~ Hand!Settle
      BY <2>1, <2>2, HandSettles
    <3>3. IsActive(table') /\ Holders(table') \subseteq Holders(table)
      BY <1>2, <3>1, <3>2, HandGoesOn
    <3> QED BY <3>1, <3>3 DEF CompareInv, Few
  <2>3. CASE ~ table.cmpT /\ table'.cmpT
    <3>1. Betting(table) /\ Few(table')
      BY <1>2, <2>3
    <3>2. ~ Hand!Settle
      BY <3>1 DEF Hand!Settle, Phase, Betting
    <3>3. IsActive(table')
      BY <1>2, <3>1, <3>2, HandGoesOn DEF Betting
    <3> QED BY <3>1, <3>3 DEF CompareInv
  <2>4. CASE ~ table'.cmpT
    BY <2>4 DEF CompareInv
  <2> QED BY <2>2, <2>3, <2>4
<1> QED BY <1>2, <1>3

\* No hand is settled while the notification timer runs: every comparison is
\* announced in its own hand.  The delays of the server do not see to that
\* (COMPARE_NOTIFY_DELAY_TIME is longer than GAME_OVER_TIME and
\* COMPARE_OVER_TIME): it depends on when the clients fold.
NoticeFirst == [][Settles => ~ table.cmpT]_vars

\* Announced in its own hand, a forced comparison is always that of the last two.
LEMMA NoticeFirstLastTwo ==
    ASSUME MaxNum > 2
    PROVE  Spec /\ NoticeFirst => []OfLastTwo /\ []LastTwoCompare
<1> DEFINE First == Settles => ~ table.cmpT
<1>1. TInv /\ FInv /\ CompareInv /\ [Next]_vars /\ First
        => FInv' /\ CompareInv'
  BY NextFew
<1>2. Init => FInv /\ CompareInv
  <2>1. Init => ~ Betting(table) /\ ~ table.cmpT
    BY DEF Init, FreshTable, Betting, IsActive
  <2> QED BY <2>1, InitInv, InitHand DEF FInv, HInv, CompareInv
<1>3. UNCHANGED vars => First
  BY DEF vars, Settles
<1> HIDE DEF First
<1>4. Spec /\ [][First]_vars => [](FInv /\ CompareInv)
  <2>1. Spec => Init /\ [][Next]_vars /\ []TInv
    BY TypedHolds DEF Spec
  <2> QED BY <1>1, <1>2, <1>3, <2>1, PTL
<1>5. FInv /\ CompareInv => OfLastTwo /\ LastTwoCompare
  BY DEF CompareInv, Few, OfLastTwo, LastTwoCompare
<1>6. Spec /\ [][First]_vars => []OfLastTwo /\ []LastTwoCompare
  BY <1>4, <1>5, PTL
<1> QED BY <1>6 DEF First, NoticeFirst

\* What a late announcement can disturb needs a settlement before it
\* (GameOverTimeOut before CompareResultNotifyTimeOut): without one the forced
\* comparison is always that of the last two, the hand is played as GoldenHand
\* says and its first speaker holds cards.
THEOREM NoticeFirstSuffices ==
    ASSUME MaxNum > 2
    PROVE  Spec /\ NoticeFirst => []FirstIsHolder /\ PlaysAHand
BY NoticeFirstLastTwo, FirstIsHolderHolds, PlaysAHandHolds, PTL

-----------------------------------------------------------------------------
(* The settlement. *)

\* playerLeave takes everybody in PutOut from his chair, and reset moves nobody.
LEMMA SettlePutsOut ==
    ASSUME NEW s, Core(s), Notes(s)
    PROVE  LET t == Settle(HandOver(s))
           IN \A u \in InTable(t) : ~ s.drop[u] /\ s.tmo[u] < TimeoutLimit
<1> DEFINE h == HandOver(s)
           G == PutOut(h)
           final == FinalGetCoin(h)
           won == {u \in Played(h) : final[u] > 0}
           paid == [Refunded(h) EXCEPT
             !.money = [u \in User |->
               IF u \in Played(h) THEN @[u] + AfterTax(final[u]) ELSE @[u]],
             !.preWin = IF won = {} THEN @ ELSE Max({h.seat[u] : u \in won})]
           left == PlayersLeave(paid, G)
           t == ReSetInfo(left)
<1>1. Settle(h) = t
  BY DEF Settle
<1>2. /\ DOMAIN h = Fields /\ h.seat = s.seat
      /\ h.drop = s.drop /\ h.tmo = s.tmo
  BY DEF HandOver, Core, Shape, Fields, FreshTable
<1> HIDE DEF h, final, won
<1>3. DOMAIN paid = Fields /\ paid.seat = s.seat
  BY <1>2 DEF Refunded, Fields, FreshTable
<1>4. G = {u \in InTable(s) : s.drop[u] \/ s.tmo[u] >= TimeoutLimit}
  BY <1>2 DEF PutOut, InTable
<1> HIDE DEF paid, G
<1>5. /\ DOMAIN left = Fields
      /\ \A u \in User \ G : left.seat[u] = s.seat[u]
      /\ \A u \in G : left.seat[u] = NoSeat
  <2> DEFINE n == CountAfter(paid, G)
             Out(f, x) == [u \in User |-> IF u \in G THEN x ELSE f[u]]
             out == [paid EXCEPT
               !.seat = Out(@, NoSeat), !.pst = Out(@, "LOGOUT"),
               !.card = Out(@, "DISCARD"), !.money = Out(@, 0),
               !.bet = Out(@, 0), !.allin = Out(@, FALSE),
               !.allinCoin = Out(@, 0), !.drop = Out(@, FALSE),
               !.tmo = Out(@, 0), !.rank = Out(@, 0),
               !.count = n, !.status = WaitingStatus(paid)]
  <2>1. left = IF G = {} THEN paid ELSE IF n = 0 THEN InitTable(out)
               ELSE IF n = 1 THEN [out EXCEPT !.kickT = FALSE, !.lock = FALSE]
               ELSE out
    BY DEF PlayersLeave
  <2>2. DOMAIN out = Fields /\ out.seat = Out(s.seat, NoSeat)
    BY <1>3 DEF Fields, FreshTable
  <2> HIDE DEF out, n
  <2>3. CASE G = {}
    BY <1>3, <2>1, <2>3
  <2>4. CASE G # {}
    <3>1. DOMAIN left = Fields /\ left.seat = out.seat
      BY <2>1, <2>2, <2>4 DEF InitTable, Cleared, Fields, FreshTable
    <3>2. G \subseteq User
      BY <1>4 DEF InTable
    <3> QED BY <2>2, <3>1, <3>2
  <2> QED BY <2>3, <2>4
<1> HIDE DEF left
<1>6. t.seat = left.seat
  BY <1>5 DEF ReSetInfo, Cleared, Fields, FreshTable
<1> HIDE DEF t
<1>7. ASSUME NEW u \in InTable(t)
      PROVE  ~ s.drop[u] /\ s.tmo[u] < TimeoutLimit
  <2>1. u \in User /\ left.seat[u] \in Seats
    BY <1>6 DEF InTable
  <2>2. u \notin G
    BY <1>5, <2>1, SeatAssumption DEF Seats, NoSeat
  <2>3. u \in InTable(s)
    BY <1>5, <2>1, <2>2 DEF InTable
  <2>4. ~ s.drop[u] /\ ~ (s.tmo[u] >= TimeoutLimit)
    BY <1>4, <2>2, <2>3
  <2>5. s.tmo[u] \in Nat
    BY <2>1 DEF Notes
  <2>6. s.tmo[u] < TimeoutLimit
    BY <2>4, <2>5, RoundAssumption
  <2> QED BY <2>4, <2>6
<1> QED BY <1>1, <1>7 DEF h

\* IProcess::GameOver, which only the settlement timer reaches, puts out whoever
\* has dropped or timed out too often: no other handler settles a hand.
THEOREM DroppedArePutOutHolds ==
    ASSUME MaxNum > 2
    PROVE  Spec => DroppedArePutOut
<1> DEFINE Out == Settles => \A u \in InTable(table') :
                    ~ table.drop[u] /\ table.tmo[u] < TimeoutLimit
<1>1. ASSUME HInv, TInv, [Next]_vars PROVE Out
  <2> SUFFICES ASSUME Settles PROVE Out
    OBVIOUS
  <2>1. table.over /\ ~ table'.over /\ Core(table)
    BY <1>1, NextPlays DEF Settles, HInv, IInv, TableInv, Core, Settling
  <2>2. GameOverTimeOut
    BY <1>1, <2>1, NextPlays
  <2>3. table' = Settle(HandOver(table))
    BY <2>1, <2>2 DEF GameOverTimeOut
  <2>4. Notes(table)
    BY <1>1 DEF TInv, Typed
  <2> QED BY <2>1, <2>3, <2>4, SettlePutsOut
<1> HIDE DEF Out
<1>2. Spec => [][Out]_vars
  BY <1>1, HInvHolds, TypedHolds, PTL DEF Spec
<1> QED BY <1>2 DEF Out, DroppedArePutOut

-----------------------------------------------------------------------------
(* The winner. *)

\* The announcement of a kept comparison in a decided hand leaves somebody who
\* holds cards.
LoserIsNotLast ==
    table.over /\ table.cmpT /\ table.cmp.kept => Holders(table) # {Loser(table)}

\* A hand has somebody who can win it.
Winnable(s) == IsActive(s) => Holders(s) # {}

\* A hand that is dealt or bet on can be won, and so can it when it is decided:
\* of two holders at most one drops out.
LEMMA PlayedIsWinnable ==
    ASSUME HandStep, IInv, ~ (IsActive(table) /\ table.over)
    PROVE  Winnable(table')
<1> SUFFICES ASSUME IsActive(table') PROVE CardHolders(table') # {}
  BY DEF Winnable, CardHolders
<1>1. Phase(table) # "settling" /\ Phase(table') # "idle"
  BY DEF Phase
<1>2. Phase(table) = "betting" => \E u, v \in CardHolders(table) : u # v
  BY DEF Phase, CardHolders, IInv, TableInv, TwoIn
<1>3. CASE UNCHANGED Hand!hand
  BY <1>1, <1>2, <1>3 DEF Hand!hand, Phase
<1>4. CASE Hand!Deal \/ Hand!Speak \/ Hand!DropOut
  BY <1>4 DEF Hand!Deal, Hand!Speak, Hand!DropOut, Hand!Contested
<1>5. CASE Hand!Decide
  BY <1>2, <1>5 DEF Hand!Decide, Hand!OneDrops
<1>6. CASE Hand!Announce \/ Hand!Settle
  BY <1>1, <1>6 DEF Hand!Announce, Hand!Settle
<1> QED BY <1>3, <1>4, <1>5, <1>6 DEF HandStep, Hand!Step

\* A step around a hand takes nobody's cards.
LEMMA AroundWinnable ==
    ASSUME Around, Winnable(table), IsActive(table)
    PROVE  Winnable(table')
<1>1. PICK s : /\ Rests(table, s)
               /\ table' = s \/ table' = GameOver(s) \/ DealsAt(s)
  BY DEF Around, Follows
<1>2. Core(s) /\ NoStray(s) /\ IsActive(s) /\ Holders(s) # {}
  BY <1>1 DEF Rests, TableInv, Winnable
<1>3. CASE table' = s
  BY <1>2, <1>3 DEF Winnable
<1>4. CASE table' = GameOver(s)
  BY <1>2, <1>4, GameOverStray DEF Winnable
<1>5. CASE DealsAt(s)
  BY <1>2, <1>5 DEF DealsAt
<1> QED BY <1>1, <1>3, <1>4, <1>5

\* In a decided hand no player of it can act: a message is one around the hand.
LEMMA MessageIsAround ==
    ASSUME NEW u \in User, MaxNum > 2, TInv, HInv, IInv', Message(u), table.over
    PROVE  Around
<1>1. CASE LoginComing(u) \/ LoginRedirected(u) \/ RobotComing(u)
  BY <1>1, LoginAround
<1>2. CASE RobotReplaced(u) \/ Drop(u) \/ GetTableDetail(u)
  BY <1>2, NoteAround
<1>3. CASE LeaveTable(u)
  BY <1>3, LeaveTableAround
<1>4. CASE Logout(u)
  BY <1>4, LogoutAround
<1>5. CASE StartGame(u)
  BY <1>5, StartGameAround
<1>6. ~ InHand(u)
  BY DEF InHand
<1>7. ~ LeaveHand(u) /\ ~ ThrowCard(u) /\ ~ CheckCard(u)
  BY <1>6 DEF LeaveHand, ThrowCard, CheckCard
<1>8. /\ ~ Call(u) /\ ~ Allin(u)
      /\ \A x \in RaseChoices : ~ Rase(u, x)
      /\ \A v \in User : ~ CompareCards(u, v)
  BY <1>6 DEF Call, Allin, Rase, CompareCards, Turn
<1> QED BY <1>1, <1>2, <1>3, <1>4, <1>5, <1>7, <1>8 DEF Message

\* A late announcement leaves a winner.
LEMMA NotifyWinnable ==
    ASSUME HInv, Winnable(table), LoserIsNotLast, CompareResultNotifyTimeOut
    PROVE  Winnable(table')
<1> DEFINE c == table.cmp
           s1 == [table EXCEPT !.cmpT = FALSE]
           loser == IF c.result = "win" THEN c.p2 ELSE c.p1
           s2 == IF loser = None THEN s1 ELSE Discard(s1, loser)
           s3 == [s2 EXCEPT !.cmp = NoCompare]
<1>1. /\ table.cmpT
      /\ table' = IF ~ c.kept THEN s1 ELSE GameOverIfDecided(s3)
  BY DEF CompareResultNotifyTimeOut, TableBecomes
<1>2. loser = Loser(table)
  BY DEF Loser
<1>3. Same(table, s1)
  BY DEF HInv, IInv, TableInv, Core, Shape, Fields, FreshTable, Same,
         SameButCards
<1> HIDE DEF s1, loser
<1>4. /\ Core(s1) /\ NoStray(s1) /\ Holders(s1) = Holders(table)
      /\ IsActive(s1) = IsActive(table)
  BY <1>3, InvKept, StrayKept, HoldersKept
  DEF HInv, IInv, TableInv, Same, SameButCards, IsActive
<1>5. /\ Core(s2) /\ NoStray(s2) /\ Holders(s2) = Holders(table) \ {loser}
      /\ IsActive(s2) = IsActive(table)
  <2>1. loser = None => Holders(table) = Holders(table) \ {loser}
    BY NoneAssumption DEF Holders, InTable
  <2>2. loser # None => Core(s2) /\ NoStray(s2) /\ SameButCards(s1, s2)
                        /\ Holders(s2) = Holders(table) \ {loser}
    BY <1>4, DiscardKeeps, DiscardStray
  <2> QED BY <1>4, <2>1, <2>2 DEF SameButCards, IsActive
<1> HIDE DEF s2
<1>6. Same(s2, s3)
  BY <1>5 DEF Core, Shape, Fields, FreshTable, Same, SameButCards
<1> HIDE DEF s3
<1>7. /\ Core(s3) /\ NoStray(s3) /\ Holders(s3) = Holders(table) \ {loser}
      /\ IsActive(s3) = IsActive(table)
  BY <1>5, <1>6, CoreKept, StrayKept, HoldersKept
  DEF Same, SameButCards, Core, Shape, IsActive
<1>8. CASE ~ c.kept
  BY <1>1, <1>4, <1>8 DEF Winnable
<1>9. CASE c.kept
  <2>1. Holders(table) \ {loser} # {} \/ ~ IsActive(table)
    <3>1. CASE table.over
      BY <1>1, <1>2, <1>9, <3>1 DEF LoserIsNotLast, Winnable
    <3>2. CASE ~ table.over
      BY <3>2 DEF HInv, IInv, TableInv, TwoIn
    <3> QED BY <3>1, <3>2
  <2>2. Winnable(s3)
    BY <1>7, <2>1 DEF Winnable
  <2>3. IsCanGameOver(s3) => IsActive(s3)
    BY DEF IsCanGameOver
  <2>4. IsCanGameOver(s3) => Winnable(GameOver(s3))
    BY <1>7, <2>2, <2>3, GameOverStray DEF Winnable
  <2> QED BY <1>1, <1>9, <2>2, <2>4 DEF GameOverIfDecided
<1> QED BY <1>8, <1>9

\* Every timer leaves a winner, and the settlement finds one.
LEMMA TimerWinnable ==
    ASSUME TInv, HInv, IInv', Winnable(table), LoserIsNotLast, Timer
    PROVE  Winnable(table')
<1>1. CASE HeartTimeOut \/ TableGameStartTimeOut \/ TableKickTimeOut
  <2>1. HandStep
    BY <1>1, HeartTimeOutPlays, TableGameStartTimeOutPlays,
       TableKickTimeOutPlays DEF Plays
  <2>2. Around
    BY <1>1, HeartTimeOutAround, TableGameStartTimeOutAround,
       TableKickTimeOutAround
  <2> QED BY <2>1, <2>2, PlayedIsWinnable, AroundWinnable DEF HInv
<1>2. CASE BetTimeOut
  <2>1. table.betT # None
    BY <1>2 DEF BetTimeOut
  <2>2. ~ table.over
    BY <2>1 DEF HInv, IInv, TableInv, Core, Clock
  <2> QED BY <1>2, <2>2, BetTimeOutPlays, PlayedIsWinnable DEF Plays, HInv
<1>3. CASE CompareResultNotifyTimeOut
  BY <1>3, NotifyWinnable
<1>4. CASE GameOverTimeOut
  <2>1. CASE table' = table
    BY <2>1
  <2>2. CASE table' = Settle(HandOver(table))
    <3>1. ~ IsActive(table')
      BY <1>4, <2>2, SettleInv DEF GameOverTimeOut, HInv, IInv, TableInv
    <3> QED BY <3>1 DEF Winnable
  <2> QED BY <1>4, <2>1, <2>2 DEF GameOverTimeOut
<1> QED BY <1>1, <1>2, <1>3, <1>4 DEF Timer

\* calcCoin looks for the winner among the players of the hand whose status it
\* has just changed.
LEMMA HoldersShow ==
    ASSUME NEW s, Shape(s)
    PROVE  Holders(s) \subseteq Shown(HandOver(s))
<1> DEFINE h == HandOver(s)
<1>1. /\ h.seat = s.seat /\ h.card = s.card
      /\ \A u \in InTable(s) : s.pst[u] = "ACTIVE" => h.pst[u] = "OVER"
  BY DEF HandOver, Shape, Fields, FreshTable, InTable
<1> HIDE DEF h
<1>2. \A u \in Holders(s) : u \in Shown(h)
  BY <1>1 DEF Holders, Shown, Played, InTable
<1> QED BY <1>2 DEF h

\* Whatever the clients send, every settlement finds a card holder, and calcCoin
\* its winner: each handler that takes cards sees to it that two are left or the
\* hand is decided, and a decided hand is closed to all of them.  Only
\* CompareResultNotifyTimeOut takes cards in a decided hand, and only if it takes
\* the last ones is the winner NULL.
THEOREM NoCrashHolds ==
    ASSUME MaxNum > 2
    PROVE  Spec /\ []LoserIsNotLast => []NoCrash
<1> DEFINE Inv == HInv /\ Winnable(table) /\ ~ crashed
<1>1. Init => Inv
  <2>1. Init => ~ IsActive(table) /\ ~ crashed
    BY DEF Init, FreshTable, IsActive
  <2> QED BY <2>1, InitInv, InitHand DEF HInv, Winnable
<1>2. TInv /\ Inv /\ LoserIsNotLast /\ [Next]_vars => Inv'
  <2> SUFFICES ASSUME TInv, Inv, LoserIsNotLast, [Next]_vars PROVE Inv'
    OBVIOUS
  <2>1. HInv' /\ IInv'
    BY NextPlays DEF HInv
  <2>2. CASE \E u \in User : Message(u)
    <3>1. PICK u \in User : Message(u)
      BY <2>2
    <3>2. Winnable(table')
      <4>1. CASE table.over
        <5>1. IsActive(table)
          BY <4>1 DEF HInv, IInv, TableInv, Core, Settling
        <5> QED BY <2>1, <3>1, <4>1, <5>1, MessageIsAround, AroundWinnable
      <4>2. CASE ~ table.over
        BY <3>1, <4>2, MessagePlays, PlayedIsWinnable DEF Plays, HInv
      <4> QED BY <4>1, <4>2
    <3>3. ~ crashed'
      BY <3>1 DEF Message, TableBecomes, LoginComing, LoginRedirected,
           RobotComing, RobotReplaced, LeaveHand, LeaveTable, Drop, Logout,
           GetTableDetail, StartGame, Call, Allin, ThrowCard, CheckCard, Rase,
           CompareCards
    <3> QED BY <2>1, <3>2, <3>3
  <2>3. CASE Timer
    <3>1. Winnable(table')
      BY <2>1, <2>3, TimerWinnable
    <3>2. CASE GameOverTimeOut
      <4>1. Shape(table) /\ Holders(table) # {}
        BY <3>2 DEF GameOverTimeOut, HInv, IInv, TableInv, Core, Settling,
             Winnable
      <4>2. Shown(HandOver(table)) # {}
        BY <4>1, HoldersShow
      <4>3. ~ crashed'
        BY <3>2, <4>2 DEF GameOverTimeOut
      <4> QED BY <2>1, <3>1, <4>3
    <3>3. CASE ~ GameOverTimeOut
      <4>1. ~ crashed'
        BY <2>3, <3>3 DEF Timer, TableBecomes, LeaveHand, LeaveTable, ThrowCard,
             HeartTimeOut, TableGameStartTimeOut, TableKickTimeOut, BetTimeOut,
             CompareResultNotifyTimeOut
      <4> QED BY <2>1, <3>1, <4>1
    <3> QED BY <3>2, <3>3
  <2>4. CASE UNCHANGED vars
    BY <2>1, <2>4 DEF vars
  <2> QED BY <2>2, <2>3, <2>4 DEF Next
<1>3. Inv => NoCrash
  BY DEF NoCrash
<1> HIDE DEF Inv
<1> QED BY <1>1, <1>2, <1>3, TypedHolds, PTL DEF Spec

-----------------------------------------------------------------------------
(* The best hand. *)

\* CompareCard says of any two hands which is the better one, and of two equal
\* ones that they are.
LEMMA OneIsBetter ==
    ASSUME NEW x \in Nat, NEW y \in Nat
    PROVE  /\ CompareCard(x, y) \in {"win", "draw", "lose"}
           /\ CompareCard(x, y) = "draw" <=> x = y
           /\ CompareCard(x, y) = "lose" <=> CompareCard(y, x) = "win"
BY LeopardAssumption DEF CompareCard

\* One chair of the walk of calcCoin (Best): whoever sits there and beats the
\* best hand so far, x, replaces it.
BeatenBy(h, i, x) ==
    {u \in Shown(h) : /\ h.seat[u] = i - 1
                      /\ CompareCard(h.rank[u], h.rank[x]) = "win"}
Better(h, i, x) ==
    IF BeatenBy(h, i, x) = {} THEN x ELSE CHOOSE u \in BeatenBy(h, i, x) : TRUE

IsWalk(b, h) ==
    b = [i \in 0..MaxNum |-> IF i = 0 THEN LastShown(h)
                             ELSE Better(h, i, b[i - 1])]

\* The largest hand is what such a walk ends with.
LEMMA BestIsChosen ==
    ASSUME NEW h
    PROVE  Best(h) = (CHOOSE b : IsWalk(b, h))[MaxNum]
BY DEF Best, IsWalk, Better, BeatenBy

\* There is a walk: a table has five chairs at most.
LEMMA WalkExists ==
    ASSUME NEW h
    PROVE  \E b : IsWalk(b, h)
<1> DEFINE V(i, x) == Better(h, i, x)
           x0 == LastShown(h)
           x1 == V(1, x0)
           x2 == V(2, x1)
           x3 == V(3, x2)
           x4 == V(4, x3)
           x5 == V(5, x4)
           b == [i \in 0..MaxNum |->
                   IF i = 0 THEN x0 ELSE IF i = 1 THEN x1
                   ELSE IF i = 2 THEN x2 ELSE IF i = 3 THEN x3
                   ELSE IF i = 4 THEN x4 ELSE x5]
           c == [i \in 0..MaxNum |-> IF i = 0 THEN x0 ELSE V(i, b[i - 1])]
<1>1. MaxNum \in 2..5
  BY SeatAssumption
<1> HIDE DEF V
<1>2. \A i \in 0..MaxNum : b[i] = c[i]
  <2> SUFFICES ASSUME NEW i \in 0..MaxNum PROVE b[i] = c[i]
    OBVIOUS
  <2>1. i = 0 => b[i] = c[i]
    OBVIOUS
  <2>2. i # 0 => i - 1 \in 0..MaxNum /\ i \in {1, 2, 3, 4, 5}
    BY <1>1
  <2> HIDE DEF x0
  <2>3. ASSUME i # 0 PROVE c[i] = V(i, b[i - 1])
    BY <2>3 DEF c
  <2>4. i = 1 => b[i] = x1 /\ b[i - 1] = x0
    BY <2>2
  <2>5. i = 2 => b[i] = x2 /\ b[i - 1] = x1
    BY <2>2
  <2>6. i = 3 => b[i] = x3 /\ b[i - 1] = x2
    BY <2>2
  <2>7. i = 4 => b[i] = x4 /\ b[i - 1] = x3
    BY <2>2
  <2>8. i = 5 => b[i] = x5 /\ b[i - 1] = x4
    BY <2>2
  <2> HIDE DEF b, c
  <2> QED BY <2>1, <2>2, <2>3, <2>4, <2>5, <2>6, <2>7, <2>8
<1>3. b = c
  <2> HIDE DEF x0, x1, x2, x3, x4, x5
  <2>1. DOMAIN b = DOMAIN c /\ b = [i \in DOMAIN b |-> b[i]]
        /\ c = [i \in DOMAIN c |-> c[i]]
    OBVIOUS
  <2> HIDE DEF b, c
  <2>2. DOMAIN b = 0..MaxNum
    BY DEF b
  <2> QED BY <1>2, <2>1, <2>2
<1> HIDE DEF b
<1>4. IsWalk(b, h)
  BY <1>3, Zenon DEF IsWalk, V, c, x0
<1> QED BY <1>4

\* A walk step by step
LEMMA WalkUnfolds ==
    ASSUME NEW b, NEW h, IsWalk(b, h)
    PROVE  /\ b[0] = LastShown(h)
           /\ \A i \in 1..MaxNum : b[i] = Better(h, i, b[i - 1])
<1> DEFINE V(i) == IF i = 0 THEN LastShown(h) ELSE Better(h, i, b[i - 1])
<1>1. b = [i \in 0..MaxNum |-> V(i)]
  BY Zenon DEF IsWalk
<1> HIDE DEF V
<1>2. \A i \in 0..MaxNum : b[i] = V(i)
  BY <1>1
<1>3. 0 \in 0..MaxNum /\ \A i \in 1..MaxNum : i \in 0..MaxNum /\ i # 0
  BY SeatAssumption
<1> QED BY <1>2, <1>3 DEF V

\* What is so at one chair and stays so from chair to chair is so from there on.
LEMMA WalkOn ==
    ASSUME NEW from \in 0..MaxNum, NEW Good, from \in Good,
           \A i \in 1..MaxNum : i > from /\ i - 1 \in Good => i \in Good
    PROVE  \A k \in from..MaxNum : k \in Good
<1>1. MaxNum \in 2..5 /\ from \in 0..5
  BY SeatAssumption
<1> DEFINE P(i) == from <= i /\ i <= MaxNum => i \in Good
<1>2. P(0)
  BY <1>1
<1>3. \A i \in 1..5 : P(i - 1) => P(i)
  <2> SUFFICES ASSUME NEW i \in 1..5, P(i - 1), from <= i, i <= MaxNum
               PROVE  i \in Good
    OBVIOUS
  <2>1. i \in 1..MaxNum
    BY <1>1
  <2>2. CASE i = from
    BY <2>2
  <2>3. CASE i # from
    <3>1. from <= i - 1 /\ i - 1 <= MaxNum /\ i > from
      BY <1>1, <2>1, <2>3
    <3> QED BY <2>1, <3>1
  <2> QED BY <2>2, <2>3
<1> HIDE DEF P
<1>4. P(0) /\ P(1) /\ P(2) /\ P(3) /\ P(4) /\ P(5)
  <2>1. \A i \in 1..5 : P(i - 1) => P(i)
    BY <1>3
  <2>2. P(1 - 1) => P(1)
    BY <2>1
  <2>3. P(2 - 1) => P(2)
    BY <2>1
  <2>4. P(3 - 1) => P(3)
    BY <2>1
  <2>5. P(4 - 1) => P(4)
    BY <2>1
  <2>6. P(5 - 1) => P(5)
    BY <2>1
  <2> QED BY <1>2, <2>2, <2>3, <2>4, <2>5, <2>6
<1> QED BY <1>1, <1>4 DEF P

\* The last card holder is one of those who show their cards.
LEMMA LastIsShown ==
    ASSUME NEW h, Shown(h) # {}
    PROVE  LastShown(h) \in Shown(h)
<1> DEFINE chair(v) == h.seat[v]
           S == Shown(h)
<1>1. \A v \in S : chair(v) \in 0..4
  BY SeatAssumption DEF Shown, Played, InTable, Seats
<1>2. \E v \in S : \A w \in S : chair(w) <= chair(v)
  <2> HIDE DEF chair
  <2>1. S # {}
    OBVIOUS
  <2> HIDE DEF S
  <2>2. CASE \E v \in S : chair(v) = 4
    BY <1>1, <2>2
  <2>3. CASE (\E v \in S : chair(v) = 3) /\ ~ \E v \in S : chair(v) = 4
    BY <1>1, <2>3
  <2>4. CASE (\E v \in S : chair(v) = 2) /\ ~ \E v \in S : chair(v) \in 3..4
    BY <1>1, <2>4
  <2>5. CASE (\E v \in S : chair(v) = 1) /\ ~ \E v \in S : chair(v) \in 2..4
    BY <1>1, <2>5
  <2>6. CASE ~ \E v \in S : chair(v) \in 1..4
    <3>1. \A v \in S : chair(v) = 0
      BY <1>1, <2>6
    <3> QED BY <2>1, <3>1
  <2> QED BY <2>2, <2>3, <2>4, <2>5, <2>6
<1> QED BY <1>2 DEF LastShown

\* A better hand is one that is shown.
LEMMA BetterIsShown ==
    ASSUME NEW h, NEW i, NEW x \in Shown(h)
    PROVE  Better(h, i, x) \in Shown(h)
BY DEF Better, BeatenBy

\* The walk ends with a hand that is shown, and passes nobody by whom no hand
\* beats: if there is such a hand, the walk ends with its like.
LEMMA BestIsUnbeaten ==
    ASSUME NEW h, Shown(h) # {}, h.rank \in [User -> Nat],
           \A u, v \in Shown(h) : h.seat[u] = h.seat[v] => u = v
    PROVE  /\ Best(h) \in Shown(h)
           /\ \A w \in Shown(h) :
                (\A v \in Shown(h) : CompareCard(h.rank[v], h.rank[w]) # "win")
                => h.rank[Best(h)] = h.rank[w]
<1> DEFINE b == CHOOSE g : IsWalk(g, h)
<1>1. IsWalk(b, h)
  BY WalkExists
<1>2. Best(h) = b[MaxNum]
  BY BestIsChosen
<1> HIDE DEF b
<1>3. /\ b[0] = LastShown(h)
      /\ \A i \in 1..MaxNum : b[i] = Better(h, i, b[i - 1])
  BY <1>1, WalkUnfolds
<1>4. \A i \in 0..MaxNum : b[i] \in Shown(h)
  <2> DEFINE Good == {i \in 0..MaxNum : b[i] \in Shown(h)}
  <2>1. 0 \in 0..MaxNum /\ 0 \in Good
    BY <1>3, LastIsShown, SeatAssumption
  <2>2. \A i \in 1..MaxNum : i > 0 /\ i - 1 \in Good => i \in Good
    BY <1>3, BetterIsShown, SeatAssumption
  <2> HIDE DEF Good
  <2>3. \A k \in 0..MaxNum : k \in Good
    BY <2>1, <2>2, WalkOn
  <2> QED BY <2>3 DEF Good
<1>5. ASSUME NEW w \in Shown(h),
             \A v \in Shown(h) : CompareCard(h.rank[v], h.rank[w]) # "win"
      PROVE  h.rank[b[MaxNum]] = h.rank[w]
  <2> DEFINE Good == {i \in 0..MaxNum : h.rank[b[i]] = h.rank[w]}
             j == h.seat[w] + 1
  <2>1. Shown(h) \subseteq User /\ \A u \in Shown(h) : h.rank[u] \in Nat
    BY DEF Shown, Played, InTable
  <2>2. j \in 1..MaxNum /\ j - 1 \in 0..MaxNum /\ j - 1 = h.seat[w]
    BY SeatAssumption DEF Shown, Played, InTable, Seats
  <2> HIDE DEF j
  <2>3. j \in Good
    <3> DEFINE x == b[j - 1]
    <3>1. x \in Shown(h) /\ b[j] = Better(h, j, x)
      BY <1>3, <1>4, <2>2
    <3> HIDE DEF x
    <3>2. BeatenBy(h, j, x) \subseteq {w}
      BY <2>2 DEF BeatenBy
    <3>3. CASE w \in BeatenBy(h, j, x)
      <4>1. b[j] = w
        BY <3>1, <3>2, <3>3 DEF Better
      <4> QED BY <2>2, <4>1
    <3>4. CASE w \notin BeatenBy(h, j, x)
      <4>1. BeatenBy(h, j, x) = {} /\ b[j] = x
        BY <3>1, <3>2, <3>4 DEF Better
      <4>2. CompareCard(h.rank[w], h.rank[x]) # "win"
        BY <2>2, <3>4 DEF BeatenBy
      <4>3. CompareCard(h.rank[x], h.rank[w]) # "win"
        BY <1>5, <3>1
      <4>4. h.rank[x] = h.rank[w]
        BY <2>1, <3>1, <4>2, <4>3, OneIsBetter
      <4> QED BY <2>2, <4>1, <4>4
    <3> QED BY <3>3, <3>4
  <2>4. \A i \in 1..MaxNum : i > j /\ i - 1 \in Good => i \in Good
    <3> SUFFICES ASSUME NEW i \in 1..MaxNum, i - 1 \in Good PROVE i \in Good
      OBVIOUS
    <3> DEFINE x == b[i - 1]
    <3>1. h.rank[x] = h.rank[w] /\ b[i] = Better(h, i, x)
      BY <1>3
    <3> HIDE DEF x
    <3>2. BeatenBy(h, i, x) = {}
      BY <1>5, <3>1 DEF BeatenBy
    <3>3. b[i] = x /\ i \in 0..MaxNum
      BY <3>1, <3>2, SeatAssumption DEF Better
    <3> QED BY <3>1, <3>3
  <2>5. j \in 0..MaxNum /\ MaxNum \in j..MaxNum
    BY <2>2, SeatAssumption
  <2> HIDE DEF Good
  <2>6. MaxNum \in Good
    BY <2>3, <2>4, <2>5, WalkOn
  <2> QED BY <2>6 DEF Good
<1>6. MaxNum \in 0..MaxNum
  BY SeatAssumption
<1> QED BY <1>2, <1>4, <1>5, <1>6
=============================================================================
