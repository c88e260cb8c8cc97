------------------------------ MODULE GoldenCards ------------------------------
(***************************************************************************)
(* What three cards are worth: GameLogic of the golden game server,        *)
(* golden/GameServer/fight/src/model/GameLogic.cpp.  A hand is a function  *)
(* of the places 1..3 of the array the code sorts and compares.            *)
(***************************************************************************)
EXTENDS Integers

\* m_cbCardListData: the value of an ace is 1, that of a king 13; the color is
\* the high half of the byte.
Card == [value : 1..13, color : 0..3]
Hand == [1..3 -> Card]

CT_SINGLE == 1
CT_DOUBLE == 2
CT_SHUN_ZI == 3
CT_JIN_HUA == 4
CT_SHUN_JIN == 5
CT_BAO_ZI == 6
CT_SPECIAL == 7
Types == 1..7

GetCardLogicValue(c) == IF c.value = 1 THEN 14 ELSE c.value

\* SortCardList puts c before d: the larger value, then the larger byte.
Precedes(c, d) ==
    \/ GetCardLogicValue(c) > GetCardLogicValue(d)
    \/ GetCardLogicValue(c) = GetCardLogicValue(d) /\ c.color >= d.color

\* One comparison of the passes of SortCardList
Ordered(h, i) ==
    IF Precedes(h[i], h[i + 1]) THEN h
    ELSE [h EXCEPT ![i] = h[i + 1], ![i + 1] = h[i]]

\* Two passes, the second one card shorter, sort three cards.
SortCardList(h) == Ordered(Ordered(Ordered(h, 1), 2), 1)

SameColor(h) == \A i \in 1..3 : h[i].color = h[1].color

Holds(h, v) == \E i \in 1..3 : h[i].value = v

\* Consecutive cards, or A23
LineCard(h) ==
    \/ \A i \in 1..3 :
         GetCardLogicValue(h[1]) = GetCardLogicValue(h[i]) + (i - 1)
    \/ Holds(h, 1) /\ Holds(h, 2) /\ Holds(h, 3)

Double(h) == \E i, j \in 1..3 : i # j /\ h[i].value = h[j].value

Panther(h) == \A i \in 1..3 : h[i].value = h[1].value

\* The type of a sorted hand.
GetCardType(h) ==
    IF LineCard(h) THEN IF SameColor(h) THEN CT_SHUN_JIN ELSE CT_SHUN_ZI
    ELSE IF SameColor(h) THEN CT_JIN_HUA
    ELSE IF Double(h) THEN IF Panther(h) THEN CT_BAO_ZI ELSE CT_DOUBLE
    ELSE IF Holds(h, 2) /\ Holds(h, 3) /\ Holds(h, 5) THEN CT_SPECIAL
    ELSE CT_SINGLE

Verdict(x, y) ==
    IF x > y THEN "win" ELSE IF x = y THEN "draw" ELSE "lose"

\* The largest of the values that differ decides.
CompareValues(f, n) ==
    LET F(i) == GetCardLogicValue(f[i])
        N(i) == GetCardLogicValue(n[i])
    IN IF F(1) # N(1) THEN Verdict(F(1), N(1))
       ELSE IF F(2) # N(2) THEN Verdict(F(2), N(2))
       ELSE Verdict(F(3), N(3))

\* What a line counts: its largest card, and A32 as the smallest line.
LineValue(h) ==
    IF GetCardLogicValue(h[1]) = 14 /\ GetCardLogicValue(h[3]) = 2 THEN 3
    ELSE GetCardLogicValue(h[1])

PairFirst(h) == GetCardLogicValue(h[1]) = GetCardLogicValue(h[2])
PairValue(h) == GetCardLogicValue(IF PairFirst(h) THEN h[1] ELSE h[3])
SingleValue(h) == GetCardLogicValue(IF PairFirst(h) THEN h[3] ELSE h[1])

\* The type that counts once 235 has not met a leopard
PlainType(t) == IF t = CT_SPECIAL THEN CT_SINGLE ELSE t

\* GameLogic::CompareCard: what hand f does against hand n.
CompareHands(f, n) ==
    LET a == SortCardList(f)
        b == SortCardList(n)
        ta == GetCardType(a)
        tb == GetCardType(b)
        t == PlainType(ta)
    IN IF ta + tb = CT_SPECIAL + CT_BAO_ZI
       THEN IF ta > tb THEN "win" ELSE "lose"
       ELSE IF t # PlainType(tb) THEN Verdict(t, PlainType(tb))
       ELSE IF t \in {CT_SHUN_ZI, CT_SHUN_JIN}
       THEN Verdict(LineValue(a), LineValue(b))
       ELSE IF t = CT_DOUBLE
       THEN IF PairValue(a) # PairValue(b)
            THEN Verdict(PairValue(a), PairValue(b))
            ELSE Verdict(SingleValue(a), SingleValue(b))
       ELSE CompareValues(a, b)

-----------------------------------------------------------------------------
(* The strengths GoldenTableOps deals. *)

\* The part of the strength that the cards of a type decide
Detail(h) ==
    LET t == GetCardType(h)
    IN IF t \in {CT_SHUN_ZI, CT_SHUN_JIN} THEN LineValue(h)
       ELSE IF t = CT_DOUBLE THEN 16 * PairValue(h) + SingleValue(h)
       ELSE 256 * GetCardLogicValue(h[1]) + 16 * GetCardLogicValue(h[2])
              + GetCardLogicValue(h[3])

\* A number for every hand: type first, then the cards; 235 is 0.
Strength(f) ==
    LET h == SortCardList(f)
        t == GetCardType(h)
    IN IF t = CT_SPECIAL THEN 0 ELSE 4096 * t + Detail(h)

LeastLeopard == 4096 * CT_BAO_ZI

Strengths == INSTANCE GoldenStrength WITH Leopard <- LeastLeopard

\* Two hands compare as their strengths do.
ComparesByStrength(f, n) ==
    CompareHands(f, n) = Strengths!CompareCard(Strength(f), Strength(n))
=============================================================================
