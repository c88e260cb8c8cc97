-------------------------- MODULE GoldenCards_proofs --------------------------
(***************************************************************************)
(* Hands compare as their strengths do: what GoldenTableOps deals and      *)
(* compares stands for every hand of three cards.                          *)
(***************************************************************************)
EXTENDS GoldenCards, TLAPS

\* The logical value of the card at a place
V(h, i) == GetCardLogicValue(h[i])

\* What SortCardList leaves: the largest value first.
Sorted(h) ==
    /\ h \in Hand
    /\ V(h, 1) >= V(h, 2)
    /\ V(h, 2) >= V(h, 3)

\* Logical values run from 2 to the ace, and no two values share one.
LEMMA LogicValues ==
    ASSUME NEW h \in Hand, NEW i \in 1..3
    PROVE  /\ V(h, i) \in 2..14
           /\ h[i].value \in 1..13
           /\ \A v \in 2..13 : V(h, i) = v <=> h[i].value = v
           /\ V(h, i) = 14 <=> h[i].value = 1
<1>1. h[i] \in Card
  BY DEF Hand
<1>2. h[i].value \in 1..13
  BY <1>1 DEF Card
<1> QED
  BY <1>2 DEF V, GetCardLogicValue

\* One comparison puts the larger of two neighbours first.
LEMMA OrderedSwaps ==
    ASSUME NEW h \in Hand, NEW i \in 1..2
    PROVE  /\ Ordered(h, i) \in Hand
           /\ V(Ordered(h, i), i) >= V(Ordered(h, i), i + 1)
           /\ \/ /\ V(Ordered(h, i), i) = V(h, i)
                 /\ V(Ordered(h, i), i + 1) = V(h, i + 1)
              \/ /\ V(Ordered(h, i), i) = V(h, i + 1)
                 /\ V(Ordered(h, i), i + 1) = V(h, i)
           /\ \A j \in (1..3) \ {i, i + 1} : V(Ordered(h, i), j) = V(h, j)
<1>0. i \in 1..3 /\ i + 1 \in 1..3 /\ i # i + 1
  OBVIOUS
<1>1. h[i] \in Card /\ h[i + 1] \in Card
  BY <1>0 DEF Hand
<1>2. V(h, i) \in 2..14 /\ V(h, i + 1) \in 2..14
  BY <1>0, LogicValues
<1>3. CASE Precedes(h[i], h[i + 1])
  BY <1>2, <1>3 DEF Ordered, Precedes, V
<1>4. CASE ~ Precedes(h[i], h[i + 1])
  <2>1. Ordered(h, i) = [h EXCEPT ![i] = h[i + 1], ![i + 1] = h[i]]
    BY <1>4 DEF Ordered
  <2>2. /\ Ordered(h, i) \in Hand
        /\ Ordered(h, i)[i] = h[i + 1]
        /\ Ordered(h, i)[i + 1] = h[i]
        /\ \A j \in (1..3) \ {i, i + 1} : Ordered(h, i)[j] = h[j]
    BY <2>1, <1>0, <1>1 DEF Hand
  <2>3. V(h, i + 1) >= V(h, i)
    BY <1>2, <1>4 DEF Precedes, V
  <2> QED
    BY <2>2, <2>3 DEF V
<1> QED
  BY <1>3, <1>4

\* SortCardList sorts any three cards by value.
LEMMA SortCardListSorts ==
    ASSUME NEW h \in Hand
    PROVE  Sorted(SortCardList(h))
<1> DEFINE p == Ordered(h, 1)
           q == Ordered(p, 2)
           r == Ordered(q, 1)
<1>1. p \in Hand /\ V(p, 1) >= V(p, 2)
  BY OrderedSwaps
<1>2. /\ q \in Hand
      /\ V(q, 2) >= V(q, 3)
      /\ V(q, 1) = V(p, 1)
      /\ \/ V(q, 2) = V(p, 2) /\ V(q, 3) = V(p, 3)
         \/ V(q, 2) = V(p, 3) /\ V(q, 3) = V(p, 2)
  <2> HIDE DEF p
  <2>1. 2 \in 1..2 /\ 1 \in (1..3) \ {2, 2 + 1} /\ 2 + 1 = 3
    OBVIOUS
  <2> QED
    BY <1>1, <2>1, OrderedSwaps
<1>3. /\ r \in Hand
      /\ V(r, 1) >= V(r, 2)
      /\ V(r, 3) = V(q, 3)
      /\ \/ V(r, 1) = V(q, 1) /\ V(r, 2) = V(q, 2)
         \/ V(r, 1) = V(q, 2) /\ V(r, 2) = V(q, 1)
  <2> HIDE DEF q
  <2>1. 1 \in 1..2 /\ 3 \in (1..3) \ {1, 1 + 1} /\ 1 + 1 = 2
    OBVIOUS
  <2> QED
    BY <1>2, <2>1, OrderedSwaps
<1>4. \A i \in 1..3 : V(p, i) \in 2..14 /\ V(q, i) \in 2..14
  BY <1>1, <1>2, LogicValues
<1>5. SortCardList(h) = r
  BY DEF SortCardList
<1> HIDE DEF p, q, r
<1> QED
  BY <1>1, <1>2, <1>3, <1>4, <1>5 DEF Sorted

\* Equal values are equal logical values.
LEMMA SameValue ==
    ASSUME NEW h \in Hand, NEW i \in 1..3, NEW j \in 1..3
    PROVE  h[i].value = h[j].value <=> V(h, i) = V(h, j)
<1>1. h[i].value \in 1..13 /\ h[j].value \in 1..13
  BY LogicValues
<1> QED
  BY <1>1 DEF V, GetCardLogicValue

\* GetCardType returns one of the card types.
LEMMA TypeRange ==
    ASSUME NEW h
    PROVE  GetCardType(h) \in Types
BY DEF GetCardType, Types, CT_SINGLE, CT_DOUBLE, CT_SHUN_ZI, CT_JIN_HUA,
       CT_SHUN_JIN, CT_BAO_ZI, CT_SPECIAL

\* A special hand is 5, 3, 2.
LEMMA SpecialValues ==
    ASSUME NEW h, Sorted(h), GetCardType(h) = CT_SPECIAL
    PROVE  V(h, 1) = 5 /\ V(h, 2) = 3 /\ V(h, 3) = 2
<1>1. Holds(h, 2) /\ Holds(h, 3) /\ Holds(h, 5)
  BY DEF GetCardType, CT_SINGLE, CT_DOUBLE, CT_SHUN_ZI, CT_JIN_HUA,
         CT_SHUN_JIN, CT_BAO_ZI, CT_SPECIAL
<1>2. \A v \in {2, 3, 5} : \E i \in 1..3 : V(h, i) = v
  BY <1>1, LogicValues DEF Holds, Sorted
<1>3. \A i \in 1..3 : i = 1 \/ i = 2 \/ i = 3
  OBVIOUS
<1>4. V(h, 1) \in 2..14 /\ V(h, 2) \in 2..14 /\ V(h, 3) \in 2..14
  BY LogicValues DEF Sorted
<1>5. /\ V(h, 1) = 2 \/ V(h, 2) = 2 \/ V(h, 3) = 2
      /\ V(h, 1) = 3 \/ V(h, 2) = 3 \/ V(h, 3) = 3
      /\ V(h, 1) = 5 \/ V(h, 2) = 5 \/ V(h, 3) = 5
  BY <1>2, <1>3
<1> QED
  BY <1>4, <1>5 DEF Sorted

\* Every other hand without a pair, a line or one color is above 5, 3, 2.
LEMMA SingleValues ==
    ASSUME NEW h, Sorted(h), GetCardType(h) = CT_SINGLE
    PROVE  V(h, 1) > 5 \/ (V(h, 1) = 5 /\ V(h, 2) > 3)
<1>1. /\ ~ LineCard(h)
      /\ ~ Double(h)
      /\ ~ (Holds(h, 2) /\ Holds(h, 3) /\ Holds(h, 5))
  BY DEF GetCardType, CT_SINGLE, CT_DOUBLE, CT_SHUN_ZI, CT_JIN_HUA,
         CT_SHUN_JIN, CT_BAO_ZI, CT_SPECIAL
<1>2. h \in Hand /\ 1 \in 1..3 /\ 2 \in 1..3 /\ 3 \in 1..3
  BY DEF Sorted
<1>3. V(h, 1) \in 2..14 /\ V(h, 2) \in 2..14 /\ V(h, 3) \in 2..14
  BY <1>2, LogicValues
<1>4. V(h, 1) # V(h, 2) /\ V(h, 2) # V(h, 3)
  BY <1>1, <1>2, SameValue DEF Double
<1>5. ~ (V(h, 1) = V(h, 2) + 1 /\ V(h, 1) = V(h, 3) + 2)
  <2>1. \A i \in 1..3 : i = 1 \/ i = 2 \/ i = 3
    OBVIOUS
  <2> QED
    BY <1>1, <1>3, <2>1 DEF LineCard, V
<1>6. ~ (V(h, 1) = 5 /\ V(h, 2) = 3 /\ V(h, 3) = 2)
  BY <1>1, <1>2, LogicValues DEF Holds
<1> QED
  BY <1>3, <1>4, <1>5, <1>6 DEF Sorted

\* What the cards of a type add stays below the next type.
LEMMA DetailRange ==
    ASSUME NEW h, Sorted(h)
    PROVE  Detail(h) \in 1..4095
<1>1. h \in Hand /\ 1 \in 1..3 /\ 2 \in 1..3 /\ 3 \in 1..3
  BY DEF Sorted
<1>2. V(h, 1) \in 2..14 /\ V(h, 2) \in 2..14 /\ V(h, 3) \in 2..14
  BY <1>1, LogicValues
<1>3. /\ LineValue(h) \in 2..14
      /\ PairValue(h) \in 2..14
      /\ SingleValue(h) \in 2..14
  BY <1>2 DEF LineValue, PairValue, SingleValue, PairFirst, V
<1>4. 256 * V(h, 1) + 16 * V(h, 2) + V(h, 3) \in 1..4095
  BY <1>2, SMTT(30)
<1>5. 16 * PairValue(h) + SingleValue(h) \in 1..4095
  BY <1>3
<1>6. LineValue(h) \in 1..4095
  BY <1>3
<1>7. Detail(h) \in {LineValue(h), 16 * PairValue(h) + SingleValue(h),
                     256 * V(h, 1) + 16 * V(h, 2) + V(h, 3)}
  BY Zenon DEF Detail, V
<1> QED
  BY <1>4, <1>5, <1>6, <1>7, SMTT(30)

\* Two hands of one type compare as their details do.
LEMMA DetailDecides ==
    ASSUME NEW a, NEW b, Sorted(a), Sorted(b),
           GetCardType(a) = GetCardType(b)
    PROVE  LET t == GetCardType(a)
           IN Verdict(Detail(a), Detail(b)) =
                IF t \in {CT_SHUN_ZI, CT_SHUN_JIN}
                THEN Verdict(LineValue(a), LineValue(b))
                ELSE IF t = CT_DOUBLE
                THEN IF PairValue(a) # PairValue(b)
                     THEN Verdict(PairValue(a), PairValue(b))
                     ELSE Verdict(SingleValue(a), SingleValue(b))
                ELSE CompareValues(a, b)
<1> DEFINE t == GetCardType(a)
<1>1. /\ V(a, 1) \in 2..14 /\ V(a, 2) \in 2..14 /\ V(a, 3) \in 2..14
      /\ V(b, 1) \in 2..14 /\ V(b, 2) \in 2..14 /\ V(b, 3) \in 2..14
  <2>1. a \in Hand /\ b \in Hand /\ 1 \in 1..3 /\ 2 \in 1..3 /\ 3 \in 1..3
    BY DEF Sorted
  <2> QED
    BY <2>1, LogicValues
<1>2. CASE t \in {CT_SHUN_ZI, CT_SHUN_JIN}
  BY <1>2 DEF Detail
<1>3. CASE t = CT_DOUBLE
  <2>1. /\ PairValue(a) \in 2..14 /\ SingleValue(a) \in 2..14
        /\ PairValue(b) \in 2..14 /\ SingleValue(b) \in 2..14
    BY <1>1 DEF PairValue, SingleValue, PairFirst, V
  <2>2. /\ Detail(a) = 16 * PairValue(a) + SingleValue(a)
        /\ Detail(b) = 16 * PairValue(b) + SingleValue(b)
    BY <1>3 DEF Detail, CT_DOUBLE, CT_SHUN_ZI, CT_SHUN_JIN
  <2>3. CT_DOUBLE \notin {CT_SHUN_ZI, CT_SHUN_JIN}
    BY DEF CT_DOUBLE, CT_SHUN_ZI, CT_SHUN_JIN
  <2> QED
    BY <1>3, <2>1, <2>2, <2>3 DEF Verdict
<1>4. CASE t \notin {CT_SHUN_ZI, CT_SHUN_JIN, CT_DOUBLE}
  <2>1. /\ Detail(a) = 256 * V(a, 1) + 16 * V(a, 2) + V(a, 3)
        /\ Detail(b) = 256 * V(b, 1) + 16 * V(b, 2) + V(b, 3)
    BY <1>4 DEF Detail, V
  <2>2. CompareValues(a, b) =
          IF V(a, 1) # V(b, 1) THEN Verdict(V(a, 1), V(b, 1))
          ELSE IF V(a, 2) # V(b, 2) THEN Verdict(V(a, 2), V(b, 2))
          ELSE Verdict(V(a, 3), V(b, 3))
    BY DEF CompareValues, V
  <2>3. Verdict(Detail(a), Detail(b)) = CompareValues(a, b)
    <3> DEFINE A == Detail(a)   B == Detail(b)
               a1 == V(a, 1)    b1 == V(b, 1)
               a2 == V(a, 2)    b2 == V(b, 2)
               a3 == V(a, 3)    b3 == V(b, 3)
               c == CompareValues(a, b)
    <3>1. /\ A = 256 * a1 + 16 * a2 + a3
          /\ B = 256 * b1 + 16 * b2 + b3
          /\ a1 \in 2..14 /\ a2 \in 2..14 /\ a3 \in 2..14
          /\ b1 \in 2..14 /\ b2 \in 2..14 /\ b3 \in 2..14
          /\ c = IF a1 # b1 THEN Verdict(a1, b1)
                 ELSE IF a2 # b2 THEN Verdict(a2, b2)
                 ELSE Verdict(a3, b3)
      BY <1>1, <2>1, <2>2
    <3> HIDE DEF A, B, a1, a2, a3, b1, b2, b3, c
    <3>2. /\ A \in Int /\ B \in Int
          /\ a1 > b1 => A > B
          /\ b1 > a1 => B > A
      BY <3>1
    <3>3. a1 = b1 => /\ a2 > b2 => A > B
                     /\ b2 > a2 => B > A
      BY <3>1
    <3>4. a1 = b1 /\ a2 = b2 => /\ a3 > b3 => A > B
                                /\ b3 > a3 => B > A
                                /\ a3 = b3 => A = B
      BY <3>1
    <3>5. Verdict(A, B) = c
      BY <3>1, <3>2, <3>3, <3>4 DEF Verdict
    <3> QED
      BY <3>5 DEF A, B, c
  <2> QED
    BY <1>4, <2>3
<1> QED
  BY <1>2, <1>3, <1>4

\* Two hands compare as their strengths do: dealing strengths to the players of
\* GoldenTable leaves out nothing that GameLogic::CompareCard tells apart.
THEOREM HandsCompareByStrength ==
    \A f, n \in Hand : ComparesByStrength(f, n)
<1> SUFFICES ASSUME NEW f \in Hand, NEW n \in Hand
             PROVE  ComparesByStrength(f, n)
  OBVIOUS
<1> DEFINE a == SortCardList(f)
           b == SortCardList(n)
           ta == GetCardType(a)
           tb == GetCardType(b)
           sf == Strength(f)
           sn == Strength(n)
           da == Detail(a)
           db == Detail(b)
           same == IF PlainType(ta) \in {CT_SHUN_ZI, CT_SHUN_JIN}
                   THEN Verdict(LineValue(a), LineValue(b))
                   ELSE IF PlainType(ta) = CT_DOUBLE
                   THEN IF PairValue(a) # PairValue(b)
                        THEN Verdict(PairValue(a), PairValue(b))
                        ELSE Verdict(SingleValue(a), SingleValue(b))
                   ELSE CompareValues(a, b)
           byCards == IF ta + tb = CT_SPECIAL + CT_BAO_ZI
                      THEN IF ta > tb THEN "win" ELSE "lose"
                      ELSE IF PlainType(ta) # PlainType(tb)
                      THEN Verdict(PlainType(ta), PlainType(tb))
                      ELSE same
           byStrength == IF sf = 0 /\ sn >= LeastLeopard THEN "win"
                         ELSE IF sf >= LeastLeopard /\ sn = 0 THEN "lose"
                         ELSE Verdict(sf, sn)
<1>1. CompareHands(f, n) = byCards
  BY DEF CompareHands
<1>2. Strengths!CompareCard(sf, sn) = byStrength
  BY DEF Strengths!CompareCard, Verdict
<1>3. Sorted(a) /\ Sorted(b)
  BY SortCardListSorts
<1>4. ta \in 1..7 /\ tb \in 1..7
  BY TypeRange DEF Types
<1>5. da \in 1..4095 /\ db \in 1..4095
  BY <1>3, DetailRange
<1>6. /\ sf = IF ta = 7 THEN 0 ELSE 4096 * ta + da
      /\ sn = IF tb = 7 THEN 0 ELSE 4096 * tb + db
  BY SMTT(30) DEF Strength, CT_SPECIAL
<1>7. ta = tb => Verdict(da, db) =
                   IF ta \in {CT_SHUN_ZI, CT_SHUN_JIN}
                   THEN Verdict(LineValue(a), LineValue(b))
                   ELSE IF ta = CT_DOUBLE
                   THEN IF PairValue(a) # PairValue(b)
                        THEN Verdict(PairValue(a), PairValue(b))
                        ELSE Verdict(SingleValue(a), SingleValue(b))
                   ELSE CompareValues(a, b)
  BY <1>3, DetailDecides
<1>8. ta = 7 => V(a, 1) = 5 /\ V(a, 2) = 3 /\ V(a, 3) = 2
  BY <1>3, SpecialValues DEF CT_SPECIAL
<1>9. tb = 7 => V(b, 1) = 5 /\ V(b, 2) = 3 /\ V(b, 3) = 2
  BY <1>3, SpecialValues DEF CT_SPECIAL
<1>10. ta = 1 => V(a, 1) > 5 \/ (V(a, 1) = 5 /\ V(a, 2) > 3)
  BY <1>3, SingleValues DEF CT_SINGLE
<1>11. tb = 1 => V(b, 1) > 5 \/ (V(b, 1) = 5 /\ V(b, 2) > 3)
  BY <1>3, SingleValues DEF CT_SINGLE
<1>12. CompareValues(a, b) =
         IF V(a, 1) # V(b, 1) THEN Verdict(V(a, 1), V(b, 1))
         ELSE IF V(a, 2) # V(b, 2) THEN Verdict(V(a, 2), V(b, 2))
         ELSE Verdict(V(a, 3), V(b, 3))
  BY DEF CompareValues, V
<1>13. /\ V(a, 1) \in 2..14 /\ V(a, 2) \in 2..14 /\ V(a, 3) \in 2..14
       /\ V(b, 1) \in 2..14 /\ V(b, 2) \in 2..14 /\ V(b, 3) \in 2..14
  <2>1. a \in Hand /\ b \in Hand /\ 1 \in 1..3 /\ 2 \in 1..3 /\ 3 \in 1..3
    BY <1>3 DEF Sorted
  <2> QED
    BY <2>1, LogicValues
<1> SUFFICES byCards = byStrength
  BY <1>1, <1>2 DEF ComparesByStrength
<1> HIDE DEF a, b, ta, tb, sf, sn, da, db
<1>14. LeastLeopard = 24576
  BY DEF LeastLeopard, CT_BAO_ZI
<1>15. /\ ta = 7 => sf = 0
       /\ ta \in 1..6 => sf \in Int /\ sf > 4096
       /\ ta \in 1..5 => sf < 24576
       /\ ta = 6 => sf >= 24576
  <2>1. ta = 7 => sf = 0
    BY <1>6
  <2>2. ta \in 1..6 => sf = 4096 * ta + da
    BY <1>6
  <2>3. ASSUME ta \in 1..6
        PROVE  sf \in Int /\ sf > 4096
    <3> DEFINE p == 4096 * ta
    <3>1. p \in Int /\ p >= 4096
      BY <2>3
    <3>2. sf = p + da
      BY <2>2, <2>3
    <3> HIDE DEF p
    <3> QED
      BY <1>5, <3>1, <3>2
  <2>4. ASSUME ta \in 1..5
        PROVE  sf < 24576
    <3> DEFINE p == 4096 * ta
    <3>1. p \in Int /\ p <= 20480
      BY <2>4
    <3>2. sf = p + da
      <4>1. ta \in 1..6
        BY <2>4
      <4> QED
        BY <2>2, <4>1
    <3> HIDE DEF p
    <3> QED
      BY <1>5, <3>1, <3>2
  <2>5. ta = 6 => sf >= 24576
    BY <1>5, <2>2
  <2> QED
    BY <2>1, <2>3, <2>4, <2>5
<1>16. /\ tb = 7 => sn = 0
       /\ tb \in 1..6 => sn \in Int /\ sn > 4096
       /\ tb \in 1..5 => sn < 24576
       /\ tb = 6 => sn >= 24576
  <2>1. tb = 7 => sn = 0
    BY <1>6
  <2>2. tb \in 1..6 => sn = 4096 * tb + db
    BY <1>6
  <2>3. ASSUME tb \in 1..6
        PROVE  sn \in Int /\ sn > 4096
    <3> DEFINE p == 4096 * tb
    <3>1. p \in Int /\ p >= 4096
      BY <2>3
    <3>2. sn = p + db
      BY <2>2, <2>3
    <3> HIDE DEF p
    <3> QED
      BY <1>5, <3>1, <3>2
  <2>4. ASSUME tb \in 1..5
        PROVE  sn < 24576
    <3> DEFINE p == 4096 * tb
    <3>1. p \in Int /\ p <= 20480
      BY <2>4
    <3>2. sn = p + db
      <4>1. tb \in 1..6
        BY <2>4
      <4> QED
        BY <2>2, <4>1
    <3> HIDE DEF p
    <3> QED
      BY <1>5, <3>1, <3>2
  <2>5. tb = 6 => sn >= 24576
    BY <1>5, <2>2
  <2> QED
    BY <2>1, <2>3, <2>4, <2>5
<1>17. ta \in 1..6 /\ tb \in 1..6 => byStrength = Verdict(sf, sn)
  <2>1. ta \in 1..6 => sf # 0
    BY <1>15
  <2>2. tb \in 1..6 => sn # 0
    BY <1>16
  <2> QED
    BY <2>1, <2>2
<1>18. CASE ta + tb = 13
  <2>1. CASE ta = 7 /\ tb = 6
    <3>1. sf = 0 /\ sn >= LeastLeopard
      BY <1>14, <1>15, <1>16, <2>1
    <3>2. byCards = "win"
      BY <2>1 DEF CT_SPECIAL, CT_BAO_ZI
    <3> QED
      BY <3>1, <3>2
  <2>2. CASE ta = 6 /\ tb = 7
    <3>1. sn = 0 /\ sf >= LeastLeopard /\ sf # 0
      BY <1>14, <1>15, <1>16, <2>2
    <3>2. byCards = "lose"
      BY <2>2 DEF CT_SPECIAL, CT_BAO_ZI
    <3> QED
      BY <3>1, <3>2
  <2> QED
    BY <1>4, <1>18, <2>1, <2>2
<1>19. CASE ta = 7 /\ tb = 7
  <2>1. byCards = CompareValues(a, b)
    BY <1>19 DEF PlainType, CT_SINGLE, CT_DOUBLE, CT_SHUN_ZI, CT_SHUN_JIN,
                 CT_BAO_ZI, CT_SPECIAL
  <2>2. CompareValues(a, b) = "draw"
    BY <1>8, <1>9, <1>12, <1>19 DEF Verdict
  <2>3. byStrength = "draw"
    BY <1>6, <1>14, <1>19 DEF Verdict
  <2> QED
    BY <2>1, <2>2, <2>3
<1>20. CASE ta = 7 /\ tb \in 1..5
  <2>1. byStrength = "lose"
    <3>1. sf = 0 /\ sn \in Int /\ sn > 0 /\ ~ (sn >= LeastLeopard)
      BY <1>14, <1>20, <1>15, <1>16
    <3> QED
      BY <3>1 DEF Verdict
  <2>2. CASE tb = 1
    <3>1. byCards = CompareValues(a, b)
      BY <1>20, <2>2 DEF PlainType, CT_SINGLE, CT_DOUBLE, CT_SHUN_ZI,
                         CT_SHUN_JIN, CT_BAO_ZI, CT_SPECIAL
    <3>2. CompareValues(a, b) = "lose"
      BY <1>8, <1>11, <1>12, <1>13, <1>20, <2>2 DEF Verdict
    <3> QED
      BY <2>1, <3>1, <3>2
  <2>3. CASE tb \in 2..5
    BY <1>20, <2>1, <2>3 DEF PlainType, Verdict, CT_SINGLE, CT_BAO_ZI,
                             CT_SPECIAL
  <2> QED
    BY <1>20, <2>2, <2>3
<1>21. CASE tb = 7 /\ ta \in 1..5
  <2>1. byStrength = "win"
    <3>1. sn = 0 /\ sf \in Int /\ sf > 0 /\ ~ (sf >= LeastLeopard)
      BY <1>14, <1>21, <1>15, <1>16
    <3> QED
      BY <3>1 DEF Verdict
  <2>2. CASE ta = 1
    <3>1. byCards = CompareValues(a, b)
      BY <1>21, <2>2 DEF PlainType, CT_SINGLE, CT_DOUBLE, CT_SHUN_ZI,
                         CT_SHUN_JIN, CT_BAO_ZI, CT_SPECIAL
    <3>2. CompareValues(a, b) = "win"
      BY <1>9, <1>10, <1>12, <1>13, <1>21, <2>2 DEF Verdict
    <3> QED
      BY <2>1, <3>1, <3>2
  <2>3. CASE ta \in 2..5
    BY <1>21, <2>1, <2>3 DEF PlainType, Verdict, CT_SINGLE, CT_BAO_ZI,
                             CT_SPECIAL
  <2> QED
    BY <1>21, <2>2, <2>3
<1>22. CASE ta \in 1..6 /\ tb \in 1..6 /\ ta + tb # 13 /\ ta # tb
  <2>1. byCards = Verdict(ta, tb)
    BY <1>22 DEF PlainType, CT_BAO_ZI, CT_SPECIAL
  <2>2. byStrength = Verdict(sf, sn)
    BY <1>22, <1>17
  <2>3. Verdict(sf, sn) = Verdict(ta, tb)
    <3>1. sf = 4096 * ta + da /\ sn = 4096 * tb + db
      BY <1>6, <1>22
    <3>2. ta > tb => sf > sn
      BY <1>5, <1>22, <3>1
    <3>3. tb > ta => sn > sf
      BY <1>5, <1>22, <3>1
    <3>4. sf \in Int /\ sn \in Int
      BY <1>5, <1>22, <3>1
    <3> QED
      BY <1>22, <3>2, <3>3, <3>4 DEF Verdict
  <2> QED
    BY <2>1, <2>2, <2>3
<1>23. CASE ta \in 1..6 /\ ta = tb
  <2>1. byCards = Verdict(da, db)
    BY <1>7, <1>23 DEF PlainType, CT_BAO_ZI, CT_SPECIAL
  <2>2. byStrength = Verdict(sf, sn)
    BY <1>23, <1>17
  <2>3. Verdict(sf, sn) = Verdict(da, db)
    <3>1. sf = 4096 * ta + da /\ sn = 4096 * ta + db
      BY <1>6, <1>23
    <3>2. /\ sf > sn <=> da > db
          /\ sf = sn <=> da = db
      BY <1>5, <1>23, <3>1
    <3> QED
      BY <3>2 DEF Verdict
  <2> QED
    BY <2>1, <2>2, <2>3
<1> QED
  BY <1>4, <1>18, <1>19, <1>20, <1>21, <1>22, <1>23
=============================================================================
