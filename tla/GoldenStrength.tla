---------------------------- MODULE GoldenStrength ----------------------------
(***************************************************************************)
(* The order of two hands of the golden game, on their strengths.          *)
(* GoldenTableOps deals strengths; GoldenCards says what strength three    *)
(* cards have.                                                             *)
(***************************************************************************)
EXTENDS Integers

CONSTANT Leopard        \* the least strength of a hand of three equal cards

ASSUME LeopardAssumption == Leopard \in Nat \ {0}

\* GameLogic::CompareCard on the strengths of two hands.  Strength 0 is the
\* "235" hand: the weakest single hand, which beats every leopard.
CompareCard(x, y) ==
    IF x = 0 /\ y >= Leopard THEN "win"
    ELSE IF x >= Leopard /\ y = 0 THEN "lose"
    ELSE IF x > y THEN "win"
    ELSE IF x = y THEN "draw"
    ELSE "lose"
=============================================================================
