---------------------------- MODULE GoldenTableHand ----------------------------
(***************************************************************************)
(* GoldenTable implements GoldenHand: the phase of the hand, its card      *)
(* holders and the turn as functions of the Table object.                  *)
(***************************************************************************)
EXTENDS GoldenTable

Phase(s) ==
    IF ~ IsActive(s) THEN "idle" ELSE IF s.over THEN "settling" ELSE "betting"

CardHolders(s) == IF IsActive(s) THEN Holders(s) ELSE {}

Hand == INSTANCE GoldenHand WITH
            phase <- Phase(table),
            holders <- CardHolders(table),
            turn <- table.betT

\* Whatever the clients send, a hand is dealt to two or more, is contested as
\* long as it is bet on, loses at most one player in a step, keeps the turn
\* through a fold out of turn, and ends only by being decided and then settled.
PlaysAHand == Hand!HandSafe

\* The same, and a decided hand that has a card holder is settled.
HandIsSettled == Hand!HandSpec
=============================================================================
