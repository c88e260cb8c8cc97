------------------------------ MODULE GoldenHand ------------------------------
(***************************************************************************)
(* What a table of the golden game server promises about a hand, without   *)
(* its messages, stakes, rounds and timers: who holds cards, whose turn it *)
(* is, and the phases a hand goes through.  GoldenTable implements it.     *)
(***************************************************************************)
CONSTANTS User, None

VARIABLES
    phase,          \* "idle", "betting" or "settling"
    holders,        \* the users who hold cards
    turn            \* the user whose clock runs, or None

hand == <<phase, holders, turn>>

Idle ==
    /\ phase = "idle"
    /\ holders = {}
    /\ turn = None

\* Somebody is left to play against.
Contested(H) == \E u, v \in H : u # v

\* At most one holder drops out in a step.
OneDrops ==
    \/ holders' = holders
    \/ \E u \in holders : holders' = holders \ {u}

\* Cards go to two users or more, and one of them is to speak.
Deal ==
    /\ phase = "idle" /\ phase' = "betting"
    /\ holders' \in SUBSET User /\ Contested(holders')
    /\ turn' \in holders'

\* Somebody speaks.  The turn leaves whoever had it; he, or the one he compared
\* cards with, may drop out.
Speak ==
    /\ phase = "betting" /\ UNCHANGED phase
    /\ OneDrops /\ Contested(holders')
    /\ turn' \in holders' \cup {None}
    /\ turn # None => turn' # turn

\* Somebody drops out whose turn it is not: the turn stays where it is.
DropOut ==
    /\ phase = "betting" /\ UNCHANGED phase
    /\ \E u \in holders \ {turn} : holders' = holders \ {u}
    /\ Contested(holders')
    /\ UNCHANGED turn

\* The hand is over: nobody is to speak any more.
Decide ==
    /\ phase = "betting" /\ phase' = "settling"
    /\ OneDrops
    /\ turn' = None

\* The loser of a comparison announced late drops out of a decided hand.
Announce ==
    /\ phase = "settling"
    /\ \E u \in holders : holders' = holders \ {u}
    /\ UNCHANGED <<phase, turn>>

\* Somebody who holds cards is paid.
Settle ==
    /\ phase = "settling" /\ holders # {}
    /\ phase' = "idle" /\ holders' = {} /\ turn' = None

Step == Deal \/ Speak \/ DropOut \/ Decide \/ Announce \/ Settle

HandSafe == Idle /\ [][Step]_hand

\* A decided hand that somebody can win is settled.
HandSpec == HandSafe /\ WF_hand(Settle)
=============================================================================
