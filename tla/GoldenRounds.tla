----------------------------- MODULE GoldenRounds -----------------------------
(***************************************************************************)
(* GoldenTable with a history variable: who has had his turn in the round  *)
(* that is being played.  It takes no part in the behaviour and lets the   *)
(* fairness of the turns be stated.                                        *)
(***************************************************************************)
EXTENDS GoldenTable

VARIABLE spoken     \* the users whose turn of this round has passed

roundVars == <<table, acct, crashed, spoken>>

WithinHand == IsActive(table) /\ IsActive(table')

RoundInit == Init /\ spoken = {}

RoundNext ==
    /\ Next
    /\ spoken' = IF ~ WithinHand \/ table'.round # table.round THEN {}
                 ELSE IF table'.currBet # table.currBet
                 THEN spoken \cup {table.currBet}
                 ELSE spoken

RoundSpec == RoundInit /\ [][RoundNext]_roundVars

\* A round of betting ends only when everyone who can still bet has had his
\* turn in it, although first speakers fold, leave, time out and lose
\* comparisons in and out of turn and m_nFirstIndex moves on under the count.
FairRounds ==
    [][WithinHand /\ table'.round = table.round + 1 =>
         \A u \in Holders(table') :
            table'.allin[u] \/ u = table.currBet \/ u \in spoken]_roundVars

\* Nobody gets a second turn in a round before the round ends.
OneTurnEach ==
    [][WithinHand /\ table'.round = table.round
         /\ table'.currBet # table.currBet
       => table'.currBet \notin spoken]_roundVars
=============================================================================
