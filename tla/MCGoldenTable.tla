---------------------------- MODULE MCGoldenTable ----------------------------
(***************************************************************************)
(* Small instances of GoldenTable for TLC.                                 *)
(***************************************************************************)
EXTENDS GoldenTableHand, TLC

CONSTANTS
    Coins,          \* what everybody starts with
    Ranks           \* the strengths of the hands that are dealt

MCAcct == [u \in User |-> Coins]
MCDeals == [User -> Ranks]

\* The users are interchangeable: every deal is enumerated and chairs are given
\* in the order of coming.
MCSymmetry == Permutations(User)

\* The first hand only: nothing is explored beyond its settlement, or beyond a
\* client that drops in it.
FirstHand ==
    IF IsActive(table) THEN \A u \in User : ~ table.drop[u]
                       ELSE acct = InitAcct /\ ~ table.cmpT

\* One hand of a round in which nobody looks or is all in, and what follows it
\* until the next hand starts.
QuietHand ==
    /\ table.round <= 1 /\ ~ table.cmpT
    /\ IsActive(table) => table.preWin = NoSeat
    /\ \A u \in User : /\ ~ table.drop[u] /\ table.tmo[u] = 0
                       /\ table.card[u] # "KNOWN" /\ ~ table.allin[u]
=============================================================================
