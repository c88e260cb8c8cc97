------------------------------ MODULE BlockPool ------------------------------
(***************************************************************************)
(* What the memory pool of the forwarding server promises: runs of blocks  *)
(* are handed out that no one else holds, and taken back as they were      *)
(* handed out.  How the free blocks are found is MemoryPool's business.    *)
(***************************************************************************)
EXTENDS Integers

CONSTANT Blocks     \* the number of blocks of the pool

VARIABLE held       \* the runs that are handed out

Run == [first : 0..(Blocks - 1), count : 1..Blocks]

\* The blocks of a run
Span(r) == r.first..(r.first + r.count - 1)

Free(r) == \A q \in held : Span(q) \cap Span(r) = {}

Init == held = {}

\* A run of free blocks is handed out.
Take ==
    \E r \in Run :
        /\ r.first + r.count <= Blocks
        /\ Free(r)
        /\ held' = held \cup {r}

\* A run is given back.
Give == \E r \in held : held' = held \ {r}

PoolSpec == Init /\ [][Take \/ Give]_held

\* Nobody's memory is anybody else's: two runs that are handed out share no
\* block, and every run lies in the pool.
Disjoint ==
    /\ held \subseteq Run
    /\ \A q, r \in held : q # r => Span(q) \cap Span(r) = {}
    /\ \A r \in held : r.first + r.count <= Blocks
=============================================================================
