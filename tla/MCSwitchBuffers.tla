--------------------------- MODULE MCSwitchBuffers ---------------------------
(* Small instances of the send buffers for TLC. *)
EXTENDS SwitchBuffers, TLC

CONSTANTS c1, f1, c2, f2

MCItem == {c1, f1, c2, f2}
MCpartner == (c1 :> f1) @@ (f1 :> c1) @@ (c2 :> f2) @@ (f2 :> c2)

\* The two pairs, and the two items of a pair, are alike.
KeepsPairs(p) == \A c \in MCItem : p[MCpartner[c]] = MCpartner[p[c]]
MCSymmetry == {p \in Permutations(MCItem) : KeepsPairs(p)}
=============================================================================
