----------------------------- MODULE MCGoldenRoom -----------------------------
(* Two humans with one address, and two robots. *)
EXTENDS GoldenRoom

CONSTANTS ann, bob, rob, bot

MCIp == [u \in Humans |-> 1]
===============================================================================
