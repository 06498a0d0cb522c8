--------------------------- MODULE MCMultiClient ----------------------------
(* An instance of MultiClient for TLC: the id i is that of the i-th server. *)
EXTENDS MultiClient, TLC

CONSTANTS a, b, s0, s1

Clients == {a, b}
Servers == {s0, s1}
Book == 0 :> s0 @@ 1 :> s1
Sends == a :> 2 @@ b :> 1
Crashing == {b, s1}
=============================================================================
