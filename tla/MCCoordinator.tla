--------------------------- MODULE MCCoordinator ----------------------------
(* Instances of Coordinator for TLC: which process was started with which    *)
(* cookie.                                                                   *)
EXTENDS Coordinator, TLC

CONSTANTS a, b, d, c1, c2, bad

Places == {c1, c2}

\* A third process with a cookie that the coordinator did not draw.
Trio == {a, b, d}
StrangerCookie == a :> c1 @@ b :> c2 @@ d :> bad

\* A third process with the cookie of another.
TwinCookie == a :> c1 @@ b :> c2 @@ d :> c2
=============================================================================
