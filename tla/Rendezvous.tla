----------------------------- MODULE Rendezvous -----------------------------
(***************************************************************************)
(* What the coordinator is for: a fixed number of processes join, and only *)
(* when all of them have, each learns who the members are.  Nobody joins   *)
(* afterwards, and what a member has learned does not change.              *)
(***************************************************************************)
EXTENDS Naturals, FiniteSets

CONSTANTS
    Member,   \* the processes that may join
    Size      \* how many of them the group has

VARIABLES
    joined,   \* the members
    told      \* told[m]: the members that m has learned of, none at first

Init ==
    /\ joined = {}
    /\ told = [m \in Member |-> {}]

Join(m) ==
    /\ m \notin joined
    /\ Cardinality(joined) < Size
    /\ joined' = joined \cup {m}
    /\ UNCHANGED told

Tell(m) ==
    /\ Cardinality(joined) = Size
    /\ m \in joined
    /\ told[m] = {}
    /\ told' = [told EXCEPT ![m] = joined]
    /\ UNCHANGED joined

Next == \E m \in Member : Join(m) \/ Tell(m)

Spec == Init /\ [][Next]_<<joined, told>>
=============================================================================
