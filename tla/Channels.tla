------------------------------ MODULE Channels ------------------------------
(***************************************************************************)
(* The two channels of concurrent.hpp that no code of the repository uses  *)
(* yet, as its tests use them: a behaviour is one of a BasicLockQueue or   *)
(* one of a LockFreeChannel.                                               *)
(***************************************************************************)
EXTENDS BasicLockQueue, LockFreeChannel

VARIABLE used   \* the class of the channel

channelVars == <<used, vars, ringVars>>

ChannelsInit ==
    /\ used \in {"BasicLockQueue", "LockFreeChannel"}
    /\ Init
    /\ RingInit

ChannelsNext ==
    \/ used = "BasicLockQueue" /\ Next /\ UNCHANGED <<used, ringVars>>
    \/ used = "LockFreeChannel" /\ RingNext /\ UNCHANGED <<used, vars>>

\* The fairness of the threads of each; of the channel that is not used none can move.
ChannelsSpec ==
    /\ ChannelsInit /\ [][ChannelsNext]_channelVars
    /\ Fairness
    /\ RingFairness
=============================================================================
