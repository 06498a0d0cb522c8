------------------------------- MODULE Finish --------------------------------
(***************************************************************************)
(* What a finish promises: the statement after the block runs when every   *)
(* task that was spawned in it, and in no finish inside it, has been       *)
(* waited for, each for the first time.                                    *)
(***************************************************************************)
EXTENDS Naturals, Sequences

CONSTANT Task

VARIABLES
    blocks,   \* blocks[i]: the tasks spawned in the i-th open finish
    done      \* the tasks that were waited for

Init == blocks = <<>> /\ done = {}

Enter == blocks' = Append(blocks, {}) /\ UNCHANGED done

Spawn(t) ==
    /\ blocks # <<>>
    /\ t \notin done
    /\ \A i \in DOMAIN blocks : t \notin blocks[i]
    /\ blocks' = [blocks EXCEPT ![Len(blocks)] = @ \cup {t}]
    /\ UNCHANGED done

Leave ==
    /\ blocks # <<>>
    /\ done \cap blocks[Len(blocks)] = {}
    /\ done' = done \cup blocks[Len(blocks)]
    /\ blocks' = SubSeq(blocks, 1, Len(blocks) - 1)

Next == Enter \/ (\E t \in Task : Spawn(t)) \/ Leave

Spec == Init /\ [][Next]_<<blocks, done>>

=============================================================================
