-------------------------------- MODULE Fifo --------------------------------
(***************************************************************************)
(* What the queues of concurrent.hpp promise: what is sent is received,    *)
(* once, in the order in which it was sent, and a receiver is turned away  *)
(* only while the queue is empty.                                          *)
(***************************************************************************)
EXTENDS Sequences

CONSTANTS
    Message,
    Receiver,
    NoMessage   \* the outcome of a receive that finds nothing

VARIABLES
    queue,     \* the messages that are sent and not yet received
    received   \* received[r]: the outcome of the last receive of r

Init ==
    /\ queue = <<>>
    /\ received = [r \in Receiver |-> NoMessage]

Send(m) ==
    /\ queue' = Append(queue, m)
    /\ UNCHANGED received

Receive(r) ==
    /\ queue # <<>>
    /\ queue' = Tail(queue)
    /\ received' = [received EXCEPT ![r] = Head(queue)]

TurnAway(r) ==
    /\ queue = <<>>
    /\ received' = [received EXCEPT ![r] = NoMessage]
    /\ UNCHANGED queue

Next ==
    \/ \E m \in Message : Send(m)
    \/ \E r \in Receiver : Receive(r) \/ TurnAway(r)

Spec == Init /\ [][Next]_<<queue, received>>
=============================================================================
