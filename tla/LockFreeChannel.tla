-------------------------- MODULE LockFreeChannel ---------------------------
(***************************************************************************)
(* LockFreeChannel (concurrent.hpp): Lamport's ring buffer for one         *)
(* producer and one consumer.                                              *)
(*                                                                         *)
(* Each access to what the other thread writes is a step: the head, the    *)
(* tail, a cell of the ring.  The loads and stores with acquire and        *)
(* release keep their order.  The consumer loads the head relaxed          *)
(* (concurrent.hpp:119), so on a machine that lets loads overtake each     *)
(* other its load of the cell can come first; Reorders says whether the    *)
(* build runs on one.  The pauses between two attempts of a blocking call  *)
(* are left out.  Definitions with a suffix are slips that the code does   *)
(* not make; the properties are tested against them.                       *)
(***************************************************************************)
EXTENDS Channel, Naturals, Sequences

CONSTANTS
    buffer_size,
    Reorders      \* whether a load may overtake a relaxed one before it

ASSUME ChannelAssumption ==
    /\ NoMessage \notin Message
    /\ buffer_size \in Nat /\ buffer_size > 1
    /\ Reorders \in BOOLEAN

VARIABLES
    ring_buffer, head, tail,
    sending,     \* the function the producer is in
    data,        \* its argument
    ppos,        \* how far an attempt of the producer has come
    receiving,   \* the function the consumer is in
    head_v,      \* what an attempt of the consumer has loaded as the head
    cell_v,      \* and as the cell at the tail: a set of at most one value
    received     \* the outcome of the last call of the consumer

producer == <<sending, data, ppos>>
consumer == <<receiving, head_v, cell_v, received>>
ringVars == <<ring_buffer, head, tail, producer, consumer>>

Pos == 0..(buffer_size - 1)
NotLoaded == buffer_size   \* no position
Cell == Message \cup {NoMessage}

RingTypeOK ==
    /\ ring_buffer \in [Pos -> Cell]
    /\ head \in Pos
    /\ tail \in Pos
    /\ sending \in {"none", "try_send", "send"}
    /\ data \in Cell
    /\ ppos \in {"load", "write", "publish"}
    /\ receiving \in {"none", "try_receive", "receive"}
    /\ head_v \in Pos \cup {NotLoaded}
    /\ cell_v \in {{}} \cup {{m} : m \in Cell}
    /\ received \in Cell

RingInit ==
    /\ ring_buffer = [i \in Pos |-> NoMessage]
    /\ head = 0
    /\ tail = 0
    /\ sending = "none"
    /\ data = NoMessage
    /\ ppos = "load"
    /\ receiving = "none"
    /\ head_v = NotLoaded
    /\ cell_v = {}
    /\ received = NoMessage

next(pos) == (pos + 1) % buffer_size

-----------------------------------------------------------------------------
(***************************************************************************)
(* The producer                                                            *)
(***************************************************************************)

full_never(head_, tail_) == FALSE

full(head_, tail_) == next(head_) = tail_

Send(op, m) ==
    /\ sending = "none"
    /\ sending' = op
    /\ data' = m
    /\ UNCHANGED <<ring_buffer, head, tail, ppos, consumer>>

\* send tries again when there is no room, try_send gives up.
load_tail ==
    /\ sending # "none"
    /\ ppos = "load"
    /\ IF full(head, tail)
       THEN /\ sending' = IF sending = "send" THEN "send" ELSE "none"
            /\ UNCHANGED ppos
       ELSE ppos' = "write" /\ UNCHANGED sending
    /\ UNCHANGED <<ring_buffer, head, tail, data, consumer>>

write_cell ==
    /\ ppos = "write"
    /\ ring_buffer' = [ring_buffer EXCEPT ![head] = data]
    /\ ppos' = "publish"
    /\ UNCHANGED <<head, tail, sending, data, consumer>>

store_head ==
    /\ ppos = "publish"
    /\ head' = next(head)
    /\ ppos' = "load"
    /\ sending' = "none"
    /\ UNCHANGED <<ring_buffer, tail, data, consumer>>

-----------------------------------------------------------------------------
(***************************************************************************)
(* The consumer                                                            *)
(***************************************************************************)

empty(head_, tail_) == head_ = tail_

Receive(op) ==
    /\ receiving = "none"
    /\ receiving' = op
    /\ UNCHANGED <<ring_buffer, head, tail, producer, head_v, cell_v, received>>

\* receive tries again when there is nothing, try_receive gives up.
load_head ==
    /\ receiving # "none"
    /\ head_v = NotLoaded
    /\ IF empty(head, tail)
       THEN /\ cell_v' = {}
            /\ IF receiving = "receive"
               THEN UNCHANGED <<receiving, received>>
               ELSE receiving' = "none" /\ received' = NoMessage
            /\ UNCHANGED head_v
       ELSE head_v' = head /\ UNCHANGED <<receiving, cell_v, received>>
    /\ UNCHANGED <<ring_buffer, head, tail, producer>>

load_cell ==
    /\ receiving # "none"
    /\ cell_v = {}
    /\ head_v = NotLoaded => Reorders
    /\ cell_v' = {ring_buffer[tail]}
    /\ UNCHANGED <<ring_buffer, head, tail, producer, receiving, head_v, received>>

returns ==
    /\ head_v # NotLoaded
    /\ cell_v # {}
    /\ head_v' = NotLoaded
    /\ cell_v' = {}
    /\ receiving' = "none"
    /\ received' \in cell_v
    /\ UNCHANGED <<ring_buffer, head, producer>>

store_tail_forgotten == returns /\ UNCHANGED tail

store_tail == returns /\ tail' = next(tail)

-----------------------------------------------------------------------------
try_send == load_tail \/ write_cell \/ store_head

try_receive == load_head \/ load_cell \/ store_tail

RingNext ==
    \/ \E op \in {"try_send", "send"}, m \in Message : Send(op, m)
    \/ \E op \in {"try_receive", "receive"} : Receive(op)
    \/ try_send
    \/ try_receive

RingSpec == RingInit /\ [][RingNext]_ringVars

\* The threads run; nobody is obliged to send or to receive.
RingFairness == WF_ringVars(try_send) /\ WF_ringVars(try_receive)

RingFairSpec == RingSpec /\ RingFairness

-----------------------------------------------------------------------------
(***************************************************************************)
(* Properties                                                              *)
(***************************************************************************)

\* The cells from the tail to the head.
content ==
    [i \in 1..((head + buffer_size - tail) % buffer_size) |->
        ring_buffer[(tail + i - 1) % buffer_size]]

\* Without a lock, and with positions that wrap around, messages are received once
\* and in the order in which they were sent; no cell is overwritten that is still
\* to be read, and none is read before it is written.
RingFifo == INSTANCE Fifo
    WITH queue <- content,
         Receiver <- {"consumer"},
         received <- [r \in {"consumer"} |-> received]

RingFifoSpec == RingFifo!Spec

\* receive returns when there is a message (concurrent.hpp:138), and send returns when
\* somebody receives, however full the ring is (concurrent.hpp:131).
CallsReturn ==
    /\ (receiving = "receive" /\ content # <<>>) ~> receiving = "none"
    /\ (sending = "send" /\ receiving = "receive") ~> sending = "none"

=============================================================================
