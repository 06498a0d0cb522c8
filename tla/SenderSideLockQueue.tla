------------------------ MODULE SenderSideLockQueue -------------------------
(***************************************************************************)
(* SenderSideLockQueue (concurrent.hpp): many senders and one receiver.    *)
(* The senders share in_queue, under in_lock, with the receiver, who takes *)
(* all of it at once into out_queue, which is its own.                     *)
(*                                                                         *)
(* A step is what a thread does while it holds in_lock, or what it does to *)
(* data that no other thread uses.  Definitions with a suffix are slips    *)
(* that the code does not make; the properties are tested against them.    *)
(***************************************************************************)
EXTENDS Naturals, Sequences

CONSTANTS
    Sender,      \* the threads that send
    Message,
    NoMessage,   \* the outcome of a receive that returns false
    QueueBound   \* bound of the model: the senders pause at this length

ASSUME QueueAssumption == NoMessage \notin Message /\ QueueBound \in Nat

VARIABLES
    in_queue, out_queue,
    notifying,   \* the senders that have released in_lock and not yet notified
    call,        \* the function the receiver is in
    wait,        \* where it is in the wait on has_msg_cd
    result       \* the outcome of its last call

sender == <<in_queue, notifying>>
receiver == <<out_queue, call, result>>
queueVars == <<in_queue, out_queue, notifying, call, wait, result>>

Op == {"receive", "try_receive", "receive_for"}

\* Types, and in which calls the receiver can be in which part of the wait.
QueueTypeOK ==
    /\ in_queue \in Seq(Message)
    /\ out_queue \in Seq(Message)
    /\ notifying \subseteq Sender
    /\ call \in Op \cup {"none"}
    /\ wait \in {"awake", "asleep", "expired"}
    /\ wait = "asleep" => call \in {"receive", "receive_for"}
    /\ wait = "expired" => call = "receive_for"
    /\ result \in Message \cup {NoMessage}

QueueInit ==
    /\ in_queue = <<>>
    /\ out_queue = <<>>
    /\ notifying = {}
    /\ call = "none"
    /\ wait = "awake"
    /\ result = NoMessage

-----------------------------------------------------------------------------
(***************************************************************************)
(* The senders                                                             *)
(***************************************************************************)

send(s, m) ==
    /\ s \notin notifying
    /\ Len(in_queue) < QueueBound
    /\ in_queue' = Append(in_queue, m)
    /\ notifying' = notifying \cup {s}
    /\ UNCHANGED <<receiver, wait>>

notify_one_forgotten(s) ==
    /\ s \in notifying
    /\ notifying' = notifying \ {s}
    /\ UNCHANGED <<in_queue, wait, receiver>>

\* It wakes a thread that is waiting; if there is none it has no effect.
notify_one(s) ==
    /\ s \in notifying
    /\ notifying' = notifying \ {s}
    /\ wait' = IF wait = "asleep" THEN "awake" ELSE wait
    /\ UNCHANGED <<in_queue, receiver>>

-----------------------------------------------------------------------------
(***************************************************************************)
(* The receiver                                                            *)
(***************************************************************************)

Call(op) ==
    /\ call = "none"
    /\ call' = op
    /\ UNCHANGED <<sender, out_queue, wait, result>>

needs_swap_always == call # "none" /\ wait # "asleep"

needs_swap == call # "none" /\ wait # "asleep" /\ out_queue = <<>>

\* out_queue.swap(in_queue)
swap ==
    /\ needs_swap
    /\ in_queue # <<>>
    /\ out_queue' = in_queue
    /\ in_queue' = out_queue
    /\ wait' = "awake"
    /\ UNCHANGED <<notifying, call, result>>

sleep_unchecked ==
    /\ needs_swap
    /\ call \in {"receive", "receive_for"}
    /\ wait = "awake"
    /\ wait' = "asleep"
    /\ UNCHANGED <<sender, receiver>>

\* The predicate does not hold: has_msg_cd releases in_lock and sleeps, in one step.
sleep ==
    /\ needs_swap
    /\ call \in {"receive", "receive_for"}
    /\ wait = "awake"
    /\ in_queue = <<>>
    /\ wait' = "asleep"
    /\ UNCHANGED <<sender, receiver>>

\* A condition variable may wake up without a notification.
wake_up ==
    /\ wait = "asleep"
    /\ wait' = "awake"
    /\ UNCHANGED <<sender, receiver>>

timeout ==
    /\ wait = "asleep"
    /\ call = "receive_for"
    /\ wait' = "expired"
    /\ UNCHANGED <<sender, receiver>>

\* try_receive finds nothing, or wait_for still finds nothing when the time is up.
turn_away ==
    /\ needs_swap
    /\ in_queue = <<>>
    /\ call = "try_receive" \/ wait = "expired"
    /\ call' = "none"
    /\ wait' = "awake"
    /\ result' = NoMessage
    /\ UNCHANGED <<sender, out_queue>>

\* move_or_copy(t, out_queue.front()); out_queue.pop()
pop ==
    /\ call # "none"
    /\ out_queue # <<>>
    /\ result' = Head(out_queue)
    /\ out_queue' = Tail(out_queue)
    /\ call' = "none"
    /\ UNCHANGED <<sender, wait>>

-----------------------------------------------------------------------------
returning == swap \/ sleep \/ turn_away \/ pop

QueueNext ==
    \/ \E s \in Sender : notify_one(s) \/ \E m \in Message : send(s, m)
    \/ \E op \in Op : Call(op)
    \/ returning \/ wake_up \/ timeout

QueueSpec == QueueInit /\ [][QueueNext]_queueVars

-----------------------------------------------------------------------------
(***************************************************************************)
(* Properties                                                              *)
(***************************************************************************)

\* Across the two queues and the swap, messages are received once and in the order
\* in which in_lock was taken, and a call returns false on an empty queue only.
Fifo == INSTANCE Fifo
    WITH queue <- out_queue \o in_queue,
         Receiver <- {"receiver"},
         received <- [r \in {"receiver"} |-> result]

FifoSpec == Fifo!Spec

\* The receiver does not sleep on a message, unless a sender has yet to notify it;
\* send notifies after it has released in_lock (concurrent.hpp:176).
NoLostWakeup ==
    wait = "asleep" => out_queue = <<>> /\ (in_queue = <<>> \/ notifying # {})

=============================================================================
