--------------------------- MODULE BasicLockQueue ---------------------------
(***************************************************************************)
(* BasicLockQueue (concurrent.hpp): many senders and many receivers around *)
(* one queue, one mutex and one condition variable.                        *)
(*                                                                         *)
(* A step is what a thread does while it holds q_mux.  Definitions with a  *)
(* suffix are slips that the code does not make; the properties are tested *)
(* against them.                                                           *)
(***************************************************************************)
EXTENDS Channel, Naturals, Sequences, FiniteSets

CONSTANTS
    Sender, Receiver,   \* threads
    QueueBound   \* bound of the model: the senders pause at this length

ASSUME BasicAssumption ==
    /\ IsFiniteSet(Sender) /\ IsFiniteSet(Receiver)
    /\ NoMessage \notin Message
    /\ QueueBound \in Nat

VARIABLES
    msgq,
    notifying,   \* the senders that have released q_mux and not yet notified
    call,        \* call[r]: the function that r is in
    wait,        \* wait[r]: where r is in the wait on has_msg_cd
    result       \* result[r]: the outcome of the last call of r

vars == <<msgq, notifying, call, wait, result>>

Op == {"receive", "try_receive", "receive_for"}

asleep == {r \in Receiver : wait[r] = "asleep"}

\* The receivers that are on their way to look at the queue.
looking == {r \in Receiver : call[r] # "none" /\ wait[r] # "asleep"}

\* Types, and in which calls a receiver can be in which part of the wait.
TypeOK ==
    /\ msgq \in Seq(Message)
    /\ notifying \subseteq Sender
    /\ call \in [Receiver -> Op \cup {"none"}]
    /\ wait \in [Receiver -> {"awake", "asleep", "expired"}]
    /\ result \in [Receiver -> Message \cup {NoMessage}]
    /\ \A r \in Receiver :
          /\ wait[r] = "asleep" => call[r] \in {"receive", "receive_for"}
          /\ wait[r] = "expired" => call[r] = "receive_for"

Init ==
    /\ msgq = <<>>
    /\ notifying = {}
    /\ call = [r \in Receiver |-> "none"]
    /\ wait = [r \in Receiver |-> "awake"]
    /\ result = [r \in Receiver |-> NoMessage]

-----------------------------------------------------------------------------
\* A sender that notifies only when the queue was empty before.
send_notify_first(s, m) ==
    /\ s \notin notifying
    /\ Len(msgq) < QueueBound
    /\ msgq' = Append(msgq, m)
    /\ notifying' = IF msgq = <<>> THEN notifying \cup {s} ELSE notifying
    /\ UNCHANGED <<call, wait, result>>

send(s, m) ==
    /\ s \notin notifying
    /\ Len(msgq) < QueueBound
    /\ msgq' = Append(msgq, m)
    /\ notifying' = notifying \cup {s}
    /\ UNCHANGED <<call, wait, result>>

notify_one_forgotten(s) ==
    /\ s \in notifying
    /\ notifying' = notifying \ {s}
    /\ UNCHANGED <<msgq, call, wait, result>>

\* It wakes one thread of those that are waiting, if there are any.
notify_one(s) ==
    /\ s \in notifying
    /\ notifying' = notifying \ {s}
    /\ IF asleep = {} THEN UNCHANGED wait
       ELSE \E r \in asleep : wait' = [wait EXCEPT ![r] = "awake"]
    /\ UNCHANGED <<msgq, call, result>>

Call(r, op) ==
    /\ call[r] = "none"
    /\ call' = [call EXCEPT ![r] = op]
    /\ UNCHANGED <<msgq, notifying, wait, result>>

return(r, outcome) ==
    /\ call' = [call EXCEPT ![r] = "none"]
    /\ wait' = [wait EXCEPT ![r] = "awake"]
    /\ result' = [result EXCEPT ![r] = outcome]
    /\ UNCHANGED notifying

\* The last message stays in the queue.
take_copies(r) ==
    /\ r \in looking
    /\ msgq # <<>>
    /\ msgq' = IF Len(msgq) = 1 THEN msgq ELSE Tail(msgq)
    /\ return(r, Head(msgq))

\* move_or_copy(t, msgq.front()); msgq.pop()
take(r) ==
    /\ r \in looking
    /\ msgq # <<>>
    /\ msgq' = Tail(msgq)
    /\ return(r, Head(msgq))

\* The predicate does not hold: has_msg_cd releases q_mux and sleeps, in one step.
sleep(r) ==
    /\ r \in looking
    /\ call[r] # "try_receive"
    /\ wait[r] = "awake"
    /\ msgq = <<>>
    /\ wait' = [wait EXCEPT ![r] = "asleep"]
    /\ UNCHANGED <<msgq, notifying, call, result>>

\* A condition variable may wake up without a notification.
wake_up(r) ==
    /\ r \in asleep
    /\ wait' = [wait EXCEPT ![r] = "awake"]
    /\ UNCHANGED <<msgq, notifying, call, result>>

timeout(r) ==
    /\ r \in asleep
    /\ call[r] = "receive_for"
    /\ wait' = [wait EXCEPT ![r] = "expired"]
    /\ UNCHANGED <<msgq, notifying, call, result>>

\* try_receive finds nothing, or wait_for still finds nothing when the time is up.
turn_away(r) ==
    /\ r \in looking
    /\ call[r] = "try_receive" \/ wait[r] = "expired"
    /\ msgq = <<>>
    /\ return(r, NoMessage)
    /\ UNCHANGED msgq

-----------------------------------------------------------------------------
returning(r) == take(r) \/ sleep(r) \/ turn_away(r)

Next ==
    \/ \E s \in Sender : notify_one(s) \/ \E m \in Message : send(s, m)
    \/ \E r \in Receiver : \/ \E op \in Op : Call(r, op)
                           \/ returning(r)
                           \/ wake_up(r)
                           \/ timeout(r)

Spec == Init /\ [][Next]_vars

(***************************************************************************)
(* Threads that are runnable run.  The time limit of wait_for is a point   *)
(* in time, which no number of wakeups puts off.  Nobody is obliged to     *)
(* call send or receive.                                                   *)
(***************************************************************************)
Fairness ==
    /\ \A s \in Sender : WF_vars(notify_one(s))
    /\ \A r \in Receiver : WF_vars(returning(r)) /\ SF_vars(timeout(r))

FairSpec == Spec /\ Fairness

-----------------------------------------------------------------------------
(***************************************************************************)
(* Properties                                                              *)
(***************************************************************************)

\* Each message goes to one receiver, in the order of the queue, and a call returns
\* false on an empty queue only.
Fifo == INSTANCE Fifo WITH queue <- msgq, received <- result

FifoSpec == Fifo!Spec

\* While receivers sleep there is, for every message, a sender that has yet to notify
\* or a receiver that is going to look (concurrent.hpp:60): with a notify_one for
\* each message no receiver sleeps on one that nobody else will take.
NoLostWakeup ==
    asleep # {} => Len(msgq) <= Cardinality(notifying) + Cardinality(looking)

\* Messages do not stay in the queue while receivers sleep (concurrent.hpp:66).
NobodySleepsOn ==
    (msgq # <<>> /\ asleep # {}) ~> (msgq = <<>> \/ asleep = {})

=============================================================================
