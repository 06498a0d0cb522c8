------------------------------ MODULE Logging -------------------------------
(***************************************************************************)
(* Logging: threads format records and put them in the queue of an         *)
(* AsyncLogger; the daemon thread of the GlobalLoggerManager writes them;  *)
(* the owner destroys the manager, which stops the daemon and joins it.    *)
(*                                                                         *)
(* A record is represented by its level.  The string without characters    *)
(* that stop() inserts is Marker.  No thread logs through a manager that   *)
(* is destroyed, or is still inside insert_record when that happens: the   *)
(* code leaves this to its callers.                                        *)
(***************************************************************************)
EXTENDS SenderSideLockQueue, FiniteSets

CONSTANTS
    Thread,     \* the threads that log
    owner,      \* the thread that destroys the manager
    Level,
    min_level,
    Marker,
    MaxRecords  \* bound of the model: how many records are logged

ASSUME LoggingAssumption ==
    /\ owner \notin Thread
    /\ Sender = Thread \cup {owner}
    /\ Level \subseteq Nat
    /\ min_level \in Nat
    /\ Marker \notin Level
    /\ Message = Level \cup {Marker}
    /\ MaxRecords \in Nat

VARIABLES
    done,      \* done of the GlobalLoggerManager
    deamon,    \* where the daemon is in loop_body
    ostate,    \* where the owner is in ~GlobalLoggerManager
    dest,      \* what was written to _dest
    logged,    \* what _log was called with, in the order of the insertions
    due        \* how much of it when the owner called stop()

managerVars == <<done, deamon, ostate>>
logVars == <<dest, logged, due>>
vars == <<queueVars, managerVars, logVars>>

TypeOK ==
    /\ QueueTypeOK
    /\ done \in BOOLEAN
    /\ deamon \in {"loop", "flush_one", "flush_all", "returned"}
    /\ ostate \in {"runs", "stop", "join", "destroyed"}
    /\ dest \in Seq(Level)
    /\ logged \in Seq(Level)
    /\ due \in 0..Len(logged)
    /\ deamon = "flush_one" => call = "receive"
    /\ deamon = "flush_all" => call \in {"try_receive", "none"}
    /\ deamon \in {"loop", "returned"} => call = "none"

Init ==
    /\ QueueInit
    /\ done = FALSE
    /\ deamon = "loop"
    /\ ostate = "runs"
    /\ dest = <<>>
    /\ logged = <<>>
    /\ due = 0

-----------------------------------------------------------------------------
(***************************************************************************)
(* The threads that log                                                    *)
(***************************************************************************)

filter(level) == level >= min_level

\* _log and insert_record, as far as the push.
_log(t, level) ==
    /\ ostate # "destroyed"
    /\ Len(logged) < MaxRecords
    /\ logged' = Append(logged, level)
    /\ IF filter(level) THEN send(t, level) ELSE UNCHANGED queueVars
    /\ UNCHANGED <<managerVars, dest, due>>

\* insert_record from the unlock on, in any thread.
insert_record_returns(s) == notify_one(s) /\ UNCHANGED <<managerVars, logVars>>

-----------------------------------------------------------------------------
(***************************************************************************)
(* The daemon                                                              *)
(***************************************************************************)

loop_body_returns ==
    /\ deamon = "loop"
    /\ IF done
       THEN deamon' = "returned" /\ UNCHANGED queueVars
       ELSE deamon' = "flush_one" /\ Call("receive")
    /\ UNCHANGED <<done, ostate, logVars>>

\* while (!done)
loop_body ==
    /\ deamon = "loop"
    /\ IF done
       THEN deamon' = "flush_all" /\ UNCHANGED queueVars
       ELSE deamon' = "flush_one" /\ Call("receive")
    /\ UNCHANGED <<done, ostate, logVars>>

\* The empty string is the marker of stop().
write(m) == dest' = IF m = Marker THEN dest ELSE Append(dest, m)

\* Inside receive or try_receive.
receiving(step) == step /\ UNCHANGED <<managerVars, logVars>>

\* What comes after stop() is taken for its marker.
flush_one_until_done ==
    /\ deamon = "flush_one"
    /\ pop
    /\ IF done THEN UNCHANGED dest ELSE write(Head(out_queue))
    /\ deamon' = "loop"
    /\ UNCHANGED <<done, ostate, logged, due>>

flush_one ==
    /\ deamon = "flush_one"
    /\ pop
    /\ write(Head(out_queue))
    /\ deamon' = "loop"
    /\ UNCHANGED <<done, ostate, logged, due>>

\* while (record_queue.try_receive(tmp))
flush_all ==
    /\ deamon = "flush_all"
    /\ \/ Call("try_receive") /\ UNCHANGED <<deamon, dest>>
       \/ pop /\ write(Head(out_queue)) /\ UNCHANGED deamon
       \/ turn_away /\ deamon' = "returned" /\ UNCHANGED dest
    /\ UNCHANGED <<done, ostate, logged, due>>

-----------------------------------------------------------------------------
(***************************************************************************)
(* The owner: ~GlobalLoggerManager                                         *)
(***************************************************************************)

stop ==
    /\ ostate = "runs"
    /\ done' = TRUE
    /\ ostate' = "stop"
    /\ due' = Len(logged)
    /\ UNCHANGED <<queueVars, deamon, dest, logged>>

stop_wakes_nobody ==
    /\ ostate = "stop"
    /\ ostate' = "join"
    /\ UNCHANGED <<queueVars, done, deamon, logVars>>

\* insert_record(string{})
stop_inserts ==
    /\ ostate = "stop"
    /\ send(owner, Marker)
    /\ ostate' = "join"
    /\ UNCHANGED <<done, deamon, logVars>>

join ==
    /\ ostate = "join"
    /\ deamon = "returned"
    /\ notifying = {}
    /\ ostate' = "destroyed"
    /\ UNCHANGED <<queueVars, done, deamon, logVars>>

-----------------------------------------------------------------------------
loop == loop_body \/ flush_one \/ flush_all \/ receiving(swap) \/ receiving(sleep)

destructor == stop_inserts \/ join

Next ==
    \/ \E t \in Thread, level \in Level : _log(t, level)
    \/ \E s \in Sender : insert_record_returns(s)
    \/ loop \/ receiving(wake_up)
    \/ stop \/ destructor

Spec == Init /\ [][Next]_vars

(***************************************************************************)
(* Threads that are runnable run: a call of _log that was begun, the       *)
(* daemon, the destructor that was begun.                                  *)
(***************************************************************************)
Fairness ==
    /\ \A s \in Sender : WF_vars(insert_record_returns(s))
    /\ WF_vars(loop)
    /\ WF_vars(destructor)

FairSpec == Spec /\ Fairness

-----------------------------------------------------------------------------
(***************************************************************************)
(* Properties                                                              *)
(***************************************************************************)

\* Queued messages without the marker, which is inserted once.
records(q) ==
    IF \E k \in DOMAIN q : q[k] = Marker
    THEN LET k == CHOOSE k \in DOMAIN q : q[k] = Marker
         IN  SubSeq(q, 1, k - 1) \o SubSeq(q, k + 1, Len(q))
    ELSE q

\* How many of the first n calls of _log are to be written.
owed(n) == Cardinality({i \in DOMAIN logged : i <= n /\ logged[i] >= min_level})

\* Records are neither lost, repeated, reordered nor invented on their way from the
\* calls of _log to the file, through the two queues and past the marker: in what is
\* written or queued, the n-th is that of the n-th call that is not filtered out.
NothingLost ==
    LET kept == dest \o records(out_queue \o in_queue)
    IN  /\ Len(kept) = owed(Len(logged))
        /\ \A i \in DOMAIN logged : logged[i] >= min_level => kept[owed(i)] = logged[i]

\* When the destructor has joined the daemon, everything that was logged before
\* stop() is written ("there might be something left in queue", logging.cpp:84).
StopDrains == ostate = "destroyed" => Len(dest) >= owed(due)

\* The destructor returns: the daemon is woken up, sees done and leaves, whatever
\* the other threads log in the meantime.
StopReturns == ostate = "stop" ~> ostate = "destroyed"

\* While the manager lives, what is logged is written without being asked for.
Written ==
    \A n \in 1..MaxRecords :
        Len(logged) >= n ~> Len(dest) >= owed(n) \/ ostate # "runs"

=============================================================================
