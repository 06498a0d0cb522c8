---------------------------- MODULE LoggingProofs -----------------------------
(***************************************************************************)
(* SenderSideLockQueue is a FIFO queue that loses no wakeup, for any       *)
(* number of senders and any messages.  Logging uses it as one: no record  *)
(* is lost between the threads that log and the file, and the destructor   *)
(* of the GlobalLoggerManager drains the queue, for any number of threads  *)
(* that log and of records.                                                *)
(***************************************************************************)
EXTENDS Logging, FiniteSetTheorems, SequenceTheorems, TLAPS

-----------------------------------------------------------------------------
(***************************************************************************)
(* The queue by itself.                                                    *)
(***************************************************************************)

\* The inductive invariant: besides its types, a receiver in the wait has nothing left
\* in out_queue, and one that sleeps has a notification to come if there is a message.
QInv ==
    /\ QueueTypeOK
    /\ wait # "awake" => out_queue = <<>>
    /\ wait = "asleep" => in_queue = <<>> \/ notifying # {}

LEMMA InitQInv == QueueInit => QInv
  BY QueueAssumption DEF QueueInit, QInv, QueueTypeOK, Op

LEMMA NextQInv == QInv /\ [QueueNext]_queueVars => QInv'
<1> SUFFICES ASSUME QInv, [QueueNext]_queueVars
             PROVE  QInv'
  OBVIOUS
<1> USE DEF QInv, QueueTypeOK, Op
<1>1. ASSUME NEW s \in Sender, NEW m \in Message, send(s, m)
      PROVE  QInv'
  BY <1>1 DEF send, receiver
<1>2. ASSUME NEW s \in Sender, notify_one(s)
      PROVE  QInv'
  BY <1>2 DEF notify_one, receiver
<1>3. ASSUME NEW op \in Op, Call(op)
      PROVE  QInv'
  BY <1>3 DEF Call, sender
<1>4. CASE swap
  BY <1>4 DEF swap, needs_swap
<1>5. CASE sleep
  BY <1>5 DEF sleep, needs_swap, sender, receiver
<1>6. CASE turn_away
  BY <1>6 DEF turn_away, needs_swap, sender
<1>7. CASE pop
  BY <1>7 DEF pop, sender
<1>8. CASE wake_up
  BY <1>8 DEF wake_up, sender, receiver
<1>9. CASE timeout
  BY <1>9 DEF timeout, sender, receiver
<1>10. CASE UNCHANGED queueVars
  BY <1>10 DEF queueVars
<1> QED
  BY <1>1, <1>2, <1>3, <1>4, <1>5, <1>6, <1>7, <1>8, <1>9, <1>10 DEF QueueNext, returning

\* Every reachable state of the queue satisfies the invariant.
THEOREM QueueInvariance == QueueSpec => []QInv
  BY InitQInv, NextQInv, PTL DEF QueueSpec

\* The variables keep their types, and the receiver waits in calls that wait only.
THEOREM QueueTypeCorrect == QueueSpec => []QueueTypeOK
<1>1. QInv => QueueTypeOK
  BY DEF QInv
<1> QED
  BY <1>1, QueueInvariance, PTL

\* The receiver does not sleep on a message unless it is about to be notified.
THEOREM WakeupsArrive == QueueSpec => []NoLostWakeup
<1>1. QInv => NoLostWakeup
  BY DEF QInv, NoLostWakeup
<1> QED
  BY <1>1, QueueInvariance, PTL

-----------------------------------------------------------------------------
(***************************************************************************)
(* The refinement.  The abstract queue is out_queue followed by in_queue.  *)
(***************************************************************************)

LEMMA AppendToSecond ==
  ASSUME NEW S, NEW s \in Seq(S), NEW t \in Seq(S), NEW x \in S
  PROVE  s \o Append(t, x) = Append(s \o t, x)
<1>1. Append(t, x) = t \o <<x>> /\ <<x>> \in Seq(S)
  BY AppendIsConcat
<1>2. s \o t \in Seq(S)
  BY ConcatProperties
<1> QED
  BY <1>1, <1>2, ConcatAssociative, AppendIsConcat

LEMMA TakeFromFirst ==
  ASSUME NEW S, NEW s \in Seq(S), NEW t \in Seq(S), s # <<>>
  PROVE  /\ s \o t # <<>>
         /\ Head(s \o t) = Head(s)
         /\ Tail(s \o t) = Tail(s) \o t
<1>1. s \o t # <<>>
  BY ConcatEqualIffEmpty
<1>2. s \o t \in Seq(S) /\ Tail(s) \in Seq(S) /\ Len(s) \in Nat /\ Len(t) \in Nat /\ Len(s) > 0
  BY ConcatProperties, HeadTailProperties, LenProperties, EmptySeq
<1>3. Head(s \o t) = Head(s)
  BY <1>1, <1>2, ConcatProperties
<1>4. Len(Tail(s \o t)) = Len(Tail(s) \o t)
  BY <1>1, <1>2, ConcatProperties, HeadTailProperties
<1>5. ASSUME NEW i \in 1 .. Len(Tail(s \o t))
      PROVE  Tail(s \o t)[i] = (Tail(s) \o t)[i]
  BY <1>1, <1>2, ConcatProperties, HeadTailProperties
<1>6. Tail(s \o t) \in Seq(S) /\ Tail(s) \o t \in Seq(S)
  BY <1>1, <1>2, ConcatProperties, HeadTailProperties
<1> QED
  BY <1>1, <1>3, <1>4, <1>5, <1>6, SeqEqual

LEMMA InitIsFifo == QueueInit => Fifo!Init
  BY DEF QueueInit, Fifo!Init

LEMMA NextIsFifo ==
    QInv /\ [QueueNext]_queueVars
        => [Fifo!Next]_<<out_queue \o in_queue, [r \in {"receiver"} |-> result]>>
<1> DEFINE content == out_queue \o in_queue
           outcome == [r \in {"receiver"} |-> result]
<1> SUFFICES ASSUME QInv, [QueueNext]_queueVars
             PROVE  Fifo!Next \/ UNCHANGED <<content, outcome>>
  OBVIOUS
<1>0. in_queue \in Seq(Message) /\ out_queue \in Seq(Message)
  BY DEF QInv, QueueTypeOK
<1>1. ASSUME NEW s \in Sender, NEW m \in Message, send(s, m)
      PROVE  Fifo!Next
  <2>1. content' = Append(content, m) /\ UNCHANGED outcome
    BY <1>0, <1>1, AppendToSecond DEF send, receiver
  <2> QED
    BY <2>1 DEF Fifo!Next, Fifo!Send
<1>2. ASSUME NEW s \in Sender, notify_one(s)
      PROVE  UNCHANGED <<content, outcome>>
  BY <1>2 DEF notify_one, receiver
<1>3. ASSUME NEW op \in Op, Call(op)
      PROVE  UNCHANGED <<content, outcome>>
  BY <1>3 DEF Call, sender
<1>4. CASE swap
  <2>1. content = in_queue /\ content' = in_queue
    BY <1>0, <1>4, ConcatEmptySeq DEF swap, needs_swap
  <2> QED
    BY <2>1, <1>4 DEF swap
<1>5. CASE sleep
  BY <1>5 DEF sleep, sender, receiver
<1>6. CASE turn_away
  <2>1. content = <<>> /\ UNCHANGED content
    BY <1>0, <1>6, ConcatEmptySeq DEF turn_away, needs_swap, sender
  <2>2. outcome' = [outcome EXCEPT !["receiver"] = NoMessage]
    BY <1>6 DEF turn_away
  <2> QED
    BY <2>1, <2>2 DEF Fifo!Next, Fifo!TurnAway
<1>7. CASE pop
  <2>1. content # <<>> /\ content' = Tail(content) /\ Head(content) = Head(out_queue)
    BY <1>0, <1>7, TakeFromFirst DEF pop, sender
  <2>2. outcome' = [outcome EXCEPT !["receiver"] = Head(content)]
    BY <2>1, <1>7 DEF pop
  <2> QED
    BY <2>1, <2>2 DEF Fifo!Next, Fifo!Receive
<1>8. CASE wake_up
  BY <1>8 DEF wake_up, sender, receiver
<1>9. CASE timeout
  BY <1>9 DEF timeout, sender, receiver
<1>10. CASE UNCHANGED queueVars
  BY <1>10 DEF queueVars
<1> QED
  BY <1>1, <1>2, <1>3, <1>4, <1>5, <1>6, <1>7, <1>8, <1>9, <1>10 DEF QueueNext, returning

\* The two queues and the swap implement one FIFO queue.
THEOREM Implements == QueueSpec => FifoSpec
  BY InitIsFifo, NextIsFifo, QueueInvariance, PTL DEF QueueSpec, FifoSpec, Fifo!Spec

-----------------------------------------------------------------------------
(***************************************************************************)
(* Types.  What the steps of the queue do to its variables is taken from   *)
(* the definitions of SenderSideLockQueue.                                 *)
(***************************************************************************)

\* The types are inductive with what is known of a receiver in the wait.
TInv == TypeOK /\ (wait # "awake" => out_queue = <<>>)

LEMMA InitTInv == Init => TInv
<1> SUFFICES ASSUME Init
             PROVE  TInv
  OBVIOUS
<1>1. QueueTypeOK
  BY DEF Init, QueueInit, QueueTypeOK, Op
<1>2. dest \in Seq(Level) /\ logged \in Seq(Level) /\ due \in 0..Len(logged)
  BY DEF Init
<1>3. deamon = "loop" /\ ostate = "runs" /\ done = FALSE /\ call = "none" /\ wait = "awake"
  BY DEF Init, QueueInit
<1> QED
  BY <1>1, <1>2, <1>3 DEF TInv, TypeOK

LEMMA NextTInv == TInv /\ [Next]_vars => TInv'
<1> SUFFICES ASSUME TInv, [Next]_vars
             PROVE  TInv'
  OBVIOUS
<1> USE LoggingAssumption DEF TInv, TypeOK, QueueTypeOK, Op, managerVars, logVars
<1>1. ASSUME NEW t \in Thread, NEW level \in Level, _log(t, level)
      PROVE  TInv'
  <2>1. logged' \in Seq(Level) /\ Len(logged') = Len(logged) + 1
    BY <1>1 DEF _log
  <2>2. level \in Message /\ t \in Sender
    OBVIOUS
  <2>3. CASE filter(level)
    <3>1. send(t, level) /\ UNCHANGED <<done, deamon, ostate, dest, due>>
      BY <1>1, <2>3 DEF _log
    <3>2. QueueTypeOK'
      BY <2>2, <3>1 DEF send, receiver
    <3>3. UNCHANGED <<call, due, wait, out_queue>>
      BY <3>1 DEF send, receiver
    <3> QED
      BY <2>1, <3>1, <3>2, <3>3
  <2>4. CASE ~filter(level)
    BY <1>1, <2>1, <2>4 DEF _log, queueVars
  <2> QED
    BY <2>3, <2>4
<1>2. ASSUME NEW s \in Sender, insert_record_returns(s)
      PROVE  TInv'
  BY <1>2 DEF insert_record_returns, notify_one, receiver
<1>3. CASE loop_body
  BY <1>3 DEF loop_body, Call, sender, queueVars
<1>4. CASE flush_one
  <2>1. Head(out_queue) \in Message /\ Tail(out_queue) \in Seq(Message)
    BY <1>4 DEF flush_one, pop
  <2>2. dest' \in Seq(Level)
    BY <1>4, <2>1 DEF flush_one, write
  <2> QED
    BY <1>4, <2>1, <2>2 DEF flush_one, pop, sender
<1>5. CASE flush_all
  <2>1. CASE Call("try_receive") /\ UNCHANGED <<deamon, dest>>
    BY <1>5, <2>1 DEF flush_all, Call, sender
  <2>2. CASE pop /\ write(Head(out_queue)) /\ UNCHANGED deamon
    <3>1. Head(out_queue) \in Message /\ dest' \in Seq(Level)
      BY <2>2 DEF pop, write
    <3> QED
      BY <1>5, <2>2, <3>1 DEF flush_all, pop, sender
  <2>3. CASE turn_away /\ deamon' = "returned" /\ UNCHANGED dest
    BY <1>5, <2>3 DEF flush_all, turn_away, sender
  <2> QED
    BY <1>5, <2>1, <2>2, <2>3 DEF flush_all
<1>6. CASE receiving(swap)
  BY <1>6 DEF receiving, swap, needs_swap
<1>7. CASE receiving(sleep)
  BY <1>7 DEF receiving, sleep, needs_swap, sender, receiver
<1>8. CASE receiving(wake_up)
  BY <1>8 DEF receiving, wake_up, sender, receiver
<1>9. CASE stop
  BY <1>9 DEF stop, queueVars
<1>10. CASE stop_inserts
  BY <1>10 DEF stop_inserts, send, receiver
<1>11. CASE join
  BY <1>11 DEF join, queueVars
<1>12. CASE UNCHANGED vars
  BY <1>12 DEF vars, queueVars
<1> QED
  BY <1>1, <1>2, <1>3, <1>4, <1>5, <1>6, <1>7, <1>8, <1>9, <1>10, <1>11, <1>12
  DEF Next, loop, destructor

\* The variables keep their types, and the daemon is in no call but that which its
\* place in loop_body has.
THEOREM TypeCorrect == Spec => []TypeOK
<1>1. TInv => TypeOK
  BY DEF TInv
<1> QED
  BY <1>1, InitTInv, NextTInv, PTL DEF Spec

-----------------------------------------------------------------------------
(***************************************************************************)
(* How many records are owed.                                              *)
(***************************************************************************)

Owed(q, n) == {i \in DOMAIN q : i <= n /\ q[i] >= min_level}

LEMMA OwedIsFinite ==
    ASSUME NEW q \in Seq(Level), NEW n \in Nat
    PROVE  /\ IsFiniteSet(Owed(q, n))
           /\ Cardinality(Owed(q, n)) \in Nat
           /\ n <= Len(q) => Cardinality(Owed(q, n)) <= Cardinality(Owed(q, Len(q)))
<1>1. IsFiniteSet(1..Len(q)) /\ Owed(q, n) \subseteq 1..Len(q)
  BY FS_Interval DEF Owed
<1>2. IsFiniteSet(Owed(q, n)) /\ IsFiniteSet(Owed(q, Len(q)))
  <2>1. Owed(q, Len(q)) \subseteq 1..Len(q)
    BY DEF Owed
  <2> QED
    BY <1>1, <2>1, FS_Subset
<1>3. n <= Len(q) => Owed(q, n) \subseteq Owed(q, Len(q))
  BY DEF Owed
<1> QED
  BY <1>2, <1>3, FS_CardinalityType, FS_Subset

\* A call of _log adds one to what is owed if its level is not filtered out.
LEMMA OneMore ==
    ASSUME NEW q \in Seq(Level), NEW l \in Level
    PROVE  /\ \A n \in 0..Len(q) : Owed(Append(q, l), n) = Owed(q, n)
           /\ Cardinality(Owed(Append(q, l), Len(q) + 1))
                = Cardinality(Owed(q, Len(q))) + (IF l >= min_level THEN 1 ELSE 0)
<1> DEFINE p == Append(q, l)
           n == Len(q)
<1>1. /\ DOMAIN p = 1..(n + 1) /\ DOMAIN q = 1..n /\ n \in Nat
      /\ \A i \in 1..n : p[i] = q[i]
      /\ p[n + 1] = l
  OBVIOUS
<1> HIDE DEF p
<1>2. \A k \in 0..n : Owed(p, k) = Owed(q, k)
  BY <1>1 DEF Owed
<1>3. Owed(p, n + 1) = IF l >= min_level THEN Owed(q, n) \cup {n + 1} ELSE Owed(q, n)
  BY <1>1 DEF Owed
<1>4. n + 1 \notin Owed(q, n)
  BY <1>1 DEF Owed
<1>5. IsFiniteSet(Owed(q, n)) /\ Cardinality(Owed(q, n)) \in Nat
  BY OwedIsFinite
<1>6. Cardinality(Owed(q, n) \cup {n + 1}) = Cardinality(Owed(q, n)) + 1
  BY <1>4, <1>5, FS_AddElement
<1>7. Cardinality(Owed(p, n + 1)) = Cardinality(Owed(q, n)) + (IF l >= min_level THEN 1 ELSE 0)
  BY <1>3, <1>5, <1>6
<1> QED
  BY <1>2, <1>7 DEF p

-----------------------------------------------------------------------------
(***************************************************************************)
(* Where the marker is.                                                    *)
(***************************************************************************)

HasMarker(q) == \E i \in DOMAIN q : q[i] = Marker

OneMarker(q) == \A i, j \in DOMAIN q : q[i] = Marker /\ q[j] = Marker => i = j

LEMMA Pushed ==
    ASSUME NEW q \in Seq(Message), NEW m \in Message
    PROVE  /\ HasMarker(Append(q, m)) <=> HasMarker(q) \/ m = Marker
           /\ OneMarker(q) /\ (m = Marker => ~HasMarker(q)) => OneMarker(Append(q, m))
           /\ Len(Append(q, m)) = Len(q) + 1
<1> DEFINE p == Append(q, m)
           n == Len(q)
<1>1. /\ DOMAIN p = 1..(n + 1) /\ DOMAIN q = 1..n /\ n \in Nat /\ Len(p) = n + 1
      /\ \A i \in 1..n : p[i] = q[i]
      /\ p[n + 1] = m
  OBVIOUS
<1> HIDE DEF p, n
<1>2. \A i \in DOMAIN p : i \in 1..n \/ i = n + 1
  BY <1>1
<1>3. n + 1 \in DOMAIN p /\ \A i \in 1..n : i \in DOMAIN p
  BY <1>1
<1>4. HasMarker(p) <=> HasMarker(q) \/ m = Marker
  BY <1>1, <1>2, <1>3 DEF HasMarker
<1>5. OneMarker(q) /\ (m = Marker => ~HasMarker(q)) => OneMarker(p)
  BY <1>1, <1>2 DEF HasMarker, OneMarker
<1> QED
  BY <1>1, <1>4, <1>5 DEF p, n

LEMMA Popped ==
    ASSUME NEW q \in Seq(Message), q # <<>>
    PROVE  /\ HasMarker(q) <=> Head(q) = Marker \/ HasMarker(Tail(q))
           /\ OneMarker(q) =>
                 OneMarker(Tail(q)) /\ ~(Head(q) = Marker /\ HasMarker(Tail(q)))
           /\ Len(Tail(q)) = Len(q) - 1
           /\ Head(q) \in Message
<1> DEFINE p == Tail(q)
           n == Len(q)
<1>1. /\ DOMAIN p = 1..(n - 1) /\ DOMAIN q = 1..n /\ n \in Nat \ {0} /\ Len(p) = n - 1
      /\ \A i \in 1..(n - 1) : p[i] = q[i + 1]
      /\ Head(q) = q[1] /\ Head(q) \in Message
  OBVIOUS
<1> HIDE DEF p, n
<1>2. \A i \in 1..(n - 1) : i + 1 \in 1..n /\ i + 1 # 1
  BY <1>1
<1>3. HasMarker(q) <=> Head(q) = Marker \/ HasMarker(p)
  <2>1. \A i \in 1..n : i = 1 \/ (i - 1 \in 1..(n - 1) /\ (i - 1) + 1 = i)
    BY <1>1
  <2>2. ASSUME NEW i \in 1..n, q[i] = Marker, i # 1
        PROVE  HasMarker(p)
    <3>1. i - 1 \in 1..(n - 1) /\ p[i - 1] = q[i]
      BY <1>1, <2>1, <2>2
    <3> QED
      BY <1>1, <2>2, <3>1 DEF HasMarker
  <2>3. Head(q) = Marker \/ HasMarker(p) => HasMarker(q)
    BY <1>1, <1>2 DEF HasMarker
  <2> QED
    BY <1>1, <2>2, <2>3 DEF HasMarker
<1>4. OneMarker(q) => OneMarker(p)
  <2> SUFFICES ASSUME OneMarker(q), NEW i \in 1..(n - 1), NEW j \in 1..(n - 1),
                      p[i] = Marker, p[j] = Marker
               PROVE  i = j
    BY <1>1 DEF OneMarker
  <2>1. i + 1 = j + 1
    BY <1>1, <1>2 DEF OneMarker
  <2> QED
    BY <2>1
<1>5. OneMarker(q) => ~(Head(q) = Marker /\ HasMarker(p))
  BY <1>1, <1>2 DEF OneMarker, HasMarker
<1> QED
  BY <1>1, <1>3, <1>4, <1>5 DEF p, n

-----------------------------------------------------------------------------
(***************************************************************************)
(* The invariant.  What is owed is written, or in the queues, where there  *)
(* is the marker besides, from stop() until the daemon has skipped it.     *)
(***************************************************************************)

Markers ==
    /\ OneMarker(out_queue)
    /\ OneMarker(in_queue)
    /\ ~(HasMarker(out_queue) /\ HasMarker(in_queue))
    /\ ostate \in {"runs", "stop"} => ~HasMarker(out_queue) /\ ~HasMarker(in_queue)

Surplus(o, i) == IF HasMarker(o) \/ HasMarker(i) THEN 1 ELSE 0

Accounts ==
    Cardinality(Owed(logged, Len(logged)))
        = Len(dest) + Len(out_queue) + Len(in_queue) - Surplus(out_queue, in_queue)

Phases ==
    /\ done <=> ostate # "runs"
    /\ deamon \in {"flush_all", "returned"} => done
    /\ deamon = "returned" => Len(dest) >= Cardinality(Owed(logged, due))
    /\ ostate = "destroyed" => deamon = "returned"

IInv == TInv /\ Markers /\ Accounts /\ Phases

LEMMA InitIInv == Init => IInv
<1> SUFFICES ASSUME Init
             PROVE  IInv
  OBVIOUS
<1>1. TInv
  BY InitTInv
<1>2. DOMAIN in_queue = {} /\ DOMAIN out_queue = {} /\ DOMAIN logged = {}
  BY DEF Init, QueueInit
<1>3. Len(dest) = 0 /\ Len(in_queue) = 0 /\ Len(out_queue) = 0
  BY DEF Init, QueueInit
<1>4. Owed(logged, Len(logged)) = {}
  BY <1>2 DEF Owed
<1> QED
  BY <1>1, <1>2, <1>3, <1>4, FS_EmptySet
  DEF Init, IInv, Markers, Accounts, Phases, HasMarker, OneMarker, Surplus

LEMMA Types ==
    ASSUME IInv
    PROVE  /\ in_queue \in Seq(Message) /\ out_queue \in Seq(Message)
           /\ dest \in Seq(Level) /\ logged \in Seq(Level)
           /\ due \in Nat /\ due <= Len(logged)
  BY DEF IInv, TInv, TypeOK, QueueTypeOK

LEMMA LogStep ==
    ASSUME IInv, NEW t \in Thread, NEW level \in Level, _log(t, level)
    PROVE  Markers' /\ Accounts' /\ Phases'
<1>1. /\ logged' = Append(logged, level) /\ level \in Message /\ level # Marker
      /\ UNCHANGED <<done, deamon, ostate, dest, due>>
      /\ ostate # "destroyed"
  BY LoggingAssumption DEF _log, managerVars
<1>2. /\ \A n \in 0..Len(logged) : Owed(logged', n) = Owed(logged, n)
      /\ Cardinality(Owed(logged', Len(logged) + 1))
            = Cardinality(Owed(logged, Len(logged))) + (IF filter(level) THEN 1 ELSE 0)
      /\ Len(logged') = Len(logged) + 1
  BY <1>1, Types, OneMore DEF filter
<1>3. Phases'
  <2>1. Owed(logged', due') = Owed(logged, due)
    BY <1>1, <1>2, Types
  <2> QED
    BY <1>1, <2>1 DEF IInv, Phases
<1>4. Cardinality(Owed(logged, Len(logged))) \in Nat
  BY Types, OwedIsFinite
<1>5. CASE filter(level)
  <2>1. in_queue' = Append(in_queue, level) /\ UNCHANGED out_queue
    BY <1>5 DEF _log, send, receiver
  <2>2. /\ HasMarker(in_queue') <=> HasMarker(in_queue)
        /\ OneMarker(in_queue) => OneMarker(in_queue')
        /\ Len(in_queue') = Len(in_queue) + 1
    BY <1>1, <2>1, Types, Pushed
  <2>3. Markers'
    BY <1>1, <2>1, <2>2 DEF IInv, Markers, HasMarker, OneMarker
  <2>4. Surplus(out_queue', in_queue') = Surplus(out_queue, in_queue)
    BY <2>1, <2>2 DEF Surplus
  <2>5. Cardinality(Owed(logged', Len(logged'))) = Cardinality(Owed(logged, Len(logged))) + 1
    BY <1>2, <1>5
  <2>6. /\ Len(dest) \in Nat /\ Len(out_queue) \in Nat /\ Len(in_queue) \in Nat
        /\ Surplus(out_queue, in_queue) \in Nat
    BY Types DEF Surplus
  <2>7. Cardinality(Owed(logged', Len(logged')))
            = Len(dest) + Len(out_queue) + Len(in_queue') - Surplus(out_queue', in_queue')
    BY <1>4, <2>2, <2>4, <2>5, <2>6 DEF IInv, Accounts
  <2>8. Accounts'
    BY <1>1, <2>1, <2>7 DEF Accounts, Owed, Surplus, HasMarker
  <2> QED
    BY <1>3, <2>3, <2>8
<1>6. CASE ~filter(level)
  <2>1. UNCHANGED <<in_queue, out_queue>>
    BY <1>6 DEF _log, queueVars
  <2>2. Markers'
    BY <1>1, <2>1 DEF IInv, Markers, HasMarker, OneMarker
  <2>3. Cardinality(Owed(logged', Len(logged'))) = Cardinality(Owed(logged, Len(logged)))
    BY <1>2, <1>4, <1>6
  <2>4. Accounts'
    <3>1. Cardinality(Owed(logged', Len(logged')))
            = Len(dest) + Len(out_queue) + Len(in_queue) - Surplus(out_queue, in_queue)
      BY <2>3 DEF IInv, Accounts
    <3> QED
      BY <1>1, <2>1, <3>1 DEF Accounts, Owed, Surplus, HasMarker
  <2> QED
    BY <1>3, <2>2, <2>4
<1> QED
  BY <1>5, <1>6

\* The daemon takes a message, and writes it unless it is the marker.
LEMMA PopStep ==
    ASSUME IInv, pop, write(Head(out_queue)), UNCHANGED <<ostate, logged>>
    PROVE  Markers' /\ Accounts'
<1>1. /\ out_queue # <<>> /\ out_queue' = Tail(out_queue) /\ UNCHANGED in_queue
  BY DEF pop, sender
<1>2. /\ HasMarker(out_queue) <=> Head(out_queue) = Marker \/ HasMarker(out_queue')
      /\ OneMarker(out_queue) =>
             OneMarker(out_queue') /\ ~(Head(out_queue) = Marker /\ HasMarker(out_queue'))
      /\ Len(out_queue') = Len(out_queue) - 1
      /\ Head(out_queue) \in Message
  BY <1>1, Types, Popped
<1>3. Markers'
  BY <1>1, <1>2 DEF IInv, Markers, HasMarker, OneMarker
<1>4. Len(dest') = Len(dest) + (IF Head(out_queue) = Marker THEN 0 ELSE 1)
  BY <1>2, Types, LoggingAssumption DEF write
<1>5. Len(dest) \in Nat /\ Len(out_queue) \in Nat /\ Len(in_queue) \in Nat
  BY Types
<1>6. OneMarker(out_queue) /\ ~(HasMarker(out_queue) /\ HasMarker(in_queue))
  BY DEF IInv, Markers
<1>7. Surplus(out_queue', in_queue)
        = Surplus(out_queue, in_queue) - (IF Head(out_queue) = Marker THEN 1 ELSE 0)
  BY <1>2, <1>6 DEF Surplus
<1>8. Surplus(out_queue, in_queue) \in Nat
  BY DEF Surplus
<1>9. Cardinality(Owed(logged, Len(logged)))
        = Len(dest') + Len(out_queue') + Len(in_queue) - Surplus(out_queue', in_queue)
  BY <1>2, <1>4, <1>5, <1>7, <1>8 DEF IInv, Accounts
<1>10. Accounts'
  BY <1>1, <1>9 DEF Accounts, Owed, Surplus, HasMarker
<1> QED
  BY <1>3, <1>10

\* What a step has to leave alone for the accounts to stay as they are.
LEMMA Quiet ==
    ASSUME IInv, UNCHANGED <<in_queue, out_queue, dest, logged>>
    PROVE  /\ Accounts'
           /\ UNCHANGED ostate => Markers'
<1>1. Accounts'
  BY DEF IInv, Accounts, Owed, Surplus, HasMarker
<1>2. UNCHANGED ostate => Markers'
  BY DEF IInv, Markers, OneMarker, HasMarker
<1> QED
  BY <1>1, <1>2

LEMMA SamePhases ==
    ASSUME IInv, UNCHANGED <<done, deamon, ostate, dest, logged, due>>
    PROVE  Phases'
  BY DEF IInv, Phases, Owed

LEMMA SwapStep == ASSUME IInv, swap, UNCHANGED <<ostate, dest, logged>> PROVE Markers' /\ Accounts'
<1>1. out_queue = <<>> /\ out_queue' = in_queue /\ in_queue' = out_queue
  BY DEF swap, needs_swap
<1>2. ~HasMarker(out_queue) /\ ~HasMarker(in_queue') /\ Len(in_queue') = Len(out_queue)
  BY <1>1 DEF HasMarker
<1>3. Markers'
  BY <1>1, <1>2 DEF IInv, Markers, HasMarker, OneMarker
<1>4. Surplus(out_queue', in_queue') = Surplus(out_queue, in_queue)
  BY <1>1, <1>2 DEF Surplus
<1>5. /\ Len(out_queue) \in Nat /\ Len(in_queue) \in Nat /\ Len(dest) \in Nat
      /\ Len(out_queue') = Len(in_queue)
  BY <1>1, Types
<1>6. Cardinality(Owed(logged, Len(logged)))
        = Len(dest) + Len(out_queue') + Len(in_queue') - Surplus(out_queue', in_queue')
  <2>1. Surplus(out_queue, in_queue) \in Nat
    BY DEF Surplus
  <2>2. Cardinality(Owed(logged, Len(logged)))
            = Len(dest) + Len(out_queue) + Len(in_queue) - Surplus(out_queue, in_queue)
    BY DEF IInv, Accounts
  <2>3. \A d, o, i, x \in Nat : d + o + i - x = d + i + o - x
    OBVIOUS
  <2>4. Cardinality(Owed(logged, Len(logged)))
            = Len(dest) + Len(in_queue) + Len(out_queue) - Surplus(out_queue, in_queue)
    BY <1>5, <2>1, <2>2, <2>3
  <2> QED
    BY <1>2, <1>4, <1>5, <2>4
<1>7. Accounts'
  BY <1>6 DEF Accounts, Owed, Surplus, HasMarker
<1> QED
  BY <1>3, <1>7

LEMMA InsertStep == ASSUME IInv, stop_inserts PROVE Markers' /\ Accounts' /\ Phases'
<1>1. /\ in_queue' = Append(in_queue, Marker) /\ Marker \in Message
      /\ UNCHANGED <<out_queue, done, deamon, dest, logged, due>>
      /\ ostate = "stop" /\ ostate' = "join"
  BY LoggingAssumption DEF stop_inserts, send, receiver, logVars
<1>2. /\ HasMarker(in_queue') /\ ~HasMarker(in_queue) /\ ~HasMarker(out_queue)
      /\ OneMarker(in_queue') /\ OneMarker(out_queue)
      /\ Len(in_queue') = Len(in_queue) + 1
  BY <1>1, Types, Pushed DEF IInv, Markers
<1>3. Markers'
  BY <1>1, <1>2 DEF Markers, HasMarker, OneMarker
<1>4. Surplus(out_queue, in_queue) = 0 /\ Surplus(out_queue', in_queue') = 1
  BY <1>1, <1>2 DEF Surplus
<1>5. Len(out_queue) \in Nat /\ Len(in_queue) \in Nat /\ Len(dest) \in Nat
  BY Types
<1>6. Cardinality(Owed(logged, Len(logged)))
        = Len(dest) + Len(out_queue) + Len(in_queue') - Surplus(out_queue', in_queue')
  BY <1>2, <1>4, <1>5 DEF IInv, Accounts
<1>7. Accounts'
  BY <1>1, <1>6 DEF Accounts, Owed, Surplus, HasMarker
<1>8. Phases'
  BY <1>1 DEF IInv, Phases, Owed
<1> QED
  BY <1>3, <1>7, <1>8

\* try_receive has found both queues empty: all that is owed is written.
LEMMA TurnAwayStep ==
    ASSUME IInv, turn_away, deamon' = "returned", UNCHANGED <<done, ostate, dest, logged, due>>,
           deamon = "flush_all"
    PROVE  Phases'
<1>1. Len(out_queue) = 0 /\ Len(in_queue) = 0 /\ DOMAIN in_queue = {} /\ DOMAIN out_queue = {}
  BY DEF turn_away, needs_swap
<1>2. Surplus(out_queue, in_queue) = 0
  BY <1>1 DEF Surplus, HasMarker
<1>3. Len(dest) \in Nat
  BY Types
<1>4. Cardinality(Owed(logged, Len(logged))) = Len(dest)
  BY <1>1, <1>2, <1>3 DEF IInv, Accounts
<1>5. Cardinality(Owed(logged, due)) <= Len(dest) /\ Cardinality(Owed(logged, due)) \in Nat
  BY <1>4, Types, OwedIsFinite
<1> QED
  BY <1>3, <1>5 DEF IInv, Phases, Owed

LEMMA NextIInv == IInv /\ [Next]_vars => IInv'
<1> SUFFICES ASSUME IInv, [Next]_vars
             PROVE  Markers' /\ Accounts' /\ Phases'
  BY NextTInv DEF IInv
<1>1. ASSUME NEW t \in Thread, NEW level \in Level, _log(t, level)
      PROVE  Markers' /\ Accounts' /\ Phases'
  BY <1>1, LogStep
<1>2. ASSUME NEW s \in Sender, insert_record_returns(s)
      PROVE  Markers' /\ Accounts' /\ Phases'
  BY <1>2, Quiet, SamePhases
  DEF insert_record_returns, notify_one, receiver, managerVars, logVars
<1>3. CASE loop_body
  <2>1. UNCHANGED <<in_queue, out_queue, done, ostate, dest, logged, due>>
    BY <1>3 DEF loop_body, Call, sender, queueVars, logVars
  <2>2. deamon = "loop" /\ deamon' = IF done THEN "flush_all" ELSE "flush_one"
    BY <1>3 DEF loop_body
  <2>3. Phases'
    BY <2>1, <2>2 DEF IInv, Phases
  <2> QED
    BY <2>1, <2>3, Quiet
<1>4. CASE flush_one
  <2>1. Phases'
    BY <1>4 DEF flush_one, IInv, Phases, Owed
  <2> QED
    BY <1>4, <2>1, PopStep DEF flush_one
<1>5. CASE flush_all
  <2>1. CASE Call("try_receive") /\ UNCHANGED <<deamon, dest>>
    BY <1>5, <2>1, Quiet, SamePhases DEF flush_all, Call, sender
  <2>2. CASE pop /\ write(Head(out_queue)) /\ UNCHANGED deamon
    <3>1. Phases'
      BY <1>5, <2>2 DEF flush_all, IInv, Phases, Owed
    <3> QED
      BY <1>5, <2>2, <3>1, PopStep DEF flush_all
  <2>3. CASE turn_away /\ deamon' = "returned" /\ UNCHANGED dest
    BY <1>5, <2>3, TurnAwayStep, Quiet DEF flush_all, turn_away, sender
  <2> QED
    BY <1>5, <2>1, <2>2, <2>3 DEF flush_all
<1>6. CASE receiving(swap)
  BY <1>6, SwapStep, SamePhases DEF receiving, managerVars, logVars
<1>7. CASE receiving(sleep) \/ receiving(wake_up)
  BY <1>7, Quiet, SamePhases
  DEF receiving, sleep, wake_up, sender, receiver, managerVars, logVars
<1>8. CASE stop
  <2>1. UNCHANGED <<in_queue, out_queue, deamon, dest, logged>>
    BY <1>8 DEF stop, queueVars
  <2>2. ostate = "runs" /\ ostate' = "stop" /\ done' = TRUE /\ deamon # "returned"
    BY <1>8 DEF stop, IInv, Phases
  <2>3. Markers'
    BY <2>1, <2>2 DEF IInv, Markers, HasMarker, OneMarker
  <2>4. Phases'
    BY <2>1, <2>2 DEF Phases
  <2> QED
    BY <2>1, <2>3, <2>4, Quiet
<1>9. CASE stop_inserts
  BY <1>9, InsertStep
<1>10. CASE join
  <2>1. UNCHANGED <<in_queue, out_queue, done, deamon, dest, logged, due>>
    BY <1>10 DEF join, queueVars, logVars
  <2>2. ostate = "join" /\ ostate' = "destroyed" /\ deamon = "returned"
    BY <1>10 DEF join
  <2>3. Markers'
    BY <2>1, <2>2 DEF IInv, Markers, HasMarker, OneMarker
  <2>4. Phases'
    BY <2>1, <2>2 DEF IInv, Phases, Owed
  <2> QED
    BY <2>1, <2>3, <2>4, Quiet
<1>11. CASE UNCHANGED vars
  BY <1>11, Quiet, SamePhases DEF vars, queueVars, managerVars, logVars
<1> QED
  BY <1>1, <1>2, <1>3, <1>4, <1>5, <1>6, <1>7, <1>8, <1>9, <1>10, <1>11
  DEF Next, loop, destructor

\* Every reachable state satisfies the invariant.
THEOREM Invariance == Spec => []IInv
  BY InitIInv, NextIInv, PTL DEF Spec

\* When the manager is destroyed, everything that was logged before stop() and is not
\* filtered out is written.
THEOREM Drains == Spec => []StopDrains
<1>1. IInv => StopDrains
  BY DEF IInv, Phases, StopDrains, owed, Owed
<1> QED
  BY <1>1, Invariance, PTL

-----------------------------------------------------------------------------
(***************************************************************************)
(* Queued messages without the marker.                                     *)
(***************************************************************************)

\* What is left when message k is taken out of q.
Without(q, k) == SubSeq(q, 1, k - 1) \o SubSeq(q, k + 1, Len(q))

LEMMA WithoutElements ==
    ASSUME NEW q \in Seq(Message), NEW k \in DOMAIN q
    PROVE  /\ Without(q, k) \in Seq(Message)
           /\ Len(Without(q, k)) = Len(q) - 1
           /\ \A j \in 1..(Len(q) - 1) : Without(q, k)[j] = IF j < k THEN q[j] ELSE q[j + 1]
<1> DEFINE n == Len(q)
           a == SubSeq(q, 1, k - 1)
           b == SubSeq(q, k + 1, n)
<1>1. n \in Nat /\ k \in 1..n /\ DOMAIN q = 1..n
  OBVIOUS
<1>2. /\ a \in Seq(Message) /\ Len(a) = k - 1
      /\ \A j \in 1..(k - 1) : a[j] = q[j]
  <2>1. \A j \in 1..(k - 1) : j \in 1..n
    BY <1>1
  <2>2. a \in Seq(Message) /\ Len(a) = k - 1
    BY <1>1, <2>1
  <2>3. \A j \in 1..(k - 1) : a[j] = q[j]
    BY <1>1
  <2> QED
    BY <2>2, <2>3
<1>3. /\ b \in Seq(Message) /\ Len(b) = n - k
      /\ \A j \in 1..(n - k) : b[j] = q[j + k]
  <2>1. \A j \in (k + 1)..n : j \in 1..n
    BY <1>1
  <2>2. b \in Seq(Message) /\ Len(b) = n - k
    BY <1>1, <2>1
  <2>3. \A j \in 1..(n - k) : b[j] = q[j + k]
    BY <1>1
  <2> QED
    BY <2>2, <2>3
<1> HIDE DEF a, b, n
<1>4. /\ a \o b \in Seq(Message) /\ Len(a \o b) = n - 1
      /\ \A j \in 1..(n - 1) : (a \o b)[j] = IF j <= k - 1 THEN a[j] ELSE b[j - (k - 1)]
  <2>1. /\ a \o b \in Seq(Message) /\ Len(a \o b) = Len(a) + Len(b)
        /\ \A j \in 1..(Len(a) + Len(b)) :
              (a \o b)[j] = IF j <= Len(a) THEN a[j] ELSE b[j - Len(a)]
    BY <1>2, <1>3, ConcatProperties
  <2>2. Len(a) + Len(b) = n - 1
    BY <1>1, <1>2, <1>3
  <2> QED
    BY <1>2, <2>1, <2>2
<1>5. ASSUME NEW j \in 1..(n - 1)
      PROVE  (a \o b)[j] = IF j < k THEN q[j] ELSE q[j + 1]
  <2>1. CASE j < k
    <3>1. j \in 1..(k - 1)
      BY <1>1, <2>1
    <3> QED
      BY <1>1, <1>2, <1>4, <2>1, <3>1
  <2>2. CASE ~(j < k)
    <3>1. j - (k - 1) \in 1..(n - k) /\ (j - (k - 1)) + k = j + 1 /\ ~(j <= k - 1)
      BY <1>1, <2>2
    <3>2. (a \o b)[j] = b[j - (k - 1)]
      BY <1>4, <3>1
    <3> QED
      BY <1>3, <2>2, <3>1, <3>2
  <2> QED
    BY <2>1, <2>2
<1> QED
  BY <1>4, <1>5 DEF Without, a, b, n

LEMMA RecordsAre ==
    ASSUME NEW q \in Seq(Message), OneMarker(q)
    PROVE  /\ ~HasMarker(q) => records(q) = q
           /\ \A k \in DOMAIN q : q[k] = Marker => records(q) = Without(q, k)
<1>1. ~HasMarker(q) => records(q) = q
  BY DEF records, HasMarker
<1>2. ASSUME NEW k \in DOMAIN q, q[k] = Marker
      PROVE  records(q) = Without(q, k)
  <2> DEFINE x == CHOOSE x \in DOMAIN q : q[x] = Marker
  <2>1. x \in DOMAIN q /\ q[x] = Marker
    BY <1>2
  <2>2. x = k
    BY <1>2, <2>1 DEF OneMarker
  <2>3. records(q) = Without(q, x)
    BY <1>2 DEF records, Without
  <2> QED
    BY <2>2, <2>3
<1> QED
  BY <1>1, <1>2

LEMMA RecordsType ==
    ASSUME NEW q \in Seq(Message), OneMarker(q)
    PROVE  records(q) \in Seq(Level)
<1>1. DOMAIN q = 1..Len(q) /\ Len(q) \in Nat
  OBVIOUS
<1>2. \A m \in Message : m # Marker => m \in Level
  BY LoggingAssumption
<1>3. CASE ~HasMarker(q)
  <2>1. \A i \in 1..Len(q) : q[i] \in Level
    <3> SUFFICES ASSUME NEW i \in 1..Len(q)
                 PROVE  q[i] \in Level
      OBVIOUS
    <3>1. q[i] \in Message /\ q[i] # Marker
      BY <1>1, <1>3 DEF HasMarker
    <3> QED
      BY <1>2, <3>1
  <2>2. q \in [1..Len(q) -> Level]
    BY <1>1, <2>1
  <2>3. records(q) = q
    BY <1>3, RecordsAre
  <2>4. q \in Seq(Level)
    BY <1>1, <2>2, SeqDef
  <2> QED
    BY <2>3, <2>4
<1>4. CASE HasMarker(q)
  <2>1. PICK k \in DOMAIN q : q[k] = Marker
    BY <1>4 DEF HasMarker
  <2> DEFINE r == Without(q, k)
             n == Len(q)
  <2>2. /\ r \in Seq(Message) /\ Len(r) = n - 1
        /\ \A j \in 1..(n - 1) : r[j] = IF j < k THEN q[j] ELSE q[j + 1]
    BY WithoutElements
  <2> HIDE DEF r
  <2>3. ASSUME NEW j \in 1..(n - 1)
        PROVE  r[j] \in Level
    <3>1. \A i \in 1..n : i # k => q[i] \in Message /\ q[i] # Marker
      BY <1>1, <2>1 DEF OneMarker
    <3>2. CASE j < k
      <4>1. j \in 1..n /\ j # k
        BY <1>1, <3>2
      <4> QED
        BY <1>2, <2>2, <3>1, <3>2, <4>1
    <3>3. CASE ~(j < k)
      <4>1. j + 1 \in 1..n /\ j + 1 # k
        BY <1>1, <3>3
      <4> QED
        BY <1>2, <2>2, <3>1, <3>3, <4>1
    <3> QED
      BY <3>2, <3>3
  <2>4. r \in [1..(n - 1) -> Level] /\ n - 1 \in Nat
    <3>1. DOMAIN r = 1..(n - 1) /\ Len(r) \in Nat /\ r = [j \in 1..(n - 1) |-> r[j]]
      BY <2>2
    <3> QED
      BY <2>2, <2>3, <3>1
  <2>5. r \in Seq(Level)
    BY <2>4, SeqDef
  <2> QED
    BY <2>1, <2>5, RecordsAre DEF r
<1> QED
  BY <1>3, <1>4

LEMMA WithoutAppend ==
    ASSUME NEW q \in Seq(Message), NEW m \in Message
    PROVE  /\ \A k \in DOMAIN q : Without(Append(q, m), k) = Append(Without(q, k), m)
           /\ Without(Append(q, m), Len(q) + 1) = q
<1> DEFINE p == Append(q, m)
           n == Len(q)
<1>1. n \in Nat /\ DOMAIN q = 1..n
  OBVIOUS
<1>2. /\ p \in Seq(Message) /\ Len(p) = n + 1 /\ DOMAIN p = 1..(n + 1)
      /\ \A j \in 1..n : p[j] = q[j]
      /\ p[n + 1] = m
  OBVIOUS
<1> HIDE DEF p, n
<1>3. ASSUME NEW k \in 1..n
      PROVE  Without(p, k) = Append(Without(q, k), m)
  <2> DEFINE r == Without(q, k)
             t == Without(p, k)
             u == Append(r, m)
  <2>1. /\ r \in Seq(Message) /\ Len(r) = n - 1
        /\ \A j \in 1..(n - 1) : r[j] = IF j < k THEN q[j] ELSE q[j + 1]
    BY <1>1, <1>3, WithoutElements DEF n
  <2>2. /\ t \in Seq(Message) /\ Len(t) = (n + 1) - 1
        /\ \A j \in 1..((n + 1) - 1) : t[j] = IF j < k THEN p[j] ELSE p[j + 1]
    <3>1. k \in DOMAIN p
      BY <1>1, <1>2, <1>3
    <3> QED
      BY <1>2, <3>1, WithoutElements
  <2> HIDE DEF r, t
  <2>3. /\ u \in Seq(Message) /\ Len(u) = n /\ u[n] = m
        /\ \A j \in 1..(n - 1) : u[j] = r[j]
    BY <1>1, <2>1
  <2> HIDE DEF u
  <2>4. (n + 1) - 1 = n
    BY <1>1
  <2>5. ASSUME NEW j \in 1..n
        PROVE  t[j] = u[j]
    <3>1. CASE j = n
      <4>1. ~(j < k) /\ j \in 1..((n + 1) - 1)
        BY <1>1, <1>3, <3>1
      <4> QED
        BY <1>2, <2>2, <2>3, <3>1, <4>1
    <3>2. CASE j # n
      <4>1. j \in 1..(n - 1) /\ j + 1 \in 1..n /\ j \in 1..((n + 1) - 1)
        BY <1>1, <3>2
      <4>2. u[j] = IF j < k THEN q[j] ELSE q[j + 1]
        BY <2>1, <2>3, <4>1
      <4>3. t[j] = IF j < k THEN p[j] ELSE p[j + 1]
        BY <2>2, <4>1
      <4> QED
        BY <1>2, <4>1, <4>2, <4>3
    <3> QED
      BY <3>1, <3>2
  <2>6. t = u
    BY <2>2, <2>3, <2>4, <2>5, SeqEqual
  <2> QED
    BY <2>6 DEF r, t, u
<1>4. Without(p, n + 1) = q
  <2> DEFINE t == Without(p, n + 1)
  <2>1. n + 1 \in DOMAIN p /\ (n + 1) - 1 = n
    BY <1>1, <1>2
  <2>2. /\ t \in Seq(Message) /\ Len(t) = (n + 1) - 1
        /\ \A j \in 1..((n + 1) - 1) : t[j] = IF j < n + 1 THEN p[j] ELSE p[j + 1]
    BY <1>2, <2>1, WithoutElements
  <2> HIDE DEF t
  <2>3. \A j \in 1..n : t[j] = q[j]
    BY <1>1, <1>2, <2>1, <2>2
  <2>4. t = q
    BY <2>1, <2>2, <2>3, SeqEqual DEF n
  <2> QED
    BY <2>4 DEF t
<1> QED
  BY <1>1, <1>3, <1>4 DEF p, n

LEMMA WithoutHead ==
    ASSUME NEW q \in Seq(Message), q # <<>>
    PROVE  /\ Without(q, 1) = Tail(q)
           /\ \A k \in DOMAIN Tail(q) : Without(q, k + 1) = <<Head(q)>> \o Without(Tail(q), k)
<1> DEFINE p == Tail(q)
           n == Len(q)
           h == <<Head(q)>>
<1>1. n \in Nat \ {0} /\ DOMAIN q = 1..n
  OBVIOUS
<1>2. /\ p \in Seq(Message) /\ Len(p) = n - 1 /\ DOMAIN p = 1..(n - 1)
      /\ \A j \in 1..(n - 1) : p[j] = q[j + 1]
      /\ h \in Seq(Message) /\ Len(h) = 1 /\ h[1] = q[1]
  BY HeadTailProperties
<1> HIDE DEF p, n, h
<1>3. Without(q, 1) = p
  <2> DEFINE t == Without(q, 1)
  <2>1. 1 \in DOMAIN q
    BY <1>1
  <2>2. /\ t \in Seq(Message) /\ Len(t) = n - 1
        /\ \A j \in 1..(n - 1) : t[j] = IF j < 1 THEN q[j] ELSE q[j + 1]
    BY <2>1, WithoutElements DEF n
  <2> HIDE DEF t
  <2>3. \A j \in 1..(n - 1) : t[j] = p[j]
    BY <1>1, <1>2, <2>2
  <2>4. t = p
    BY <1>2, <2>2, <2>3, SeqEqual
  <2> QED
    BY <2>4 DEF t
<1>4. ASSUME NEW k \in 1..(n - 1)
      PROVE  Without(q, k + 1) = h \o Without(p, k)
  <2> DEFINE r == Without(p, k)
             t == Without(q, k + 1)
             u == h \o r
  <2>1. /\ r \in Seq(Message) /\ Len(r) = (n - 1) - 1
        /\ \A j \in 1..((n - 1) - 1) : r[j] = IF j < k THEN p[j] ELSE p[j + 1]
    <3>1. k \in DOMAIN p
      BY <1>2, <1>4
    <3> QED
      BY <1>2, <3>1, WithoutElements
  <2>2. k + 1 \in DOMAIN q
    BY <1>1, <1>4
  <2>3. /\ t \in Seq(Message) /\ Len(t) = n - 1
        /\ \A j \in 1..(n - 1) : t[j] = IF j < k + 1 THEN q[j] ELSE q[j + 1]
    BY <2>2, WithoutElements DEF n
  <2> HIDE DEF r, t
  <2>4. /\ u \in Seq(Message) /\ Len(u) = Len(h) + Len(r)
        /\ \A j \in 1..(Len(h) + Len(r)) : u[j] = IF j <= Len(h) THEN h[j] ELSE r[j - Len(h)]
    <3>1. h \in Seq(Message) /\ r \in Seq(Message)
      BY <1>2, <2>1
    <3> QED
      BY <3>1, ConcatProperties
  <2> HIDE DEF u
  <2>5. Len(h) + Len(r) = n - 1
    BY <1>1, <1>2, <2>1
  <2>6. ASSUME NEW j \in 1..(n - 1)
        PROVE  t[j] = u[j]
    <3>1. u[j] = IF j <= 1 THEN h[j] ELSE r[j - 1]
      BY <1>2, <2>4, <2>5
    <3>2. t[j] = IF j < k + 1 THEN q[j] ELSE q[j + 1]
      BY <2>3
    <3>3. CASE j = 1
      <4>1. j < k + 1
        BY <1>1, <1>4, <3>3
      <4> QED
        BY <1>2, <3>1, <3>2, <3>3, <4>1
    <3>4. CASE j # 1
      <4>1. /\ j - 1 \in 1..((n - 1) - 1) /\ ~(j <= 1)
            /\ j - 1 \in 1..(n - 1) /\ (j - 1) + 1 \in 1..(n - 1) /\ (j - 1) + 1 = j
            /\ (j - 1 < k <=> j < k + 1)
        BY <1>1, <1>4, <3>4
      <4>2. u[j] = IF j - 1 < k THEN p[j - 1] ELSE p[j]
        BY <2>1, <3>1, <4>1
      <4> QED
        BY <1>2, <3>2, <4>1, <4>2
    <3> QED
      BY <3>3, <3>4
  <2>7. t = u
    BY <2>3, <2>4, <2>5, <2>6, SeqEqual
  <2> QED
    BY <2>7 DEF r, t, u
<1> QED
  BY <1>2, <1>3, <1>4 DEF p, h

\* A message goes into the queue.
LEMMA RecordsPushed ==
    ASSUME NEW q \in Seq(Message), NEW m \in Message, OneMarker(Append(q, m))
    PROVE  records(Append(q, m)) = IF m = Marker THEN records(q) ELSE Append(records(q), m)
<1> DEFINE p == Append(q, m)
           n == Len(q)
<1>1. /\ p \in Seq(Message) /\ n \in Nat /\ DOMAIN q = 1..n /\ DOMAIN p = 1..(n + 1)
      /\ \A j \in 1..n : p[j] = q[j]
      /\ p[n + 1] = m /\ n + 1 \in DOMAIN p /\ \A j \in 1..n : j \in DOMAIN p /\ j # n + 1
  OBVIOUS
<1>2. HasMarker(p) <=> HasMarker(q) \/ m = Marker
  BY Pushed
<1>3. /\ \A k \in DOMAIN q : Without(p, k) = Append(Without(q, k), m)
      /\ Without(p, n + 1) = q
  BY WithoutAppend
<1> HIDE DEF p, n
<1>4. OneMarker(q) /\ OneMarker(p)
  BY <1>1 DEF OneMarker, p
<1>5. CASE m = Marker
  <2>1. ~HasMarker(q)
    BY <1>1, <1>4, <1>5 DEF HasMarker, OneMarker
  <2>2. records(p) = Without(p, n + 1)
    BY <1>1, <1>4, <1>5, RecordsAre
  <2>3. records(q) = q
    BY <1>4, <2>1, RecordsAre
  <2> QED
    BY <1>3, <1>5, <2>2, <2>3 DEF p
<1>6. CASE m # Marker /\ HasMarker(q)
  <2>1. PICK k \in DOMAIN q : q[k] = Marker
    BY <1>6 DEF HasMarker
  <2>2. k \in DOMAIN p /\ p[k] = Marker
    BY <1>1, <2>1
  <2>3. records(p) = Without(p, k) /\ records(q) = Without(q, k)
    BY <1>1, <1>4, <2>1, <2>2, RecordsAre
  <2> QED
    BY <1>3, <1>6, <2>3 DEF p
<1>7. CASE m # Marker /\ ~HasMarker(q)
  <2>1. records(p) = p /\ records(q) = q
    BY <1>1, <1>2, <1>4, <1>7, RecordsAre
  <2> QED
    BY <1>7, <2>1 DEF p
<1> QED
  BY <1>5, <1>6, <1>7

\* A message is taken from the queue.
LEMMA RecordsPopped ==
    ASSUME NEW q \in Seq(Message), q # <<>>, OneMarker(q)
    PROVE  records(q) = IF Head(q) = Marker THEN records(Tail(q))
                        ELSE <<Head(q)>> \o records(Tail(q))
<1> DEFINE p == Tail(q)
           n == Len(q)
           h == Head(q)
<1>1. /\ p \in Seq(Message) /\ n \in Nat \ {0} /\ DOMAIN q = 1..n
      /\ Len(p) = n - 1 /\ DOMAIN p = 1..(n - 1)
      /\ \A j \in 1..(n - 1) : p[j] = q[j + 1] /\ j + 1 \in 1..n /\ j + 1 # 1
      /\ h = q[1] /\ 1 \in DOMAIN q /\ h \in Message
  BY HeadTailProperties
<1>2. /\ HasMarker(q) <=> h = Marker \/ HasMarker(p)
      /\ OneMarker(p) /\ ~(h = Marker /\ HasMarker(p))
  BY Popped
<1>3. /\ Without(q, 1) = p
      /\ \A k \in DOMAIN p : Without(q, k + 1) = <<h>> \o Without(p, k)
  BY WithoutHead
<1>4. <<h>> \o p = q
  <2> DEFINE f == <<h>>
             u == f \o p
  <2>1. f \in Seq(Message) /\ Len(f) = 1 /\ f[1] = h
    BY <1>1
  <2> HIDE DEF h, p, f
  <2>2. /\ u \in Seq(Message) /\ Len(u) = Len(f) + Len(p)
        /\ \A j \in 1..(Len(f) + Len(p)) :
              u[j] = IF j <= Len(f) THEN f[j] ELSE p[j - Len(f)]
    <3>1. f \in Seq(Message) /\ p \in Seq(Message)
      BY <1>1, <2>1
    <3> QED
      BY <3>1, ConcatProperties
  <2>3. Len(f) + Len(p) = n
    BY <1>1, <2>1
  <2> HIDE DEF u, n
  <2>4. ASSUME NEW j \in 1..n
        PROVE  u[j] = q[j]
    <3>1. u[j] = IF j <= 1 THEN f[j] ELSE p[j - 1]
      BY <2>1, <2>2, <2>3
    <3>2. CASE j = 1
      BY <1>1, <2>1, <3>1, <3>2
    <3>3. CASE j # 1
      <4>1. j - 1 \in 1..(n - 1) /\ (j - 1) + 1 = j /\ ~(j <= 1)
        BY <1>1, <3>3
      <4> QED
        BY <1>1, <3>1, <4>1
    <3> QED
      BY <3>2, <3>3
  <2>5. u = q
    BY <2>2, <2>3, <2>4, SeqEqual DEF n
  <2> QED
    BY <2>5 DEF u, f
<1> HIDE DEF p, n, h
<1>5. CASE h = Marker
  <2>1. records(p) = p
    BY <1>1, <1>2, <1>5, RecordsAre
  <2>2. records(q) = Without(q, 1)
    BY <1>1, <1>5, RecordsAre
  <2> QED
    BY <1>3, <1>5, <2>1, <2>2 DEF p, h
<1>6. CASE h # Marker /\ HasMarker(p)
  <2>1. PICK k \in DOMAIN p : p[k] = Marker
    BY <1>6 DEF HasMarker
  <2>2. k + 1 \in DOMAIN q /\ q[k + 1] = Marker
    BY <1>1, <2>1
  <2>3. records(q) = Without(q, k + 1)
    BY <2>2, RecordsAre
  <2>4. records(p) = Without(p, k)
    BY <1>1, <1>2, <2>1, RecordsAre
  <2> QED
    BY <1>3, <1>6, <2>1, <2>3, <2>4 DEF p, h
<1>7. CASE h # Marker /\ ~HasMarker(p)
  <2>1. records(p) = p /\ records(q) = q
    BY <1>1, <1>2, <1>7, RecordsAre
  <2> QED
    BY <1>4, <1>7, <2>1 DEF p, h
<1> QED
  BY <1>5, <1>6, <1>7 DEF p, h

-----------------------------------------------------------------------------
(***************************************************************************)
(* What is written and queued is what is owed, in its order.               *)
(***************************************************************************)

queued == out_queue \o in_queue

kept == dest \o records(queued)

LEMMA QueuedType ==
    ASSUME IInv
    PROVE  /\ queued \in Seq(Message) /\ OneMarker(queued)
           /\ records(queued) \in Seq(Level) /\ kept \in Seq(Level)
<1> DEFINE n == Len(out_queue)
           k == Len(in_queue)
<1>1. /\ out_queue \in Seq(Message) /\ in_queue \in Seq(Message) /\ dest \in Seq(Level)
      /\ n \in Nat /\ k \in Nat /\ DOMAIN out_queue = 1..n /\ DOMAIN in_queue = 1..k
  BY Types
<1>2. /\ queued \in Seq(Message) /\ Len(queued) = n + k
      /\ \A j \in 1..(n + k) : queued[j] = IF j <= n THEN out_queue[j] ELSE in_queue[j - n]
  BY <1>1, ConcatProperties DEF queued
<1> HIDE DEF n, k
<1>3. OneMarker(queued)
  <2>1. DOMAIN queued = 1..(n + k)
    BY <1>1, <1>2
  <2>2. ASSUME NEW j \in 1..(n + k), queued[j] = Marker
        PROVE  \/ j \in 1..n /\ out_queue[j] = Marker
               \/ j - n \in 1..k /\ in_queue[j - n] = Marker /\ ~(j <= n)
    <3>1. j \in 1..n \/ (j - n \in 1..k /\ ~(j <= n))
      BY <1>1
    <3>2. j \in 1..n => j <= n
      BY <1>1
    <3> QED
      BY <1>2, <2>2, <3>1, <3>2
  <2>3. OneMarker(out_queue) /\ OneMarker(in_queue) /\ ~(HasMarker(out_queue) /\ HasMarker(in_queue))
    BY DEF IInv, Markers
  <2>4. ASSUME NEW i \in 1..(n + k), NEW j \in 1..(n + k), queued[i] = Marker, queued[j] = Marker
        PROVE  i = j
    <3>1. /\ \/ i \in 1..n /\ out_queue[i] = Marker
             \/ i - n \in 1..k /\ in_queue[i - n] = Marker
          /\ \/ j \in 1..n /\ out_queue[j] = Marker
             \/ j - n \in 1..k /\ in_queue[j - n] = Marker
      BY <2>2, <2>4
    <3>2. (i \in 1..n /\ j \in 1..n) \/ i - n = j - n
      BY <1>1, <2>3, <3>1 DEF OneMarker, HasMarker
    <3>3. i - n = j - n => i = j
      BY <1>1
    <3>4. CASE i \in 1..n /\ j \in 1..n
      <4>1. out_queue[i] = Marker /\ out_queue[j] = Marker
        BY <1>1, <1>2, <2>4, <3>4
      <4> QED
        BY <1>1, <2>3, <3>4, <4>1 DEF OneMarker
    <3> QED
      BY <3>2, <3>3, <3>4
  <2> QED
    BY <2>1, <2>4 DEF OneMarker
<1>4. records(queued) \in Seq(Level)
  BY <1>2, <1>3, RecordsType
<1> QED
  BY <1>1, <1>2, <1>3, <1>4, ConcatProperties DEF kept

LEMMA TailOfConcat ==
    ASSUME NEW q \in Seq(Message), q # <<>>, NEW p \in Seq(Message)
    PROVE  /\ Tail(q) \o p = Tail(q \o p)
           /\ Head(q \o p) = Head(q) /\ q \o p # <<>> /\ q \o p \in Seq(Message)
<1> DEFINE u == q \o p
           t == Tail(q)
<1>1. /\ t \in Seq(Message) /\ Len(t) = Len(q) - 1
      /\ \A i \in 1..Len(t) : t[i] = q[i + 1]
  BY HeadTailProperties
<1>2. /\ u \in Seq(Message) /\ Len(u) = Len(q) + Len(p)
      /\ \A i \in 1..(Len(q) + Len(p)) : u[i] = IF i <= Len(q) THEN q[i] ELSE p[i - Len(q)]
  BY ConcatProperties
<1>3. Len(q) \in Nat \ {0} /\ Len(p) \in Nat
  OBVIOUS
<1> HIDE DEF u, t
<1>4. u # <<>> /\ Head(u) = Head(q)
  <2>1. u # <<>>
    BY <1>2, <1>3
  <2>2. u[1] = q[1]
    BY <1>2, <1>3
  <2> QED
    BY <1>2, <2>1, <2>2
<1>5. /\ Tail(u) \in Seq(Message) /\ Len(Tail(u)) = Len(u) - 1
      /\ \A i \in 1..Len(Tail(u)) : Tail(u)[i] = u[i + 1]
  BY <1>2, <1>4, HeadTailProperties
<1> DEFINE v == t \o p
           w == Tail(u)
<1>6. /\ v \in Seq(Message) /\ Len(v) = Len(t) + Len(p)
      /\ \A i \in 1..(Len(t) + Len(p)) : v[i] = IF i <= Len(t) THEN t[i] ELSE p[i - Len(t)]
  BY <1>1, ConcatProperties
<1> HIDE DEF v, w
<1>7. Len(v) = Len(w)
  BY <1>1, <1>2, <1>3, <1>5, <1>6 DEF w
<1>8. ASSUME NEW i \in 1..Len(v)
      PROVE  v[i] = w[i]
  <2>1. i \in 1..(Len(t) + Len(p)) /\ i \in 1..Len(w) /\ i + 1 \in 1..(Len(q) + Len(p))
    BY <1>1, <1>2, <1>3, <1>6, <1>7
  <2>2. w[i] = IF i + 1 <= Len(q) THEN q[i + 1] ELSE p[(i + 1) - Len(q)]
    BY <1>2, <1>5, <2>1 DEF w
  <2>3. CASE i <= Len(t)
    <3>1. i \in 1..Len(t) /\ i + 1 <= Len(q)
      BY <1>1, <1>3, <2>1, <2>3
    <3> QED
      BY <1>1, <1>6, <2>1, <2>2, <2>3, <3>1
  <2>4. CASE ~(i <= Len(t))
    <3>1. ~(i + 1 <= Len(q)) /\ (i + 1) - Len(q) = i - Len(t)
      BY <1>1, <1>3, <2>1, <2>4
    <3> QED
      BY <1>6, <2>1, <2>2, <2>4, <3>1
  <2> QED
    BY <2>3, <2>4
<1>9. v = w
  BY <1>5, <1>6, <1>7, <1>8, SeqEqual DEF w
<1> QED
  BY <1>2, <1>4, <1>9 DEF u, v, w, t

LEMMA AppendToConcat ==
    ASSUME NEW S, NEW q \in Seq(S), NEW p \in Seq(S), NEW e \in S
    PROVE  q \o Append(p, e) = Append(q \o p, e)
<1> DEFINE r == <<e>>
           u == q \o p
<1>1. r \in Seq(S)
  OBVIOUS
<1>2. u \in Seq(S)
  BY ConcatProperties
<1>3. Append(p, e) = p \o r
  BY AppendIsConcat
<1>4. Append(u, e) = u \o r
  BY <1>2, AppendIsConcat
<1> HIDE DEF r
<1>5. (q \o p) \o r = q \o (p \o r)
  BY <1>1, ConcatAssociative
<1> QED
  BY <1>3, <1>4, <1>5

LEMMA QueuedNext == IInv' => OneMarker(queued)'
<1>1. IInv => OneMarker(queued)
  BY QueuedType
<1> QED
  BY <1>1, PTL

\* A message enters the queue.
LEMMA KeptPushed ==
    ASSUME IInv, IInv', NEW m \in Message, in_queue' = Append(in_queue, m),
           UNCHANGED <<out_queue, dest>>
    PROVE  kept' = IF m = Marker THEN kept ELSE Append(kept, m)
<1>1. out_queue \in Seq(Message) /\ in_queue \in Seq(Message) /\ dest \in Seq(Level)
  BY Types
<1>2. queued \in Seq(Message) /\ records(queued) \in Seq(Level) /\ OneMarker(queued')
  BY QueuedType, QueuedNext
<1>3. queued' = Append(queued, m)
  BY <1>1, AppendToConcat DEF queued
<1>4. records(queued') = IF m = Marker THEN records(queued) ELSE Append(records(queued), m)
  BY <1>2, <1>3, RecordsPushed
<1>5. m # Marker => m \in Level
  BY LoggingAssumption
<1>6. m # Marker => dest \o Append(records(queued), m) = Append(dest \o records(queued), m)
  BY <1>1, <1>2, <1>5, AppendToConcat
<1> QED
  BY <1>4, <1>6 DEF kept

\* The daemon takes a message, and writes it unless it is the marker.
LEMMA KeptPopped ==
    ASSUME IInv, pop, write(Head(out_queue))
    PROVE  kept' = kept
<1>1. out_queue \in Seq(Message) /\ in_queue \in Seq(Message) /\ dest \in Seq(Level)
  BY Types
<1>2. out_queue # <<>> /\ out_queue' = Tail(out_queue) /\ in_queue' = in_queue
  BY DEF pop, sender
<1>3. /\ queued' = Tail(queued) /\ Head(queued) = Head(out_queue)
      /\ queued # <<>> /\ queued \in Seq(Message)
  BY <1>1, <1>2, TailOfConcat DEF queued
<1>4. OneMarker(queued) /\ records(queued) \in Seq(Level) /\ Head(out_queue) \in Message
  BY <1>1, <1>2, QueuedType
<1>5. records(queued) = IF Head(out_queue) = Marker THEN records(queued')
                        ELSE <<Head(out_queue)>> \o records(queued')
  BY <1>3, <1>4, RecordsPopped
<1>6. CASE Head(out_queue) = Marker
  BY <1>5, <1>6 DEF kept, write
<1>7. CASE Head(out_queue) # Marker
  <2> DEFINE m == Head(out_queue)
             r == records(queued')
  <2>1. m \in Level
    BY <1>4, <1>7, LoggingAssumption
  <2>2. r \in Seq(Level)
    <3>1. Tail(queued) \in Seq(Message)
      BY <1>3
    <3>2. OneMarker(Tail(queued))
      BY <1>3, <1>4, Popped
    <3> QED
      BY <1>3, <3>1, <3>2, RecordsType
  <2>3. dest' = Append(dest, m)
    BY <1>7 DEF write
  <2> HIDE DEF m, r
  <2>4. <<m>> \in Seq(Level)
    BY <2>1
  <2>5. Append(dest, m) = dest \o <<m>>
    BY <1>1, <2>1, AppendIsConcat
  <2>6. (dest \o <<m>>) \o r = dest \o (<<m>> \o r)
    BY <1>1, <2>2, <2>4, ConcatAssociative
  <2>7. records(queued) = <<m>> \o r
    BY <1>5, <1>7 DEF m, r
  <2>8. kept' = dest' \o r /\ kept = dest \o records(queued)
    BY DEF kept, r
  <2> QED
    BY <2>3, <2>5, <2>6, <2>7, <2>8
<1> QED
  BY <1>6, <1>7

LEMMA KeptSwapped ==
    ASSUME IInv, swap, UNCHANGED dest
    PROVE  kept' = kept
<1>1. out_queue = <<>> /\ out_queue' = in_queue /\ in_queue' = <<>>
  BY DEF swap, needs_swap
<1>2. in_queue \in Seq(Message)
  BY Types
<1>3. in_queue \o <<>> = in_queue /\ <<>> \o in_queue = in_queue
  BY <1>2, ConcatEmptySeq
<1>4. queued' = queued
  BY <1>1, <1>3 DEF queued
<1> QED
  BY <1>4 DEF kept

LEMMA KeptQuiet == ASSUME UNCHANGED <<in_queue, out_queue, dest>> PROVE kept' = kept
  BY DEF kept, queued

\* A step keeps what is kept, or logs a record and adds it unless it is filtered out.
KeptStep ==
    \/ UNCHANGED <<logged, kept>>
    \/ \E level \in Level :
           /\ logged' = Append(logged, level)
           /\ kept' = IF level >= min_level THEN Append(kept, level) ELSE kept

LEMMA NextKeptStep ==
    ASSUME IInv, IInv', [Next]_vars
    PROVE  KeptStep
<1>1. ASSUME NEW t \in Thread, NEW level \in Level, _log(t, level)
      PROVE  KeptStep
  <2>1. logged' = Append(logged, level) /\ level \in Message /\ level # Marker /\ UNCHANGED dest
    BY <1>1, LoggingAssumption DEF _log
  <2>2. CASE filter(level)
    <3>1. in_queue' = Append(in_queue, level) /\ UNCHANGED out_queue
      BY <1>1, <2>2 DEF _log, send, receiver
    <3>2. kept' = Append(kept, level)
      BY <2>1, <3>1, KeptPushed
    <3> QED
      BY <2>1, <2>2, <3>2 DEF KeptStep, filter
  <2>3. CASE ~filter(level)
    <3>1. kept' = kept
      BY <1>1, <2>1, <2>3, KeptQuiet DEF _log, queueVars
    <3> QED
      BY <2>1, <2>3, <3>1 DEF KeptStep, filter
  <2> QED
    BY <2>2, <2>3
<1>2. ASSUME NEW s \in Sender, insert_record_returns(s)
      PROVE  KeptStep
  BY <1>2, KeptQuiet DEF KeptStep, insert_record_returns, notify_one, receiver, logVars
<1>3. CASE loop_body
  BY <1>3, KeptQuiet DEF KeptStep, loop_body, Call, sender, queueVars, logVars
<1>4. CASE flush_one
  BY <1>4, KeptPopped DEF KeptStep, flush_one
<1>5. CASE flush_all
  <2>1. CASE Call("try_receive") /\ UNCHANGED <<deamon, dest>>
    BY <1>5, <2>1, KeptQuiet DEF KeptStep, flush_all, Call, sender
  <2>2. CASE pop /\ write(Head(out_queue)) /\ UNCHANGED deamon
    BY <1>5, <2>2, KeptPopped DEF KeptStep, flush_all
  <2>3. CASE turn_away /\ deamon' = "returned" /\ UNCHANGED dest
    BY <1>5, <2>3, KeptQuiet DEF KeptStep, flush_all, turn_away, sender
  <2> QED
    BY <1>5, <2>1, <2>2, <2>3 DEF flush_all
<1>6. CASE receiving(swap)
  BY <1>6, KeptSwapped DEF KeptStep, receiving, logVars
<1>7. CASE receiving(sleep) \/ receiving(wake_up)
  BY <1>7, KeptQuiet DEF KeptStep, receiving, sleep, wake_up, sender, receiver, logVars
<1>8. CASE stop
  BY <1>8, KeptQuiet DEF KeptStep, stop, queueVars
<1>9. CASE stop_inserts
  <2>1. /\ in_queue' = Append(in_queue, Marker) /\ Marker \in Message
        /\ UNCHANGED <<out_queue, dest, logged>>
    BY <1>9, LoggingAssumption DEF stop_inserts, send, receiver, logVars
  <2>2. kept' = kept
    BY <2>1, KeptPushed
  <2> QED
    BY <2>1, <2>2 DEF KeptStep
<1>10. CASE join
  BY <1>10, KeptQuiet DEF KeptStep, join, queueVars, logVars
<1>11. CASE UNCHANGED vars
  BY <1>11, KeptQuiet DEF KeptStep, vars, queueVars, logVars
<1> QED
  BY <1>1, <1>2, <1>3, <1>4, <1>5, <1>6, <1>7, <1>8, <1>9, <1>10, <1>11
  DEF Next, loop, destructor

\* NothingLost of two sequences.
Complete(q, k) ==
    /\ Len(k) = Cardinality(Owed(q, Len(q)))
    /\ \A i \in DOMAIN q : q[i] >= min_level => k[Cardinality(Owed(q, i))] = q[i]

\* A call that is not filtered out is owed a place.
LEMMA OwedPlace ==
    ASSUME NEW q \in Seq(Level), NEW i \in DOMAIN q, q[i] >= min_level
    PROVE  Cardinality(Owed(q, i)) \in 1..Cardinality(Owed(q, Len(q)))
<1>1. i \in Nat /\ i <= Len(q)
  OBVIOUS
<1>2. /\ IsFiniteSet(Owed(q, i)) /\ Cardinality(Owed(q, i)) \in Nat
      /\ Cardinality(Owed(q, i)) <= Cardinality(Owed(q, Len(q)))
  BY <1>1, OwedIsFinite
<1>3. i \in Owed(q, i)
  BY <1>1 DEF Owed
<1>4. Cardinality(Owed(q, i)) # 0
  BY <1>2, <1>3, FS_EmptySet
<1>5. Cardinality(Owed(q, Len(q))) \in Nat
  BY OwedIsFinite
<1> QED
  BY <1>2, <1>4, <1>5

LEMMA CompleteLogged ==
    ASSUME NEW q \in Seq(Level), NEW k \in Seq(Level), NEW l \in Level, Complete(q, k)
    PROVE  Complete(Append(q, l), IF l >= min_level THEN Append(k, l) ELSE k)
<1> DEFINE p == Append(q, l)
           n == Len(q)
           j == IF l >= min_level THEN Append(k, l) ELSE k
           c == Cardinality(Owed(q, n))
<1>1. /\ p \in Seq(Level) /\ Len(p) = n + 1 /\ DOMAIN p = 1..(n + 1) /\ n \in Nat
      /\ DOMAIN q = 1..n /\ \A i \in 1..n : p[i] = q[i]
      /\ p[n + 1] = l
  OBVIOUS
<1>2. /\ \A i \in 0..n : Owed(p, i) = Owed(q, i)
      /\ Cardinality(Owed(p, n + 1)) = c + (IF l >= min_level THEN 1 ELSE 0)
  BY OneMore
<1>3. c \in Nat /\ Len(k) = c
  BY OwedIsFinite DEF Complete
<1>4. /\ Len(j) = c + (IF l >= min_level THEN 1 ELSE 0)
      /\ \A i \in 1..c : j[i] = k[i]
      /\ l >= min_level => j[c + 1] = l
  BY <1>3
<1> HIDE DEF p, n, j, c
<1>5. ASSUME NEW i \in 1..(n + 1), p[i] >= min_level
      PROVE  j[Cardinality(Owed(p, i))] = p[i]
  <2>1. CASE i = n + 1
    <3>1. l >= min_level
      BY <1>1, <1>5, <2>1
    <3>2. Cardinality(Owed(p, i)) = c + 1
      BY <1>2, <2>1, <3>1
    <3> QED
      BY <1>1, <1>4, <2>1, <3>1, <3>2
  <2>2. CASE i # n + 1
    <3>1. i \in 1..n /\ i \in 0..n
      BY <1>1, <2>2
    <3>2. Owed(p, i) = Owed(q, i) /\ q[i] >= min_level
      BY <1>1, <1>2, <1>5, <3>1
    <3>3. Cardinality(Owed(q, i)) \in 1..c
      BY <1>1, <3>1, <3>2, OwedPlace DEF c, n
    <3>4. k[Cardinality(Owed(q, i))] = q[i]
      BY <1>1, <3>1, <3>2 DEF Complete
    <3> QED
      BY <1>1, <1>4, <3>1, <3>2, <3>3, <3>4
  <2> QED
    BY <2>1, <2>2
<1>6. Complete(p, j)
  BY <1>1, <1>2, <1>4, <1>5 DEF Complete
<1> QED
  BY <1>6 DEF p, j

LEMMA NothingLostIsComplete == NothingLost <=> Complete(logged, kept)
  BY DEF NothingLost, Complete, Owed, owed, kept, queued

KInv == IInv /\ Complete(logged, kept)

LEMMA InitKInv == Init => KInv
<1> SUFFICES ASSUME Init
             PROVE  Complete(logged, kept)
  BY InitIInv DEF KInv
<1>1. out_queue = <<>> /\ in_queue = <<>> /\ dest = <<>> /\ logged = <<>>
  BY DEF Init, QueueInit
<1>2. queued = <<>>
  BY <1>1 DEF queued
<1>3. records(queued) = <<>>
  BY <1>2 DEF records
<1>4. kept = <<>> /\ Len(kept) = 0
  BY <1>1, <1>3 DEF kept
<1>5. DOMAIN logged = {} /\ Owed(logged, Len(logged)) = {}
  BY <1>1 DEF Owed
<1> QED
  BY <1>4, <1>5, FS_EmptySet DEF Complete

LEMMA NextKInv == KInv /\ [Next]_vars => KInv'
<1> SUFFICES ASSUME KInv, [Next]_vars
             PROVE  Complete(logged, kept)'
  BY NextIInv DEF KInv
<1>1. IInv /\ IInv' /\ Complete(logged, kept)
  BY NextIInv DEF KInv
<1>2. KeptStep
  BY <1>1, NextKeptStep
<1>3. logged \in Seq(Level) /\ kept \in Seq(Level)
  BY <1>1, Types, QueuedType
<1>4. CASE UNCHANGED <<logged, kept>>
  <2>1. Complete(logged', kept')
    BY <1>1, <1>4
  <2> QED
    BY <2>1 DEF Complete, Owed
<1>5. ASSUME NEW level \in Level, logged' = Append(logged, level),
             kept' = IF level >= min_level THEN Append(kept, level) ELSE kept
      PROVE  Complete(logged, kept)'
  <2>1. Complete(logged', kept')
    BY <1>1, <1>3, <1>5, CompleteLogged
  <2> QED
    BY <2>1 DEF Complete, Owed
<1> QED
  BY <1>2, <1>4, <1>5 DEF KeptStep

\* What the threads have logged and the filter does not hold back is written or
\* queued, once each and in the order of the calls, in every reachable state.
THEOREM Keeps == Spec => []NothingLost
<1>1. KInv => NothingLost
  BY NothingLostIsComplete DEF KInv
<1> QED
  BY <1>1, InitKInv, NextKInv, PTL DEF Spec

-----------------------------------------------------------------------------
(***************************************************************************)
(* The logger uses the queue as a queue: each of its steps is one of the   *)
(* queue's, or leaves the queue alone.  What holds of the queue by itself  *)
(* holds of it here.                                                       *)
(***************************************************************************)

LEMMA LogsByQueueSteps == [Next]_vars => [QueueNext]_queueVars
<1> SUFFICES ASSUME [Next]_vars
             PROVE  QueueNext \/ UNCHANGED queueVars
  OBVIOUS
<1> USE LoggingAssumption
<1>1. ASSUME NEW t \in Thread, NEW level \in Level, _log(t, level)
      PROVE  QueueNext \/ UNCHANGED queueVars
  <2>1. CASE filter(level)
    BY <1>1, <2>1 DEF _log, QueueNext
  <2>2. CASE ~filter(level)
    BY <1>1, <2>2 DEF _log
  <2> QED
    BY <2>1, <2>2
<1>2. ASSUME NEW s \in Sender, insert_record_returns(s)
      PROVE  QueueNext
  BY <1>2 DEF insert_record_returns, QueueNext
<1>3. CASE loop_body
  BY <1>3 DEF loop_body, QueueNext, Op
<1>4. CASE flush_one
  BY <1>4 DEF flush_one, QueueNext, returning
<1>5. CASE flush_all
  BY <1>5 DEF flush_all, QueueNext, returning, Op
<1>6. CASE receiving(swap) \/ receiving(sleep) \/ receiving(wake_up)
  BY <1>6 DEF receiving, QueueNext, returning
<1>7. CASE stop \/ join
  BY <1>7 DEF stop, join
<1>8. CASE stop_inserts
  BY <1>8 DEF stop_inserts, QueueNext
<1>9. CASE UNCHANGED vars
  BY <1>9 DEF vars
<1> QED
  BY <1>1, <1>2, <1>3, <1>4, <1>5, <1>6, <1>7, <1>8, <1>9 DEF Next, loop, destructor

\* The threads that log, the daemon and the owner behave, to the record queue, as its
\* senders and its receiver do.
THEOREM LogsThroughQueue == Spec => QueueSpec
<1>1. Init => QueueInit
  BY DEF Init
<1> QED
  BY <1>1, LogsByQueueSteps, PTL DEF Spec, QueueSpec

\* The record queue of the logger is FIFO, and its daemon never sleeps on a record of
\* which no thread is about to notify it.
THEOREM LogsInOrder == Spec => FifoSpec /\ []NoLostWakeup
  BY LogsThroughQueue, Implements, WakeupsArrive, PTL

=============================================================================
