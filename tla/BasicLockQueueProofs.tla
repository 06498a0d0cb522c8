------------------------ MODULE BasicLockQueueProofs ------------------------
(***************************************************************************)
(* BasicLockQueue is a FIFO queue that loses no wakeup, for any finite     *)
(* number of senders and receivers.                                        *)
(***************************************************************************)
EXTENDS BasicLockQueue, FiniteSetTheorems, TLAPS

LEMMA Finite ==
  ASSUME TypeOK
  PROVE  /\ IsFiniteSet(notifying) /\ IsFiniteSet(looking)
         /\ Cardinality(notifying) \in Nat /\ Cardinality(looking) \in Nat
<1>1. IsFiniteSet(notifying) /\ IsFiniteSet(looking)
  BY BasicAssumption, FS_Subset DEF TypeOK, looking
<1> QED
  BY <1>1, FS_CardinalityType

LEMMA InitTypes == Init => TypeOK
  BY DEF Init, TypeOK, Op

LEMMA NextTypes == TypeOK /\ [Next]_vars => TypeOK'
<1> SUFFICES ASSUME TypeOK, [Next]_vars
             PROVE  TypeOK'
  OBVIOUS
<1> USE DEF TypeOK, Op
<1>1. ASSUME NEW s \in Sender, NEW m \in Message, send(s, m)
      PROVE  TypeOK'
  BY <1>1 DEF send
<1>2. ASSUME NEW s \in Sender, notify_one(s)
      PROVE  TypeOK'
  BY <1>2 DEF notify_one, asleep
<1>3. ASSUME NEW r \in Receiver, NEW op \in Op, Call(r, op)
      PROVE  TypeOK'
  BY <1>3 DEF Call
<1>4. ASSUME NEW r \in Receiver, take(r)
      PROVE  TypeOK'
  BY <1>4 DEF take, return, looking
<1>5. ASSUME NEW r \in Receiver, sleep(r)
      PROVE  TypeOK'
  BY <1>5 DEF sleep, looking
<1>6. ASSUME NEW r \in Receiver, turn_away(r)
      PROVE  TypeOK'
  BY <1>6 DEF turn_away, return, looking
<1>7. ASSUME NEW r \in Receiver, wake_up(r)
      PROVE  TypeOK'
  BY <1>7 DEF wake_up, asleep
<1>8. ASSUME NEW r \in Receiver, timeout(r)
      PROVE  TypeOK'
  BY <1>8 DEF timeout, asleep
<1>9. CASE UNCHANGED vars
  BY <1>9 DEF vars
<1> QED
  BY <1>1, <1>2, <1>3, <1>4, <1>5, <1>6, <1>7, <1>8, <1>9 DEF Next, returning

-----------------------------------------------------------------------------
(***************************************************************************)
(* NoLostWakeup counts: a message comes with a notification, which becomes *)
(* a receiver that looks, which takes a message or finds none.             *)
(***************************************************************************)

LEMMA InitWakeup == Init => NoLostWakeup
  BY DEF Init, NoLostWakeup, asleep

LEMMA NextWakeup == TypeOK /\ NoLostWakeup /\ [Next]_vars => NoLostWakeup'
<1> SUFFICES ASSUME TypeOK, NoLostWakeup, [Next]_vars, asleep' # {}
             PROVE  Len(msgq') <= Cardinality(notifying') + Cardinality(looking')
  BY DEF NoLostWakeup
<1> DEFINE enough == Len(msgq') <= Cardinality(notifying') + Cardinality(looking')
<1>a. TypeOK'
  BY NextTypes
<1>b. /\ IsFiniteSet(notifying) /\ IsFiniteSet(looking) /\ IsFiniteSet(looking')
      /\ Cardinality(notifying) \in Nat /\ Cardinality(looking) \in Nat
      /\ Cardinality(notifying') \in Nat /\ Cardinality(looking') \in Nat
  <2>1. IsFiniteSet(notifying') /\ IsFiniteSet(looking')
    BY <1>a, BasicAssumption, FS_Subset DEF TypeOK, looking
  <2> QED
    BY <2>1, Finite, FS_CardinalityType
<1>c. msgq \in Seq(Message) /\ Len(msgq) \in Nat
  BY DEF TypeOK
<1>d. Cardinality({}) = 0 /\ Len(<<>>) = 0
  BY FS_EmptySet
<1>1. ASSUME NEW s \in Sender, NEW m \in Message, send(s, m)
      PROVE  enough
  <2>1. Len(msgq') = Len(msgq) + 1
    BY <1>1, <1>c DEF send
  <2>2. Cardinality(notifying') = Cardinality(notifying) + 1
    BY <1>1, <1>b, FS_AddElement DEF send
  <2>3. asleep' = asleep /\ looking' = looking
    BY <1>1 DEF send, asleep, looking
  <2> QED
    BY <2>1, <2>2, <2>3, <1>b, <1>c DEF NoLostWakeup
<1>2. ASSUME NEW s \in Sender, notify_one(s)
      PROVE  enough
  <2>1. asleep # {}
    BY <1>2 DEF notify_one, asleep
  <2>2. PICK r \in asleep : wait' = [wait EXCEPT ![r] = "awake"]
    BY <1>2, <2>1 DEF notify_one
  <2>3. looking' = looking \cup {r} /\ r \notin looking
    BY <1>2, <2>2 DEF notify_one, looking, asleep, TypeOK
  <2>4. Cardinality(looking') = Cardinality(looking) + 1
    BY <2>3, <1>b, FS_AddElement
  <2>5. Cardinality(notifying') = Cardinality(notifying) - 1
    BY <1>2, <1>b, FS_RemoveElement DEF notify_one
  <2>6. msgq' = msgq
    BY <1>2 DEF notify_one
  <2> QED
    BY <2>1, <2>4, <2>5, <2>6, <1>b, <1>c DEF NoLostWakeup
<1>3. ASSUME NEW r \in Receiver, NEW op \in Op, Call(r, op)
      PROVE  enough
  <2>1. asleep' = asleep
    BY <1>3 DEF Call, asleep
  <2>2. looking \subseteq looking'
    BY <1>3 DEF Call, looking, TypeOK, Op
  <2>3. Cardinality(looking) <= Cardinality(looking')
    BY <1>b, <2>2, FS_Subset
  <2> QED
    BY <2>1, <2>3, <1>3, <1>b, <1>c DEF Call, NoLostWakeup
<1>4. ASSUME NEW r \in Receiver, take(r)
      PROVE  enough
  <2>1. asleep' = asleep
    BY <1>4 DEF take, return, looking, asleep, TypeOK
  <2>2. Len(msgq') = Len(msgq) - 1
    BY <1>4, <1>c DEF take
  <2>3. looking' = looking \ {r} /\ r \in looking
    BY <1>4 DEF take, return, looking, TypeOK
  <2>4. Cardinality(looking') = Cardinality(looking) - 1
    BY <2>3, <1>b, FS_RemoveElement
  <2>5. notifying' = notifying
    BY <1>4 DEF take, return
  <2> QED
    BY <2>1, <2>2, <2>4, <2>5, <1>b, <1>c DEF NoLostWakeup
<1>5. ASSUME NEW r \in Receiver, sleep(r)
      PROVE  enough
  <2>1. msgq' = <<>>
    BY <1>5 DEF sleep
  <2> QED
    BY <2>1, <1>b, <1>d
<1>6. ASSUME NEW r \in Receiver, turn_away(r)
      PROVE  enough
  <2>1. msgq' = <<>>
    BY <1>6 DEF turn_away
  <2> QED
    BY <2>1, <1>b, <1>d
<1>7. ASSUME NEW r \in Receiver, wake_up(r) \/ timeout(r)
      PROVE  enough
  <2>1. asleep # {}
    BY <1>7 DEF wake_up, timeout
  <2>2. looking' = looking \cup {r} /\ r \notin looking
    BY <1>7 DEF wake_up, timeout, looking, asleep, TypeOK
  <2>3. Cardinality(looking') = Cardinality(looking) + 1
    BY <2>2, <1>b, FS_AddElement
  <2>4. notifying' = notifying /\ msgq' = msgq
    BY <1>7 DEF wake_up, timeout
  <2> QED
    BY <2>1, <2>3, <2>4, <1>b, <1>c DEF NoLostWakeup
<1>8. CASE UNCHANGED vars
  <2>1. asleep' = asleep /\ looking' = looking /\ notifying' = notifying /\ msgq' = msgq
    BY <1>8 DEF vars, asleep, looking
  <2> QED
    BY <2>1 DEF NoLostWakeup
<1> QED
  BY <1>1, <1>2, <1>3, <1>4, <1>5, <1>6, <1>7, <1>8 DEF Next, returning

\* The variables keep their types, and receivers wait in calls that wait only.
THEOREM TypeCorrect == Spec => []TypeOK
  BY InitTypes, NextTypes, PTL DEF Spec

\* While receivers sleep, every message has a notification to come or a receiver that
\* is going to look.
THEOREM WakeupsArrive == Spec => []NoLostWakeup
<1>1. TypeOK /\ TypeOK' /\ NoLostWakeup /\ [Next]_vars => NoLostWakeup'
  BY NextWakeup
<1> QED
  BY <1>1, InitWakeup, TypeCorrect, PTL DEF Spec

-----------------------------------------------------------------------------
LEMMA InitRefines == Init => Fifo!Init
  BY DEF Init, Fifo!Init

LEMMA NextRefines == TypeOK /\ [Next]_vars => [Fifo!Next]_<<msgq, result>>
<1> SUFFICES ASSUME TypeOK, [Next]_vars
             PROVE  Fifo!Next \/ UNCHANGED <<msgq, result>>
  OBVIOUS
<1>1. ASSUME NEW s \in Sender, NEW m \in Message, send(s, m)
      PROVE  Fifo!Next
  <2>1. Fifo!Send(m)
    BY <1>1 DEF send, Fifo!Send
  <2> QED
    BY <2>1 DEF Fifo!Next
<1>2. ASSUME NEW r \in Receiver, take(r)
      PROVE  Fifo!Next
  <2>1. Fifo!Receive(r)
    BY <1>2 DEF take, return, Fifo!Receive
  <2> QED
    BY <2>1 DEF Fifo!Next
<1>3. ASSUME NEW r \in Receiver, turn_away(r)
      PROVE  Fifo!Next
  <2>1. Fifo!TurnAway(r)
    BY <1>3 DEF turn_away, return, Fifo!TurnAway
  <2> QED
    BY <2>1 DEF Fifo!Next
<1>4. ASSUME NEW s \in Sender, notify_one(s)
      PROVE  UNCHANGED <<msgq, result>>
  BY <1>4 DEF notify_one
<1>5. ASSUME NEW r \in Receiver,
             \/ \E op \in Op : Call(r, op)
             \/ sleep(r)
             \/ wake_up(r)
             \/ timeout(r)
      PROVE  UNCHANGED <<msgq, result>>
  BY <1>5 DEF Call, sleep, wake_up, timeout
<1>6. CASE UNCHANGED vars
  BY <1>6 DEF vars
<1> QED
  BY <1>1, <1>2, <1>3, <1>4, <1>5, <1>6 DEF Next, returning

\* Whoever sends and receives, it is one FIFO queue.
THEOREM Implements == Spec => FifoSpec
  BY InitRefines, NextRefines, TypeCorrect, PTL DEF Spec, FifoSpec, Fifo!Spec
=============================================================================
