------------------------ MODULE LockFreeChannelProofs -------------------------
(***************************************************************************)
(* LockFreeChannel is a FIFO queue for a ring of any size and any          *)
(* messages, on a machine that does not let loads overtake each other.     *)
(***************************************************************************)
EXTENDS LockFreeChannel, TLAPS

-----------------------------------------------------------------------------
(***************************************************************************)
(* Types                                                                   *)
(***************************************************************************)

\* One position further, without the division.
LEMMA NextPos ==
    ASSUME NEW p \in Pos
    PROVE  next(p) \in Pos /\ next(p) = IF p = buffer_size - 1 THEN 0 ELSE p + 1
  BY ChannelAssumption DEF next, Pos

LEMMA InitTypeOK == RingInit => RingTypeOK
  BY ChannelAssumption DEF RingInit, RingTypeOK, Pos, Cell

LEMMA NextTypeOK == RingTypeOK /\ [RingNext]_ringVars => RingTypeOK'
<1> SUFFICES ASSUME RingTypeOK, [RingNext]_ringVars
             PROVE  RingTypeOK'
  OBVIOUS
<1> USE DEF RingTypeOK
<1>1. ASSUME NEW op \in {"try_send", "send"}, NEW m \in Message, Send(op, m)
      PROVE  RingTypeOK'
  BY <1>1 DEF Send, consumer, Cell
<1>2. ASSUME NEW op \in {"try_receive", "receive"}, Receive(op)
      PROVE  RingTypeOK'
  BY <1>2 DEF Receive, producer
<1>3. CASE load_tail
  BY <1>3 DEF load_tail, consumer
<1>4. CASE write_cell
  BY <1>4 DEF write_cell, consumer
<1>5. CASE store_head
  BY <1>5, NextPos DEF store_head, consumer
<1>6. CASE load_head
  <2>1. head_v' \in Pos \cup {NotLoaded} /\ received' \in Cell
    BY <1>6 DEF load_head, Cell
  <2>2. cell_v' \in {{}} \cup {{m} : m \in Cell} /\ receiving' \in {"none", "try_receive", "receive"}
    BY <1>6 DEF load_head
  <2> QED
    BY <1>6, <2>1, <2>2 DEF load_head, producer
<1>7. CASE load_cell
  <2>1. ring_buffer[tail] \in Cell
    OBVIOUS
  <2> QED
    BY <1>7, <2>1 DEF load_cell, producer
<1>8. CASE store_tail
  BY <1>8, NextPos DEF store_tail, returns, producer
<1>9. CASE UNCHANGED ringVars
  BY <1>9 DEF ringVars, producer, consumer
<1> QED
  BY <1>1, <1>2, <1>3, <1>4, <1>5, <1>6, <1>7, <1>8, <1>9 DEF RingNext, try_send, try_receive

\* The positions never leave the ring, on any machine.
THEOREM TypeCorrect == RingSpec => []RingTypeOK
  BY InitTypeOK, NextTypeOK, PTL DEF RingSpec

-----------------------------------------------------------------------------
(***************************************************************************)
(* What is between the tail and the head.                                  *)
(***************************************************************************)

Count(h, t) == (h + buffer_size - t) % buffer_size

At(t, i) == (t + i - 1) % buffer_size

LEMMA CountIs ==
    ASSUME NEW h \in Pos, NEW t \in Pos
    PROVE  /\ Count(h, t) = IF h >= t THEN h - t ELSE h + buffer_size - t
           /\ Count(h, t) \in Pos
           /\ Count(h, t) = 0 <=> h = t
<1>1. CASE h >= t
  <2>1. h + buffer_size - t = (h - t) + buffer_size /\ h - t \in 0..(buffer_size - 1)
    BY <1>1, ChannelAssumption DEF Pos
  <2> QED
    BY <1>1, <2>1, ChannelAssumption DEF Count, Pos
<1>2. CASE h < t
  BY <1>2, ChannelAssumption DEF Count, Pos
<1> QED
  BY <1>1, <1>2 DEF Pos

LEMMA AtIs ==
    ASSUME NEW t \in Pos, NEW i \in 1..buffer_size
    PROVE  /\ At(t, i) \in Pos
           /\ At(t, i) = IF t + i - 1 < buffer_size THEN t + i - 1 ELSE t + i - 1 - buffer_size
  BY ChannelAssumption DEF At, Pos

\* The head is the cell behind the last, and no other of them.
LEMMA HeadIsBehind ==
    ASSUME NEW h \in Pos, NEW t \in Pos
    PROVE  /\ At(t, Count(h, t) + 1) = h
           /\ \A i \in 1..Count(h, t) : At(t, i) # h
<1> DEFINE n == Count(h, t)
<1>1. n \in Pos /\ n = IF h >= t THEN h - t ELSE h + buffer_size - t
  BY CountIs
<1> HIDE DEF n
<1>2. n + 1 \in 1..buffer_size /\ \A i \in 1..n : i \in 1..buffer_size
  BY <1>1, ChannelAssumption DEF Pos
<1>3. At(t, n + 1) = h
  <2>1. At(t, n + 1) = IF t + (n + 1) - 1 < buffer_size THEN t + (n + 1) - 1
                       ELSE t + (n + 1) - 1 - buffer_size
    BY <1>2, AtIs
  <2> QED
    BY <1>1, <2>1, ChannelAssumption DEF Pos
<1>4. ASSUME NEW i \in 1..n
      PROVE  At(t, i) # h
  <2>1. At(t, i) = IF t + i - 1 < buffer_size THEN t + i - 1 ELSE t + i - 1 - buffer_size
    BY <1>2, AtIs
  <2> QED
    BY <1>1, <2>1, ChannelAssumption DEF Pos
<1> QED
  BY <1>3, <1>4 DEF n

\* The head one further, where there is room.
LEMMA HeadMoves ==
    ASSUME NEW h \in Pos, NEW t \in Pos, ~full(h, t)
    PROVE  Count(next(h), t) = Count(h, t) + 1
<1>1. /\ next(h) \in Pos /\ next(h) # t
      /\ next(h) = IF h = buffer_size - 1 THEN 0 ELSE h + 1
  BY NextPos DEF full
<1>2. Count(h, t) = IF h >= t THEN h - t ELSE h + buffer_size - t
  BY CountIs
<1>3. Count(next(h), t) = IF next(h) >= t THEN next(h) - t ELSE next(h) + buffer_size - t
  BY <1>1, CountIs
<1> QED
  BY <1>1, <1>2, <1>3, ChannelAssumption DEF Pos

\* The tail one further, where there is something.
LEMMA TailMoves ==
    ASSUME NEW h \in Pos, NEW t \in Pos, h # t
    PROVE  /\ Count(h, next(t)) = Count(h, t) - 1
           /\ At(t, 1) = t
           /\ \A i \in 1..(Count(h, t) - 1) : At(next(t), i) = At(t, i + 1)
<1>1. next(t) \in Pos /\ next(t) = IF t = buffer_size - 1 THEN 0 ELSE t + 1
  BY NextPos
<1>2. Count(h, t) \in Pos /\ Count(h, t) = IF h >= t THEN h - t ELSE h + buffer_size - t
  BY CountIs
<1>3. Count(h, next(t)) = Count(h, t) - 1
  <2>1. Count(h, next(t)) = IF h >= next(t) THEN h - next(t) ELSE h + buffer_size - next(t)
    BY <1>1, CountIs
  <2> QED
    BY <1>1, <1>2, <2>1, ChannelAssumption DEF Pos
<1>4. At(t, 1) = t
  <2>1. 1 \in 1..buffer_size
    BY ChannelAssumption
  <2>2. At(t, 1) = IF t + 1 - 1 < buffer_size THEN t + 1 - 1 ELSE t + 1 - 1 - buffer_size
    BY <2>1, AtIs
  <2> QED
    BY <2>2, ChannelAssumption DEF Pos
<1>5. ASSUME NEW i \in 1..(Count(h, t) - 1)
      PROVE  At(next(t), i) = At(t, i + 1)
  <2>1. i \in 1..buffer_size /\ i + 1 \in 1..buffer_size
    BY <1>2, ChannelAssumption DEF Pos
  <2>2. At(t, i + 1) = IF t + (i + 1) - 1 < buffer_size THEN t + (i + 1) - 1
                       ELSE t + (i + 1) - 1 - buffer_size
    BY <2>1, AtIs
  <2>3. At(next(t), i) = IF next(t) + i - 1 < buffer_size THEN next(t) + i - 1
                         ELSE next(t) + i - 1 - buffer_size
    BY <1>1, <2>1, AtIs
  <2> QED
    BY <1>1, <2>1, <2>2, <2>3, ChannelAssumption DEF Pos
<1> QED
  BY <1>3, <1>4, <1>5

LEMMA Content ==
    ASSUME RingTypeOK
    PROVE  /\ content = [i \in 1..Count(head, tail) |-> ring_buffer[At(tail, i)]]
           /\ content \in Seq(Cell)
           /\ Len(content) = Count(head, tail)
           /\ content = <<>> <=> head = tail
<1>1. content = [i \in 1..Count(head, tail) |-> ring_buffer[At(tail, i)]]
  BY DEF content, Count, At
<1>2. Count(head, tail) \in Nat /\ (Count(head, tail) = 0 <=> head = tail)
  BY CountIs DEF RingTypeOK, Pos
<1>3. ASSUME NEW i \in 1..Count(head, tail)
      PROVE  ring_buffer[At(tail, i)] \in Cell
  <2>1. head \in Pos /\ tail \in Pos /\ ring_buffer \in [Pos -> Cell]
    BY DEF RingTypeOK
  <2>2. i \in 1..buffer_size
    <3>1. Count(head, tail) \in Pos
      BY <2>1, CountIs
    <3> QED
      BY <3>1, ChannelAssumption DEF Pos
  <2> QED
    BY <2>1, <2>2, AtIs
<1>4. content \in Seq(Cell) /\ Len(content) = Count(head, tail)
  BY <1>1, <1>2, <1>3
<1> QED
  BY <1>1, <1>2, <1>4

-----------------------------------------------------------------------------
(***************************************************************************)
(* The invariant.  What a thread has found out about the ring stays true:  *)
(* the other one can only make more room, or more to receive, and the cell *)
(* that the consumer has loaded is not written before the tail has passed  *)
(* it.                                                                     *)
(***************************************************************************)

IInv ==
    /\ RingTypeOK
    /\ sending # "none" => data \in Message
    /\ ppos # "load" => sending # "none" /\ ~full(head, tail)
    /\ ppos = "publish" => ring_buffer[head] = data
    /\ head_v # NotLoaded => receiving # "none" /\ head # tail
    /\ cell_v # {} => head_v # NotLoaded /\ cell_v = {ring_buffer[tail]}

\* Neither the head nor the tail is stopped by what the other does.
LEMMA StillRoom ==
    ASSUME NEW h \in Pos, NEW t \in Pos, h # t, ~full(h, t)
    PROVE  ~full(h, next(t)) /\ next(h) # t
  BY NextPos, ChannelAssumption DEF full, Pos

LEMMA InitIInv == RingInit => IInv
  BY InitTypeOK DEF RingInit, IInv

LEMMA NextIInv == ASSUME ~Reorders PROVE IInv /\ [RingNext]_ringVars => IInv'
<1> SUFFICES ASSUME IInv, [RingNext]_ringVars
             PROVE  IInv'
  OBVIOUS
<1>0. RingTypeOK /\ RingTypeOK'
  BY NextTypeOK DEF IInv
<1> USE DEF IInv
<1>1. ASSUME NEW op \in {"try_send", "send"}, NEW m \in Message, Send(op, m)
      PROVE  IInv'
  BY <1>0, <1>1 DEF Send, consumer
<1>2. ASSUME NEW op \in {"try_receive", "receive"}, Receive(op)
      PROVE  IInv'
  BY <1>0, <1>2 DEF Receive, producer
<1>3. CASE load_tail
  BY <1>0, <1>3 DEF load_tail, consumer, RingTypeOK
<1>4. CASE write_cell
  BY <1>0, <1>4 DEF write_cell, consumer, RingTypeOK
<1>5. CASE store_head
  <2>1. head \in Pos /\ tail \in Pos /\ ~full(head, tail) /\ head' = next(head)
    BY <1>0, <1>5 DEF store_head, RingTypeOK
  <2>2. next(head) # tail
    BY <2>1 DEF full
  <2> QED
    BY <1>0, <1>5, <2>1, <2>2 DEF store_head, consumer, RingTypeOK
<1>6. CASE load_head
  BY <1>0, <1>6 DEF load_head, empty, producer, RingTypeOK
<1>7. CASE load_cell
  BY <1>0, <1>7 DEF load_cell, producer, RingTypeOK
<1>8. CASE store_tail
  <2>1. head \in Pos /\ tail \in Pos /\ head # tail /\ tail' = next(tail)
    BY <1>0, <1>8 DEF store_tail, returns, RingTypeOK
  <2>2. ppos # "load" => ~full(head, next(tail))
    BY <2>1, StillRoom
  <2> QED
    BY <1>0, <1>8, <2>1, <2>2 DEF store_tail, returns, producer
<1>9. CASE UNCHANGED ringVars
  BY <1>0, <1>9 DEF ringVars, producer, consumer
<1> QED
  BY <1>1, <1>2, <1>3, <1>4, <1>5, <1>6, <1>7, <1>8, <1>9 DEF RingNext, try_send, try_receive

LEMMA Invariance == ASSUME ~Reorders PROVE RingSpec => []IInv
  BY InitIInv, NextIInv, PTL DEF RingSpec

-----------------------------------------------------------------------------
(***************************************************************************)
(* The refinement.                                                         *)
(***************************************************************************)

\* The message behind the head is sent by the store of the head.
LEMMA Sends == IInv /\ store_head /\ RingTypeOK' => content' = Append(content, data)
<1> SUFFICES ASSUME IInv, store_head, RingTypeOK'
             PROVE  content' = Append(content, data)
  OBVIOUS
<1> DEFINE n == Count(head, tail)
<1>1. /\ head \in Pos /\ tail \in Pos /\ ~full(head, tail)
      /\ head' = next(head) /\ tail' = tail /\ ring_buffer' = ring_buffer
      /\ ring_buffer[head] = data /\ data \in Cell
  BY DEF IInv, RingTypeOK, store_head
<1>2. /\ content = [i \in 1..n |-> ring_buffer[At(tail, i)]]
      /\ content \in Seq(Cell) /\ Len(content) = n
  BY Content DEF IInv
<1>3. content' = [i \in 1..(n + 1) |-> ring_buffer[At(tail, i)]]
  <2>1. content' = [i \in 1..Count(head', tail') |-> ring_buffer'[At(tail', i)]]
    BY DEF content, Count, At
  <2>2. Count(next(head), tail) = n + 1
    BY <1>1, HeadMoves
  <2> QED
    BY <1>1, <2>1, <2>2
<1>4. n \in Nat /\ At(tail, n + 1) = head
  BY <1>1, CountIs, HeadIsBehind DEF Pos
<1> HIDE DEF n
<1>5. \A i \in 1..(n + 1) : Append(content, data)[i] = ring_buffer[At(tail, i)]
  BY <1>1, <1>2, <1>4
<1>6. Append(content, data) = [i \in 1..(n + 1) |-> Append(content, data)[i]]
  BY <1>1, <1>2, <1>4
<1> QED
  BY <1>3, <1>5, <1>6

\* The cell at the tail is received by the store of the tail.
LEMMA Receives ==
    IInv /\ store_tail =>
        content # <<>> /\ content' = Tail(content) /\ received' = Head(content)
<1> SUFFICES ASSUME IInv, store_tail
             PROVE  content # <<>> /\ content' = Tail(content) /\ received' = Head(content)
  OBVIOUS
<1> DEFINE n == Count(head, tail)
<1>1. /\ head \in Pos /\ tail \in Pos /\ head # tail
      /\ head' = head /\ tail' = next(tail) /\ ring_buffer' = ring_buffer
      /\ received' = ring_buffer[tail]
  BY DEF IInv, RingTypeOK, store_tail, returns
<1>2. /\ content = [i \in 1..n |-> ring_buffer[At(tail, i)]]
      /\ content \in Seq(Cell) /\ Len(content) = n
      /\ content # <<>>
  BY <1>1, Content DEF IInv
<1>3. /\ Count(head, next(tail)) = n - 1
      /\ At(tail, 1) = tail
      /\ \A i \in 1..(n - 1) : At(next(tail), i) = At(tail, i + 1)
  BY <1>1, TailMoves
<1>4. content' = [i \in 1..(n - 1) |-> ring_buffer[At(next(tail), i)]]
  <2>1. content' = [i \in 1..Count(head', tail') |-> ring_buffer'[At(tail', i)]]
    BY DEF content, Count, At
  <2> QED
    BY <1>1, <1>3, <2>1
<1>5. n \in Nat \ {0}
  BY <1>1, CountIs DEF Pos
<1> HIDE DEF n
<1>6. Tail(content) = [i \in 1..(n - 1) |-> content[i + 1]]
  BY <1>2, <1>5
<1>7. \A i \in 1..(n - 1) : content[i + 1] = ring_buffer[At(next(tail), i)]
  BY <1>2, <1>3, <1>5
<1>8. Head(content) = ring_buffer[tail]
  BY <1>2, <1>3, <1>5
<1>9. content' = Tail(content)
  BY <1>4, <1>6, <1>7
<1> QED
  BY <1>1, <1>2, <1>8, <1>9

\* What is written behind the head is not yet in the queue.
LEMMA Writes == IInv /\ write_cell => content' = content
<1> SUFFICES ASSUME IInv, write_cell
             PROVE  content' = content
  OBVIOUS
<1> DEFINE n == Count(head, tail)
<1>1. /\ head \in Pos /\ tail \in Pos /\ head' = head /\ tail' = tail
      /\ ring_buffer \in [Pos -> Cell]
      /\ ring_buffer' = [ring_buffer EXCEPT ![head] = data]
  BY DEF IInv, RingTypeOK, write_cell
<1>2. \A i \in 1..n : At(tail, i) # head
  BY <1>1, HeadIsBehind
<1>3. \A i \in 1..n : ring_buffer'[At(tail, i)] = ring_buffer[At(tail, i)]
  BY <1>1, <1>2
<1>4. content' = [i \in 1..n |-> ring_buffer'[At(tail, i)]]
  <2>1. content' = [i \in 1..Count(head', tail') |-> ring_buffer'[At(tail', i)]]
    BY DEF content, Count, At
  <2> QED
    BY <1>1, <2>1
<1>5. content = [i \in 1..n |-> ring_buffer[At(tail, i)]]
  BY DEF content, Count, At
<1> QED
  BY <1>3, <1>4, <1>5

LEMMA InitRefines == RingInit => RingFifo!Init
<1> SUFFICES ASSUME RingInit
             PROVE  RingFifo!Init
  OBVIOUS
<1>1. content = <<>>
  BY InitTypeOK, Content DEF RingInit
<1> QED
  BY <1>1 DEF RingInit, RingFifo!Init

LEMMA NextRefines ==
    ASSUME ~Reorders
    PROVE  IInv /\ [RingNext]_ringVars => [RingFifo!Next]_<<content, [r \in {"consumer"} |-> received]>>
<1> DEFINE outcome == [r \in {"consumer"} |-> received]
<1> SUFFICES ASSUME IInv, [RingNext]_ringVars
             PROVE  RingFifo!Next \/ UNCHANGED <<content, outcome>>
  OBVIOUS
<1>0. RingTypeOK /\ RingTypeOK'
  BY NextTypeOK DEF IInv
<1>1. ASSUME UNCHANGED <<ring_buffer, head, tail>>
      PROVE  UNCHANGED content
  BY <1>1 DEF content
<1>2. ASSUME NEW op \in {"try_send", "send"}, NEW m \in Message, Send(op, m)
      PROVE  UNCHANGED <<content, outcome>>
  BY <1>1, <1>2 DEF Send, consumer
<1>3. ASSUME NEW op \in {"try_receive", "receive"}, Receive(op)
      PROVE  UNCHANGED <<content, outcome>>
  BY <1>1, <1>3 DEF Receive
<1>4. CASE load_tail
  BY <1>1, <1>4 DEF load_tail, consumer
<1>5. CASE write_cell
  BY <1>5, Writes DEF write_cell, consumer
<1>6. CASE store_head
  <2>1. data \in Message /\ UNCHANGED outcome
    BY <1>6 DEF store_head, consumer, IInv
  <2>2. content' = Append(content, data)
    BY <1>0, <1>6, Sends
  <2> QED
    BY <2>1, <2>2 DEF RingFifo!Next, RingFifo!Send
<1>7. CASE load_head
  <2>1. UNCHANGED content
    BY <1>1, <1>7 DEF load_head
  <2>2. CASE head = tail
    <3>1. content = <<>>
      BY <1>0, <2>2, Content
    <3>2. UNCHANGED outcome \/ outcome' = [outcome EXCEPT !["consumer"] = NoMessage]
      BY <1>7, <2>2 DEF load_head, empty
    <3> QED
      BY <2>1, <3>1, <3>2 DEF RingFifo!Next, RingFifo!TurnAway
  <2>3. CASE head # tail
    BY <1>7, <2>1, <2>3 DEF load_head, empty
  <2> QED
    BY <2>2, <2>3
<1>8. CASE load_cell
  BY <1>1, <1>8 DEF load_cell
<1>9. CASE store_tail
  <2>1. content # <<>> /\ content' = Tail(content) /\ received' = Head(content)
    BY <1>9, Receives
  <2>2. outcome' = [outcome EXCEPT !["consumer"] = Head(content)]
    BY <2>1
  <2> QED
    BY <2>1, <2>2 DEF RingFifo!Next, RingFifo!Receive
<1>10. CASE UNCHANGED ringVars
  BY <1>1, <1>10 DEF ringVars, consumer
<1> QED
  BY <1>2, <1>3, <1>4, <1>5, <1>6, <1>7, <1>8, <1>9, <1>10 DEF RingNext, try_send, try_receive

\* Where loads keep their order, the ring without a lock is one FIFO queue.
THEOREM Implements == ASSUME ~Reorders PROVE RingSpec => RingFifoSpec
  BY InitRefines, NextRefines, Invariance, PTL DEF RingSpec, RingFifoSpec, RingFifo!Spec
=============================================================================
