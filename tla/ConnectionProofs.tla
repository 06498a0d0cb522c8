-------------------------- MODULE ConnectionProofs --------------------------
(***************************************************************************)
(* The type invariant of Connection and its safety properties about one    *)
(* endpoint, for every length of the queues and every number of messages:  *)
(* the inductive invariant, what the calls that the handlers are made of   *)
(* do to it, and that every handler keeps it.  After them, that the stream *)
(* from either end to the other is one of whole messages, which takes a    *)
(* second invariant that relates the two ends.                             *)
(***************************************************************************)
EXTENDS Connection, TLAPS, SequenceTheorems

(***************************************************************************)
(* Queues of completions.                                                  *)
(***************************************************************************)

\* Appending a completion to the io loop's queue.
LEMMA QueuedAppend ==
    ASSUME NEW q \in Seq(Completion), NEW c \in Completion, NEW C
    PROVE  /\ c \notin C => Queued(Append(q, c), C) = Queued(q, C)
           /\ c \in C => Queued(Append(q, c), C) = Queued(q, C) \cup {Len(q) + 1}
  BY DEF Queued

LEMMA NoneAppend ==
    ASSUME NEW q \in Seq(Completion), NEW c \in Completion, NEW C
    PROVE  /\ c \notin C => /\ None(Append(q, c), C) <=> None(q, C)
                            /\ AtMostOne(Append(q, c), C) <=> AtMostOne(q, C)
           /\ c \in C /\ None(q, C) => AtMostOne(Append(q, c), C)
           /\ c \in C => ~None(Append(q, c), C)
  BY QueuedAppend DEF None, AtMostOne

\* Removing the oldest completion.
LEMMA NoneTail ==
    ASSUME NEW q \in Seq(Completion), q # <<>>, NEW C, AtMostOne(q, C)
    PROVE  /\ AtMostOne(Tail(q), C)
           /\ Head(q) \in C => None(Tail(q), C)
           /\ Head(q) \notin C => (None(Tail(q), C) <=> None(q, C))
<1>1. /\ Tail(q) \in Seq(Completion)
      /\ Len(q) \in Nat /\ Len(q) > 0
      /\ Len(Tail(q)) = Len(q) - 1
      /\ Head(q) = q[1]
      /\ \A i \in 1..Len(Tail(q)) : Tail(q)[i] = q[i + 1]
  OBVIOUS
<1>2. \A i \in 1..Len(q) - 1 : i \in Queued(Tail(q), C) <=> i + 1 \in Queued(q, C)
  BY <1>1 DEF Queued
<1>3. 1 \in Queued(q, C) <=> Head(q) \in C
  BY <1>1 DEF Queued
<1>4. Queued(q, C) \subseteq 1..Len(q) /\ Queued(Tail(q), C) \subseteq 1..Len(q) - 1
  BY <1>1 DEF Queued
<1>5. ASSUME NEW i \in Queued(q, C), NEW j \in Queued(q, C)  PROVE i = j
  BY DEF AtMostOne
<1>6. AtMostOne(Tail(q), C)
  <2> SUFFICES ASSUME NEW i \in Queued(Tail(q), C), NEW j \in Queued(Tail(q), C)
               PROVE  i = j
    BY DEF AtMostOne
  <2>1. i \in 1..Len(q) - 1 /\ j \in 1..Len(q) - 1
    BY <1>4
  <2>2. i + 1 = j + 1
    BY <1>2, <1>5, <2>1
  <2> QED
    BY <1>1, <2>1, <2>2
<1>7. ASSUME Head(q) \in C  PROVE None(Tail(q), C)
  <2> SUFFICES ASSUME NEW i \in Queued(Tail(q), C)  PROVE FALSE
    BY DEF None
  <2>1. i \in 1..Len(q) - 1
    BY <1>4
  <2>2. i + 1 = 1
    BY <1>2, <1>3, <1>5, <1>7, <2>1
  <2> QED
    BY <1>1, <2>1, <2>2
<1>8. ASSUME Head(q) \notin C, None(q, C)  PROVE None(Tail(q), C)
  BY <1>2, <1>4, <1>8 DEF None
<1>9. ASSUME Head(q) \notin C, ~None(q, C)  PROVE ~None(Tail(q), C)
  <2>1. PICK i \in 1..Len(q) : i \in Queued(q, C)
    BY <1>4, <1>9 DEF None
  <2>2. i # 1
    BY <1>3, <1>9, <2>1
  <2>3. i - 1 \in 1..Len(q) - 1 /\ (i - 1) + 1 = i
    BY <1>1, <2>1, <2>2
  <2>4. i - 1 \in Queued(Tail(q), C)
    BY <1>2, <2>1, <2>3
  <2> QED
    BY <2>4 DEF None
<1> QED
  BY <1>6, <1>7, <1>8, <1>9
-----------------------------------------------------------------------------
(***************************************************************************)
(* The inductive invariant, one endpoint at a time.  Core is what holds    *)
(* between any two calls inside a handler; Reading and Writing, that an    *)
(* open connection goes on reading and writing, hold between handlers.     *)
(***************************************************************************)

ReadInv(e) ==
    /\ AtMostOne(e.ready, ReadDone)
    /\ e.rop # "none" => e.open /\ None(e.ready, ReadDone)

WriteInv(e) ==
    /\ AtMostOne(e.ready, WriteDone)
    /\ e.wop.st = "pending" => e.open /\ None(e.ready, WriteDone)
    /\ e.wop.st = "queued" <=> ~None(e.ready, Continuation)
    /\ e.wop.st # "idle" => Has(e.wq, e.wop.buf)
    /\ ~None(e.ready, WriteDone) => e.wq # <<>>

\* An expired timer is found by the last turn of the reactor or not at all.
TimerInv(s, e) ==
    /\ AtMostOne(e.ready, Expired)
    /\ \A i \in Queued(e.ready, Expired) : i <= e.batch
    /\ e.batch <= Len(e.ready)
    /\ s = "server" /\ e.timer => e.open

NoDuplicate(seq) == \A i, j \in 1..Len(seq) : seq[i] = seq[j] => i = j

\* Why a second event of a kind cannot come: the completion that would report
\* it can no longer be queued.
EventInv(s, e) ==
    /\ NoDuplicate(e.events)
    /\ e.events # <<>> => ~e.open
    /\ Has(e.events, "close") => None(e.ready, ReadDone)
    /\ Has(e.events, "pipe") => /\ None(e.ready, WriteDone)
                                /\ e.wop.st = "idle"
                                /\ e.wq # <<>>
    /\ Has(e.events, "timeout") => s = "server" /\ None(e.ready, Expired)

\* The server sends no heartbeats, so the client never stops on one.
HeaderOk == [op : {"header"}, ec : {"ok"}, n : 0..2]

NoBeats(segs) == \A i \in 1..Len(segs) : segs[i].msg # Heartbeat

BeatInv(s, e) ==
    /\ s = "server" => ~Has(e.wq, Heartbeat) /\ NoBeats(e.out)
    /\ s = "client" /\ e.hdr.msg = Heartbeat => None(e.ready, HeaderOk)

Core(s, e) ==
    /\ e \in Endpoint
    /\ ReadInv(e) /\ WriteInv(e) /\ TimerInv(s, e) /\ EventInv(s, e) /\ BeatInv(s, e)

\* Only a closed connection sees its read of a header canceled.
Canceled == [op : {"header"}, ec : {"aborted"}, n : 0..2]

Reading(e) ==
    e.open => /\ e.rop # "none" \/ ~None(e.ready, ReadDone)
              /\ None(e.ready, Canceled)

Outstanding(e) == e.wop.st # "idle" \/ ~None(e.ready, WriteDone)
Writing(e) == e.open /\ e.wq # <<>> => Outstanding(e)

\* The members that the calls below the upper layer leave alone.
SameUpper(e, x) ==
    /\ x.hdr = e.hdr /\ x.rbuf = e.rbuf /\ x.nsent = e.nsent /\ x.got = e.got
    /\ x.events = e.events /\ x.threw = e.threw

-----------------------------------------------------------------------------
(***************************************************************************)
(* The operations of boost.asio.                                           *)
(***************************************************************************)

LEMMA CompletionKinds ==
    \A n \in 0..2 :
       /\ Done("timer", "aborted", n) \in
              Completion \ (ReadDone \cup WriteDone \cup Continuation \cup Expired \cup HeaderOk
                             \cup Canceled)
       /\ Done("timer", "ok", n) \in
              (Completion \cap Expired) \ (ReadDone \cup WriteDone \cup Continuation \cup HeaderOk
                                      \cup Canceled)
       /\ \A ec \in Ec :
             /\ Done("write", ec, n) \in
                    (Completion \cap WriteDone)
                       \ (ReadDone \cup Continuation \cup Expired \cup HeaderOk \cup Canceled)
             /\ Done("write_some", ec, n) \in
                    (Completion \cap WriteDone \cap Continuation)
                       \ (ReadDone \cup Expired \cup HeaderOk \cup Canceled)
             /\ \A op \in {"header", "payload"} :
                   /\ Done(op, ec, n) \in
                         (Completion \cap ReadDone) \ (WriteDone \cup Continuation \cup Expired)
                   /\ ec # "ok" => Done(op, ec, n) \notin HeaderOk
                   /\ ec # "aborted" => Done(op, ec, n) \notin Canceled
  BY DEF Done, Completion, ReadDone, WriteDone, Continuation, Expired, HeaderOk, Canceled,
         Op, Ec

\* Posting a completion keeps the expired timer inside the batch.
LEMMA BatchAppend ==
    ASSUME NEW q \in Seq(Completion), NEW c \in Completion, c \notin Expired,
           NEW b \in Nat, b <= Len(q),
           \A i \in Queued(q, Expired) : i <= b
    PROVE  /\ b <= Len(Append(q, c))
           /\ \A i \in Queued(Append(q, c), Expired) : i <= b
  BY QueuedAppend

\* What posting a completion leaves alone.
LEMMA PostType ==
    ASSUME NEW e \in Endpoint, NEW c \in Completion
    PROVE  LET x == Post(e, c) IN
           /\ x \in Endpoint
           /\ x.ready = Append(e.ready, c)
           /\ SameUpper(e, x)
           /\ x.open = e.open /\ x.rop = e.rop /\ x.wop = e.wop /\ x.wq = e.wq
           /\ x.timer = e.timer /\ x.batch = e.batch /\ x.out = e.out
<1> DEFINE q == Append(e.ready, c)
<1>1. q \in Seq(Completion)
  BY DEF Endpoint
<1> HIDE DEF q
<1>2. Post(e, c) = [e EXCEPT !.ready = q]
  BY DEF Post, q
<1>3. [e EXCEPT !.ready = q] \in Endpoint
  BY <1>1 DEF Endpoint
<1>4. LET x == [e EXCEPT !.ready = q] IN
      /\ x.ready = q
      /\ x.open = e.open /\ x.rop = e.rop /\ x.wop = e.wop /\ x.wq = e.wq
      /\ x.timer = e.timer /\ x.batch = e.batch /\ x.out = e.out
  BY DEF Endpoint
<1>5. SameUpper(e, [e EXCEPT !.ready = q])
  BY DEF Endpoint, SameUpper
<1> QED
  BY <1>2, <1>3, <1>4, <1>5 DEF q

LEMMA TimerCancel ==
    ASSUME NEW s \in Side, NEW e, Core(s, e)
    PROVE  LET x == timer_cancel(e) IN
           /\ Core(s, x)
           /\ ~x.timer
           /\ SameUpper(e, x)
           /\ x.open = e.open /\ x.rop = e.rop /\ x.wop = e.wop /\ x.wq = e.wq
           /\ x.batch = e.batch
           /\ \A C \in {ReadDone, WriteDone, Expired, Canceled} : None(x.ready, C) <=> None(e.ready, C)
<1> DEFINE x == timer_cancel(e)
           c == Done("timer", "aborted", 0)
<1>1. CASE ~e.timer
  <2>1. x = e
    BY <1>1 DEF timer_cancel
  <2> QED
    BY <1>1, <2>1 DEF SameUpper
<1>2. CASE e.timer
  <2>1. /\ c \in Completion
        /\ c \notin ReadDone /\ c \notin WriteDone
        /\ c \notin Continuation /\ c \notin Expired /\ c \notin HeaderOk /\ c \notin Canceled
    BY CompletionKinds
  <2>2. /\ e \in Endpoint
        /\ e.ready \in Seq(Completion) /\ e.batch \in Nat
    BY DEF Core, Endpoint
  <2>3. x = [e EXCEPT !.timer = FALSE, !.ready = Append(e.ready, c)]
    BY <1>2, <2>2 DEF timer_cancel, Post, Endpoint
  <2>a. Append(e.ready, c) \in Seq(Completion)
    BY <2>1, <2>2
  <2>b. x \in Endpoint
    BY <2>2, <2>3, <2>a DEF Endpoint
  <2>4. /\ x \in Endpoint /\ x.ready = Append(e.ready, c) /\ x.timer = FALSE
        /\ x.open = e.open /\ x.rop = e.rop /\ x.wop = e.wop /\ x.wq = e.wq
        /\ x.batch = e.batch /\ x.events = e.events /\ x.out = e.out
    BY <2>2, <2>3, <2>b DEF Endpoint
  <2>5. SameUpper(e, x)
    BY <2>2, <2>3 DEF Endpoint, SameUpper
  <2>6. \A C \in {ReadDone, WriteDone, Continuation, Expired, HeaderOk, Canceled} :
           /\ None(x.ready, C) <=> None(e.ready, C)
           /\ AtMostOne(x.ready, C) <=> AtMostOne(e.ready, C)
    BY <2>1, <2>2, <2>4, NoneAppend
  <2>7. ReadInv(x) /\ WriteInv(x)
    BY <2>4, <2>6 DEF Core, ReadInv, WriteInv
  <2>8. TimerInv(s, x)
    BY <2>1, <2>2, <2>4, <2>6, BatchAppend DEF Core, TimerInv
  <2>9. EventInv(s, x)
    BY <2>4, <2>6 DEF Core, EventInv
  <2>10. BeatInv(s, x)
    BY <2>4, <2>5, <2>6 DEF Core, BeatInv, SameUpper
  <2> QED
    BY <2>4, <2>5, <2>6, <2>7, <2>8, <2>9, <2>10 DEF Core
<1> QED
  BY <1>1, <1>2

LEMMA TimerRestart ==
    ASSUME NEW s \in Side, NEW e, Core(s, e), e.open \/ s = "client"
    PROVE  LET x == timer_restart(e) IN
           /\ Core(s, x)
           /\ SameUpper(e, x)
           /\ x.open = e.open /\ x.rop = e.rop /\ x.wop = e.wop /\ x.wq = e.wq
           /\ x.batch = e.batch
           /\ \A C \in {ReadDone, WriteDone, Expired, Canceled} : None(x.ready, C) <=> None(e.ready, C)
<1> DEFINE y == timer_cancel(e)
           x == timer_restart(e)
<1>1. /\ Core(s, y)
      /\ SameUpper(e, y)
      /\ y.open = e.open /\ y.rop = e.rop /\ y.wop = e.wop /\ y.wq = e.wq
      /\ y.batch = e.batch
      /\ \A C \in {ReadDone, WriteDone, Expired, Canceled} : None(y.ready, C) <=> None(e.ready, C)
  BY TimerCancel
<1>2. x = [y EXCEPT !.timer = TRUE]
  BY DEF timer_restart
<1> HIDE DEF x, y
<1>3. y \in Endpoint
  BY <1>1 DEF Core
<1>4. /\ x \in Endpoint
      /\ x.ready = y.ready /\ x.batch = y.batch /\ x.events = y.events /\ x.out = y.out
      /\ x.open = y.open /\ x.rop = y.rop /\ x.wop = y.wop /\ x.wq = y.wq
  BY <1>2, <1>3 DEF Endpoint
<1>5. SameUpper(y, x)
  BY <1>2, <1>3 DEF Endpoint, SameUpper
<1>6. ReadInv(x) /\ WriteInv(x) /\ TimerInv(s, x) /\ EventInv(s, x) /\ BeatInv(s, x)
  BY <1>1, <1>4, <1>5
  DEF Core, ReadInv, WriteInv, TimerInv, EventInv, BeatInv, SameUpper, Side
<1>7. Core(s, x) /\ SameUpper(e, x)
  BY <1>1, <1>4, <1>5, <1>6 DEF Core, SameUpper
<1> QED
  BY <1>1, <1>4, <1>7 DEF x, y

LEMMA NoWriteType == NoWrite \in WriteOp /\ NoWrite.st = "idle"
  BY DEF NoWrite, WriteOp, Msg

\* What cancelling the outstanding read does to the endpoint, and the same of
\* the outstanding write.
LEMMA AbortRead ==
    ASSUME NEW s \in Side, NEW e, Core(s, e)
    PROVE  LET x == abort_read(e) IN
           /\ Core(s, x)
           /\ SameUpper(e, x)
           /\ x.open = e.open /\ x.wop = e.wop /\ x.wq = e.wq /\ x.timer = e.timer
           /\ x.rop = "none"
           /\ None(x.ready, WriteDone) <=> None(e.ready, WriteDone)
           /\ None(x.ready, Expired) <=> None(e.ready, Expired)
<1> DEFINE x == abort_read(e)
           y == [e EXCEPT !.rop = "none"]
           c == Done(e.rop, "aborted", 0)
<1>0. e \in Endpoint /\ e.ready \in Seq(Completion) /\ e.batch \in Nat
  BY DEF Core, Endpoint
<1>1. CASE e.rop = "none"
  BY <1>1 DEF abort_read, SameUpper
<1>2. CASE e.rop # "none"
  <2>1. /\ c \in Completion /\ c \in ReadDone
        /\ c \notin WriteDone /\ c \notin Continuation /\ c \notin Expired /\ c \notin HeaderOk
    <3>1. e.rop \in {"header", "payload"}
      BY <1>0, <1>2 DEF Endpoint
    <3> QED
      BY <3>1, CompletionKinds DEF Ec
  <2>2. y \in Endpoint /\ y.ready = e.ready /\ y.rop = "none" /\ y.batch = e.batch
        /\ y.open = e.open /\ y.wop = e.wop /\ y.wq = e.wq /\ y.timer = e.timer
        /\ y.events = e.events /\ y.out = e.out
    BY <1>0 DEF Endpoint
  <2>3. SameUpper(e, y)
    BY <1>0 DEF Endpoint, SameUpper
  <2>4. x = Post(y, c)
    BY <1>2 DEF abort_read
  <2> HIDE DEF x, y, c
  <2>5. /\ x \in Endpoint /\ x.ready = Append(e.ready, c) /\ SameUpper(e, x)
        /\ x.rop = "none" /\ x.batch = e.batch /\ x.timer = e.timer
        /\ x.open = e.open /\ x.wop = e.wop /\ x.wq = e.wq /\ x.events = e.events /\ x.out = e.out
    BY <2>1, <2>2, <2>3, <2>4, PostType DEF SameUpper
  <2>6. \A C \in {WriteDone, Continuation, Expired, HeaderOk} :
           /\ None(x.ready, C) <=> None(e.ready, C)
           /\ AtMostOne(x.ready, C) <=> AtMostOne(e.ready, C)
    BY <1>0, <2>1, <2>5, NoneAppend
  <2>7. e.open /\ None(e.ready, ReadDone)
    BY <1>2 DEF Core, ReadInv
  <2>8. AtMostOne(x.ready, ReadDone)
    BY <1>0, <2>1, <2>5, <2>7, NoneAppend
  <2>9. ReadInv(x) /\ WriteInv(x)
    BY <2>5, <2>6, <2>8 DEF Core, ReadInv, WriteInv
  <2>10. TimerInv(s, x)
    BY <1>0, <2>1, <2>5, <2>6, BatchAppend DEF Core, TimerInv
  <2>11. EventInv(s, x)
    <3>1. e.events = <<>>
      BY <2>7 DEF Core, EventInv
    <3> QED
      BY <2>5, <3>1 DEF EventInv, NoDuplicate, Has
  <2>12. BeatInv(s, x)
    BY <2>5, <2>6 DEF Core, BeatInv, SameUpper
  <2> QED
    BY <2>5, <2>6, <2>9, <2>10, <2>11, <2>12 DEF Core, x
<1> QED
  BY <1>1, <1>2

LEMMA AbortWrite ==
    ASSUME NEW s \in Side, NEW e, Core(s, e)
    PROVE  LET x == abort_write(e) IN
           /\ Core(s, x)
           /\ SameUpper(e, x)
           /\ x.open = e.open /\ x.rop = e.rop /\ x.wq = e.wq /\ x.timer = e.timer
           /\ x.wop.st # "pending"
           /\ e.wop.st = "idle" => /\ x.wop.st = "idle"
                                   /\ None(x.ready, WriteDone) <=> None(e.ready, WriteDone)
           /\ None(x.ready, ReadDone) <=> None(e.ready, ReadDone)
           /\ None(x.ready, Expired) <=> None(e.ready, Expired)
<1> DEFINE x == abort_write(e)
           y == [e EXCEPT !.wop = NoWrite]
           c == Done("write", "aborted", e.wop.n)
<1>0. e \in Endpoint /\ e.ready \in Seq(Completion) /\ e.batch \in Nat /\ e.wop.n \in 0..2
  BY DEF Core, Endpoint, WriteOp
<1>1. CASE e.wop.st # "pending"
  BY <1>1 DEF abort_write, SameUpper
<1>2. CASE e.wop.st = "pending"
  <2>1. /\ c \in Completion /\ c \in WriteDone
        /\ c \notin ReadDone /\ c \notin Continuation /\ c \notin Expired /\ c \notin HeaderOk
    BY <1>0, CompletionKinds DEF Ec
  <2>2. y \in Endpoint /\ y.ready = e.ready /\ y.wop = NoWrite /\ y.batch = e.batch
        /\ y.open = e.open /\ y.rop = e.rop /\ y.wq = e.wq /\ y.timer = e.timer
        /\ y.events = e.events /\ y.out = e.out
    BY <1>0, NoWriteType DEF Endpoint
  <2>3. SameUpper(e, y)
    BY <1>0 DEF Endpoint, SameUpper
  <2>4. x = Post(y, c)
    BY <1>2 DEF abort_write
  <2> HIDE DEF x, y, c
  <2>5. /\ x \in Endpoint /\ x.ready = Append(e.ready, c) /\ SameUpper(e, x)
        /\ x.wop = NoWrite /\ x.batch = e.batch /\ x.timer = e.timer
        /\ x.open = e.open /\ x.rop = e.rop /\ x.wq = e.wq /\ x.events = e.events /\ x.out = e.out
    BY <2>1, <2>2, <2>3, <2>4, PostType DEF SameUpper
  <2>6. \A C \in {ReadDone, Continuation, Expired, HeaderOk} :
           /\ None(x.ready, C) <=> None(e.ready, C)
           /\ AtMostOne(x.ready, C) <=> AtMostOne(e.ready, C)
    BY <1>0, <2>1, <2>5, NoneAppend
  <2>7. e.open /\ None(e.ready, WriteDone) /\ Has(e.wq, e.wop.buf)
    BY <1>2 DEF Core, WriteInv
  <2>8. AtMostOne(x.ready, WriteDone)
    BY <1>0, <2>1, <2>5, <2>7, NoneAppend
  <2>9. e.wq # <<>>
    BY <2>7 DEF Has
  <2>10. ReadInv(x)
    BY <2>5, <2>6 DEF Core, ReadInv
  <2>11. WriteInv(x)
    <3>1. x.wop.st = "idle"
      BY <2>5 DEF NoWrite
    <3>2. None(x.ready, Continuation)
      BY <1>2, <2>6 DEF Core, WriteInv
    <3> QED
      BY <2>5, <2>8, <2>9, <3>1, <3>2 DEF WriteInv
  <2>12. TimerInv(s, x)
    BY <1>0, <2>1, <2>5, <2>6, BatchAppend DEF Core, TimerInv
  <2>13. EventInv(s, x)
    <3>1. e.events = <<>>
      BY <2>7 DEF Core, EventInv
    <3> QED
      BY <2>5, <3>1 DEF EventInv, NoDuplicate, Has
  <2>14. BeatInv(s, x)
    BY <2>5, <2>6 DEF Core, BeatInv, SameUpper
  <2> QED
    BY <1>2, <2>5, <2>6, <2>10, <2>11, <2>12, <2>13, <2>14 DEF Core, NoWrite, x
<1> QED
  BY <1>1, <1>2

LEMMA ConnectionClose ==
    ASSUME NEW s \in Side, NEW e, Core(s, e)
    PROVE  LET x == connection_close(e) IN
           /\ Core(s, x)
           /\ SameUpper(e, x)
           /\ ~x.open
           /\ x.wq = e.wq
           /\ e.rop = "none" => (None(x.ready, ReadDone) <=> None(e.ready, ReadDone))
           /\ e.wop.st = "idle" => /\ x.wop.st = "idle"
                                   /\ None(x.ready, WriteDone) <=> None(e.ready, WriteDone)
           /\ None(x.ready, Expired) <=> None(e.ready, Expired)
<1> DEFINE t == timer_cancel(e)
           r == abort_read(t)
           w == abort_write(r)
           x == connection_close(e)
<1>1. /\ Core(s, t)
      /\ ~t.timer
      /\ SameUpper(e, t)
      /\ t.open = e.open /\ t.rop = e.rop /\ t.wop = e.wop /\ t.wq = e.wq
      /\ \A C \in {ReadDone, WriteDone, Expired} : None(t.ready, C) <=> None(e.ready, C)
  BY TimerCancel
<1>2. x = IF t.open THEN socket_close(t) ELSE t
  BY DEF connection_close, close_if_open
<1>3. CASE ~t.open
  <2> HIDE DEF t
  <2>1. x = t
    BY <1>2, <1>3
  <2> HIDE DEF x
  <2>2. Core(s, x) /\ SameUpper(e, x) /\ ~x.open /\ x.wq = e.wq /\ x.wop = e.wop
    BY <1>1, <1>3, <2>1
  <2>3. \A C \in {ReadDone, WriteDone, Expired} : None(x.ready, C) <=> None(e.ready, C)
    BY <1>1, <2>1
  <2> QED
    BY <2>2, <2>3 DEF x
<1>4. CASE t.open
  <2>1. /\ Core(s, r)
        /\ SameUpper(t, r)
        /\ r.open = t.open /\ r.wop = t.wop /\ r.wq = t.wq /\ r.timer = t.timer
        /\ r.rop = "none"
        /\ None(r.ready, WriteDone) <=> None(t.ready, WriteDone)
        /\ None(r.ready, Expired) <=> None(t.ready, Expired)
    BY <1>1, AbortRead
  <2>2. t.rop = "none" => r = t
    BY DEF abort_read
  <2>3. /\ Core(s, w)
        /\ SameUpper(r, w)
        /\ w.open = r.open /\ w.rop = r.rop /\ w.wq = r.wq /\ w.timer = r.timer
        /\ w.wop.st # "pending"
        /\ r.wop.st = "idle" => /\ w.wop.st = "idle"
                                /\ None(w.ready, WriteDone) <=> None(r.ready, WriteDone)
        /\ None(w.ready, ReadDone) <=> None(r.ready, ReadDone)
        /\ None(w.ready, Expired) <=> None(r.ready, Expired)
    BY <2>1, AbortWrite
  <2>4. x = [w EXCEPT !.open = FALSE]
    BY <1>2, <1>4 DEF socket_close
  <2> HIDE DEF t, r, w, x
  <2>5. w \in Endpoint
    BY <2>3 DEF Core
  <2>6. /\ x \in Endpoint /\ ~x.open
        /\ x.ready = w.ready /\ x.batch = w.batch /\ x.timer = w.timer
        /\ x.rop = w.rop /\ x.wop = w.wop /\ x.wq = w.wq /\ x.events = w.events
        /\ x.out = w.out
    BY <2>4, <2>5 DEF Endpoint
  <2>7. SameUpper(w, x)
    BY <2>4, <2>5 DEF Endpoint, SameUpper
  <2>8. ReadInv(x) /\ WriteInv(x) /\ TimerInv(s, x) /\ EventInv(s, x) /\ BeatInv(s, x)
    BY <1>1, <2>1, <2>3, <2>6, <2>7
    DEF Core, ReadInv, WriteInv, TimerInv, EventInv, BeatInv, SameUpper
  <2>9. Core(s, x) /\ SameUpper(e, x)
    BY <1>1, <2>1, <2>3, <2>6, <2>7, <2>8 DEF Core, SameUpper
  <2>10. e.rop = "none" => (None(x.ready, ReadDone) <=> None(e.ready, ReadDone))
    BY <1>1, <2>2, <2>3, <2>6
  <2>11. e.wop.st = "idle" => /\ x.wop.st = "idle"
                             /\ None(x.ready, WriteDone) <=> None(e.ready, WriteDone)
    BY <1>1, <2>1, <2>3, <2>6
  <2>12. None(x.ready, Expired) <=> None(e.ready, Expired)
    BY <1>1, <2>1, <2>3, <2>6
  <2> QED
    BY <1>1, <2>1, <2>3, <2>6, <2>9, <2>10, <2>11, <2>12 DEF x
<1> QED
  BY <1>3, <1>4

\* Reporting an event that was not reported before and cannot be again.
LEMMA ReportEvent ==
    ASSUME NEW s \in Side, NEW e, Core(s, e), ~e.open, NEW ev \in Event,
           ~Has(e.events, ev),
           ev = "close" => None(e.ready, ReadDone),
           ev = "pipe" => None(e.ready, WriteDone) /\ e.wop.st = "idle" /\ e.wq # <<>>,
           ev = "timeout" => s = "server" /\ None(e.ready, Expired)
    PROVE  LET x == upper_layer_event_callback(e, ev) IN
           /\ Core(s, x)
           /\ ~x.open
           /\ x.hdr = e.hdr /\ x.ready = e.ready /\ x.got = e.got
<1> DEFINE x == upper_layer_event_callback(e, ev)
           new == Append(e.events, ev)
<1>1. e \in Endpoint /\ e.events \in Seq(Event)
  BY DEF Core, Endpoint
<1>2. new \in Seq(Event)
  BY <1>1
<1>3. x = [e EXCEPT !.events = new]
  BY DEF upper_layer_event_callback
<1>4. \A y \in Event : Has(new, y) <=> Has(e.events, y) \/ y = ev
  BY <1>1 DEF Has
<1>5. NoDuplicate(new)
  BY <1>1 DEF Core, EventInv, NoDuplicate, Has
<1> HIDE DEF x, new
<1>6. /\ x \in Endpoint /\ x.events = new
      /\ x.open = e.open /\ x.ready = e.ready /\ x.batch = e.batch /\ x.timer = e.timer
      /\ x.rop = e.rop /\ x.wop = e.wop /\ x.wq = e.wq /\ x.hdr = e.hdr /\ x.got = e.got
      /\ x.out = e.out
  BY <1>1, <1>2, <1>3 DEF Endpoint
<1>7. ReadInv(x) /\ WriteInv(x) /\ TimerInv(s, x) /\ BeatInv(s, x)
  BY <1>6 DEF Core, ReadInv, WriteInv, TimerInv, BeatInv
<1>8. EventInv(s, x)
  BY <1>4, <1>5, <1>6 DEF Core, EventInv, Event
<1> QED
  BY <1>6, <1>7, <1>8 DEF Core, x

-----------------------------------------------------------------------------
(***************************************************************************)
(* Writing.                                                                *)
(***************************************************************************)

LEMMA SegmentsType ==
    ASSUME NEW m \in Msg
    PROVE  Segments(m) \in Seq(Segment) /\ Len(Segments(m)) \in 1..2
<1> DEFINE h == [kind |-> "header", msg |-> m]
           b == [kind |-> "payload", msg |-> m]
<1>1. h \in Segment /\ b \in Segment
  BY DEF Segment
<1>2. Segments(m) = <<h>> \/ Segments(m) = <<h, b>>
  BY DEF Segments
<1> HIDE DEF h, b
<1> DEFINE one == <<h>>
           two == <<h, b>>
<1>3. one \in Seq(Segment) /\ Len(one) = 1
  BY <1>1
<1>4. two \in Seq(Segment) /\ Len(two) = 2
  BY <1>1
<1>5. Segments(m) = one \/ Segments(m) = two
  BY <1>2
<1> HIDE DEF one, two
<1> QED
  BY <1>3, <1>4, <1>5

LEMMA SegmentsMsg ==
    ASSUME NEW m \in Msg
    PROVE  \A i \in 1..Len(Segments(m)) : Segments(m)[i].msg = m
  BY DEF Segments

LEMMA RestType ==
    ASSUME NEW m \in Msg, NEW n \in 0..2
    PROVE  SubSeq(Segments(m), n + 1, Len(Segments(m))) \in Seq(Segment)
<1> DEFINE q == Segments(m)
<1>1. q \in Seq(Segment) /\ Len(q) \in 1..2
  BY SegmentsType
<1> HIDE DEF q
<1>2. \A i \in (n + 1)..Len(q) : i \in 1..Len(q)
  BY <1>1
<1> QED
  BY <1>1, <1>2 DEF q

\* The endpoint after the kernel took some segments: the write operation is w,
\* and o is on the wire.
Written(e, w, o) == [e EXCEPT !.wop = w, !.out = o]

LEMMA SetWrite ==
    ASSUME NEW e \in Endpoint, NEW w \in WriteOp, NEW o \in Seq(Segment)
    PROVE  LET y == Written(e, w, o) IN
           /\ y \in Endpoint /\ y.wop = w /\ y.out = o
           /\ SameUpper(e, y)
           /\ y.open = e.open /\ y.rop = e.rop /\ y.wq = e.wq
           /\ y.timer = e.timer /\ y.batch = e.batch /\ y.ready = e.ready
  BY DEF Endpoint, SameUpper, Written

\* A write that starts, or goes on, when none is outstanding leaves the endpoint
\* with exactly one, whatever the kernel answers.
LEMMA WriteSome ==
    ASSUME NEW s \in Side, NEW e \in Endpoint,
           ReadInv(e), TimerInv(s, e), EventInv(s, e), BeatInv(s, e), ~Has(e.events, "pipe"),
           None(e.ready, WriteDone), None(e.ready, Continuation),
           NEW buf \in Msg, Has(e.wq, buf), NEW n \in 0..2, NEW k \in Outcome
    PROVE  LET x == write_some(e, buf, n, k) IN
           /\ Core(s, x)
           /\ Outstanding(x)
           /\ SameUpper(e, x)
           /\ x.open = e.open /\ x.rop = e.rop /\ x.wq = e.wq /\ x.timer = e.timer
           /\ x.batch = e.batch
           /\ \A C \in {ReadDone, Expired, Canceled} : None(x.ready, C) <=> None(e.ready, C)
<1> DEFINE segs == Segments(buf)
           x == write_some(e, buf, n, k)
<1>0. /\ e.ready \in Seq(Completion) /\ e.batch \in Nat /\ e.out \in Seq(Segment)
      /\ segs \in Seq(Segment) /\ Len(segs) \in 1..2
      /\ SubSeq(segs, n + 1, Len(segs)) \in Seq(Segment)
      /\ e.wq # <<>>
  BY SegmentsType, RestType DEF Endpoint, Has
<1>a. s = "server" => NoBeats(e.out) /\ buf # Heartbeat
  BY DEF BeatInv, Has
<1>b. \A i \in 1..Len(segs) : segs[i].msg = buf
  BY SegmentsMsg
<1> HIDE DEF segs
\* The three outcomes that post a completion share this argument.
<1>1. ASSUME NEW w \in WriteOp, NEW o \in Seq(Segment), NEW c \in Completion,
             c \in WriteDone, c \notin ReadDone, c \notin Expired, c \notin HeaderOk /\ c \notin Canceled,
             s = "server" => NoBeats(o),
             \/ w.st = "idle" /\ c \notin Continuation
             \/ w.st = "queued" /\ w.buf = buf /\ c \in Continuation,
             x = Post(Written(e, w, o), c)
      PROVE  /\ Core(s, x)
             /\ Outstanding(x)
             /\ SameUpper(e, x)
             /\ x.open = e.open /\ x.rop = e.rop /\ x.wq = e.wq /\ x.timer = e.timer
             /\ x.batch = e.batch
             /\ \A C \in {ReadDone, Expired, Canceled} : None(x.ready, C) <=> None(e.ready, C)
  <2> DEFINE y == Written(e, w, o)
  <2>1. /\ y \in Endpoint /\ y.wop = w /\ y.out = o
        /\ SameUpper(e, y)
        /\ y.open = e.open /\ y.rop = e.rop /\ y.wq = e.wq
        /\ y.timer = e.timer /\ y.batch = e.batch /\ y.ready = e.ready
    BY SetWrite
  <2>2. x = Post(y, c)
    BY <1>1
  <2> HIDE DEF y, x
  <2>3. /\ x \in Endpoint /\ x.ready = Append(e.ready, c) /\ SameUpper(e, x) /\ x.out = o
        /\ x.open = e.open /\ x.rop = e.rop /\ x.wop = w /\ x.wq = e.wq
        /\ x.timer = e.timer /\ x.batch = e.batch /\ x.events = e.events
    BY <2>1, <2>2, PostType DEF SameUpper
  <2>4. \A C \in {ReadDone, Expired, HeaderOk, Canceled} :
           /\ None(x.ready, C) <=> None(e.ready, C)
           /\ AtMostOne(x.ready, C) <=> AtMostOne(e.ready, C)
    BY <1>0, <1>1, <2>3, NoneAppend
  <2>5. AtMostOne(x.ready, WriteDone) /\ ~None(x.ready, WriteDone)
    BY <1>0, <1>1, <2>3, NoneAppend
  <2>6. None(x.ready, Continuation) <=> c \notin Continuation
    BY <1>0, <1>1, <2>3, NoneAppend
  <2>7. WriteInv(x)
    BY <1>0, <1>1, <2>3, <2>5, <2>6 DEF WriteInv
  <2>8. ReadInv(x)
    BY <2>3, <2>4 DEF ReadInv
  <2>9. TimerInv(s, x)
    BY <1>0, <1>1, <2>3, <2>4, BatchAppend DEF TimerInv
  <2>10. EventInv(s, x)
    BY <2>3, <2>4 DEF EventInv
  <2>11. BeatInv(s, x)
    BY <1>1, <2>3, <2>4 DEF BeatInv, SameUpper
  <2> QED
    BY <2>3, <2>4, <2>5, <2>7, <2>8, <2>9, <2>10, <2>11 DEF Core, Outstanding
<1>2. CASE ~e.open \/ k = "error"
  <2> DEFINE c == Done("write", "error", n)
  <2>1. x = Post([e EXCEPT !.wop = NoWrite], c)
    BY <1>2 DEF write_some
  <2>2. [e EXCEPT !.wop = NoWrite] = Written(e, NoWrite, e.out)
    BY DEF Endpoint, Written
  <2>3. /\ c \in Completion /\ c \in WriteDone
        /\ c \notin ReadDone /\ c \notin Expired /\ c \notin Continuation
        /\ c \notin HeaderOk /\ c \notin Canceled
    BY CompletionKinds DEF Ec
  <2>4. x = Post(Written(e, NoWrite, e.out), c)
    BY <2>1, <2>2
  <2> HIDE DEF c, x
  <2> QED
    BY <1>0, <1>a, <1>1, <2>3, <2>4, NoWriteType DEF x
<1>3. CASE e.open /\ k = "pending"
  <2> DEFINE w == [st |-> "pending", buf |-> buf, n |-> n]
  <2>1. x = [e EXCEPT !.wop = w]
    BY <1>3 DEF write_some
  <2>2. x = Written(e, w, e.out)
    BY <2>1 DEF Endpoint, Written
  <2>3. w \in WriteOp /\ w.st = "pending" /\ w.buf = buf
    BY DEF WriteOp
  <2> HIDE DEF w, x
  <2>4. /\ x \in Endpoint /\ x.wop = w
        /\ SameUpper(e, x)
        /\ x.open = e.open /\ x.rop = e.rop /\ x.wq = e.wq
        /\ x.timer = e.timer /\ x.batch = e.batch /\ x.ready = e.ready
        /\ x.out = e.out
    BY <1>0, <2>2, <2>3, SetWrite
  <2>5. AtMostOne(x.ready, WriteDone)
    BY <2>4 DEF AtMostOne, None
  <2>6. ReadInv(x) /\ WriteInv(x) /\ TimerInv(s, x)
    BY <1>0, <1>3, <2>3, <2>4, <2>5 DEF ReadInv, WriteInv, TimerInv
  <2>7. EventInv(s, x) /\ BeatInv(s, x)
    BY <1>a, <2>4 DEF EventInv, BeatInv, SameUpper
  <2> QED
    BY <2>3, <2>4, <2>6, <2>7 DEF Core, Outstanding, x
<1>4. CASE e.open /\ k = "part" /\ n + 1 < Len(segs)
  <2> DEFINE w == [st |-> "queued", buf |-> buf, n |-> n + 1]
             o == Append(e.out, segs[n + 1])
             c == Done("write_some", "ok", 0)
  <2>1. x = Post(Written(e, w, o), c)
    BY <1>4 DEF write_some, segs, Written
  <2>2. w \in WriteOp /\ w.st = "queued" /\ w.buf = buf
    BY <1>0, <1>4 DEF WriteOp
  <2>3. o \in Seq(Segment)
    BY <1>0, <1>4
  <2>5. s = "server" => NoBeats(o)
    BY <1>0, <1>a, <1>b, <1>4 DEF NoBeats
  <2>4. c \in Completion /\ c \in WriteDone /\ c \in Continuation
        /\ c \notin ReadDone /\ c \notin Expired /\ c \notin HeaderOk /\ c \notin Canceled
    BY CompletionKinds DEF Ec
  <2> HIDE DEF w, o, c, x
  <2> QED
    BY <1>1, <2>1, <2>2, <2>3, <2>4, <2>5 DEF x
<1>5. CASE e.open /\ k \notin {"error", "pending"} /\ ~(k = "part" /\ n + 1 < Len(segs))
  <2> DEFINE o == e.out \o SubSeq(segs, n + 1, Len(segs))
             c == Done("write", "ok", Len(segs))
  <2>1. x = Post(Written(e, NoWrite, o), c)
    BY <1>5 DEF write_some, segs, Written
  <2>2. o \in Seq(Segment)
    BY <1>0
  <2>4. s = "server" => NoBeats(o)
    <3>1. \A i \in 1..Len(SubSeq(segs, n + 1, Len(segs))) :
             SubSeq(segs, n + 1, Len(segs))[i].msg = buf
      BY <1>0, <1>b
    <3> DEFINE rest == SubSeq(segs, n + 1, Len(segs))
    <3>2. rest \in Seq(Segment)
      BY <1>0
    <3>3. \A i \in 1..Len(rest) : rest[i].msg = buf
      BY <3>1
    <3> HIDE DEF rest
    <3>4. s = "server" => NoBeats(e.out \o rest)
      BY <1>0, <1>a, <3>2, <3>3 DEF NoBeats
    <3> QED
      BY <3>4 DEF rest
  <2>3. /\ c \in Completion /\ c \in WriteDone
        /\ c \notin ReadDone /\ c \notin Expired /\ c \notin Continuation
        /\ c \notin HeaderOk /\ c \notin Canceled
    BY <1>0, CompletionKinds DEF Ec
  <2> HIDE DEF o, c, x
  <2> QED
    BY <1>1, <2>1, <2>2, <2>3, <2>4, NoWriteType DEF x
<1> QED
  BY <1>2, <1>3, <1>4, <1>5

\* push: do_send_header, and do_send_message after it numbered the message.
LEMMA Push ==
    ASSUME NEW s \in Side, NEW e, Core(s, e), Writing(e),
           NEW m \in Msg, s = "server" => m # Heartbeat, NEW k \in Outcome
    PROVE  LET x == push(e, m, k) IN
           /\ Core(s, x)
           /\ Writing(x)
           /\ SameUpper(e, x)
           /\ x.open = e.open /\ x.rop = e.rop /\ x.timer = e.timer /\ x.batch = e.batch
           /\ \A C \in {ReadDone, Expired, Canceled} : None(x.ready, C) <=> None(e.ready, C)
<1> DEFINE q == Append(e.wq, m)
           y == [e EXCEPT !.wq = q]
           x == push(e, m, k)
<1>0. e \in Endpoint /\ e.wq \in Seq(Msg)
  BY DEF Core, Endpoint
<1>1. /\ q \in Seq(Msg) /\ q # <<>> /\ Len(q) = Len(e.wq) + 1
      /\ \A b : Has(e.wq, b) => Has(q, b)
      /\ q[Len(q)] = m /\ Has(q, m)
      /\ Has(q, Heartbeat) => Has(e.wq, Heartbeat) \/ m = Heartbeat
  BY <1>0 DEF Has
<1> HIDE DEF q
<1>2. /\ y \in Endpoint /\ y.wq = q
      /\ y.open = e.open /\ y.rop = e.rop /\ y.wop = e.wop /\ y.timer = e.timer
      /\ y.batch = e.batch /\ y.ready = e.ready /\ y.events = e.events
      /\ y.out = e.out
  BY <1>0, <1>1 DEF Endpoint
<1>3. SameUpper(e, y)
  BY <1>0 DEF Endpoint, SameUpper
<1>4. x = IF Len(y.wq) = 1 THEN write_some(y, y.wq[Len(y.wq)], 0, k) ELSE y
  BY DEF push, do_write, q
<1> HIDE DEF x, y
<1>5. ReadInv(y) /\ WriteInv(y) /\ TimerInv(s, y) /\ EventInv(s, y) /\ BeatInv(s, y)
  BY <1>1, <1>2, <1>3
  DEF Core, ReadInv, WriteInv, TimerInv, EventInv, BeatInv, SameUpper
<1>6. Len(y.wq) = 1 <=> e.wq = <<>>
  <2>1. Len(q) = Len(e.wq) + 1 /\ Len(e.wq) \in Nat
    BY <1>0, <1>1
  <2>2. Len(e.wq) = 0 <=> e.wq = <<>>
    BY <1>0
  <2>3. y.wq = q
    BY <1>2
  <2>4. Len(y.wq) = Len(e.wq) + 1
    BY <2>1, <2>3
  <2> QED
    BY <2>1, <2>2, <2>4
<1>7. CASE Len(y.wq) = 1
  <2>1. e.wq = <<>>
    BY <1>6, <1>7
  <2>2. /\ None(e.ready, WriteDone) /\ e.wop.st = "idle" /\ None(e.ready, Continuation)
        /\ ~Has(e.events, "pipe")
    BY <2>1 DEF Core, WriteInv, EventInv, Has
  <2>3. x = write_some(y, m, 0, k)
    BY <1>1, <1>2, <1>4, <1>7
  <2>4. /\ Core(s, x)
        /\ Outstanding(x)
        /\ SameUpper(y, x)
        /\ x.open = y.open /\ x.rop = y.rop /\ x.wq = y.wq /\ x.timer = y.timer
        /\ x.batch = y.batch
        /\ \A C \in {ReadDone, Expired, Canceled} : None(x.ready, C) <=> None(y.ready, C)
    BY <1>1, <1>2, <1>5, <2>2, <2>3, WriteSome
  <2>5. Writing(x) /\ SameUpper(e, x)
    BY <1>3, <2>4 DEF Writing, SameUpper
  <2> QED
    BY <1>2, <2>4, <2>5 DEF x
<1>8. CASE Len(y.wq) # 1
  <2>1. x = y
    BY <1>4, <1>8
  <2>2. e.wq # <<>>
    BY <1>6, <1>8
  <2>3. Writing(y)
    BY <1>2, <2>2 DEF Writing, Outstanding
  <2> QED
    BY <1>2, <1>3, <1>5, <2>1, <2>3 DEF Core, x
<1> QED
  BY <1>7, <1>8

LEMMA SendMessage ==
    ASSUME NEW s \in Side, NEW e, Core(s, e), Writing(e), NEW k \in Outcome
    PROVE  LET x == do_send_message(e, k) IN
           /\ Core(s, x)
           /\ Writing(x)
           /\ x.open = e.open /\ x.rop = e.rop /\ x.timer = e.timer /\ x.batch = e.batch
           /\ x.hdr = e.hdr /\ x.got = e.got /\ x.events = e.events
           /\ \A C \in {ReadDone, Expired, Canceled} : None(x.ready, C) <=> None(e.ready, C)
<1> DEFINE n == e.nsent + 1
           y == [e EXCEPT !.nsent = n]
           x == do_send_message(e, k)
<1>0. e \in Endpoint /\ n \in Nat /\ n \in Msg /\ n # Heartbeat
  BY DEF Core, Endpoint, Msg, Heartbeat
<1>2. x = push(y, n, k)
  BY DEF do_send_message
<1> HIDE DEF n, x
<1>1. /\ y \in Endpoint /\ y.wq = e.wq
      /\ y.open = e.open /\ y.rop = e.rop /\ y.wop = e.wop /\ y.timer = e.timer
      /\ y.batch = e.batch /\ y.ready = e.ready /\ y.events = e.events
      /\ y.hdr = e.hdr /\ y.got = e.got /\ y.out = e.out
  BY <1>0 DEF Endpoint
<1> HIDE DEF y
<1>3. Core(s, y) /\ Writing(y)
  BY <1>1 DEF Core, ReadInv, WriteInv, TimerInv, EventInv, BeatInv, Writing, Outstanding
<1>5. /\ Core(s, x)
      /\ Writing(x)
      /\ SameUpper(y, x)
      /\ x.open = y.open /\ x.rop = y.rop /\ x.timer = y.timer /\ x.batch = y.batch
      /\ \A C \in {ReadDone, Expired, Canceled} : None(x.ready, C) <=> None(y.ready, C)
  BY <1>0, <1>2, <1>3, Push
<1> QED
  BY <1>1, <1>5 DEF SameUpper, x

-----------------------------------------------------------------------------
(***************************************************************************)
(* Taking the oldest completion off the queue.                             *)
(***************************************************************************)

Pop(e) == [e EXCEPT !.ready = Tail(e.ready), !.batch = e.batch - 1]

LEMMA PopType ==
    ASSUME NEW e \in Endpoint, e.batch > 0, e.batch <= Len(e.ready)
    PROVE  LET x == Pop(e) IN
           /\ e.ready # <<>> /\ Head(e.ready) \in Completion
           /\ x \in Endpoint
           /\ SameUpper(e, x)
           /\ x.open = e.open /\ x.rop = e.rop /\ x.wop = e.wop /\ x.wq = e.wq
           /\ x.timer = e.timer /\ x.out = e.out
           /\ x.ready = Tail(e.ready) /\ x.batch = e.batch - 1
<1> DEFINE q == Tail(e.ready)
           b == e.batch - 1
<1>1. e.ready \in Seq(Completion) /\ e.batch \in Nat
  BY DEF Endpoint
<1>2. e.ready # <<>> /\ Head(e.ready) \in Completion /\ q \in Seq(Completion) /\ b \in Nat
  BY <1>1
<1>3. Pop(e) = [e EXCEPT !.ready = q, !.batch = b]
  BY DEF Pop
<1> HIDE DEF q, b
<1>4. LET x == [e EXCEPT !.ready = q, !.batch = b] IN
           /\ x \in Endpoint
           /\ SameUpper(e, x)
           /\ x.open = e.open /\ x.rop = e.rop /\ x.wop = e.wop /\ x.wq = e.wq
           /\ x.timer = e.timer /\ x.out = e.out
           /\ x.ready = q /\ x.batch = b
  BY <1>2 DEF Endpoint, SameUpper
<1> QED
  BY <1>2, <1>3, <1>4 DEF q, b

\* Everything but the write operation's link to its continuation survives, and
\* the completion that was taken was the only one of its kind.
LEMMA PopInv ==
    ASSUME NEW s \in Side, NEW e, Core(s, e), e.batch > 0
    PROVE  LET x == Pop(e)  c == Head(e.ready) IN
           /\ x \in Endpoint /\ c \in Completion
           /\ SameUpper(e, x)
           /\ x.open = e.open /\ x.rop = e.rop /\ x.wop = e.wop /\ x.wq = e.wq
           /\ x.timer = e.timer /\ x.out = e.out
           /\ ReadInv(x) /\ TimerInv(s, x) /\ EventInv(s, x) /\ BeatInv(s, x)
           /\ c \notin Continuation => Core(s, x)
           /\ \A C \in {ReadDone, WriteDone, Continuation, Expired, Canceled} :
                 /\ c \in C => None(x.ready, C) /\ ~None(e.ready, C)
                 /\ c \notin C => (None(x.ready, C) <=> None(e.ready, C))
<1> DEFINE x == Pop(e)
           c == Head(e.ready)
<1>0. e \in Endpoint /\ e.batch \in Nat /\ e.batch <= Len(e.ready)
      /\ e.ready \in Seq(Completion)
  BY DEF Core, Endpoint, TimerInv
<1>1. /\ e.ready # <<>> /\ c \in Completion
      /\ x \in Endpoint
      /\ SameUpper(e, x)
      /\ x.open = e.open /\ x.rop = e.rop /\ x.wop = e.wop /\ x.wq = e.wq
      /\ x.timer = e.timer /\ x.out = e.out
      /\ x.ready = Tail(e.ready) /\ x.batch = e.batch - 1
  BY <1>0, PopType
<1> HIDE DEF x
<1>2. AtMostOne(e.ready, Continuation)
  <2>1. AtMostOne(e.ready, WriteDone)
    BY DEF Core, WriteInv
  <2>2. Continuation \subseteq WriteDone
    BY DEF Continuation, WriteDone
  <2> QED
    BY <2>1, <2>2 DEF AtMostOne, Queued
<1>b. AtMostOne(e.ready, Canceled)
  <2>1. Canceled \subseteq ReadDone
    BY DEF Canceled, ReadDone, Ec
  <2> QED
    BY <2>1 DEF AtMostOne, Queued, Core, ReadInv
<1>3. \A C \in {ReadDone, WriteDone, Continuation, Expired, Canceled} : AtMostOne(e.ready, C)
  BY <1>2, <1>b DEF Core, ReadInv, WriteInv, TimerInv
<1>4. \A C \in {ReadDone, WriteDone, Continuation, Expired, Canceled} :
         /\ AtMostOne(x.ready, C)
         /\ c \in C => None(x.ready, C)
         /\ c \notin C => (None(x.ready, C) <=> None(e.ready, C))
  BY <1>0, <1>1, <1>3, NoneTail
<1>5. \A C : c \in C => ~None(e.ready, C)
  <2> SUFFICES ASSUME NEW C, c \in C  PROVE 1 \in Queued(e.ready, C)
    BY DEF None
  <2> QED
    BY <1>0, <1>1 DEF Queued
<1>6. ReadInv(x)
  BY <1>1, <1>4 DEF Core, ReadInv
<1>7. TimerInv(s, x)
  <2>1. \A i \in Queued(x.ready, Expired) : i <= x.batch
    <3> SUFFICES ASSUME NEW i \in Queued(x.ready, Expired)  PROVE i <= x.batch
      OBVIOUS
    <3>1. i \in 1..Len(e.ready) - 1 /\ i + 1 \in Queued(e.ready, Expired)
      BY <1>0, <1>1 DEF Queued
    <3>2. i + 1 <= e.batch
      BY <3>1 DEF Core, TimerInv
    <3> QED
      BY <1>0, <1>1, <3>1, <3>2
  <2>2. x.batch <= Len(x.ready)
    BY <1>0, <1>1
  <2> QED
    BY <1>1, <1>4, <2>1, <2>2 DEF Core, TimerInv
<1>8. EventInv(s, x)
  BY <1>1, <1>4, <1>5 DEF Core, EventInv, SameUpper
<1>9. ASSUME c \notin Continuation  PROVE WriteInv(x)
  BY <1>1, <1>4, <1>5, <1>9 DEF Core, WriteInv
<1>10. BeatInv(s, x)
  <2>1. AtMostOne(e.ready, HeaderOk)
    <3>1. HeaderOk \subseteq ReadDone
      BY DEF HeaderOk, ReadDone, Ec
    <3> QED
      BY <1>3, <3>1 DEF AtMostOne, Queued
  <2>2. None(e.ready, HeaderOk) => None(x.ready, HeaderOk)
    BY <1>0, <1>1, <2>1, NoneTail
  <2> QED
    BY <1>1, <2>2 DEF Core, BeatInv, SameUpper
<1> QED
  BY <1>1, <1>4, <1>5, <1>6, <1>7, <1>8, <1>9, <1>10 DEF Core, x

-----------------------------------------------------------------------------
\* What holds of an endpoint between two handlers.
EpInv(s, e) == Core(s, e) /\ Reading(e) /\ Writing(e)

\* A closed endpoint need not go on.
LEMMA ClosedInv ==
    ASSUME NEW s, NEW e, Core(s, e), ~e.open
    PROVE  EpInv(s, e)
  BY DEF EpInv, Reading, Writing

-----------------------------------------------------------------------------
(***************************************************************************)
(* The io loop between handlers: what a popped completion was.             *)
(***************************************************************************)

\* The completion of a read was the only one, and no read is outstanding.
LEMMA PopRead ==
    ASSUME NEW s \in Side, NEW e, EpInv(s, e), e.batch > 0,
           Head(e.ready).op \in {"header", "payload"}
    PROVE  LET p == Pop(e) IN
           /\ Core(s, p) /\ Writing(p)
           /\ p.rop = "none" /\ None(p.ready, ReadDone)
           /\ ~None(e.ready, ReadDone)
           /\ SameUpper(e, p) /\ p.open = e.open
<1> DEFINE p == Pop(e)
           c == Head(e.ready)
<1>1. Core(s, e) /\ Writing(e)
  BY DEF EpInv
<1>2. /\ p \in Endpoint /\ c \in Completion
      /\ SameUpper(e, p)
      /\ p.open = e.open /\ p.rop = e.rop /\ p.wop = e.wop /\ p.wq = e.wq
      /\ c \notin Continuation => Core(s, p)
      /\ \A C \in {ReadDone, WriteDone, Continuation, Expired, Canceled} :
            /\ c \in C => None(p.ready, C) /\ ~None(e.ready, C)
            /\ c \notin C => (None(p.ready, C) <=> None(e.ready, C))
  BY <1>1, PopInv
<1>3. c \in ReadDone /\ c \notin WriteDone /\ c \notin Continuation
  <2>1. c \in Completion /\ c.op \in {"header", "payload"}
    BY <1>2
  <2> HIDE DEF c
  <2> QED
    BY <2>1 DEF Completion, ReadDone, WriteDone, Continuation
<1> HIDE DEF p, c
<1>4. e.rop = "none"
  BY <1>1, <1>2, <1>3 DEF Core, ReadInv
<1>5. Writing(p)
  BY <1>1, <1>2, <1>3 DEF Writing, Outstanding
<1> QED
  BY <1>2, <1>3, <1>4, <1>5 DEF p

\* The completion of a write was the only one, and no write is outstanding.
LEMMA PopWrite ==
    ASSUME NEW s \in Side, NEW e, EpInv(s, e), e.batch > 0,
           Head(e.ready).op = "write"
    PROVE  LET p == Pop(e) IN
           /\ Core(s, p)
           /\ p.wop.st = "idle" /\ None(p.ready, WriteDone) /\ None(p.ready, Continuation)
           /\ p.wq # <<>> /\ ~Has(p.events, "pipe")
           /\ SameUpper(e, p) /\ p.open = e.open /\ p.rop = e.rop
           /\ \A C \in {ReadDone, Canceled} : None(p.ready, C) <=> None(e.ready, C)
<1> DEFINE p == Pop(e)
           c == Head(e.ready)
<1>1. Core(s, e)
  BY DEF EpInv
<1>2. /\ p \in Endpoint /\ c \in Completion
      /\ SameUpper(e, p)
      /\ p.open = e.open /\ p.rop = e.rop /\ p.wop = e.wop /\ p.wq = e.wq
      /\ c \notin Continuation => Core(s, p)
      /\ \A C \in {ReadDone, WriteDone, Continuation, Expired, Canceled} :
            /\ c \in C => None(p.ready, C) /\ ~None(e.ready, C)
            /\ c \notin C => (None(p.ready, C) <=> None(e.ready, C))
  BY <1>1, PopInv
<1>3. c \in WriteDone /\ c \notin ReadDone /\ c \notin Continuation /\ c \notin Canceled
  <2>1. c \in Completion /\ c.op = "write"
    BY <1>2
  <2> HIDE DEF c
  <2> QED
    BY <2>1 DEF Completion, ReadDone, WriteDone, Continuation, Canceled
<1> HIDE DEF p, c
<1>4. None(p.ready, WriteDone) /\ ~None(e.ready, WriteDone)
  BY <1>2, <1>3
<1>5. None(p.ready, Continuation)
  <2>1. Continuation \subseteq WriteDone
    BY DEF Continuation, WriteDone
  <2> QED
    BY <1>4, <2>1 DEF None, Queued
<1>6. e.wop \in WriteOp
  BY <1>1 DEF Core, Endpoint
<1>7. e.wop.st = "idle"
  BY <1>1, <1>2, <1>3, <1>4, <1>5, <1>6 DEF Core, WriteInv, WriteOp
<1>8. e.wq # <<>> /\ ~Has(e.events, "pipe")
  BY <1>1, <1>4 DEF Core, WriteInv, EventInv
<1> QED
  BY <1>2, <1>3, <1>4, <1>5, <1>7, <1>8 DEF p, SameUpper

-----------------------------------------------------------------------------
(***************************************************************************)
(* The handlers.                                                           *)
(***************************************************************************)

\* Starting a read when none is outstanding.
LEMMA StartRead ==
    ASSUME NEW s \in Side, NEW e, Core(s, e), Writing(e), e.open, e.rop = "none",
           None(e.ready, ReadDone), NEW op \in {"header", "payload"}
    PROVE  LET x == [e EXCEPT !.rop = op] IN
           EpInv(s, x) /\ x.got = e.got
<1> DEFINE x == [e EXCEPT !.rop = op]
<1>0. e \in Endpoint
  BY DEF Core
<1>1. /\ x \in Endpoint /\ x.rop = op
      /\ x.open = e.open /\ x.wop = e.wop /\ x.wq = e.wq /\ x.timer = e.timer
      /\ x.batch = e.batch /\ x.ready = e.ready /\ x.out = e.out
  BY <1>0 DEF Endpoint
<1>2. SameUpper(e, x)
  BY <1>0 DEF Endpoint, SameUpper
<1> HIDE DEF x
<1>3. None(e.ready, Canceled)
  <2>1. Canceled \subseteq ReadDone
    BY DEF Canceled, ReadDone, Ec
  <2> QED
    BY <2>1 DEF None, Queued
<1>4. ReadInv(x) /\ WriteInv(x) /\ TimerInv(s, x) /\ EventInv(s, x) /\ BeatInv(s, x)
  BY <1>1, <1>2 DEF Core, ReadInv, WriteInv, TimerInv, EventInv, BeatInv, SameUpper
<1>5. Reading(x) /\ Writing(x)
  BY <1>1, <1>3 DEF Reading, Writing, Outstanding
<1> QED
  BY <1>1, <1>2, <1>4, <1>5 DEF EpInv, Core, SameUpper, x

\* do_receive_message after the connection may have been closed.
LEMMA ReceiveMessage ==
    ASSUME NEW s \in Side, NEW e, Core(s, e), Writing(e),
           e.open => e.rop = "none" /\ None(e.ready, ReadDone)
    PROVE  /\ EpInv(s, do_receive_message(e))
           /\ do_receive_message(e).got = e.got
  BY StartRead, ClosedInv DEF do_receive_message

\* An exception ends the process of an endpoint that had reported nothing.
LEMMA TerminateInv ==
    ASSUME NEW s \in Side, NEW e, Core(s, e), e.events = <<>>
    PROVE  EpInv(s, Terminate(e)) /\ Terminate(e).got = e.got
<1> DEFINE x == Terminate(e)
<1>0. e \in Endpoint
  BY DEF Core
<1>1. NoWrite \in WriteOp /\ NoWrite.st = "idle" /\ <<>> \in Seq(Completion)
  BY NoWriteType
<1>2. /\ x \in Endpoint /\ ~x.open /\ x.rop = "none" /\ x.wop = NoWrite /\ ~x.timer
      /\ x.ready = <<>> /\ x.batch = 0
      /\ x.wq = e.wq /\ x.events = e.events /\ x.out = e.out /\ x.got = e.got
  BY <1>0, <1>1 DEF Terminate, Endpoint
<1> HIDE DEF x
<1>3. Len(x.ready) = 0
  BY <1>2
<1>4. \A C : None(x.ready, C) /\ AtMostOne(x.ready, C)
  BY <1>3 DEF None, AtMostOne, Queued
<1>5. ReadInv(x) /\ WriteInv(x)
  BY <1>1, <1>2, <1>4 DEF ReadInv, WriteInv
<1>6. TimerInv(s, x)
  BY <1>2, <1>3, <1>4 DEF TimerInv, None
<1>7. EventInv(s, x)
  <2>1. Len(x.events) = 0
    BY <1>2
  <2> QED
    BY <1>2, <2>1 DEF EventInv, NoDuplicate, Has
<1>8. BeatInv(s, x)
  BY <1>2, <1>4 DEF Core, BeatInv
<1> QED
  BY <1>2, <1>5, <1>6, <1>7, <1>8, ClosedInv DEF Core, x

\* A header was read on a connection that is still open.
LEMMA HeaderParser ==
    ASSUME NEW s \in Side, NEW e, Core(s, e), Writing(e), e.open, e.rop = "none",
           None(e.ready, ReadDone), s = "client" => e.hdr.msg # Heartbeat
    PROVE  EpInv(s, header_parser(s, e)) /\ header_parser(s, e).got = e.got
<1>1. EpInv(s, do_receive_payload(e)) /\ do_receive_payload(e).got = e.got
  BY StartRead DEF do_receive_payload
<1>2. CASE e.hdr.msg # Heartbeat
  BY <1>1, <1>2
  DEF header_parser, client_header_parser, server_header_parser,
      server_heartbeat_header_parser
<1>3. CASE e.hdr.msg = Heartbeat /\ ServerHB
  <2> DEFINE y == timer_restart(e)
  <2>1. /\ Core(s, y) /\ SameUpper(e, y)
        /\ y.open = e.open /\ y.rop = e.rop /\ y.wop = e.wop /\ y.wq = e.wq
        /\ \A C \in {ReadDone, WriteDone, Expired, Canceled} :
              None(y.ready, C) <=> None(e.ready, C)
    BY TimerRestart
  <2>2. header_parser(s, e) = do_receive_message(y)
    BY <1>3 DEF header_parser, server_heartbeat_header_parser, heartbeat_received, Side
  <2> HIDE DEF y
  <2>3. Writing(y)
    BY <2>1 DEF Writing, Outstanding
  <2>4. EpInv(s, do_receive_message(y)) /\ do_receive_message(y).got = y.got
    BY <2>1, <2>3, ReceiveMessage
  <2> QED
    BY <2>1, <2>2, <2>4 DEF SameUpper
<1>4. CASE e.hdr.msg = Heartbeat /\ ~ServerHB
  <2>1. header_parser(s, e) = Terminate(e)
    BY <1>4 DEF header_parser, server_header_parser, Side
  <2>2. e.events = <<>>
    BY DEF Core, EventInv
  <2> QED
    BY <2>1, <2>2, TerminateInv
<1> QED
  BY <1>2, <1>3, <1>4

LEMMA HeaderHandler ==
    ASSUME NEW s \in Side, NEW e, EpInv(s, e), e.batch > 0, Head(e.ready).op = "header"
    PROVE  LET x == when_header_received(s, Pop(e), Head(e.ready)) IN
           EpInv(s, x) /\ x.got = e.got
<1> DEFINE p == Pop(e)
           c == Head(e.ready)
           y == connection_close(p)
<1>1. /\ Core(s, p) /\ Writing(p)
      /\ p.rop = "none" /\ None(p.ready, ReadDone)
      /\ ~None(e.ready, ReadDone)
      /\ SameUpper(e, p) /\ p.open = e.open
  BY PopRead
<1>2. Core(s, e) /\ Reading(e) /\ c \in Completion /\ c.op = "header"
  BY PopInv DEF EpInv
<1>3. c = e.ready[1] /\ 1 \in 1..Len(e.ready)
  <2>1. e.ready \in Seq(Completion) /\ e.batch \in Nat /\ e.batch <= Len(e.ready)
    BY <1>2 DEF Core, Endpoint, TimerInv
  <2> QED
    BY <2>1
<1> HIDE DEF p, c
<1>4. /\ Core(s, y) /\ SameUpper(p, y) /\ ~y.open
      /\ None(y.ready, ReadDone)
  BY <1>1, ConnectionClose
<1> HIDE DEF y
<1>5. c.ec \in Ec
  BY <1>2 DEF Completion
<1>6. CASE c.ec = "aborted"
  <2>1. c \in Canceled
    BY <1>2, <1>6 DEF Canceled, Completion
  <2>2. ~None(e.ready, Canceled)
    BY <1>3, <2>1 DEF None, Queued
  <2>3. ~p.open
    BY <1>1, <1>2, <2>2 DEF Reading
  <2>4. when_header_received(s, p, c) = p
    BY <1>6 DEF when_header_received
  <2> QED
    BY <1>1, <2>3, <2>4, ClosedInv DEF p, c, SameUpper
<1>7. CASE c.ec = "eof"
  <2> DEFINE x == upper_layer_event_callback(y, "close")
  <2>1. ~Has(y.events, "close")
    BY <1>1, <1>2, <1>4 DEF Core, EventInv, SameUpper
  <2>2. Core(s, x) /\ ~x.open /\ x.got = y.got
    BY <1>4, <2>1, ReportEvent DEF Event
  <2>3. when_header_received(s, p, c) = x
    BY <1>7 DEF when_header_received, handle_eof, y
  <2> QED
    BY <1>1, <1>4, <2>2, <2>3, ClosedInv DEF p, c, SameUpper
<1>8. CASE c.ec = "error"
  <2>1. when_header_received(s, p, c) = y
    BY <1>8 DEF when_header_received, y
  <2> QED
    BY <1>1, <1>4, <2>1, ClosedInv DEF p, c, SameUpper
<1>9. CASE c.ec = "ok"
  <2>1. when_header_received(s, p, c) = IF p.open THEN header_parser(s, p) ELSE p
    BY <1>9 DEF when_header_received
  <2>2. CASE ~p.open
    BY <1>1, <2>1, <2>2, ClosedInv DEF p, c, SameUpper
  <2>3. CASE p.open
    <3>1. c \in HeaderOk
      BY <1>2, <1>9 DEF HeaderOk, Completion
    <3>2. ~None(e.ready, HeaderOk)
      BY <1>3, <3>1 DEF None, Queued
    <3>3. s = "client" => p.hdr.msg # Heartbeat
      BY <1>1, <1>2, <3>2 DEF Core, BeatInv, SameUpper
    <3>4. EpInv(s, header_parser(s, p)) /\ header_parser(s, p).got = p.got
      BY <1>1, <2>3, <3>3, HeaderParser
    <3> QED
      BY <1>1, <2>1, <2>3, <3>4 DEF p, c, SameUpper
  <2> QED
    BY <2>2, <2>3
<1> QED
  BY <1>5, <1>6, <1>7, <1>8, <1>9 DEF Ec

\* The upper layer closes the connection, in its callback or from elsewhere.
LEMMA Leave ==
    ASSUME NEW s \in Side, NEW e, Core(s, e)
    PROVE  LET x == disconnect(e) IN
           Core(s, x) /\ ~x.open /\ x.got = e.got
  BY ConnectionClose DEF disconnect, SameUpper

LEMMA UpperCallback ==
    ASSUME NEW s \in Side, NEW e, Core(s, e), Writing(e), e.open, e.rop = "none",
           None(e.ready, ReadDone), NEW r \in Reply, NEW k \in Outcome
    PROVE  LET x == upper_layer_callback(e, r, k) IN
           /\ Core(s, x) /\ Writing(x)
           /\ x.open => x.rop = "none" /\ None(x.ready, ReadDone)
<1> DEFINE g == Append(e.got, e.rbuf.msg)
           d == [e EXCEPT !.got = g]
           d1 == do_send_message(d, k)
           d2 == do_send_message(d1, k)
           x == upper_layer_callback(e, r, k)
<1>0. e \in Endpoint /\ e.got \in Seq(Msg) /\ e.rbuf.msg \in Msg
  BY DEF Core, Endpoint, Segment
<1>1. g \in Seq(Msg)
  BY <1>0
<1> HIDE DEF g
<1>2. /\ d \in Endpoint
      /\ d.open = e.open /\ d.rop = e.rop /\ d.wop = e.wop /\ d.wq = e.wq
      /\ d.timer = e.timer /\ d.batch = e.batch /\ d.ready = e.ready
      /\ d.out = e.out /\ d.events = e.events /\ d.hdr = e.hdr
  BY <1>0, <1>1 DEF Endpoint
<1>3. /\ r = "none" => x = d
      /\ r = "send" => x = d1
      /\ r = "send_twice" => x = d2
      /\ r = "close" => x = disconnect(d)
      /\ r = "send_close" => x = disconnect(d1)
  BY DEF upper_layer_callback, g
<1> HIDE DEF d
<1>4. Core(s, d) /\ Writing(d)
  BY <1>2
  DEF Core, ReadInv, WriteInv, TimerInv, EventInv, BeatInv, Writing, Outstanding
<1>5. /\ Core(s, d1) /\ Writing(d1)
      /\ d1.open = d.open /\ d1.rop = d.rop
      /\ \A C \in {ReadDone, Expired, Canceled} : None(d1.ready, C) <=> None(d.ready, C)
  BY <1>4, SendMessage
<1> HIDE DEF d1
<1>6. /\ Core(s, d2) /\ Writing(d2)
      /\ d2.open = d1.open /\ d2.rop = d1.rop
      /\ \A C \in {ReadDone, Expired, Canceled} : None(d2.ready, C) <=> None(d1.ready, C)
  BY <1>5, SendMessage
<1> HIDE DEF d2, x
<1>7. r \in {"none", "send", "send_twice"} =>
         /\ Core(s, x) /\ Writing(x)
         /\ x.open => x.rop = "none" /\ None(x.ready, ReadDone)
  BY <1>2, <1>3, <1>4, <1>5, <1>6
<1>8. r \in {"close", "send_close"} => Core(s, x) /\ ~x.open
  BY <1>3, <1>4, <1>5, Leave
<1> QED
  BY <1>7, <1>8 DEF Reply, Writing, x

LEMMA PayloadHandler ==
    ASSUME NEW s \in Side, NEW e, EpInv(s, e), e.batch > 0, Head(e.ready).op = "payload",
           NEW r \in Reply, NEW k \in Outcome
    PROVE  LET x == when_payload_received(Pop(e), Head(e.ready), r, k) IN
           EpInv(s, x) /\ (~e.open => x.got = e.got)
<1> DEFINE p == Pop(e)
           c == Head(e.ready)
           u == upper_layer_callback(p, r, k)
<1>1. /\ Core(s, p) /\ Writing(p)
      /\ p.rop = "none" /\ None(p.ready, ReadDone)
      /\ SameUpper(e, p) /\ p.open = e.open
  BY PopRead
<1> HIDE DEF p, c
<1>2. CASE c.ec \in {"eof", "error"} \/ c.n = 0
  <2>1. when_payload_received(p, c, r, k) = connection_close(p)
    BY <1>2 DEF when_payload_received
  <2> DEFINE y == connection_close(p)
  <2>2. Core(s, y) /\ SameUpper(p, y) /\ ~y.open
    BY <1>1, ConnectionClose
  <2> HIDE DEF y
  <2> QED
    BY <1>1, <2>1, <2>2, ClosedInv DEF y, p, c, SameUpper
<1>3. CASE ~(c.ec \in {"eof", "error"} \/ c.n = 0) /\ p.open
  <2>1. when_payload_received(p, c, r, k) = do_receive_message(u)
    BY <1>3 DEF when_payload_received
  <2>2. /\ Core(s, u) /\ Writing(u)
        /\ u.open => u.rop = "none" /\ None(u.ready, ReadDone)
    BY <1>1, <1>3, UpperCallback
  <2> HIDE DEF u
  <2> QED
    BY <1>1, <1>3, <2>1, <2>2, ReceiveMessage DEF p, c
<1>4. CASE ~(c.ec \in {"eof", "error"} \/ c.n = 0) /\ ~p.open
  <2>1. when_payload_received(p, c, r, k) = do_receive_message(p)
    BY <1>4 DEF when_payload_received
  <2>2. EpInv(s, do_receive_message(p)) /\ do_receive_message(p).got = p.got
    BY <1>1, ReceiveMessage
  <2> QED
    BY <1>1, <2>1, <2>2 DEF p, c, SameUpper
<1> QED
  BY <1>2, <1>3, <1>4

LEMMA ContinueHandler ==
    ASSUME NEW s \in Side, NEW e, EpInv(s, e), e.batch > 0,
           Head(e.ready).op = "write_some", NEW k \in Outcome
    PROVE  LET x == write_some(Pop(e), e.wop.buf, e.wop.n, k) IN
           EpInv(s, x) /\ x.got = e.got
<1> DEFINE p == Pop(e)
           c == Head(e.ready)
           x == write_some(p, e.wop.buf, e.wop.n, k)
<1>1. Core(s, e) /\ Reading(e)
  BY DEF EpInv
<1>2. /\ p \in Endpoint /\ c \in Completion
      /\ SameUpper(e, p)
      /\ p.open = e.open /\ p.rop = e.rop /\ p.wop = e.wop /\ p.wq = e.wq
      /\ ReadInv(p) /\ TimerInv(s, p) /\ EventInv(s, p) /\ BeatInv(s, p)
      /\ \A C \in {ReadDone, WriteDone, Continuation, Expired, Canceled} :
            /\ c \in C => None(p.ready, C) /\ ~None(e.ready, C)
            /\ c \notin C => (None(p.ready, C) <=> None(e.ready, C))
  BY <1>1, PopInv
<1>3. c \in WriteDone /\ c \in Continuation /\ c \notin ReadDone /\ c \notin Canceled
  <2>1. c \in Completion /\ c.op = "write_some"
    BY <1>2
  <2> HIDE DEF c
  <2> QED
    BY <2>1 DEF Completion, ReadDone, WriteDone, Continuation, Canceled
<1> HIDE DEF p, c, x
<1>4. /\ e.wop.st = "queued" /\ Has(e.wq, e.wop.buf)
      /\ e.wop.buf \in Msg /\ e.wop.n \in 0..2
  <2>1. e.wop \in WriteOp
    BY <1>1 DEF Core, Endpoint
  <2>2. e.wop.st = "queued"
    BY <1>1, <1>2, <1>3 DEF Core, WriteInv
  <2> QED
    BY <1>1, <2>1, <2>2 DEF Core, WriteInv, WriteOp
<1>5. ~Has(p.events, "pipe")
  BY <1>1, <1>2, <1>3 DEF Core, EventInv, SameUpper
<1>6. /\ Core(s, x) /\ Outstanding(x) /\ SameUpper(p, x)
      /\ x.open = p.open /\ x.rop = p.rop
      /\ \A C \in {ReadDone, Expired, Canceled} : None(x.ready, C) <=> None(p.ready, C)
  BY <1>2, <1>3, <1>4, <1>5, WriteSome DEF x
<1>7. Reading(x) /\ Writing(x)
  BY <1>1, <1>2, <1>3, <1>6 DEF Reading, Writing
<1> QED
  BY <1>2, <1>6, <1>7 DEF EpInv, SameUpper, x, p

LEMMA SentHandler ==
    ASSUME NEW s \in Side, NEW e, EpInv(s, e), e.batch > 0,
           Head(e.ready).op = "write", NEW k \in Outcome
    PROVE  LET x == when_message_sent(Pop(e), Head(e.ready), k) IN
           EpInv(s, x) /\ x.got = e.got
<1> DEFINE p == Pop(e)
           c == Head(e.ready)
           y == connection_close(p)
           x == when_message_sent(p, c, k)
<1>1. /\ Core(s, p)
      /\ p.wop.st = "idle" /\ None(p.ready, WriteDone) /\ None(p.ready, Continuation)
      /\ p.wq # <<>> /\ ~Has(p.events, "pipe")
      /\ SameUpper(e, p) /\ p.open = e.open /\ p.rop = e.rop
      /\ \A C \in {ReadDone, Canceled} : None(p.ready, C) <=> None(e.ready, C)
  BY PopWrite
<1>r. Reading(p)
  BY <1>1 DEF EpInv, Reading
<1> HIDE DEF p, c
<1>2. /\ Core(s, y) /\ SameUpper(p, y) /\ ~y.open
      /\ y.wq = p.wq
      /\ y.wop.st = "idle" /\ None(y.ready, WriteDone)
  BY <1>1, ConnectionClose
<1> HIDE DEF y, x
<1>3. CASE c.ec = "error"
  <2> DEFINE z == upper_layer_event_callback(y, "pipe")
  <2>1. x = z
    BY <1>3 DEF when_message_sent, x, y
  <2>2. Core(s, z) /\ ~z.open /\ z.got = y.got
    BY <1>1, <1>2, ReportEvent DEF Event, SameUpper
  <2> HIDE DEF z
  <2> QED
    BY <1>1, <1>2, <2>1, <2>2, ClosedInv DEF x, p, c, SameUpper
<1>4. CASE c.ec # "error" /\ c.n = 0
  <2>1. x = y
    BY <1>4 DEF when_message_sent, x, y
  <2> QED
    BY <1>1, <1>2, <2>1, ClosedInv DEF x, p, c, SameUpper
<1>5. CASE c.ec # "error" /\ c.n # 0
  <2> DEFINE wq == Tail(p.wq)
             q == [p EXCEPT !.wq = wq]
  <2>0. p \in Endpoint /\ p.wq \in Seq(Msg)
    BY <1>1 DEF Core, Endpoint
  <2>1. /\ wq \in Seq(Msg) /\ Len(wq) \in Nat
        /\ Has(wq, Heartbeat) => Has(p.wq, Heartbeat)
        /\ Len(wq) > 0 => Has(wq, wq[Len(wq)]) /\ wq[Len(wq)] \in Msg
        /\ ~(Len(wq) > 0) => wq = <<>>
    <3>1. wq \in Seq(Msg) /\ Len(wq) \in Nat /\ Len(wq) = Len(p.wq) - 1
      BY <1>1, <2>0
    <3>2. \A i \in 1..Len(wq) : i + 1 \in 1..Len(p.wq) /\ wq[i] = p.wq[i + 1]
      BY <1>1, <2>0, <3>1
    <3>3. ~(Len(wq) > 0) => wq = <<>>
      BY <3>1
    <3> HIDE DEF wq
    <3>4. Len(wq) > 0 => Len(wq) \in 1..Len(wq) /\ wq[Len(wq)] \in Msg
      BY <3>1
    <3> QED
      BY <3>1, <3>2, <3>3, <3>4 DEF Has
  <2>2. x = IF Len(wq) > 0 THEN write_some(q, wq[Len(wq)], 0, k) ELSE q
    <3>1. x = IF Len(q.wq) > 0 THEN do_write(q, k) ELSE q
      BY <1>5 DEF when_message_sent, x
    <3>2. q.wq = wq
      BY <2>0 DEF Endpoint
    <3> QED
      BY <3>1, <3>2 DEF do_write
  <2> HIDE DEF wq
  <2>3. /\ q \in Endpoint /\ q.wq = wq
        /\ q.open = p.open /\ q.rop = p.rop /\ q.wop = p.wop /\ q.timer = p.timer
        /\ q.batch = p.batch /\ q.ready = p.ready /\ q.out = p.out /\ q.events = p.events
        /\ q.hdr = p.hdr /\ q.got = p.got
    BY <2>0, <2>1 DEF Endpoint
  <2> HIDE DEF q
  <2>4. ReadInv(q) /\ TimerInv(s, q)
    BY <1>1, <2>3 DEF Core, ReadInv, TimerInv
  <2>5. EventInv(s, q) /\ BeatInv(s, q)
    BY <1>1, <2>1, <2>3 DEF Core, EventInv, BeatInv
  <2>6. CASE Len(wq) > 0
    <3>1. x = write_some(q, wq[Len(wq)], 0, k)
      BY <2>2, <2>6
    <3>2. /\ Core(s, x) /\ Outstanding(x) /\ SameUpper(q, x)
          /\ x.open = q.open /\ x.rop = q.rop
          /\ \A C \in {ReadDone, Expired, Canceled} : None(x.ready, C) <=> None(q.ready, C)
      BY <1>1, <2>1, <2>3, <2>4, <2>5, <2>6, <3>1, WriteSome
    <3>3. Reading(x) /\ Writing(x)
      BY <1>r, <2>3, <3>2 DEF Reading, Writing
    <3> QED
      BY <1>1, <2>3, <3>2, <3>3 DEF EpInv, SameUpper, x, p, c
  <2>7. CASE ~(Len(wq) > 0)
    <3>1. x = q /\ q.wq = <<>>
      BY <2>1, <2>2, <2>3, <2>7
    <3>2. AtMostOne(q.ready, WriteDone)
      BY <1>1, <2>3 DEF Core, WriteInv
    <3>3. WriteInv(q)
      BY <1>1, <2>3, <3>2 DEF WriteInv
    <3>4. Reading(q) /\ Writing(q)
      BY <1>r, <2>3, <3>1 DEF Reading, Writing
    <3> QED
      BY <1>1, <2>3, <2>4, <2>5, <3>1, <3>3, <3>4 DEF EpInv, Core, SameUpper, x, p, c
  <2> QED
    BY <2>6, <2>7
<1> QED
  BY <1>3, <1>4, <1>5

\* The completion of a wait: neither a read nor a write.
LEMMA PopTimer ==
    ASSUME NEW s \in Side, NEW e, EpInv(s, e), e.batch > 0, Head(e.ready).op = "timer"
    PROVE  LET p == Pop(e)  c == Head(e.ready) IN
           /\ EpInv(s, p)
           /\ SameUpper(e, p) /\ p.open = e.open /\ p.got = e.got
           /\ c.ec # "aborted" => None(p.ready, Expired) /\ ~None(e.ready, Expired)
<1> DEFINE p == Pop(e)
           c == Head(e.ready)
<1>1. Core(s, e) /\ Reading(e) /\ Writing(e)
  BY DEF EpInv
<1>2. /\ p \in Endpoint /\ c \in Completion
      /\ SameUpper(e, p)
      /\ p.open = e.open /\ p.rop = e.rop /\ p.wop = e.wop /\ p.wq = e.wq
      /\ c \notin Continuation => Core(s, p)
      /\ \A C \in {ReadDone, WriteDone, Continuation, Expired, Canceled} :
            /\ c \in C => None(p.ready, C) /\ ~None(e.ready, C)
            /\ c \notin C => (None(p.ready, C) <=> None(e.ready, C))
  BY <1>1, PopInv
<1>3. /\ c \notin WriteDone /\ c \notin Continuation /\ c \notin ReadDone /\ c \notin Canceled
      /\ c.ec # "aborted" => c \in Expired
  <2>1. c \in Completion /\ c.op = "timer"
    BY <1>2
  <2> HIDE DEF c
  <2> QED
    BY <2>1 DEF Completion, ReadDone, WriteDone, Continuation, Canceled, Expired
<1> HIDE DEF p, c
<1>4. Reading(p) /\ Writing(p)
  BY <1>1, <1>2, <1>3 DEF Reading, Writing, Outstanding
<1> QED
  BY <1>2, <1>3, <1>4 DEF EpInv, SameUpper, p, c

LEMMA TimeoutHandler ==
    ASSUME NEW e, EpInv("server", e), e.batch > 0, Head(e.ready).op = "timer"
    PROVE  LET x == when_timeout(Pop(e), Head(e.ready)) IN
           EpInv("server", x) /\ x.got = e.got
<1> DEFINE p == Pop(e)
           c == Head(e.ready)
           y == connection_close(p)
           z == upper_layer_event_callback(y, "timeout")
<1>0. "server" \in Side
  BY DEF Side
<1>1. /\ EpInv("server", p)
      /\ SameUpper(e, p) /\ p.open = e.open /\ p.got = e.got
      /\ c.ec # "aborted" => None(p.ready, Expired) /\ ~None(e.ready, Expired)
  BY <1>0, PopTimer
<1> HIDE DEF p, c
<1>2. CASE c.ec = "aborted"
  BY <1>1, <1>2 DEF when_timeout, p, c
<1>3. CASE c.ec # "aborted"
  <2>1. /\ Core("server", y) /\ SameUpper(p, y) /\ ~y.open
        /\ None(y.ready, Expired)
    BY <1>0, <1>1, <1>3, ConnectionClose DEF EpInv
  <2>2. when_timeout(p, c) = z
    BY <1>3 DEF when_timeout
  <2> HIDE DEF y
  <2>3. ~Has(y.events, "timeout")
    BY <1>1, <1>3, <2>1 DEF EpInv, Core, EventInv, SameUpper
  <2>4. Core("server", z) /\ ~z.open /\ z.got = y.got
    BY <1>0, <2>1, <2>3, ReportEvent DEF Event
  <2> HIDE DEF z
  <2> QED
    BY <1>1, <2>1, <2>2, <2>4, ClosedInv DEF p, c, SameUpper
<1> QED
  BY <1>2, <1>3

LEMMA SenderHandler ==
    ASSUME NEW e, EpInv("client", e), e.batch > 0, Head(e.ready).op = "timer",
           NEW k \in Outcome
    PROVE  LET x == send_and_reset(Pop(e), Head(e.ready), k) IN
           EpInv("client", x) /\ x.got = e.got
<1> DEFINE p == Pop(e)
           c == Head(e.ready)
           y == connection_close(p)
           h == push(p, Heartbeat, k)
           z == timer_restart(h)
<1>0. "client" \in Side /\ Heartbeat \in Msg
  BY DEF Side, Msg, Heartbeat
<1>1. EpInv("client", p) /\ p.got = e.got
  BY <1>0, PopTimer
<1> HIDE DEF p, c
<1>2. CASE c.ec = "aborted"
  <2>1. Core("client", y) /\ SameUpper(p, y) /\ ~y.open
    BY <1>0, <1>1, ConnectionClose DEF EpInv
  <2>2. send_and_reset(p, c, k) = y
    BY <1>2 DEF send_and_reset, send_heartbeat
  <2> HIDE DEF y
  <2> QED
    BY <1>1, <2>1, <2>2, ClosedInv DEF p, c, SameUpper
<1>3. CASE c.ec # "aborted"
  <2>1. /\ Core("client", h) /\ Writing(h) /\ SameUpper(p, h)
        /\ h.open = p.open /\ h.rop = p.rop
        /\ \A C \in {ReadDone, Expired, Canceled} : None(h.ready, C) <=> None(p.ready, C)
    BY <1>0, <1>1, Push DEF EpInv
  <2>2. send_and_reset(p, c, k) = z
    BY <1>3 DEF send_and_reset, send_heartbeat, do_send_header
  <2> HIDE DEF h
  <2>3. /\ Core("client", z) /\ SameUpper(h, z)
        /\ z.open = h.open /\ z.rop = h.rop /\ z.wop = h.wop /\ z.wq = h.wq
        /\ \A C \in {ReadDone, WriteDone, Expired, Canceled} :
              None(z.ready, C) <=> None(h.ready, C)
    BY <1>0, <2>1, TimerRestart
  <2> HIDE DEF z
  <2>4. Reading(z) /\ Writing(z)
    BY <1>1, <2>1, <2>3 DEF EpInv, Reading, Writing, Outstanding
  <2> QED
    BY <1>1, <2>1, <2>2, <2>3, <2>4 DEF EpInv, p, c, SameUpper
<1> QED
  BY <1>2, <1>3

-----------------------------------------------------------------------------
(***************************************************************************)
(* The kernel.                                                             *)
(***************************************************************************)

\* A pending write gets on.
LEMMA ResumeWrite ==
    ASSUME NEW s \in Side, NEW e, EpInv(s, e), e.wop.st = "pending", NEW k \in Outcome
    PROVE  LET x == write_some(e, e.wop.buf, e.wop.n, k) IN
           EpInv(s, x) /\ x.got = e.got
<1> DEFINE buf == e.wop.buf
           n == e.wop.n
           x == write_some(e, buf, n, k)
<1>1. Core(s, e) /\ Reading(e) /\ e \in Endpoint
  BY DEF EpInv, Core
<1>2. /\ e.open /\ None(e.ready, WriteDone) /\ None(e.ready, Continuation)
      /\ Has(e.wq, buf)
  BY <1>1 DEF Core, WriteInv
<1>3. buf \in Msg /\ n \in 0..2
  BY <1>1 DEF Endpoint, WriteOp
<1>4. ~Has(e.events, "pipe")
  BY <1>1, <1>2 DEF Core, EventInv, Has
<1>p. ReadInv(e) /\ TimerInv(s, e) /\ EventInv(s, e) /\ BeatInv(s, e)
  BY <1>1 DEF Core
<1> HIDE DEF x, buf, n
<1>5. /\ Core(s, x) /\ Outstanding(x) /\ SameUpper(e, x)
      /\ x.open = e.open /\ x.rop = e.rop
      /\ \A C \in {ReadDone, Expired, Canceled} : None(x.ready, C) <=> None(e.ready, C)
  <2>1. e \in Endpoint /\ Has(e.wq, buf)
    BY <1>1, <1>2
  <2>2. None(e.ready, WriteDone) /\ None(e.ready, Continuation)
    BY <1>2
  <2>3. buf \in Msg
    BY <1>3
  <2>4. n \in 0..2
    BY <1>3
  <2> QED
    BY <1>4, <1>p, <2>1, <2>2, <2>3, <2>4, WriteSome DEF x
<1>6. Reading(x) /\ Writing(x)
  BY <1>1, <1>5 DEF Reading, Writing
<1> QED
  BY <1>5, <1>6 DEF EpInv, SameUpper, x, buf, n

\* The outstanding read is done: its buffers hold h and b, its handler is queued.
ReadEnds(e, h, b, c) ==
    [e EXCEPT !.rop = "none", !.hdr = h, !.rbuf = b, !.ready = Append(e.ready, c)]

LEMMA EndRead ==
    ASSUME NEW s \in Side, NEW e, EpInv(s, e), e.rop # "none",
           NEW h \in Segment, NEW b \in Segment, NEW c \in Completion,
           c \in ReadDone, c \notin Canceled,
           s = "client" /\ c \in HeaderOk => h.msg # Heartbeat
    PROVE  LET x == ReadEnds(e, h, b, c) IN
           EpInv(s, x) /\ x.got = e.got
<1> DEFINE x == ReadEnds(e, h, b, c)
           q == Append(e.ready, c)
<1>1. /\ Core(s, e) /\ Reading(e) /\ Writing(e) /\ e \in Endpoint
      /\ e.ready \in Seq(Completion) /\ e.batch \in Nat
  BY DEF EpInv, Core, Endpoint
<1>2. e.open /\ None(e.ready, ReadDone) /\ e.events = <<>>
  BY <1>1 DEF Core, ReadInv, EventInv
<1>3. q \in Seq(Completion)
  BY <1>1
<1>4. c \notin WriteDone /\ c \notin Continuation /\ c \notin Expired
  BY DEF ReadDone, WriteDone, Continuation, Expired
<1>5. \A C \in {WriteDone, Continuation, Expired, Canceled} :
         /\ None(q, C) <=> None(e.ready, C)
         /\ AtMostOne(q, C) <=> AtMostOne(e.ready, C)
  BY <1>1, <1>4, NoneAppend
<1>6. AtMostOne(q, ReadDone) /\ ~None(q, ReadDone)
  BY <1>1, <1>2, NoneAppend
<1>7. c \notin HeaderOk => None(q, HeaderOk)
  <2>1. HeaderOk \subseteq ReadDone
    BY DEF HeaderOk, ReadDone, Ec
  <2>2. None(e.ready, HeaderOk)
    BY <1>2, <2>1 DEF None, Queued
  <2> QED
    BY <1>1, <2>2, NoneAppend
<1>8. e.batch <= Len(q) /\ \A i \in Queued(q, Expired) : i <= e.batch
  BY <1>1, <1>4, BatchAppend DEF Core, TimerInv
<1> HIDE DEF q
<1>9. /\ x \in Endpoint /\ x.rop = "none" /\ x.hdr = h /\ x.ready = q
      /\ x.open = e.open /\ x.wop = e.wop /\ x.wq = e.wq /\ x.timer = e.timer
      /\ x.batch = e.batch /\ x.out = e.out /\ x.events = e.events /\ x.got = e.got
  <2>1. x = [e EXCEPT !.rop = "none", !.hdr = h, !.rbuf = b, !.ready = q]
    BY DEF ReadEnds, q
  <2>2. e \in Endpoint /\ q \in Seq(Completion)
    BY <1>1, <1>3
  <2> HIDE DEF x
  <2>3. x \in Endpoint
    BY <2>1, <2>2 DEF Endpoint
  <2>4. /\ x.rop = "none" /\ x.hdr = h /\ x.ready = q
        /\ x.open = e.open /\ x.wop = e.wop /\ x.wq = e.wq /\ x.timer = e.timer
        /\ x.batch = e.batch /\ x.out = e.out /\ x.events = e.events /\ x.got = e.got
    BY <2>1, <2>2 DEF Endpoint
  <2> QED
    BY <2>3, <2>4
<1> HIDE DEF x
<1>10. ReadInv(x) /\ WriteInv(x) /\ TimerInv(s, x)
  BY <1>1, <1>5, <1>6, <1>8, <1>9 DEF Core, ReadInv, WriteInv, TimerInv
<1>11. EventInv(s, x)
  BY <1>2, <1>9 DEF EventInv, NoDuplicate, Has
<1>12. BeatInv(s, x)
  BY <1>1, <1>7, <1>9 DEF Core, BeatInv
<1>13. Reading(x) /\ Writing(x)
  BY <1>1, <1>5, <1>6, <1>9 DEF Reading, Writing, Outstanding
<1> QED
  BY <1>9, <1>10, <1>11, <1>12, <1>13 DEF EpInv, Core, x

\* The peer's read takes the oldest segment off the wire.
LEMMA TakeSegment ==
    ASSUME NEW s \in Side, NEW e, EpInv(s, e), e.out # <<>>
    PROVE  LET x == [e EXCEPT !.out = Tail(e.out)] IN
           /\ EpInv(s, x) /\ x.got = e.got
           /\ Head(e.out) \in Segment
           /\ s = "server" => Head(e.out).msg # Heartbeat
<1> DEFINE o == Tail(e.out)
           x == [e EXCEPT !.out = o]
<1>1. Core(s, e) /\ Reading(e) /\ Writing(e) /\ e \in Endpoint /\ e.out \in Seq(Segment)
  BY DEF EpInv, Core, Endpoint
<1>2. /\ o \in Seq(Segment)
      /\ Head(e.out) \in Segment
      /\ NoBeats(e.out) => NoBeats(o) /\ Head(e.out).msg # Heartbeat
  BY <1>1 DEF NoBeats
<1> HIDE DEF o
<1>3. /\ x \in Endpoint /\ x.rop = e.rop /\ x.hdr = e.hdr /\ x.ready = e.ready
      /\ x.open = e.open /\ x.wop = e.wop /\ x.wq = e.wq /\ x.timer = e.timer
      /\ x.batch = e.batch /\ x.out = o /\ x.events = e.events /\ x.got = e.got
  BY <1>1, <1>2 DEF Endpoint
<1> HIDE DEF x
<1>4. ReadInv(x) /\ WriteInv(x) /\ TimerInv(s, x) /\ EventInv(s, x)
  BY <1>1, <1>3 DEF Core, ReadInv, WriteInv, TimerInv, EventInv
<1>5. BeatInv(s, x)
  BY <1>1, <1>2, <1>3 DEF Core, BeatInv
<1>6. Reading(x) /\ Writing(x)
  BY <1>1, <1>3 DEF Reading, Writing, Outstanding
<1>7. s = "server" => Head(e.out).msg # Heartbeat
  BY <1>1, <1>2 DEF Core, BeatInv
<1> QED
  BY <1>2, <1>3, <1>4, <1>5, <1>6, <1>7 DEF EpInv, Core, o, x

\* The reactor's turn: the timer may be queued, and the whole queue is a batch.
LEMMA ReactorTurn ==
    ASSUME NEW s \in Side, NEW e, EpInv(s, e), e.batch = 0, NEW x \in BOOLEAN, x => e.timer
    PROVE  LET q == IF x THEN Append(e.ready, Done("timer", "ok", 0)) ELSE e.ready
               y == [e EXCEPT !.ready = q, !.batch = Len(q), !.timer = e.timer /\ ~x]
           IN  EpInv(s, y) /\ y.got = e.got
<1> DEFINE c == Done("timer", "ok", 0)
           q == IF x THEN Append(e.ready, c) ELSE e.ready
           b == Len(q)
           t == e.timer /\ ~x
           y == [e EXCEPT !.ready = q, !.batch = b, !.timer = t]
<1>1. /\ Core(s, e) /\ Reading(e) /\ Writing(e) /\ e \in Endpoint
      /\ e.ready \in Seq(Completion) /\ e.timer \in BOOLEAN
  BY DEF EpInv, Core, Endpoint
<1>2. /\ c \in Completion /\ c \in Expired
      /\ c \notin ReadDone /\ c \notin WriteDone /\ c \notin Continuation /\ c \notin HeaderOk
      /\ c \notin Canceled
  BY CompletionKinds
<1> HIDE DEF c
<1>3. q \in Seq(Completion) /\ b \in Nat /\ t \in BOOLEAN
  BY <1>1, <1>2
<1>4. \A C \in {ReadDone, WriteDone, Continuation, HeaderOk, Canceled} :
         /\ None(q, C) <=> None(e.ready, C)
         /\ AtMostOne(q, C) <=> AtMostOne(e.ready, C)
  BY <1>1, <1>2, NoneAppend
<1>5. None(e.ready, Expired)
  <2>1. \A i \in Queued(e.ready, Expired) : i <= 0 /\ i \in 1..Len(e.ready)
    BY <1>1 DEF Core, TimerInv, Queued
  <2> QED
    BY <1>1, <2>1 DEF None
<1>6. AtMostOne(q, Expired) /\ (~x => None(q, Expired))
  <2>1. AtMostOne(e.ready, Expired)
    BY <1>1 DEF Core, TimerInv
  <2> QED
    BY <1>1, <1>2, <1>5, <2>1, NoneAppend
<1>7. \A i \in Queued(q, Expired) : i <= b
  BY <1>3 DEF Queued
<1> HIDE DEF q
<1>8. /\ y \in Endpoint /\ y.rop = e.rop /\ y.hdr = e.hdr /\ y.ready = q
      /\ y.open = e.open /\ y.wop = e.wop /\ y.wq = e.wq /\ y.timer = t
      /\ y.batch = b /\ y.out = e.out /\ y.events = e.events /\ y.got = e.got
  <2> HIDE DEF b, t
  <2> QED
    BY <1>1, <1>3 DEF Endpoint
<1> HIDE DEF y
<1>9. ReadInv(y) /\ WriteInv(y) /\ BeatInv(s, y)
  BY <1>1, <1>4, <1>8 DEF Core, ReadInv, WriteInv, BeatInv
<1>10. TimerInv(s, y)
  BY <1>1, <1>3, <1>6, <1>7, <1>8 DEF Core, TimerInv
<1>11. EventInv(s, y)
  <2>1. Has(e.events, "timeout") => ~x
    <3>1. Has(e.events, "timeout") => ~e.open /\ s = "server"
      BY <1>1 DEF Core, EventInv, Has
    <3> QED
      BY <1>1, <3>1 DEF Core, TimerInv
  <2> QED
    BY <1>1, <1>4, <1>6, <1>8, <2>1 DEF Core, EventInv
<1>12. Reading(y) /\ Writing(y)
  BY <1>1, <1>4, <1>8 DEF Reading, Writing, Outstanding
<1> QED
  BY <1>8, <1>9, <1>10, <1>11, <1>12 DEF EpInv, Core, y, q, c

-----------------------------------------------------------------------------
(***************************************************************************)
(* The steps.                                                              *)
(***************************************************************************)

IInv ==
    /\ net \in {"up", "down"}
    /\ conn \in [Side -> Endpoint]
    /\ \A s \in Side : EpInv(s, conn[s])

\* Once an endpoint is closed, it is given no more messages.
Quiet == \A s \in Side : ~conn[s].open => conn'[s].got = conn[s].got

\* An action that changes one endpoint.
LEMMA OneEndpoint ==
    ASSUME IInv, NEW s \in Side, NEW x, EpInv(s, x),
           ~conn[s].open => x.got = conn[s].got,
           conn' = [conn EXCEPT ![s] = x], net' \in {"up", "down"}
    PROVE  IInv' /\ Quiet
<1>1. x \in Endpoint
  BY DEF EpInv, Core
<1>2. conn' \in [Side -> Endpoint]
  BY <1>1 DEF IInv
<1>3. ASSUME NEW t \in Side
      PROVE  EpInv(t, conn'[t]) /\ (~conn[t].open => conn'[t].got = conn[t].got)
  <2>1. CASE t = s
    <3>1. conn'[t] = x
      BY <2>1 DEF IInv
    <3> QED
      BY <2>1, <3>1
  <2>2. CASE t # s
    <3>1. conn'[t] = conn[t]
      BY <2>2 DEF IInv
    <3> QED
      BY <3>1 DEF IInv
  <2> QED
    BY <2>1, <2>2
<1>4. IInv'
  BY <1>2, <1>3 DEF IInv
<1> QED
  BY <1>3, <1>4 DEF Quiet

LEMMA InitInv == Init => IInv
<1> SUFFICES ASSUME Init  PROVE IInv
  OBVIOUS
<1>1. ASSUME NEW s \in Side
      PROVE  NewConnection(s) \in Endpoint /\ EpInv(s, NewConnection(s))
  <2> DEFINE e == NewConnection(s)
             h == [kind |-> "header", msg |-> 0]
  <2>1. /\ WithHeartbeat(s) \in BOOLEAN
        /\ NoWrite \in WriteOp /\ NoWrite.st = "idle"
        /\ h \in Segment
    BY NoWriteType, ConnectionAssumption DEF WithHeartbeat, Segment, Msg
  <2>2. e = [open |-> TRUE, wq |-> <<>>, wop |-> NoWrite, rop |-> "header",
             timer |-> WithHeartbeat(s), ready |-> <<>>, batch |-> 0, out |-> <<>>,
             hdr |-> h, rbuf |-> h,
             nsent |-> 0, got |-> <<>>, events |-> <<>>, threw |-> FALSE]
    BY DEF NewConnection
  <2> HIDE DEF h
  <2>3. /\ e \in Endpoint /\ e.open /\ e.wq = <<>> /\ e.wop = NoWrite /\ e.rop = "header"
        /\ e.ready = <<>> /\ e.batch = 0 /\ e.out = <<>> /\ e.events = <<>>
    <3> HIDE DEF e
    <3> QED
      BY <2>1, <2>2 DEF Endpoint
  <2> HIDE DEF e
  <2>4. Len(e.ready) = 0 /\ Len(e.wq) = 0 /\ Len(e.out) = 0 /\ Len(e.events) = 0
    BY <2>3
  <2>5. \A C : None(e.ready, C) /\ AtMostOne(e.ready, C) /\ Queued(e.ready, C) = {}
    BY <2>4 DEF None, AtMostOne, Queued
  <2>6. ReadInv(e) /\ WriteInv(e) /\ TimerInv(s, e)
    BY <2>1, <2>3, <2>4, <2>5 DEF ReadInv, WriteInv, TimerInv
  <2>7. EventInv(s, e) /\ BeatInv(s, e)
    BY <2>3, <2>4, <2>5 DEF EventInv, BeatInv, NoDuplicate, Has, NoBeats
  <2>8. Reading(e) /\ Writing(e)
    BY <2>3, <2>5 DEF Reading, Writing
  <2> QED
    BY <2>3, <2>6, <2>7, <2>8 DEF EpInv, Core, e
<1>2. conn \in [Side -> Endpoint] /\ \A s \in Side : conn[s] = NewConnection(s)
  BY <1>1 DEF Init
<1> QED
  BY <1>1, <1>2 DEF Init, IInv

\* The actions of the io loop hand the oldest completion to its handler.
LEMMA PoppedIsPop == \A s : Popped(s) = Pop(conn[s]) /\ Oldest(s) = Head(conn[s].ready)
  BY DEF Popped, Pop, Oldest

LEMMA LoopStep ==
    ASSUME IInv, NEW s \in Side, Loop(s)
    PROVE  IInv' /\ Quiet
<1> DEFINE e == conn[s]
           p == Popped(s)
           c == Oldest(s)
<1>1. EpInv(s, e) /\ net \in {"up", "down"}
  BY DEF IInv
<1>2. p = Pop(e) /\ c = Head(e.ready)
  BY PoppedIsPop
<1> HIDE DEF p, c
<1>3. CASE WhenHeaderReceived(s)
  <2> DEFINE x == when_header_received(s, p, c)
  <2>1. /\ e.batch > 0 /\ Head(e.ready).op = "header"
        /\ conn' = [conn EXCEPT ![s] = x] /\ net' = net
    BY <1>3 DEF WhenHeaderReceived, Runs, p, c
  <2>2. EpInv(s, x) /\ x.got = e.got
    BY <1>1, <1>2, <2>1, HeaderHandler
  <2> HIDE DEF x
  <2> QED
    BY <1>1, <2>1, <2>2, OneEndpoint
<1>4. ASSUME NEW k \in Outcome, NEW r \in Reply, WhenPayloadReceived(s, r, k)
      PROVE  IInv' /\ Quiet
  <2> DEFINE x == when_payload_received(p, c, r, k)
  <2>1. /\ e.batch > 0 /\ Head(e.ready).op = "payload"
        /\ conn' = [conn EXCEPT ![s] = x] /\ net' = net
    BY <1>4 DEF WhenPayloadReceived, Runs, p, c
  <2>2. EpInv(s, x) /\ (~e.open => x.got = e.got)
    BY <1>1, <1>2, <2>1, PayloadHandler
  <2> HIDE DEF x
  <2> QED
    BY <1>1, <2>1, <2>2, OneEndpoint
<1>5. ASSUME NEW k \in Outcome, WriteContinues(s, k)
      PROVE  IInv' /\ Quiet
  <2> DEFINE x == write_some(p, e.wop.buf, e.wop.n, k)
  <2>1. /\ e.batch > 0 /\ Head(e.ready).op = "write_some"
        /\ conn' = [conn EXCEPT ![s] = x] /\ net' = net
    BY <1>5 DEF WriteContinues, Runs, p
  <2>2. EpInv(s, x) /\ x.got = e.got
    BY <1>1, <1>2, <2>1, ContinueHandler
  <2> HIDE DEF x
  <2> QED
    BY <1>1, <2>1, <2>2, OneEndpoint
<1>6. ASSUME NEW k \in Outcome, WhenMessageSent(s, k)
      PROVE  IInv' /\ Quiet
  <2> DEFINE x == when_message_sent(p, c, k)
  <2>1. /\ e.batch > 0 /\ Head(e.ready).op = "write"
        /\ conn' = [conn EXCEPT ![s] = x] /\ net' = net
    BY <1>6 DEF WhenMessageSent, Runs, p, c
  <2>2. EpInv(s, x) /\ x.got = e.got
    BY <1>1, <1>2, <2>1, SentHandler
  <2> HIDE DEF x
  <2> QED
    BY <1>1, <2>1, <2>2, OneEndpoint
<1>7. CASE s = "server" /\ WhenTimeout
  <2> DEFINE x == when_timeout(p, c)
  <2>1. /\ e.batch > 0 /\ Head(e.ready).op = "timer"
        /\ conn' = [conn EXCEPT ![s] = x] /\ net' = net
    BY <1>7 DEF WhenTimeout, Runs, p, c
  <2>2. EpInv(s, x) /\ x.got = e.got
    BY <1>1, <1>2, <1>7, <2>1, TimeoutHandler
  <2> HIDE DEF x
  <2> QED
    BY <1>1, <2>1, <2>2, OneEndpoint
<1>8. ASSUME s = "client", NEW k \in Outcome, SendAndReset(k)
      PROVE  IInv' /\ Quiet
  <2> DEFINE x == send_and_reset(p, c, k)
  <2>1. /\ e.batch > 0 /\ Head(e.ready).op = "timer"
        /\ conn' = [conn EXCEPT ![s] = x] /\ net' = net
    BY <1>8 DEF SendAndReset, Runs, p, c
  <2>2. EpInv(s, x) /\ x.got = e.got
    BY <1>1, <1>2, <1>8, <2>1, SenderHandler
  <2> HIDE DEF x
  <2> QED
    BY <1>1, <2>1, <2>2, OneEndpoint
<1> QED
  BY <1>3, <1>4, <1>5, <1>6, <1>7, <1>8 DEF Loop

LEMMA ReadSegmentStep ==
    ASSUME IInv, NEW s \in Side, ReadSegment(s)
    PROVE  IInv' /\ Quiet
<1> DEFINE p == Peer(s)
           e == conn[s]
           f == conn[p]
           seg == Head(f.out)
           y == [f EXCEPT !.out = Tail(f.out)]
           x == IF e.rop = "header"
                THEN ReadEnds(e, seg, e.rbuf, Done("header", "ok", 1))
                ELSE ReadEnds(e, e.hdr, seg,
                              Done("payload", "ok", IF e.hdr.msg \in BigMsgs THEN 0 ELSE 1))
<1>1. p \in Side /\ p # s /\ (s = "client" => p = "server")
  BY DEF Peer, Side
<1> HIDE DEF p
<1>2. EpInv(s, e) /\ EpInv(p, f) /\ e \in Endpoint
  BY <1>1 DEF IInv
<1>3. /\ f.out # <<>> /\ e.rop # "none"
      /\ net' = net
  BY DEF ReadSegment, p
<1>4. conn' = [conn EXCEPT ![p] = y, ![s] = x]
  <2>1. e.rop = "header" =>
           ReadEnds(e, seg, e.rbuf, Done("header", "ok", 1))
              = Post([e EXCEPT !.rop = "none", !.hdr = seg], Done("header", "ok", 1))
    BY <1>2 DEF ReadEnds, Post, Endpoint
  <2>2. \A n : ReadEnds(e, e.hdr, seg, Done("payload", "ok", n))
                  = Post([e EXCEPT !.rop = "none", !.rbuf = seg], Done("payload", "ok", n))
    BY <1>2 DEF ReadEnds, Post, Endpoint
  <2>3. x = IF e.rop = "header"
            THEN Post([e EXCEPT !.rop = "none", !.hdr = seg], Done("header", "ok", 1))
            ELSE Post([e EXCEPT !.rop = "none", !.rbuf = seg],
                      Done("payload", "ok", IF e.hdr.msg \in BigMsgs THEN 0 ELSE 1))
    BY <2>1, <2>2
  <2> HIDE DEF x
  <2> QED
    BY <1>1, <2>3 DEF ReadSegment, p
<1>5. /\ EpInv(p, y) /\ y.got = f.got
      /\ seg \in Segment /\ (p = "server" => seg.msg # Heartbeat)
  BY <1>1, <1>2, <1>3, TakeSegment
<1> HIDE DEF y, seg
<1>6. EpInv(s, x) /\ x.got = e.got
  <2>1. e.rbuf \in Segment /\ e.hdr \in Segment
    BY <1>2 DEF Endpoint
  <2>2. \A n \in 0..2 :
           /\ Done("header", "ok", n) \in Completion
           /\ Done("header", "ok", n) \in ReadDone
           /\ Done("header", "ok", n) \notin Canceled
           /\ Done("payload", "ok", n) \in Completion
           /\ Done("payload", "ok", n) \in ReadDone
           /\ Done("payload", "ok", n) \notin Canceled
           /\ Done("payload", "ok", n) \notin HeaderOk
    BY DEF Done, Completion, ReadDone, Canceled, HeaderOk, Op, Ec
  <2>3. CASE e.rop = "header"
    <3>1. x = ReadEnds(e, seg, e.rbuf, Done("header", "ok", 1))
      BY <2>3
    <3> QED
      BY <1>1, <1>2, <1>3, <1>5, <2>1, <2>2, <3>1, EndRead
  <2>4. CASE e.rop # "header"
    <3> DEFINE n == IF e.hdr.msg \in BigMsgs THEN 0 ELSE 1
    <3>1. x = ReadEnds(e, e.hdr, seg, Done("payload", "ok", n)) /\ n \in 0..2
      BY <2>4
    <3> HIDE DEF n, x
    <3> QED
      BY <1>2, <1>3, <1>5, <2>1, <2>2, <3>1, EndRead
  <2> QED
    BY <2>3, <2>4
<1> HIDE DEF x
<1>7. /\ conn'[s] = x /\ conn'[p] = y
      /\ \A t \in Side : t = s \/ t = p
      /\ conn' \in [Side -> Endpoint]
  <2>1. x \in Endpoint /\ y \in Endpoint
    BY <1>5, <1>6 DEF EpInv, Core
  <2>2. \A t \in Side : t = s \/ t = p
    BY <1>1 DEF Side
  <2> QED
    BY <1>1, <1>4, <2>1, <2>2 DEF IInv
<1>8. IInv'
  BY <1>3, <1>5, <1>6, <1>7 DEF IInv
<1>9. Quiet
  BY <1>5, <1>6, <1>7 DEF Quiet
<1> QED
  BY <1>8, <1>9

LEMMA KernelStep ==
    ASSUME IInv, NEW s \in Side, Kernel(s)
    PROVE  IInv' /\ Quiet
<1> DEFINE e == conn[s]
<1>1. EpInv(s, e) /\ net \in {"up", "down"} /\ e \in Endpoint
  BY DEF IInv
<1>2. ASSUME NEW k \in Outcome, WriteReady(s, k)
      PROVE  IInv' /\ Quiet
  <2> DEFINE x == write_some(e, e.wop.buf, e.wop.n, k)
  <2>1. e.wop.st = "pending" /\ conn' = [conn EXCEPT ![s] = x] /\ net' = net
    BY <1>2 DEF WriteReady
  <2>2. EpInv(s, x) /\ x.got = e.got
    BY <1>1, <2>1, ResumeWrite
  <2> HIDE DEF x
  <2> QED
    BY <1>1, <2>1, <2>2, OneEndpoint
<1>3. ASSUME ReadSegment(s)
      PROVE  IInv' /\ Quiet
  BY <1>3, ReadSegmentStep
<1>4. ASSUME NEW ec \in {"eof", "error"}, ReadFails(s, ec)
      PROVE  IInv' /\ Quiet
  <2> DEFINE c == Done(e.rop, ec, 0)
             x == ReadEnds(e, e.hdr, e.rbuf, c)
  <2>1. e.rop # "none" /\ net' = net
    BY <1>4 DEF ReadFails
  <2>2. x = Post([e EXCEPT !.rop = "none"], c)
    BY <1>1 DEF ReadEnds, Post, Endpoint
  <2>3. conn' = [conn EXCEPT ![s] = x]
    <3>1. conn' = [conn EXCEPT ![s] = Post([e EXCEPT !.rop = "none"], c)]
      BY <1>4 DEF ReadFails
    <3> HIDE DEF x
    <3> QED
      BY <2>2, <3>1
  <2>4. e.rop \in {"header", "payload"} /\ e.hdr \in Segment /\ e.rbuf \in Segment
    BY <1>1, <2>1 DEF Endpoint
  <2>5. c \in Completion /\ c \in ReadDone /\ c \notin Canceled /\ c \notin HeaderOk
    BY <2>4 DEF Done, Completion, ReadDone, Canceled, HeaderOk, Op, Ec
  <2> HIDE DEF c
  <2>6. EpInv(s, x) /\ x.got = e.got
    BY <1>1, <2>1, <2>4, <2>5, EndRead
  <2> HIDE DEF x
  <2> QED
    BY <1>1, <2>1, <2>3, <2>6, OneEndpoint
<1>5. ASSUME NEW b \in BOOLEAN, Reactor(s, b)
      PROVE  IInv' /\ Quiet
  <2> DEFINE q == IF b THEN Append(e.ready, Done("timer", "ok", 0)) ELSE e.ready
             x == [e EXCEPT !.ready = q, !.batch = Len(q), !.timer = e.timer /\ ~b]
  <2>1. e.batch = 0 /\ (b => e.timer) /\ net' = net
    BY <1>5 DEF Reactor
  <2>2. EpInv(s, x) /\ x.got = e.got
    BY <1>1, <2>1, ReactorTurn
  <2>3. conn' = [conn EXCEPT ![s] = x]
    <3>1. conn' = [conn EXCEPT ![s].ready = q, ![s].batch = Len(q), ![s].timer = @ /\ ~b]
      BY <1>5 DEF Reactor
    <3> HIDE DEF q
    <3> QED
      BY <1>1, <3>1 DEF IInv
  <2> HIDE DEF x
  <2> QED
    BY <1>1, <2>1, <2>2, <2>3, OneEndpoint
<1> QED
  BY <1>2, <1>3, <1>4, <1>5 DEF Kernel

LEMMA UpperStep ==
    ASSUME IInv, NEW s \in Side, Upper(s)
    PROVE  IInv' /\ Quiet
<1> DEFINE e == conn[s]
<1>1. EpInv(s, e) /\ net \in {"up", "down"} /\ e \in Endpoint
  BY DEF IInv
<1>2. ASSUME NEW k \in Outcome, Send(s, k)
      PROVE  IInv' /\ Quiet
  <2> DEFINE x == do_send_message(e, k)
  <2>1. conn' = [conn EXCEPT ![s] = x] /\ net' = net
    BY <1>2 DEF Send
  <2>2. /\ Core(s, x) /\ Writing(x)
        /\ x.open = e.open /\ x.rop = e.rop /\ x.got = e.got
        /\ \A C \in {ReadDone, Expired, Canceled} : None(x.ready, C) <=> None(e.ready, C)
    BY <1>1, SendMessage DEF EpInv
  <2> HIDE DEF x
  <2>3. Reading(x)
    BY <1>1, <2>2 DEF EpInv, Reading
  <2> QED
    BY <1>1, <2>1, <2>2, <2>3, OneEndpoint DEF EpInv
<1>3. CASE Disconnect(s)
  <2> DEFINE x == disconnect(e)
  <2>1. conn' = [conn EXCEPT ![s] = x] /\ net' = net
    BY <1>3 DEF Disconnect
  <2>2. Core(s, x) /\ ~x.open /\ x.got = e.got
    BY <1>1, Leave DEF EpInv
  <2> HIDE DEF x
  <2> QED
    BY <1>1, <2>1, <2>2, ClosedInv, OneEndpoint
<1> QED
  BY <1>2, <1>3 DEF Upper

LEMMA NextInv ==
    ASSUME IInv, [Next]_vars
    PROVE  IInv' /\ Quiet
<1>1. ASSUME NEW s \in Side, Loop(s) \/ Kernel(s) \/ Upper(s)
      PROVE  IInv' /\ Quiet
  BY <1>1, LoopStep, KernelStep, UpperStep
<1>2. CASE NetworkCut
  BY <1>2 DEF NetworkCut, IInv, Quiet
<1>3. CASE UNCHANGED vars
  BY <1>3 DEF vars, IInv, Quiet
<1> QED
  BY <1>1, <1>2, <1>3 DEF Next

-----------------------------------------------------------------------------
(***************************************************************************)
(* The stream of segments.                                                 *)
(***************************************************************************)

\* What must come next is told by the number of a message whose body must follow, or
\* by 0, which lets any header follow.
Fits(x, seg) ==
    IF x = Heartbeat THEN seg.kind = "header" ELSE seg = [kind |-> "payload", msg |-> x]

After(seg) == IF seg.kind = "header" THEN seg.msg ELSE Heartbeat

Chain(x, q) ==
    /\ q # <<>> => Fits(x, q[1])
    /\ \A i \in 1..(Len(q) - 1) : Fits(After(q[i]), q[i + 1])

\* What must follow q, if x must be the first.
Final(x, q) == IF q = <<>> THEN x ELSE After(q[Len(q)])

LEMMA ChainAppend ==
    ASSUME NEW q \in Seq(Segment), NEW seg \in Segment, NEW x \in Nat,
           Chain(x, q), Fits(Final(x, q), seg)
    PROVE  /\ Append(q, seg) \in Seq(Segment)
           /\ Chain(x, Append(q, seg))
           /\ Final(x, Append(q, seg)) = After(seg)
<1> DEFINE p == Append(q, seg)
           n == Len(q)
<1>1. /\ p \in Seq(Segment) /\ p # <<>> /\ n \in Nat /\ Len(p) = n + 1
      /\ \A i \in 1..n : p[i] = q[i]
      /\ p[n + 1] = seg
  BY AppendProperties
<1>2. q = <<>> <=> n = 0
  OBVIOUS
<1> HIDE DEF p, n
<1>3. Final(x, p) = After(seg)
  BY <1>1 DEF Final
<1>4. Fits(x, p[1])
  <2>1. CASE n = 0
    BY <1>1, <1>2, <2>1 DEF Final
  <2>2. CASE n # 0
    BY <1>1, <1>2, <2>2 DEF Chain
  <2> QED
    BY <2>1, <2>2
<1>5. ASSUME NEW i \in 1..(Len(p) - 1)
      PROVE  Fits(After(p[i]), p[i + 1])
  <2>1. i \in 1..n /\ n # 0
    BY <1>1
  <2>2. CASE i = n
    BY <1>1, <1>2, <2>1, <2>2 DEF Final, n
  <2>3. CASE i # n
    <3>1. i \in 1..(Len(q) - 1) /\ i + 1 \in 1..n
      BY <1>1, <2>1, <2>3 DEF n
    <3> QED
      BY <1>1, <2>1, <3>1 DEF Chain
  <2> QED
    BY <2>2, <2>3
<1>6. Chain(x, p)
  BY <1>4, <1>5 DEF Chain
<1> QED
  BY <1>1, <1>3, <1>6 DEF p

LEMMA ChainTail ==
    ASSUME NEW q \in Seq(Segment), q # <<>>, NEW x \in Nat, Chain(x, q)
    PROVE  /\ Fits(x, Head(q))
           /\ Chain(After(Head(q)), Tail(q))
           /\ Final(After(Head(q)), Tail(q)) = Final(x, q)
<1> DEFINE p == Tail(q)
           n == Len(q)
<1>1. /\ p \in Seq(Segment) /\ n \in Nat \ {0} /\ Len(p) = n - 1
      /\ \A i \in 1..(n - 1) : p[i] = q[i + 1]
      /\ Head(q) = q[1]
  BY HeadTailProperties
<1> HIDE DEF p, n
<1>2. p = <<>> <=> n = 1
  BY <1>1, EmptySeq
<1>3. Fits(x, Head(q)) /\ \A i \in 1..(n - 1) : Fits(After(q[i]), q[i + 1])
  BY <1>1 DEF Chain, n
<1>4. p # <<>> => Fits(After(Head(q)), p[1])
  <2> SUFFICES ASSUME p # <<>>
               PROVE  Fits(After(Head(q)), p[1])
    OBVIOUS
  <2>1. 1 \in 1..(n - 1)
    BY <1>1, <1>2
  <2> QED
    BY <1>1, <1>3, <2>1
<1>5. ASSUME NEW i \in 1..(Len(p) - 1)
      PROVE  Fits(After(p[i]), p[i + 1])
  <2>1. i \in 1..(n - 1) /\ i + 1 \in 1..(n - 1)
    BY <1>1
  <2> QED
    BY <1>1, <1>3, <2>1
<1>6. Final(After(Head(q)), p) = Final(x, q)
  <2>1. CASE n = 1
    BY <1>1, <1>2, <2>1 DEF Final, n
  <2>2. CASE n # 1
    <3>1. n - 1 \in 1..(n - 1) /\ (n - 1) + 1 = n
      BY <1>1, <2>2
    <3> QED
      BY <1>1, <1>2, <2>2, <3>1 DEF Final, n
  <2> QED
    BY <2>1, <2>2
<1> QED
  BY <1>3, <1>4, <1>5, <1>6 DEF Chain, p

\* What must follow when the first n segments of message m are written.
Partial(m, n) == IF n = 0 THEN Heartbeat ELSE m

Started(m, n) == n = 0 \/ (n = 1 /\ m # Heartbeat)

\* The rest of the message makes the stream complete.
LEMMA ChainRest ==
    ASSUME NEW q \in Seq(Segment), NEW x \in Nat, NEW m \in Msg, NEW n \in 0..2, Started(m, n),
           Chain(x, q), Final(x, q) = Partial(m, n)
    PROVE  LET o == q \o SubSeq(Segments(m), n + 1, Len(Segments(m))) IN
           /\ Chain(x, o)
           /\ Final(x, o) = Heartbeat
<1> DEFINE h == [kind |-> "header", msg |-> m]
           b == [kind |-> "payload", msg |-> m]
           r == SubSeq(Segments(m), n + 1, Len(Segments(m)))
<1>1. h \in Segment /\ b \in Segment /\ After(h) = m /\ After(b) = Heartbeat
  BY DEF Segment, After
<1>2. n = 0 => Fits(Partial(m, n), h)
  BY DEF Fits, Partial
<1>3. m # Heartbeat => Fits(m, b)
  BY DEF Fits
<1>s. /\ Segments(m) \in Seq(Segment)
      /\ m = Heartbeat => Segments(m) = <<h>>
      /\ m # Heartbeat => Segments(m) = <<h, b>>
  BY SegmentsType DEF Segments
<1>z. n = 0 => r = Segments(m)
  BY <1>s, SubSeqFull
<1>o. n = 1 /\ m # Heartbeat => r = <<b>>
  <2> SUFFICES ASSUME n = 1, m # Heartbeat
               PROVE  r = <<b>>
    OBVIOUS
  <2> DEFINE g == <<h, b>>
             t == <<b>>
  <2>1. g \in Seq(Segment) /\ Len(g) = 2 /\ g[2] = b /\ t \in Seq(Segment) /\ Len(t) = 1
        /\ t[1] = b
    BY <1>1
  <2> HIDE DEF g, t, b
  <2>2. r = SubSeq(g, 2, 2)
    <3>1. Segments(m) = g
      BY <1>s DEF g, b
    <3>2. n + 1 = 2 /\ Len(Segments(m)) = 2
      BY <2>1, <3>1
    <3> QED
      BY <3>1, <3>2
  <2>3. \A i \in 2..2 : g[i] \in Segment
    BY <1>1, <2>1
  <2>4. /\ SubSeq(g, 2, 2) \in Seq(Segment)
        /\ Len(SubSeq(g, 2, 2)) = 1
        /\ \A i \in 1..1 : SubSeq(g, 2, 2)[i] = g[2 + i - 1]
    BY <2>3, SubSeqProperties
  <2>5. \A i \in 1..1 : SubSeq(g, 2, 2)[i] = t[i]
    BY <2>1, <2>4
  <2>6. SubSeq(g, 2, 2) = t
    BY <2>1, <2>4, <2>5, SeqEqual
  <2> QED
    BY <2>2, <2>6 DEF t
<1>4. CASE m = Heartbeat
  <2>1. n = 0
    BY <1>4 DEF Started
  <2>2. r = <<h>>
    BY <1>4, <1>s, <1>z, <2>1
  <2>3. q \o <<h>> = Append(q, h)
    BY <1>1, AppendIsConcat
  <2> HIDE DEF h, b, r
  <2>4. Chain(x, Append(q, h)) /\ Final(x, Append(q, h)) = Heartbeat
    BY <1>1, <1>2, <1>4, <2>1, ChainAppend
  <2> QED
    BY <2>2, <2>3, <2>4 DEF r
<1>5. CASE m # Heartbeat /\ n = 0
  <2>2. r = <<h, b>>
    BY <1>5, <1>s, <1>z
  <2>3. q \o <<h, b>> = Append(Append(q, h), b)
    BY <1>1
  <2> HIDE DEF h, b, r
  <2> DEFINE p == Append(q, h)
  <2>4. p \in Seq(Segment) /\ Chain(x, p) /\ Final(x, p) = m
    BY <1>1, <1>2, <1>5, ChainAppend
  <2> HIDE DEF p
  <2>5. Chain(x, Append(p, b)) /\ Final(x, Append(p, b)) = Heartbeat
    BY <1>1, <1>3, <1>5, <2>4, ChainAppend
  <2> QED
    BY <2>2, <2>3, <2>5 DEF p, r
<1>6. CASE m # Heartbeat /\ n = 1
  <2>2. r = <<b>>
    BY <1>6, <1>o
  <2>3. q \o <<b>> = Append(q, b)
    BY <1>1, AppendIsConcat
  <2>4. Partial(m, n) = m
    BY <1>6 DEF Partial
  <2> HIDE DEF h, b, r
  <2> QED
    BY <1>1, <1>3, <1>6, <2>2, <2>3, <2>4, ChainAppend DEF r
<1> QED
  BY <1>4, <1>5, <1>6 DEF Started

-----------------------------------------------------------------------------
(***************************************************************************)
(* The two ends of the stream: what the reader must be given next, and     *)
(* what the writer has left to write.                                      *)
(***************************************************************************)

PayloadOk == [op : {"payload"}, ec : {"ok"}, n : 0..2]

Broken == [op : {"write"}, ec : Ec \ {"ok"}, n : 0..2]

\* Completions that only a closed connection sees.
Stray ==
    [op : {"write"}, ec : {"eof", "aborted"}, n : 0..2]
        \cup [op : {"payload"}, ec : {"aborted"}, n : 0..2]

Awaits(e, x) ==
    /\ e.rop = "header" => x = Heartbeat
    /\ e.rop = "payload" => x = e.hdr.msg
    /\ e.open /\ ~None(e.ready, HeaderOk) => x = e.hdr.msg
    /\ e.open /\ ~None(e.ready, PayloadOk) => x = Heartbeat

\* After a write error the rest of the message never comes.
Offers(e, x) ==
    e.open => /\ e.wop.st # "idle" => x = Partial(e.wop.buf, e.wop.n)
              /\ e.wop.st = "idle" /\ None(e.ready, Broken) => x = Heartbeat

Carries(e, x) == Chain(x, e.out) /\ Offers(e, Final(x, e.out))

FrameInv(e) ==
    /\ e.open => None(e.ready, Stray)
    /\ e.rop = "payload" => e.hdr.msg # Heartbeat
    /\ e.wop.st # "idle" => Started(e.wop.buf, e.wop.n)

\* What a step of an endpoint does to neither stream.
Keeps(e, h) ==
    /\ FrameInv(h)
    /\ \A x \in Nat : (Awaits(e, x) => Awaits(h, x)) /\ (Carries(e, x) => Carries(h, x))

SameFrame(e, h) ==
    /\ h.open = e.open /\ h.rop = e.rop /\ h.wop = e.wop /\ h.hdr = e.hdr /\ h.out = e.out
    /\ \A C \in {HeaderOk, PayloadOk, Broken, Stray} : None(h.ready, C) <=> None(e.ready, C)

LEMMA SameFrameKeeps ==
    ASSUME NEW e, NEW h, FrameInv(e), SameFrame(e, h)
    PROVE  Keeps(e, h)
  BY DEF Keeps, SameFrame, FrameInv, Awaits, Carries, Offers

LEMMA KeepsTwice ==
    ASSUME NEW e, NEW g, NEW h, Keeps(e, g), Keeps(g, h)
    PROVE  Keeps(e, h)
  BY DEF Keeps

\* A closed connection reads and writes nothing any more.
LEMMA ClosedKeeps ==
    ASSUME NEW e, NEW h, FrameInv(e), ~h.open, h.rop = "none", h.out = e.out,
           h.wop = e.wop \/ h.wop = NoWrite
    PROVE  Keeps(e, h)
  BY NoWriteType DEF Keeps, FrameInv, Awaits, Carries, Offers

LEMMA FrameKinds ==
    \A n \in 0..2 :
        /\ \A ec \in Ec : \A C \in {HeaderOk, PayloadOk, Broken, Stray} :
              /\ Done("timer", ec, n) \notin C
              /\ Done("write_some", ec, n) \notin C
        /\ \A C \in {HeaderOk, PayloadOk, Stray} :
              Done("write", "error", n) \notin C
        /\ Done("write", "error", n) \in Broken
        /\ \A C \in {HeaderOk, PayloadOk, Broken, Stray} : Done("write", "ok", n) \notin C
        /\ \A ec \in {"eof", "error"} : \A op \in {"header", "payload"} :
              \A C \in {HeaderOk, PayloadOk, Broken, Stray} : Done(op, ec, n) \notin C
        /\ Done("header", "ok", n) \in HeaderOk
        /\ \A C \in {PayloadOk, Broken, Stray} : Done("header", "ok", n) \notin C
        /\ Done("payload", "ok", n) \in PayloadOk
        /\ \A C \in {HeaderOk, Broken, Stray} : Done("payload", "ok", n) \notin C
  BY DEF Done, HeaderOk, PayloadOk, Broken, Stray, Ec

\* The kinds of completions of which there is one at most.
LEMMA SubKinds ==
    ASSUME NEW q
    PROVE  /\ None(q, ReadDone) => None(q, HeaderOk) /\ None(q, PayloadOk)
           /\ None(q, WriteDone) => None(q, Broken)
<1>1. HeaderOk \subseteq ReadDone /\ PayloadOk \subseteq ReadDone
  BY DEF HeaderOk, PayloadOk, ReadDone, Ec
<1>2. Broken \subseteq WriteDone
  BY DEF Broken, WriteDone
<1> QED
  BY <1>1, <1>2 DEF None, Queued

LEMMA TimerFrame ==
    ASSUME NEW s \in Side, NEW e, Core(s, e)
    PROVE  /\ timer_cancel(e) \in Endpoint /\ SameFrame(e, timer_cancel(e))
           /\ SameFrame(e, timer_restart(e))
<1> DEFINE c == Done("timer", "aborted", 0)
           q == Append(e.ready, c)
           x == timer_cancel(e)
           y == timer_restart(e)
<1>0. e \in Endpoint
  BY DEF Core
<1>1. c \in Completion /\ e.ready \in Seq(Completion)
  BY <1>0, CompletionKinds DEF Endpoint
<1>2. \A C \in {HeaderOk, PayloadOk, Broken, Stray} : None(q, C) <=> None(e.ready, C)
  BY <1>1, FrameKinds, NoneAppend DEF Ec
<1>3. x \in Endpoint
  BY TimerCancel DEF Core
<1>4. SameFrame(e, x)
  <2>1. CASE ~e.timer
    BY <2>1 DEF timer_cancel, SameFrame
  <2>2. CASE e.timer
    <3>1. x = [e EXCEPT !.timer = FALSE, !.ready = q]
      BY <1>0, <2>2 DEF timer_cancel, Post, Endpoint
    <3> HIDE DEF x, q
    <3>2. /\ x.open = e.open /\ x.rop = e.rop /\ x.wop = e.wop /\ x.hdr = e.hdr
          /\ x.out = e.out /\ x.ready = q
      BY <1>0, <3>1 DEF Endpoint
    <3> QED
      BY <1>2, <3>2 DEF SameFrame
  <2> QED
    BY <2>1, <2>2
<1>5. y = [x EXCEPT !.timer = TRUE]
  BY DEF timer_restart
<1> HIDE DEF x, y
<1>6. /\ y.open = x.open /\ y.rop = x.rop /\ y.wop = x.wop /\ y.hdr = x.hdr /\ y.out = x.out
      /\ y.ready = x.ready
  BY <1>3, <1>5 DEF Endpoint
<1>7. SameFrame(e, y)
  BY <1>4, <1>6 DEF SameFrame
<1> QED
  BY <1>3, <1>4, <1>7 DEF x, y

-----------------------------------------------------------------------------
(***************************************************************************)
(* Writing, as the stream sees it.                                         *)
(***************************************************************************)

\* No write is outstanding, and what the rest of FrameInv says of an endpoint.
Idle(e) ==
    /\ e.open => None(e.ready, Stray)
    /\ e.rop = "payload" => e.hdr.msg # Heartbeat
    /\ None(e.ready, WriteDone)

\* From e to h a message is written further, of which p was left to write.
GoesOn(e, h, p) ==
    /\ FrameInv(h)
    /\ \A x \in Nat :
          /\ Awaits(e, x) => Awaits(h, x)
          /\ Chain(x, e.out) /\ (e.open => Final(x, e.out) = p) => Carries(h, x)

\* With o on the wire, w and the completion c tell what is left to write.
Accounts(e, w, o, c, p) ==
    \A x \in Nat :
        Chain(x, e.out) /\ (e.open => Final(x, e.out) = p)
            => /\ Chain(x, o)
               /\ e.open => /\ w.st # "idle" => Final(x, o) = Partial(w.buf, w.n)
                            /\ w.st = "idle" /\ c \notin Broken => Final(x, o) = Heartbeat

\* The three outcomes of a write that post a completion share this argument.
LEMMA WrittenKeeps ==
    ASSUME NEW e \in Endpoint, Idle(e),
           NEW w \in WriteOp, NEW o \in Seq(Segment), NEW c \in Completion, NEW p,
           c \notin HeaderOk, c \notin PayloadOk, c \notin Stray,
           w.st # "idle" => Started(w.buf, w.n),
           Accounts(e, w, o, c, p)
    PROVE  GoesOn(e, Post(Written(e, w, o), c), p)
<1> DEFINE y == Written(e, w, o)
           h == Post(y, c)
<1>0. e.ready \in Seq(Completion)
  BY DEF Endpoint
<1>b. None(e.ready, Broken)
  BY SubKinds DEF Idle
<1>1. /\ y \in Endpoint /\ y.wop = w /\ y.out = o
      /\ SameUpper(e, y)
      /\ y.open = e.open /\ y.rop = e.rop /\ y.ready = e.ready
  BY SetWrite
<1>2. h = Post(y, c)
  OBVIOUS
<1> HIDE DEF y, h
<1>3. /\ h \in Endpoint /\ h.ready = Append(e.ready, c) /\ h.hdr = e.hdr /\ h.out = o
      /\ h.open = e.open /\ h.rop = e.rop /\ h.wop = w
  <2>1. /\ h \in Endpoint /\ h.ready = Append(y.ready, c) /\ SameUpper(y, h)
        /\ h.open = y.open /\ h.rop = y.rop /\ h.wop = y.wop /\ h.out = y.out
    <3>1. y \in Endpoint
      BY <1>1
    <3> QED
      BY <1>2, <3>1, PostType
  <2> QED
    BY <1>1, <2>1 DEF SameUpper
<1>4. \A C \in {HeaderOk, PayloadOk, Stray} : None(h.ready, C) <=> None(e.ready, C)
  BY <1>0, <1>3, NoneAppend
<1>5. None(h.ready, Broken) <=> c \notin Broken
  BY <1>0, <1>b, <1>3, NoneAppend
<1>6. FrameInv(h)
  BY <1>3, <1>4 DEF FrameInv, Idle
<1>7. ASSUME NEW x \in Nat, Awaits(e, x)
      PROVE  Awaits(h, x)
  BY <1>3, <1>4, <1>7 DEF Awaits
<1>8. ASSUME NEW x \in Nat, Chain(x, e.out), e.open => Final(x, e.out) = p
      PROVE  Carries(h, x)
  <2>1. /\ Chain(x, o)
        /\ e.open => /\ w.st # "idle" => Final(x, o) = Partial(w.buf, w.n)
                     /\ w.st = "idle" /\ c \notin Broken => Final(x, o) = Heartbeat
    BY <1>8 DEF Accounts
  <2> QED
    BY <1>3, <1>5, <2>1 DEF Carries, Offers
<1>9. GoesOn(e, h, p)
  BY <1>6, <1>7, <1>8 DEF GoesOn
<1> QED
  BY <1>9 DEF h, y

\* One async_write_some goes on with the message where it stands.
LEMMA WriteKeeps ==
    ASSUME NEW e \in Endpoint, Idle(e),
           NEW m \in Msg, NEW n \in 0..2, Started(m, n), NEW k \in Outcome
    PROVE  GoesOn(e, write_some(e, m, n, k), Partial(m, n))
<1> DEFINE segs == Segments(m)
           h == write_some(e, m, n, k)
           p == Partial(m, n)
<1>0. /\ e.ready \in Seq(Completion) /\ e.out \in Seq(Segment)
      /\ segs \in Seq(Segment) /\ Len(segs) \in 1..2
      /\ SubSeq(segs, n + 1, Len(segs)) \in Seq(Segment)
  BY SegmentsType, RestType DEF Endpoint
<1>2. CASE ~e.open \/ k = "error"
  <2> DEFINE c == Done("write", "error", n)
             w == NoWrite
             o == e.out
  <2>1. h = Post([e EXCEPT !.wop = NoWrite], c)
    BY <1>2 DEF write_some
  <2>2. [e EXCEPT !.wop = NoWrite] = Written(e, w, o)
    BY DEF Endpoint, Written
  <2>3. c \in Completion /\ c \notin HeaderOk /\ c \notin PayloadOk /\ c \notin Stray /\ c \in Broken
    BY CompletionKinds, FrameKinds DEF Ec
  <2>4. h = Post(Written(e, w, o), c)
    BY <2>1, <2>2
  <2>5. w \in WriteOp /\ w.st = "idle" /\ o \in Seq(Segment) /\ o = e.out
    BY <1>0, NoWriteType
  <2> HIDE DEF c, h, w, o, p
  <2>6. Accounts(e, w, o, c, p)
    BY <2>3, <2>5 DEF Accounts
  <2>7. GoesOn(e, Post(Written(e, w, o), c), p)
    BY <2>3, <2>5, <2>6, WrittenKeeps
  <2> QED
    BY <2>4, <2>7 DEF h, p
<1>3. CASE e.open /\ k = "pending"
  <2> DEFINE w == [st |-> "pending", buf |-> m, n |-> n]
  <2>1. h = [e EXCEPT !.wop = w]
    BY <1>3 DEF write_some
  <2>2. h = Written(e, w, e.out)
    BY <2>1 DEF Endpoint, Written
  <2>3. w \in WriteOp /\ w.st = "pending" /\ w.buf = m /\ w.n = n
    BY DEF WriteOp
  <2> HIDE DEF w, h
  <2>4. /\ h.wop = w /\ h.hdr = e.hdr
        /\ h.open = e.open /\ h.rop = e.rop /\ h.ready = e.ready /\ h.out = e.out
    BY <1>0, <2>2, <2>3, SetWrite DEF SameUpper
  <2>5. FrameInv(h)
    BY <2>3, <2>4 DEF FrameInv, Idle
  <2>6. ASSUME NEW x \in Nat, Awaits(e, x)
        PROVE  Awaits(h, x)
    BY <2>4, <2>6 DEF Awaits
  <2>7. ASSUME NEW x \in Nat, Chain(x, e.out), e.open => Final(x, e.out) = p
        PROVE  Carries(h, x)
    BY <1>3, <2>3, <2>4, <2>7 DEF Carries, Offers
  <2> QED
    BY <2>5, <2>6, <2>7 DEF GoesOn, h
<1>4. CASE e.open /\ k = "part" /\ n + 1 < Len(segs)
  <2> DEFINE w == [st |-> "queued", buf |-> m, n |-> n + 1]
             o == Append(e.out, segs[n + 1])
             c == Done("write_some", "ok", 0)
             g == [kind |-> "header", msg |-> m]
  <2>1. h = Post(Written(e, w, o), c)
    BY <1>4 DEF write_some, Written
  <2>2. w \in WriteOp /\ w.st = "queued" /\ w.buf = m /\ w.n = n + 1
    BY <1>0, <1>4 DEF WriteOp
  <2>3. n = 0 /\ m # Heartbeat /\ segs[n + 1] = g
    <3>1. n = 0 /\ Len(segs) = 2
      BY <1>0, <1>4
    <3>2. m # Heartbeat
      BY <3>1 DEF Segments
    <3> QED
      BY <3>1, <3>2 DEF Segments
  <2>4. g \in Segment /\ After(g) = m /\ Fits(Heartbeat, g)
    BY DEF Segment, After, Fits
  <2> HIDE DEF g
  <2>5. o \in Seq(Segment)
    BY <1>0, <2>3, <2>4
  <2>6. c \in Completion /\ c \notin HeaderOk /\ c \notin PayloadOk /\ c \notin Stray
    BY CompletionKinds, FrameKinds DEF Ec
  <2>7. Started(w.buf, w.n) /\ Partial(w.buf, w.n) = m /\ p = Heartbeat
    BY <2>2, <2>3 DEF Started, Partial
  <2>8. ASSUME NEW x \in Nat, Chain(x, e.out), Final(x, e.out) = p
        PROVE  Chain(x, o) /\ Final(x, o) = m
    BY <1>0, <2>3, <2>4, <2>7, <2>8, ChainAppend
  <2> HIDE DEF w, o, c, h, p
  <2>9. Accounts(e, w, o, c, p)
    BY <1>4, <2>2, <2>7, <2>8 DEF Accounts
  <2>10. GoesOn(e, Post(Written(e, w, o), c), p)
    BY <2>2, <2>5, <2>6, <2>7, <2>9, WrittenKeeps
  <2> QED
    BY <2>1, <2>10 DEF h, p
<1>5. CASE e.open /\ k \notin {"error", "pending"} /\ ~(k = "part" /\ n + 1 < Len(segs))
  <2> DEFINE o == e.out \o SubSeq(segs, n + 1, Len(segs))
             c == Done("write", "ok", Len(segs))
             w == NoWrite
  <2>1. h = Post(Written(e, w, o), c)
    BY <1>5 DEF write_some, Written
  <2>2. o \in Seq(Segment) /\ w \in WriteOp /\ w.st = "idle"
    BY <1>0, NoWriteType
  <2>3. c \in Completion /\ c \notin HeaderOk /\ c \notin PayloadOk /\ c \notin Stray
    BY <1>0, CompletionKinds, FrameKinds DEF Ec
  <2>4. ASSUME NEW x \in Nat, Chain(x, e.out), Final(x, e.out) = p
        PROVE  Chain(x, o) /\ Final(x, o) = Heartbeat
    BY <1>0, <2>4, ChainRest
  <2> HIDE DEF o, c, h, w, p
  <2>5. Accounts(e, w, o, c, p)
    BY <1>5, <2>2, <2>4 DEF Accounts
  <2>6. GoesOn(e, Post(Written(e, w, o), c), p)
    BY <2>2, <2>3, <2>5, WrittenKeeps
  <2> QED
    BY <2>1, <2>6 DEF h, p
<1> QED
  BY <1>2, <1>3, <1>4, <1>5

LEMMA PushKeeps ==
    ASSUME NEW s \in Side, NEW e, Core(s, e), FrameInv(e), NEW m \in Msg, NEW k \in Outcome
    PROVE  Keeps(e, push(e, m, k))
<1> DEFINE q == Append(e.wq, m)
           y == [e EXCEPT !.wq = q]
           x == push(e, m, k)
<1>0. e \in Endpoint /\ e.wq \in Seq(Msg)
  BY DEF Core, Endpoint
<1>1. q \in Seq(Msg) /\ Len(q) = Len(e.wq) + 1 /\ q[Len(q)] = m
  BY <1>0
<1> HIDE DEF q
<1>2. /\ y \in Endpoint /\ y.wq = q
      /\ y.open = e.open /\ y.rop = e.rop /\ y.wop = e.wop /\ y.hdr = e.hdr
      /\ y.ready = e.ready /\ y.out = e.out
  BY <1>0, <1>1 DEF Endpoint
<1>3. x = IF Len(y.wq) = 1 THEN write_some(y, y.wq[Len(y.wq)], 0, k) ELSE y
  BY DEF push, do_write, q
<1> HIDE DEF x, y
<1>4. SameFrame(e, y)
  BY <1>2 DEF SameFrame
<1>5. Keeps(e, y)
  BY <1>4, SameFrameKeeps
<1>6. CASE Len(y.wq) = 1
  <2>1. e.wq = <<>>
    <3>1. Len(q) = 1
      BY <1>2, <1>6
    <3>2. Len(e.wq) \in Nat
      BY <1>0
    <3>3. \A n \in Nat : n + 1 = 1 => n = 0
      OBVIOUS
    <3>4. Len(e.wq) = 0
      BY <1>1, <3>1, <3>2, <3>3
    <3> QED
      BY <1>0, <3>4
  <2>2. None(e.ready, WriteDone) /\ e.wop.st = "idle"
    BY <2>1 DEF Core, WriteInv, Has
  <2>3. x = write_some(y, m, 0, k)
    BY <1>1, <1>2, <1>3, <1>6
  <2>4. Started(m, 0) /\ Partial(m, 0) = Heartbeat
    BY DEF Started, Partial
  <2>5. FrameInv(y)
    BY <1>5 DEF Keeps
  <2>6. GoesOn(y, x, Heartbeat)
    <3>1. Idle(y)
      BY <1>2, <2>2, <2>5 DEF Idle, FrameInv
    <3> QED
      BY <1>2, <2>3, <2>4, <3>1, WriteKeeps
  <2>7. ASSUME NEW z \in Nat, Carries(e, z)
        PROVE  Carries(x, z)
    <3>1. None(e.ready, Broken)
      BY <2>2, SubKinds
    <3> QED
      BY <1>2, <2>2, <2>6, <2>7, <3>1 DEF GoesOn, Carries, Offers
  <2>8. ASSUME NEW z \in Nat, Awaits(e, z)
        PROVE  Awaits(x, z)
    BY <1>5, <2>6, <2>8 DEF Keeps, GoesOn
  <2> QED
    BY <2>6, <2>7, <2>8 DEF Keeps, GoesOn, x
<1>7. CASE Len(y.wq) # 1
  BY <1>3, <1>5, <1>7 DEF x
<1> QED
  BY <1>6, <1>7

LEMMA SendKeeps ==
    ASSUME NEW s \in Side, NEW e, Core(s, e), FrameInv(e), NEW k \in Outcome
    PROVE  Keeps(e, do_send_message(e, k))
<1> DEFINE n == e.nsent + 1
           y == [e EXCEPT !.nsent = n]
           x == do_send_message(e, k)
<1>0. e \in Endpoint /\ n \in Nat /\ n \in Msg
  BY DEF Core, Endpoint, Msg
<1>1. x = push(y, n, k)
  BY DEF do_send_message
<1> HIDE DEF n, x
<1>2. /\ y \in Endpoint /\ y.wq = e.wq
      /\ y.open = e.open /\ y.rop = e.rop /\ y.wop = e.wop /\ y.timer = e.timer
      /\ y.batch = e.batch /\ y.ready = e.ready /\ y.events = e.events
      /\ y.hdr = e.hdr /\ y.got = e.got /\ y.out = e.out
  BY <1>0 DEF Endpoint
<1> HIDE DEF y
<1>3. Core(s, y)
  BY <1>2 DEF Core, ReadInv, WriteInv, TimerInv, EventInv, BeatInv
<1>4. SameFrame(e, y)
  BY <1>2 DEF SameFrame
<1>5. Keeps(e, y) /\ FrameInv(y)
  BY <1>4, SameFrameKeeps DEF Keeps
<1>6. Keeps(y, x)
  BY <1>0, <1>1, <1>3, <1>5, PushKeeps
<1> QED
  BY <1>5, <1>6, KeepsTwice DEF x

-----------------------------------------------------------------------------
(***************************************************************************)
(* Closing, as the stream sees it.                                         *)
(***************************************************************************)

\* connection_close writes nothing.
LEMMA CloseParts ==
    ASSUME NEW s \in Side, NEW e, Core(s, e)
    PROVE  LET x == connection_close(e) IN
           x.out = e.out /\ (x.wop = e.wop \/ x.wop = NoWrite) /\ x.rop = "none" /\ ~x.open
<1> DEFINE t == timer_cancel(e)
           r == abort_read(t)
           w == abort_write(r)
           x == connection_close(e)
<1>1. Core(s, t) /\ t \in Endpoint /\ t.out = e.out /\ t.wop = e.wop
  BY TimerCancel, TimerFrame DEF SameFrame
<1>2. x = IF t.open THEN socket_close(t) ELSE t
  BY DEF connection_close, close_if_open
<1>3. Core(s, x) /\ ~x.open
  BY ConnectionClose
<1>4. x.rop = "none"
  BY <1>3 DEF Core, ReadInv
<1> HIDE DEF t
<1>5. CASE ~t.open
  <2>1. x = t
    BY <1>2, <1>5
  <2> QED
    BY <1>1, <1>3, <1>4, <2>1
<1>6. CASE t.open
  <2>1. r \in Endpoint /\ r.out = t.out /\ r.wop = t.wop
    <3>1. r \in Endpoint
      BY <1>1, AbortRead DEF Core
    <3>2. r.out = t.out /\ r.wop = t.wop
      BY <1>1 DEF abort_read, Post, Endpoint
    <3> QED
      BY <3>1, <3>2
  <2>2. Core(s, r)
    BY <1>1, AbortRead
  <2> HIDE DEF r
  <2>3. w \in Endpoint /\ w.out = r.out /\ (w.wop = r.wop \/ w.wop = NoWrite)
    <3>1. w \in Endpoint
      BY <2>2, AbortWrite DEF Core
    <3>2. w.out = r.out /\ (w.wop = r.wop \/ w.wop = NoWrite)
      BY <2>1 DEF abort_write, Post, Endpoint
    <3> QED
      BY <3>1, <3>2
  <2>4. x = [w EXCEPT !.open = FALSE]
    BY <1>2, <1>6 DEF socket_close, r
  <2> HIDE DEF w, x
  <2>5. x.out = w.out /\ x.wop = w.wop
    BY <2>3, <2>4 DEF Endpoint
  <2> QED
    BY <1>1, <1>3, <1>4, <2>1, <2>3, <2>5 DEF x
<1> QED
  BY <1>5, <1>6

LEMMA CloseKeeps ==
    ASSUME NEW s \in Side, NEW e, Core(s, e), FrameInv(e)
    PROVE  Keeps(e, connection_close(e))
<1> DEFINE x == connection_close(e)
<1>1. x.out = e.out /\ (x.wop = e.wop \/ x.wop = NoWrite) /\ x.rop = "none" /\ ~x.open
  BY CloseParts
<1> HIDE DEF x
<1>2. Keeps(e, x)
  BY <1>1, ClosedKeeps
<1> QED
  BY <1>2 DEF x

\* The same with the event that is reported next.
LEMMA ReportKeeps ==
    ASSUME NEW s \in Side, NEW e, Core(s, e), FrameInv(e), NEW ev \in Event
    PROVE  Keeps(e, upper_layer_event_callback(connection_close(e), ev))
<1> DEFINE y == connection_close(e)
           x == upper_layer_event_callback(y, ev)
<1>1. y.out = e.out /\ (y.wop = e.wop \/ y.wop = NoWrite) /\ y.rop = "none" /\ ~y.open
  BY CloseParts
<1>2. y \in Endpoint
  BY ConnectionClose DEF Core
<1>3. x = [y EXCEPT !.events = Append(y.events, ev)]
  BY DEF upper_layer_event_callback
<1> HIDE DEF x, y
<1>4. x.out = y.out /\ x.wop = y.wop /\ x.rop = y.rop /\ x.open = y.open
  BY <1>2, <1>3 DEF Endpoint
<1>5. Keeps(e, x)
  BY <1>1, <1>4, ClosedKeeps
<1> QED
  BY <1>5 DEF x, y

-----------------------------------------------------------------------------
(***************************************************************************)
(* The handlers keep both streams whole.                                   *)
(***************************************************************************)

\* What the oldest completion was, once it is taken.
LEMMA PopFrame ==
    ASSUME NEW s \in Side, NEW e, Core(s, e), e.batch > 0
    PROVE  LET p == Pop(e)  c == Head(e.ready) IN
           /\ p \in Endpoint /\ c \in Completion
           /\ p.open = e.open /\ p.rop = e.rop /\ p.wop = e.wop /\ p.wq = e.wq
           /\ p.out = e.out /\ p.hdr = e.hdr
           /\ \A C : c \in C => ~None(e.ready, C)
           /\ \A C \in {HeaderOk, PayloadOk, Broken, Stray} :
                 c \notin C => (None(p.ready, C) <=> None(e.ready, C))
<1> DEFINE p == Pop(e)
           c == Head(e.ready)
<1>1. /\ p \in Endpoint /\ c \in Completion
      /\ SameUpper(e, p)
      /\ p.open = e.open /\ p.rop = e.rop /\ p.wop = e.wop /\ p.wq = e.wq
      /\ p.out = e.out
  BY PopInv
<1>2. /\ e.ready \in Seq(Completion) /\ e.ready # <<>> /\ p.ready = Tail(e.ready)
      /\ AtMostOne(e.ready, ReadDone) /\ AtMostOne(e.ready, WriteDone)
  <2>1. e \in Endpoint /\ e.batch <= Len(e.ready)
    BY DEF Core, TimerInv
  <2> QED
    BY <2>1, PopType DEF Core, ReadInv, WriteInv, Endpoint
<1> HIDE DEF p
<1>3. \A C : c \in C => ~None(e.ready, C)
  <2> SUFFICES ASSUME NEW C, c \in C  PROVE 1 \in Queued(e.ready, C)
    BY DEF None
  <2> QED
    BY <1>2 DEF Queued
<1>4. \A C : c \notin C => (None(p.ready, C) <=> None(e.ready, C))
  <2> SUFFICES ASSUME NEW C, c \notin C
               PROVE  None(p.ready, C) <=> None(e.ready, C)
    OBVIOUS
  <2>1. /\ Len(e.ready) \in Nat \ {0} /\ Len(p.ready) = Len(e.ready) - 1
        /\ \A i \in 1..Len(p.ready) : p.ready[i] = e.ready[i + 1]
        /\ c = e.ready[1]
    BY <1>2, HeadTailProperties
  <2>2. ASSUME NEW i \in Queued(p.ready, C)
        PROVE  i + 1 \in Queued(e.ready, C)
    BY <2>1 DEF Queued
  <2>3. ASSUME NEW i \in Queued(e.ready, C)
        PROVE  i - 1 \in Queued(p.ready, C)
    <3>1. i \in 1..Len(e.ready) /\ e.ready[i] \in C /\ i # 1
      BY <2>1 DEF Queued
    <3>2. i - 1 \in 1..Len(p.ready) /\ (i - 1) + 1 = i
      BY <2>1, <3>1
    <3> QED
      BY <2>1, <3>1, <3>2 DEF Queued
  <2> QED
    BY <2>2, <2>3 DEF None
<1> QED
  BY <1>1, <1>3, <1>4 DEF SameUpper, p

\* A completion that says nothing of either stream.
LEMMA PopKeeps ==
    ASSUME NEW s \in Side, NEW e, Core(s, e), FrameInv(e), e.batch > 0,
           \A C \in {HeaderOk, PayloadOk, Broken, Stray} : Head(e.ready) \notin C
    PROVE  Keeps(e, Pop(e)) /\ FrameInv(Pop(e))
<1> DEFINE p == Pop(e)
<1>1. SameFrame(e, p)
  BY PopFrame DEF SameFrame
<1> HIDE DEF p
<1>2. Keeps(e, p)
  BY <1>1, SameFrameKeeps
<1> QED
  BY <1>2 DEF Keeps, p

\* From e to h a read ends or starts: what comes next is x, as told by h.
ReadsOn(e, h, x) ==
    /\ FrameInv(h)
    /\ Awaits(h, x)
    /\ \A y \in Nat : Carries(e, y) => Carries(h, y)

LEMMA StartFrame ==
    ASSUME NEW e \in Endpoint, FrameInv(e), None(e.ready, ReadDone),
           NEW op \in {"header", "payload"}, NEW x \in Nat,
           op = "header" => x = Heartbeat,
           op = "payload" => x = e.hdr.msg /\ x # Heartbeat
    PROVE  ReadsOn(e, [e EXCEPT !.rop = op], x)
<1> DEFINE h == [e EXCEPT !.rop = op]
<1>1. /\ h.rop = op /\ h.open = e.open /\ h.wop = e.wop /\ h.out = e.out
      /\ h.hdr = e.hdr /\ h.ready = e.ready
  BY DEF Endpoint
<1> HIDE DEF h
<1>2. None(h.ready, HeaderOk) /\ None(h.ready, PayloadOk)
  BY <1>1, SubKinds
<1>3. FrameInv(h)
  BY <1>1 DEF FrameInv
<1>4. Awaits(h, x)
  BY <1>1, <1>2 DEF Awaits
<1>5. ASSUME NEW y \in Nat, Carries(e, y)
      PROVE  Carries(h, y)
  BY <1>1, <1>5 DEF Carries, Offers
<1>6. ReadsOn(e, h, x)
  BY <1>3, <1>4, <1>5 DEF ReadsOn
<1> QED
  BY <1>6 DEF h

\* A closed endpoint goes on with whatever comes next.
LEMMA ClosedReads ==
    ASSUME NEW e, NEW h, FrameInv(e), ~h.open, h.rop = "none", h.out = e.out,
           h.wop = e.wop \/ h.wop = NoWrite, NEW x
    PROVE  ReadsOn(e, h, x)
<1>1. Keeps(e, h)
  BY ClosedKeeps
<1>2. Awaits(h, x)
  BY DEF Awaits
<1> QED
  BY <1>1, <1>2 DEF Keeps, ReadsOn

LEMMA ReceiveFrame ==
    ASSUME NEW s \in Side, NEW e, Core(s, e), FrameInv(e),
           e.open => None(e.ready, ReadDone),
           ~e.open => e.rop = "none"
    PROVE  ReadsOn(e, do_receive_message(e), Heartbeat)
<1>0. e \in Endpoint /\ Heartbeat \in Nat
  BY DEF Core, Heartbeat
<1>1. CASE e.open
  <2>1. do_receive_message(e) = [e EXCEPT !.rop = "header"]
    BY <1>1 DEF do_receive_message
  <2>2. ReadsOn(e, [e EXCEPT !.rop = "header"], Heartbeat)
    BY <1>0, <1>1, StartFrame
  <2> QED
    BY <2>1, <2>2
<1>2. CASE ~e.open
  <2>1. do_receive_message(e) = e
    BY <1>2 DEF do_receive_message
  <2> QED
    BY <1>2, <2>1, ClosedReads
<1> QED
  BY <1>1, <1>2

LEMMA ParserFrame ==
    ASSUME NEW s \in Side, NEW e, Core(s, e), FrameInv(e), e.open, e.rop = "none",
           None(e.ready, ReadDone), s = "client" => e.hdr.msg # Heartbeat
    PROVE  ReadsOn(e, header_parser(s, e), e.hdr.msg)
<1>0. e \in Endpoint /\ e.hdr.msg \in Nat
  BY DEF Core, Endpoint, Segment, Msg
<1>1. CASE e.hdr.msg # Heartbeat
  <2>1. ReadsOn(e, [e EXCEPT !.rop = "payload"], e.hdr.msg)
    BY <1>0, <1>1, StartFrame
  <2>2. header_parser(s, e) = [e EXCEPT !.rop = "payload"]
    BY <1>1
    DEF header_parser, client_header_parser, server_header_parser,
        server_heartbeat_header_parser, do_receive_payload
  <2> QED
    BY <2>1, <2>2
<1>2. CASE e.hdr.msg = Heartbeat /\ ServerHB
  <2> DEFINE y == timer_restart(e)
             x == do_receive_message(y)
  <2>1. /\ Core(s, y)
        /\ y.open = e.open /\ y.rop = e.rop
        /\ None(y.ready, ReadDone) <=> None(e.ready, ReadDone)
    BY TimerRestart
  <2>2. header_parser(s, e) = x
    BY <1>2 DEF header_parser, server_heartbeat_header_parser, heartbeat_received, Side
  <2>3. SameFrame(e, y)
    BY TimerFrame
  <2> HIDE DEF y
  <2>4. Keeps(e, y) /\ FrameInv(y)
    BY <2>3, SameFrameKeeps DEF Keeps
  <2>5. ReadsOn(y, x, Heartbeat)
    BY <2>1, <2>4, ReceiveFrame
  <2> HIDE DEF x
  <2>6. ReadsOn(e, x, Heartbeat)
    BY <2>4, <2>5 DEF ReadsOn, Keeps
  <2> QED
    BY <1>2, <2>2, <2>6
<1>3. CASE e.hdr.msg = Heartbeat /\ ~ServerHB
  <2> DEFINE x == Terminate(e)
  <2>1. header_parser(s, e) = x
    BY <1>3 DEF header_parser, server_header_parser, Side
  <2>2. ~x.open /\ x.rop = "none" /\ x.wop = NoWrite /\ x.out = e.out
    BY <1>0 DEF Terminate, Endpoint
  <2> HIDE DEF x
  <2>3. ReadsOn(e, x, e.hdr.msg)
    BY <2>2, ClosedReads
  <2> QED
    BY <2>1, <2>3
<1> QED
  BY <1>1, <1>2, <1>3

\* when_header_received: the header that was read tells what must come next.
LEMMA HeaderFrame ==
    ASSUME NEW s \in Side, NEW e, EpInv(s, e), FrameInv(e), e.batch > 0,
           Head(e.ready).op = "header"
    PROVE  Keeps(e, when_header_received(s, Pop(e), Head(e.ready)))
<1> DEFINE p == Pop(e)
           c == Head(e.ready)
           x == when_header_received(s, p, c)
<1>1. /\ Core(s, p) /\ p.rop = "none" /\ None(p.ready, ReadDone)
      /\ SameUpper(e, p)
  BY PopRead
<1>2. Core(s, e)
  BY DEF EpInv
<1>3. /\ c \in Completion
      /\ p.open = e.open /\ p.wop = e.wop /\ p.out = e.out /\ p.hdr = e.hdr
      /\ \A C : c \in C => ~None(e.ready, C)
  BY <1>2, PopFrame
<1>4. c.op = "header" /\ c.ec \in Ec
  BY <1>3 DEF Completion
<1>k. c.ec # "ok" => Keeps(e, p) /\ FrameInv(p)
  <2> SUFFICES ASSUME c.ec # "ok"
               PROVE  Keeps(e, p) /\ FrameInv(p)
    OBVIOUS
  <2>0. c.ec # "ok"
    OBVIOUS
  <2>1. \A C \in {HeaderOk, PayloadOk, Broken, Stray} : c \notin C
    <3> HIDE DEF c
    <3>1. c \notin HeaderOk /\ c \notin PayloadOk /\ c \notin Broken /\ c \notin Stray
      BY <1>3, <1>4, <2>0 DEF HeaderOk, PayloadOk, Broken, Stray, Completion
    <3> QED
      BY <3>1
  <2> QED
    BY <1>2, <2>1, PopKeeps
<1> HIDE DEF p, c, x
<1>5. CASE c.ec = "aborted"
  <2>1. x = p
    BY <1>5 DEF when_header_received, x
  <2> QED
    BY <1>k, <1>5, <2>1 DEF x, p, c
<1>6. CASE c.ec = "eof"
  <2> DEFINE y == upper_layer_event_callback(connection_close(p), "close")
  <2>1. x = y
    BY <1>6 DEF when_header_received, handle_eof, x
  <2>2. Keeps(p, y)
    BY <1>1, <1>k, <1>6, ReportKeeps DEF Event
  <2> HIDE DEF y
  <2>3. Keeps(e, y)
    BY <1>k, <1>6, <2>2, KeepsTwice
  <2> QED
    BY <2>1, <2>3 DEF x, p, c
<1>7. CASE c.ec = "error"
  <2> DEFINE y == connection_close(p)
  <2>1. x = y
    BY <1>7 DEF when_header_received, x
  <2>2. Keeps(p, y)
    BY <1>1, <1>k, <1>7, CloseKeeps
  <2> HIDE DEF y
  <2>3. Keeps(e, y)
    BY <1>k, <1>7, <2>2, KeepsTwice
  <2> QED
    BY <2>1, <2>3 DEF x, p, c
<1>8. CASE c.ec = "ok" /\ ~p.open
  <2>1. x = p
    BY <1>8 DEF when_header_received, x
  <2>2. Keeps(e, p)
    BY <1>1, <1>3, <1>8, ClosedKeeps
  <2> QED
    BY <2>1, <2>2 DEF x, p, c
<1>9. CASE c.ec = "ok" /\ p.open
  <2> DEFINE y == header_parser(s, p)
  <2>1. x = y
    BY <1>9 DEF when_header_received, x
  <2>2. c \in HeaderOk /\ c \notin PayloadOk /\ c \notin Broken /\ c \notin Stray
    BY <1>3, <1>4, <1>9 DEF HeaderOk, PayloadOk, Broken, Stray, Completion
  <2>3. ~None(e.ready, HeaderOk)
    BY <1>3, <2>2
  <2>4. /\ None(p.ready, Broken) <=> None(e.ready, Broken)
        /\ None(p.ready, Stray) <=> None(e.ready, Stray)
    BY <1>2, <2>2, PopFrame DEF p, c
  <2>5. s = "client" => p.hdr.msg # Heartbeat
    BY <1>2, <1>3, <2>3 DEF Core, BeatInv
  <2>6. FrameInv(p)
    BY <1>1, <1>3, <2>4 DEF FrameInv
  <2>7. ReadsOn(p, y, p.hdr.msg)
    BY <1>1, <1>9, <2>5, <2>6, ParserFrame
  <2> HIDE DEF y
  <2>8. ASSUME NEW z \in Nat, Awaits(e, z)
        PROVE  Awaits(y, z)
    <3>1. z = p.hdr.msg
      BY <1>3, <1>9, <2>3, <2>8 DEF Awaits
    <3> QED
      BY <2>7, <3>1 DEF ReadsOn
  <2>9. ASSUME NEW z \in Nat, Carries(e, z)
        PROVE  Carries(y, z)
    <3>1. Carries(p, z)
      BY <1>3, <2>4, <2>9 DEF Carries, Offers
    <3> QED
      BY <2>7, <3>1 DEF ReadsOn
  <2>10. Keeps(e, y)
    BY <2>7, <2>8, <2>9 DEF Keeps, ReadsOn
  <2> QED
    BY <2>1, <2>10 DEF x, p, c
<1> QED
  BY <1>4, <1>5, <1>6, <1>7, <1>8, <1>9 DEF Ec

\* The upper layer writes or closes, and reads nothing.
LEMMA CallbackFrame ==
    ASSUME NEW s \in Side, NEW e, Core(s, e), Writing(e), FrameInv(e),
           NEW r \in Reply, NEW k \in Outcome
    PROVE  Keeps(e, upper_layer_callback(e, r, k))
<1> DEFINE g == Append(e.got, e.rbuf.msg)
           d == [e EXCEPT !.got = g]
           d1 == do_send_message(d, k)
           d2 == do_send_message(d1, k)
           x == upper_layer_callback(e, r, k)
<1>0. e \in Endpoint /\ e.got \in Seq(Msg) /\ e.rbuf.msg \in Msg
  BY DEF Core, Endpoint, Segment
<1>1. g \in Seq(Msg)
  BY <1>0
<1> HIDE DEF g
<1>2. /\ d \in Endpoint
      /\ d.open = e.open /\ d.rop = e.rop /\ d.wop = e.wop /\ d.wq = e.wq
      /\ d.timer = e.timer /\ d.batch = e.batch /\ d.ready = e.ready
      /\ d.out = e.out /\ d.events = e.events /\ d.hdr = e.hdr
  BY <1>0, <1>1 DEF Endpoint
<1>3. /\ r = "none" => x = d
      /\ r = "send" => x = d1
      /\ r = "send_twice" => x = d2
      /\ r = "close" => x = connection_close(d)
      /\ r = "send_close" => x = connection_close(d1)
  BY DEF upper_layer_callback, disconnect, g
<1> HIDE DEF d, x
<1>4. Core(s, d) /\ Writing(d)
  BY <1>2
  DEF Core, ReadInv, WriteInv, TimerInv, EventInv, BeatInv, Writing, Outstanding
<1>5. SameFrame(e, d)
  BY <1>2 DEF SameFrame
<1>6. Keeps(e, d) /\ FrameInv(d)
  BY <1>5, SameFrameKeeps DEF Keeps
<1>7. Core(s, d1) /\ Writing(d1)
  BY <1>4, SendMessage
<1>8. Keeps(d, d1)
  BY <1>4, <1>6, SendKeeps
<1> HIDE DEF d1
<1>9. FrameInv(d1) /\ Keeps(e, d1)
  BY <1>6, <1>8, KeepsTwice DEF Keeps
<1>10. Keeps(d1, d2)
  BY <1>7, <1>9, SendKeeps
<1> HIDE DEF d2
<1>11. Keeps(e, d2)
  BY <1>9, <1>10, KeepsTwice
<1>12. Keeps(e, connection_close(d))
  BY <1>4, <1>6, CloseKeeps, KeepsTwice
<1>13. Keeps(e, connection_close(d1))
  BY <1>7, <1>9, CloseKeeps, KeepsTwice
<1> QED
  BY <1>3, <1>6, <1>9, <1>11, <1>12, <1>13 DEF Reply, x

\* when_payload_received: a body that was read is followed by a header.
LEMMA PayloadFrame ==
    ASSUME NEW s \in Side, NEW e, EpInv(s, e), FrameInv(e), e.batch > 0,
           Head(e.ready).op = "payload", NEW r \in Reply, NEW k \in Outcome
    PROVE  Keeps(e, when_payload_received(Pop(e), Head(e.ready), r, k))
<1> DEFINE p == Pop(e)
           c == Head(e.ready)
           x == when_payload_received(p, c, r, k)
<1>1. Core(s, p) /\ Writing(p) /\ p.rop = "none" /\ None(p.ready, ReadDone)
  BY PopRead
<1>2. Core(s, e)
  BY DEF EpInv
<1>3. /\ c \in Completion
      /\ p.open = e.open /\ p.wop = e.wop /\ p.out = e.out /\ p.hdr = e.hdr
      /\ \A C : c \in C => ~None(e.ready, C)
  BY <1>2, PopFrame
<1>4. c.op = "payload" /\ c.ec \in Ec
  BY <1>3 DEF Completion
<1> HIDE DEF p, c, x
<1>5. CASE c.ec \in {"eof", "error"} \/ c.n = 0
  <2> DEFINE y == connection_close(p)
  <2>1. x = y
    BY <1>5 DEF when_payload_received, x
  <2>2. y.out = p.out /\ (y.wop = p.wop \/ y.wop = NoWrite) /\ y.rop = "none" /\ ~y.open
    BY <1>1, CloseParts
  <2> HIDE DEF y
  <2>3. Keeps(e, y)
    BY <1>3, <2>2, ClosedKeeps
  <2> QED
    BY <2>1, <2>3 DEF x, p, c
<1>6. CASE ~(c.ec \in {"eof", "error"} \/ c.n = 0) /\ ~p.open
  <2>1. x = p
    BY <1>6 DEF when_payload_received, do_receive_message, x
  <2>2. Keeps(e, p)
    BY <1>1, <1>3, <1>6, ClosedKeeps
  <2> QED
    BY <2>1, <2>2 DEF x, p, c
<1>7. CASE ~(c.ec \in {"eof", "error"} \/ c.n = 0) /\ p.open
  <2> DEFINE u == upper_layer_callback(p, r, k)
             y == do_receive_message(u)
  <2>1. x = y
    BY <1>7 DEF when_payload_received, x
  <2>2. c \notin Stray
    BY <1>3, <1>7 DEF FrameInv
  <2>3. c.ec = "ok"
    BY <1>3, <1>4, <1>7, <2>2 DEF Stray, Ec, Completion
  <2>4. c \in PayloadOk /\ c \notin HeaderOk /\ c \notin Broken
    BY <1>3, <1>4, <2>3 DEF HeaderOk, PayloadOk, Broken, Completion
  <2>5. ~None(e.ready, PayloadOk)
    BY <1>3, <2>4
  <2>6. /\ None(p.ready, Broken) <=> None(e.ready, Broken)
        /\ None(p.ready, Stray) <=> None(e.ready, Stray)
    BY <1>2, <2>2, <2>4, PopFrame DEF p, c
  <2>7. FrameInv(p)
    BY <1>1, <1>3, <2>6 DEF FrameInv
  <2>8. Keeps(p, u)
    BY <1>1, <2>7, CallbackFrame
  <2>9. /\ Core(s, u) /\ Writing(u)
        /\ u.open => u.rop = "none" /\ None(u.ready, ReadDone)
    BY <1>1, <1>7, UpperCallback
  <2> HIDE DEF u
  <2>10. u.rop = "none"
    BY <2>9 DEF Core, ReadInv
  <2>11. FrameInv(u)
    BY <2>8 DEF Keeps
  <2>12. ReadsOn(u, y, Heartbeat)
    BY <2>9, <2>10, <2>11, ReceiveFrame
  <2> HIDE DEF y
  <2>13. ASSUME NEW z \in Nat, Awaits(e, z)
        PROVE  Awaits(y, z)
    <3>1. z = Heartbeat
      BY <1>3, <1>7, <2>5, <2>13 DEF Awaits
    <3> QED
      BY <2>12, <3>1 DEF ReadsOn
  <2>14. ASSUME NEW z \in Nat, Carries(e, z)
        PROVE  Carries(y, z)
    <3>1. Carries(p, z)
      BY <1>3, <2>6, <2>14 DEF Carries, Offers
    <3> QED
      BY <2>8, <2>12, <3>1 DEF ReadsOn, Keeps
  <2>15. Keeps(e, y)
    BY <2>12, <2>13, <2>14 DEF Keeps, ReadsOn
  <2> QED
    BY <2>1, <2>15 DEF x, p, c
<1> QED
  BY <1>5, <1>6, <1>7

\* The rest of a message that was partly written.
LEMMA RestFrame ==
    ASSUME NEW e, NEW p \in Endpoint, FrameInv(e), e.wop \in WriteOp, e.wop.st # "idle",
           p.open = e.open, p.rop = e.rop, p.out = e.out, p.hdr = e.hdr,
           \A C \in {HeaderOk, PayloadOk, Stray} : None(p.ready, C) <=> None(e.ready, C),
           None(p.ready, WriteDone), NEW k \in Outcome
    PROVE  Keeps(e, write_some(p, e.wop.buf, e.wop.n, k))
<1> DEFINE m == e.wop.buf
           n == e.wop.n
           x == write_some(p, m, n, k)
<1>1. m \in Msg /\ n \in 0..2
  BY DEF WriteOp
<1>2. Started(m, n) /\ Idle(p)
  BY DEF FrameInv, Idle
<1> HIDE DEF x
<1>3. GoesOn(p, x, Partial(m, n))
  <2> HIDE DEF m, n
  <2> QED
    BY <1>1, <1>2, WriteKeeps DEF x
<1>4. ASSUME NEW z \in Nat, Awaits(e, z)
      PROVE  Awaits(x, z)
  <2>1. Awaits(p, z)
    BY <1>4 DEF Awaits
  <2> QED
    BY <1>3, <2>1 DEF GoesOn
<1>5. ASSUME NEW z \in Nat, Carries(e, z)
      PROVE  Carries(x, z)
  <2>1. Chain(z, p.out) /\ (p.open => Final(z, p.out) = Partial(m, n))
    BY <1>5 DEF Carries, Offers
  <2> QED
    BY <1>3, <2>1 DEF GoesOn
<1>6. Keeps(e, x)
  BY <1>3, <1>4, <1>5 DEF Keeps, GoesOn
<1> QED
  BY <1>6 DEF x

LEMMA ContinueFrame ==
    ASSUME NEW s \in Side, NEW e, EpInv(s, e), FrameInv(e), e.batch > 0,
           Head(e.ready).op = "write_some", NEW k \in Outcome
    PROVE  Keeps(e, write_some(Pop(e), e.wop.buf, e.wop.n, k))
<1> DEFINE p == Pop(e)
           c == Head(e.ready)
<1>1. Core(s, e) /\ e.wop \in WriteOp
  BY DEF EpInv, Core, Endpoint
<1>2. /\ p \in Endpoint /\ c \in Completion
      /\ p.open = e.open /\ p.rop = e.rop /\ p.wop = e.wop /\ p.out = e.out
      /\ p.hdr = e.hdr
      /\ \A C \in {HeaderOk, PayloadOk, Broken, Stray} :
            c \notin C => (None(p.ready, C) <=> None(e.ready, C))
  BY <1>1, PopFrame
<1>3. /\ c \in WriteDone => None(p.ready, WriteDone)
      /\ c \in Continuation => ~None(e.ready, Continuation)
  BY <1>1, PopInv
<1> HIDE DEF p, c
<1>4. /\ c \in WriteDone /\ c \in Continuation
      /\ c \notin HeaderOk /\ c \notin PayloadOk /\ c \notin Stray
  <2>1. c \in Completion /\ c.op = "write_some"
    BY <1>2 DEF c
  <2> QED
    BY <2>1 DEF Completion, WriteDone, Continuation, HeaderOk, PayloadOk, Stray
<1>5. e.wop.st = "queued"
  BY <1>1, <1>3, <1>4 DEF Core, WriteInv
<1> QED
  BY <1>1, <1>2, <1>3, <1>4, <1>5, RestFrame DEF p

LEMMA ResumeFrame ==
    ASSUME NEW s \in Side, NEW e, EpInv(s, e), FrameInv(e), e.wop.st = "pending",
           NEW k \in Outcome
    PROVE  Keeps(e, write_some(e, e.wop.buf, e.wop.n, k))
<1>1. e \in Endpoint /\ e.wop \in WriteOp /\ None(e.ready, WriteDone)
  BY DEF EpInv, Core, Endpoint, WriteInv
<1> QED
  BY <1>1, RestFrame

\* when_message_sent: the next message starts when the last is on the wire.
LEMMA SentFrame ==
    ASSUME NEW s \in Side, NEW e, EpInv(s, e), FrameInv(e), e.batch > 0,
           Head(e.ready).op = "write", NEW k \in Outcome
    PROVE  Keeps(e, when_message_sent(Pop(e), Head(e.ready), k))
<1> DEFINE p == Pop(e)
           c == Head(e.ready)
           y == connection_close(p)
           x == when_message_sent(p, c, k)
<1>1. /\ Core(s, p)
      /\ p.wop.st = "idle" /\ None(p.ready, WriteDone)
      /\ p.wq # <<>>
  BY PopWrite
<1>2. Core(s, e)
  BY DEF EpInv
<1>3. /\ c \in Completion
      /\ p.open = e.open /\ p.rop = e.rop /\ p.wop = e.wop /\ p.out = e.out
      /\ p.hdr = e.hdr
      /\ \A C : c \in C => ~None(e.ready, C)
      /\ \A C \in {HeaderOk, PayloadOk, Broken, Stray} :
            c \notin C => (None(p.ready, C) <=> None(e.ready, C))
  BY <1>2, PopFrame
<1>4. c.op = "write" /\ c.ec \in Ec
  BY <1>3 DEF Completion
<1>5. y.out = p.out /\ (y.wop = p.wop \/ y.wop = NoWrite) /\ y.rop = "none" /\ ~y.open
      /\ y \in Endpoint
  BY <1>1, CloseParts, ConnectionClose DEF Core
<1> HIDE DEF p, c, y, x
<1>6. CASE c.ec = "error"
  <2> DEFINE z == upper_layer_event_callback(y, "pipe")
  <2>1. x = z
    BY <1>6 DEF when_message_sent, x, y
  <2>2. z = [y EXCEPT !.events = Append(y.events, "pipe")]
    BY DEF upper_layer_event_callback
  <2> HIDE DEF z
  <2>3. z.out = y.out /\ z.wop = y.wop /\ z.rop = y.rop /\ z.open = y.open
    BY <1>5, <2>2 DEF Endpoint
  <2>4. Keeps(e, z)
    BY <1>3, <1>5, <2>3, ClosedKeeps
  <2> QED
    BY <2>1, <2>4 DEF x, p, c
<1>7. CASE c.ec # "error" /\ c.n = 0
  <2>1. x = y
    BY <1>7 DEF when_message_sent, x, y
  <2>2. Keeps(e, y)
    BY <1>3, <1>5, ClosedKeeps
  <2> QED
    BY <2>1, <2>2 DEF x, p, c
<1>8. CASE c.ec # "error" /\ c.n # 0
  <2> DEFINE wq == Tail(p.wq)
             q == [p EXCEPT !.wq = wq]
  <2>0. p \in Endpoint /\ p.wq \in Seq(Msg)
    BY <1>1 DEF Core, Endpoint
  <2>1. /\ wq \in Seq(Msg) /\ Len(wq) \in Nat
        /\ Len(wq) > 0 => wq[Len(wq)] \in Msg
    BY <1>1, <2>0
  <2>2. x = IF Len(wq) > 0 THEN write_some(q, wq[Len(wq)], 0, k) ELSE q
    <3>1. x = IF Len(q.wq) > 0 THEN do_write(q, k) ELSE q
      BY <1>8 DEF when_message_sent, x
    <3>2. q.wq = wq
      BY <2>0 DEF Endpoint
    <3> QED
      BY <3>1, <3>2 DEF do_write
  <2> HIDE DEF wq
  <2>3. /\ q \in Endpoint
        /\ q.open = p.open /\ q.rop = p.rop /\ q.wop = p.wop /\ q.ready = p.ready
        /\ q.out = p.out /\ q.hdr = p.hdr
    BY <2>0, <2>1 DEF Endpoint
  <2> HIDE DEF q
  <2>4. c \notin HeaderOk /\ c \notin PayloadOk
    BY <1>4 DEF HeaderOk, PayloadOk
  <2>5. e.open => c \notin Stray /\ c \notin Broken
    <3> SUFFICES ASSUME e.open  PROVE c \notin Stray /\ c \notin Broken
      OBVIOUS
    <3>1. c \notin Stray
      BY <1>3 DEF FrameInv
    <3>2. c.ec = "ok"
      BY <1>3, <1>4, <1>8, <3>1 DEF Stray, Ec, Completion
    <3> QED
      BY <3>1, <3>2 DEF Broken
  <2>6. /\ \A C \in {HeaderOk, PayloadOk} : None(q.ready, C) <=> None(e.ready, C)
        /\ e.open => /\ None(q.ready, Stray) <=> None(e.ready, Stray)
                     /\ None(q.ready, Broken) <=> None(e.ready, Broken)
    BY <1>3, <2>3, <2>4, <2>5
  <2>7. None(q.ready, Broken)
    BY <1>1, <2>3, SubKinds
  <2>8. ASSUME NEW z \in Nat, Awaits(e, z)
        PROVE  Awaits(q, z)
    BY <1>3, <2>3, <2>6, <2>8 DEF Awaits
  <2>9. ASSUME NEW z \in Nat, Carries(e, z)
        PROVE  Chain(z, q.out) /\ (q.open => Final(z, q.out) = Heartbeat)
    BY <1>1, <1>3, <2>3, <2>6, <2>7, <2>9 DEF Carries, Offers
  <2>10. Idle(q) /\ FrameInv(q)
    BY <1>1, <1>3, <2>3, <2>6 DEF Idle, FrameInv
  <2>11. CASE Len(wq) > 0
    <3> DEFINE m == wq[Len(wq)]
    <3>1. x = write_some(q, m, 0, k) /\ m \in Msg
      BY <2>1, <2>2, <2>11
    <3>2. Started(m, 0) /\ Partial(m, 0) = Heartbeat
      BY DEF Started, Partial
    <3> HIDE DEF m
    <3>3. GoesOn(q, x, Heartbeat)
      BY <2>3, <2>10, <3>1, <3>2, WriteKeeps
    <3>4. Keeps(e, x)
      BY <2>8, <2>9, <3>3 DEF Keeps, GoesOn
    <3> QED
      BY <3>4 DEF x, p, c
  <2>12. CASE ~(Len(wq) > 0)
    <3>1. x = q
      BY <2>2, <2>12
    <3>2. ASSUME NEW z \in Nat, Carries(e, z)
          PROVE  Carries(q, z)
      BY <1>1, <2>3, <2>9, <3>2 DEF Carries, Offers
    <3>3. Keeps(e, q)
      BY <2>8, <2>10, <3>2 DEF Keeps
    <3> QED
      BY <3>1, <3>3 DEF x, p, c
  <2> QED
    BY <2>11, <2>12
<1> QED
  BY <1>6, <1>7, <1>8

LEMMA PopTimerFrame ==
    ASSUME NEW s \in Side, NEW e, EpInv(s, e), FrameInv(e), e.batch > 0,
           Head(e.ready).op = "timer"
    PROVE  Core(s, Pop(e)) /\ FrameInv(Pop(e)) /\ Keeps(e, Pop(e))
<1> DEFINE c == Head(e.ready)
<1>1. Core(s, e)
  BY DEF EpInv
<1>2. \A C \in {HeaderOk, PayloadOk, Broken, Stray} : c \notin C
  <2>1. c.op = "timer"
    OBVIOUS
  <2> HIDE DEF c
  <2>2. c \notin HeaderOk /\ c \notin PayloadOk /\ c \notin Broken /\ c \notin Stray
    BY <2>1 DEF HeaderOk, PayloadOk, Broken, Stray
  <2> QED
    BY <2>2
<1> QED
  BY <1>1, <1>2, PopKeeps, PopTimer DEF EpInv

LEMMA TimeoutFrame ==
    ASSUME NEW e, EpInv("server", e), FrameInv(e), e.batch > 0, Head(e.ready).op = "timer"
    PROVE  Keeps(e, when_timeout(Pop(e), Head(e.ready)))
<1> DEFINE p == Pop(e)
           c == Head(e.ready)
           y == upper_layer_event_callback(connection_close(p), "timeout")
           x == when_timeout(p, c)
<1>0. "server" \in Side /\ "timeout" \in Event
  BY DEF Side, Event
<1>1. Core("server", p) /\ FrameInv(p) /\ Keeps(e, p)
  BY <1>0, PopTimerFrame
<1>2. x = IF c.ec = "aborted" THEN p ELSE y
  BY DEF when_timeout
<1> HIDE DEF p, c, x
<1>3. Keeps(p, y)
  BY <1>0, <1>1, ReportKeeps
<1> HIDE DEF y
<1>4. Keeps(e, y)
  BY <1>1, <1>3, KeepsTwice
<1> QED
  BY <1>1, <1>2, <1>4 DEF x, p, c

LEMMA SenderFrame ==
    ASSUME NEW e, EpInv("client", e), FrameInv(e), e.batch > 0, Head(e.ready).op = "timer",
           NEW k \in Outcome
    PROVE  Keeps(e, send_and_reset(Pop(e), Head(e.ready), k))
<1> DEFINE p == Pop(e)
           c == Head(e.ready)
           y == connection_close(p)
           h == push(p, Heartbeat, k)
           z == timer_restart(h)
           x == send_and_reset(p, c, k)
<1>0. "client" \in Side /\ Heartbeat \in Msg
  BY DEF Side, Msg, Heartbeat
<1>1. Core("client", p) /\ FrameInv(p) /\ Keeps(e, p) /\ Writing(p)
  BY <1>0, PopTimerFrame, PopTimer DEF EpInv
<1>2. x = IF c.ec = "aborted" THEN y ELSE z
  BY DEF send_and_reset, send_heartbeat, do_send_header
<1> HIDE DEF p, c, x
<1>3. Keeps(p, y)
  BY <1>0, <1>1, CloseKeeps
<1>4. Keeps(p, h) /\ Core("client", h)
  BY <1>0, <1>1, PushKeeps, Push
<1> HIDE DEF h, y
<1>5. SameFrame(h, z) /\ FrameInv(h)
  BY <1>0, <1>4, TimerFrame DEF Keeps
<1> HIDE DEF z
<1>6. Keeps(e, y)
  BY <1>1, <1>3, KeepsTwice
<1>7. Keeps(h, z)
  BY <1>5, SameFrameKeeps
<1>8. Keeps(e, h)
  BY <1>1, <1>4, KeepsTwice
<1>9. Keeps(e, z)
  BY <1>7, <1>8, KeepsTwice
<1> QED
  BY <1>2, <1>6, <1>9 DEF x, p, c

\* A read that fails gives the reader nothing.
LEMMA FailFrame ==
    ASSUME NEW s \in Side, NEW e, EpInv(s, e), FrameInv(e), e.rop # "none",
           NEW ec \in {"eof", "error"}
    PROVE  Keeps(e, ReadEnds(e, e.hdr, e.rbuf, Done(e.rop, ec, 0)))
<1> DEFINE c == Done(e.rop, ec, 0)
           q == Append(e.ready, c)
           h == ReadEnds(e, e.hdr, e.rbuf, c)
<1>1. /\ e \in Endpoint /\ e.ready \in Seq(Completion)
      /\ e.rop \in {"header", "payload"} /\ None(e.ready, ReadDone)
  BY DEF EpInv, Core, ReadInv, Endpoint
<1>2. c \in Completion
  BY <1>1 DEF Done, Completion, Op, Ec
<1>3. \A C \in {HeaderOk, PayloadOk, Broken, Stray} : c \notin C
  BY <1>1, FrameKinds
<1> HIDE DEF c
<1>4. \A C \in {HeaderOk, PayloadOk, Broken, Stray} : None(q, C) <=> None(e.ready, C)
  BY <1>1, <1>2, <1>3, NoneAppend
<1>5. h = [e EXCEPT !.rop = "none", !.hdr = e.hdr, !.rbuf = e.rbuf, !.ready = q]
  BY DEF ReadEnds
<1> HIDE DEF q, h
<1>6. /\ h.rop = "none" /\ h.open = e.open /\ h.wop = e.wop /\ h.hdr = e.hdr
      /\ h.out = e.out /\ h.ready = q
  BY <1>1, <1>5 DEF Endpoint
<1>7. None(e.ready, HeaderOk) /\ None(e.ready, PayloadOk)
  BY <1>1, SubKinds
<1>8. FrameInv(h)
  BY <1>4, <1>6 DEF FrameInv
<1>9. ASSUME NEW x \in Nat  PROVE Awaits(h, x)
  BY <1>4, <1>6, <1>7 DEF Awaits
<1>10. ASSUME NEW x \in Nat, Carries(e, x)  PROVE Carries(h, x)
  BY <1>4, <1>6, <1>10 DEF Carries, Offers
<1>11. Keeps(e, h)
  BY <1>8, <1>9, <1>10 DEF Keeps
<1> QED
  BY <1>11 DEF h, c

LEMMA ReactorFrame ==
    ASSUME NEW s \in Side, NEW e, EpInv(s, e), FrameInv(e), NEW x \in BOOLEAN
    PROVE  LET q == IF x THEN Append(e.ready, Done("timer", "ok", 0)) ELSE e.ready
           IN  Keeps(e, [e EXCEPT !.ready = q, !.batch = Len(q), !.timer = e.timer /\ ~x])
<1> DEFINE c == Done("timer", "ok", 0)
           q == IF x THEN Append(e.ready, c) ELSE e.ready
           b == Len(q)
           t == e.timer /\ ~x
           y == [e EXCEPT !.ready = q, !.batch = b, !.timer = t]
<1>1. e \in Endpoint /\ e.ready \in Seq(Completion)
  BY DEF EpInv, Core, Endpoint
<1>2. c \in Completion /\ \A C \in {HeaderOk, PayloadOk, Broken, Stray} : c \notin C
  BY CompletionKinds, FrameKinds DEF Ec
<1> HIDE DEF c
<1>3. \A C \in {HeaderOk, PayloadOk, Broken, Stray} : None(q, C) <=> None(e.ready, C)
  BY <1>1, <1>2, NoneAppend
<1> HIDE DEF q, b, t
<1>4. /\ y.open = e.open /\ y.rop = e.rop /\ y.wop = e.wop /\ y.hdr = e.hdr
      /\ y.out = e.out /\ y.ready = q
  BY <1>1 DEF Endpoint
<1> HIDE DEF y
<1>5. SameFrame(e, y)
  BY <1>3, <1>4 DEF SameFrame
<1>6. Keeps(e, y)
  BY <1>5, SameFrameKeeps
<1> QED
  BY <1>6 DEF y, q, b, t, c

\* The reader is given the segment h or b, and goes on after it.
LEMMA ArriveFrame ==
    ASSUME NEW s \in Side, NEW e, EpInv(s, e), FrameInv(e), e.rop # "none",
           NEW x \in Nat, Awaits(e, x), NEW seg \in Segment, Fits(x, seg), NEW n \in 0..2
    PROVE  LET h == IF e.rop = "header"
                    THEN ReadEnds(e, seg, e.rbuf, Done("header", "ok", 1))
                    ELSE ReadEnds(e, e.hdr, seg, Done("payload", "ok", n))
           IN  ReadsOn(e, h, After(seg)) /\ After(seg) \in Nat
<1> DEFINE c == IF e.rop = "header" THEN Done("header", "ok", 1) ELSE Done("payload", "ok", n)
           d == IF e.rop = "header" THEN seg ELSE e.hdr
           r == IF e.rop = "header" THEN e.rbuf ELSE seg
           q == Append(e.ready, c)
           h == ReadEnds(e, d, r, c)
<1>1. /\ e \in Endpoint /\ e.ready \in Seq(Completion)
      /\ e.rop \in {"header", "payload"} /\ None(e.ready, ReadDone)
      /\ e.hdr \in Segment /\ e.rbuf \in Segment
  BY DEF EpInv, Core, ReadInv, Endpoint
<1>2. None(e.ready, HeaderOk) /\ None(e.ready, PayloadOk)
  BY <1>1, SubKinds
<1>3. /\ c \in Completion /\ c \notin Broken /\ c \notin Stray
      /\ c \in HeaderOk <=> e.rop = "header"
      /\ c \in PayloadOk <=> e.rop = "payload"
  <2>1. c = Done(e.rop, "ok", IF e.rop = "header" THEN 1 ELSE n)
    BY <1>1
  <2>2. c \in Completion
    BY <1>1 DEF Done, Completion, Op, Ec
  <2> QED
    BY <1>1, <2>2 DEF Done, HeaderOk, PayloadOk, Broken, Stray
<1>4. After(seg) \in Nat
  BY DEF After, Segment, Msg, Heartbeat
<1>5. /\ e.rop = "header" => After(seg) = seg.msg
      /\ e.rop = "payload" => After(seg) = Heartbeat
  BY DEF Awaits, FrameInv, Fits, After
<1>6. d \in Segment /\ r \in Segment /\ (e.rop = "header" => d = seg)
  BY <1>1
<1>7. ReadEnds(e, d, r, c) =
        IF e.rop = "header"
        THEN ReadEnds(e, seg, e.rbuf, Done("header", "ok", 1))
        ELSE ReadEnds(e, e.hdr, seg, Done("payload", "ok", n))
  OBVIOUS
<1>8. h = [e EXCEPT !.rop = "none", !.hdr = d, !.rbuf = r, !.ready = q]
  BY DEF ReadEnds
<1> HIDE DEF c, d, r
<1>9. /\ \A C \in {Broken, Stray} : None(q, C) <=> None(e.ready, C)
      /\ e.rop # "header" => None(q, HeaderOk)
      /\ e.rop # "payload" => None(q, PayloadOk)
  BY <1>1, <1>2, <1>3, NoneAppend
<1> HIDE DEF q, h
<1>10. /\ h.rop = "none" /\ h.open = e.open /\ h.wop = e.wop /\ h.hdr = d
       /\ h.out = e.out /\ h.ready = q
  BY <1>1, <1>8 DEF Endpoint
<1>11. FrameInv(h)
  BY <1>9, <1>10 DEF FrameInv
<1>12. Awaits(h, After(seg))
  <2>1. ~None(q, HeaderOk) => After(seg) = d.msg
    BY <1>5, <1>6, <1>9
  <2>2. ~None(q, PayloadOk) => After(seg) = Heartbeat
    BY <1>5, <1>9
  <2> QED
    BY <1>10, <2>1, <2>2 DEF Awaits
<1>13. ASSUME NEW y \in Nat, Carries(e, y)  PROVE Carries(h, y)
  BY <1>9, <1>10, <1>13 DEF Carries, Offers
<1>14. ReadsOn(e, h, After(seg))
  BY <1>11, <1>12, <1>13 DEF ReadsOn
<1> QED
  BY <1>4, <1>7, <1>14 DEF h

\* The other end of that read: the oldest segment is off the wire.
LEMMA TakeFrame ==
    ASSUME NEW e \in Endpoint, FrameInv(e), e.out # <<>>, NEW x \in Nat, Carries(e, x)
    PROVE  LET h == [e EXCEPT !.out = Tail(e.out)] IN
           /\ FrameInv(h)
           /\ Fits(x, Head(e.out))
           /\ Carries(h, After(Head(e.out)))
           /\ \A y \in Nat : Awaits(e, y) => Awaits(h, y)
<1> DEFINE o == Tail(e.out)
           h == [e EXCEPT !.out = o]
           z == After(Head(e.out))
<1>1. e.out \in Seq(Segment)
  BY DEF Endpoint
<1>2. Fits(x, Head(e.out)) /\ Chain(z, o) /\ Final(z, o) = Final(x, e.out)
  BY <1>1, ChainTail DEF Carries
<1> HIDE DEF o
<1>3. /\ h.rop = e.rop /\ h.open = e.open /\ h.wop = e.wop /\ h.hdr = e.hdr
      /\ h.out = o /\ h.ready = e.ready
  BY DEF Endpoint
<1> HIDE DEF h, z
<1>4. FrameInv(h)
  BY <1>3 DEF FrameInv
<1>5. Carries(h, z)
  BY <1>2, <1>3 DEF Carries, Offers
<1>6. ASSUME NEW y \in Nat, Awaits(e, y)  PROVE Awaits(h, y)
  BY <1>3, <1>6 DEF Awaits
<1> QED
  BY <1>2, <1>4, <1>5, <1>6 DEF h, o, z

-----------------------------------------------------------------------------
(***************************************************************************)
(* The steps, and the stream of both ends.                                 *)
(***************************************************************************)

\* Each end awaits what the other has to write next.
StreamInv ==
    \A s \in Side :
        /\ FrameInv(conn[s])
        /\ \E x \in Nat : Awaits(conn[s], x) /\ Carries(conn[Peer(s)], x)

LEMMA OneStream ==
    ASSUME IInv, StreamInv, NEW s \in Side, NEW x, Keeps(conn[s], x),
           conn' = [conn EXCEPT ![s] = x]
    PROVE  StreamInv'
<1>1. ASSUME NEW t \in Side
      PROVE  Keeps(conn[t], conn'[t])
  <2>1. CASE t = s
    BY <2>1 DEF IInv
  <2>2. CASE t # s
    <3>1. conn'[t] = conn[t]
      BY <2>2 DEF IInv
    <3> QED
      BY <3>1 DEF StreamInv, Keeps
  <2> QED
    BY <2>1, <2>2
<1>2. ASSUME NEW t \in Side
      PROVE  /\ FrameInv(conn'[t])
             /\ \E z \in Nat : Awaits(conn'[t], z) /\ Carries(conn'[Peer(t)], z)
  <2>1. Peer(t) \in Side
    BY DEF Peer, Side
  <2>2. PICK z \in Nat : Awaits(conn[t], z) /\ Carries(conn[Peer(t)], z)
    BY DEF StreamInv
  <2> QED
    BY <1>1, <2>1, <2>2 DEF Keeps
<1> QED
  BY <1>2 DEF StreamInv

LEMMA InitStream == Init => StreamInv
<1> SUFFICES ASSUME Init, NEW s \in Side
             PROVE  /\ FrameInv(conn[s])
                    /\ \E x \in Nat : Awaits(conn[s], x) /\ Carries(conn[Peer(s)], x)
  BY DEF StreamInv
<1>1. ASSUME NEW t \in Side
      PROVE  LET e == conn[t] IN
             FrameInv(e) /\ Awaits(e, Heartbeat) /\ Carries(e, Heartbeat)
  <2> DEFINE e == conn[t]
  <2>1. e = NewConnection(t)
    BY DEF Init
  <2>2. e.rop = "header" /\ e.wop = NoWrite /\ e.ready = <<>> /\ e.out = <<>>
    BY <2>1 DEF NewConnection
  <2> HIDE DEF e
  <2>3. \A C : None(e.ready, C)
    <3>1. Len(e.ready) = 0
      BY <2>2
    <3> QED
      BY <3>1 DEF None, Queued
  <2>4. FrameInv(e) /\ Awaits(e, Heartbeat)
    BY <2>2, <2>3, NoWriteType DEF FrameInv, Awaits
  <2>5. Chain(Heartbeat, e.out) /\ Final(Heartbeat, e.out) = Heartbeat
    <3>1. Len(e.out) = 0
      BY <2>2
    <3> QED
      BY <2>2, <3>1 DEF Chain, Final
  <2>6. Carries(e, Heartbeat)
    BY <2>2, <2>5, NoWriteType DEF Carries, Offers
  <2> QED
    BY <2>4, <2>6 DEF e
<1>2. Peer(s) \in Side /\ Heartbeat \in Nat
  BY DEF Peer, Side, Heartbeat
<1> QED
  BY <1>1, <1>2

LEMMA LoopStream ==
    ASSUME IInv, StreamInv, NEW s \in Side, Loop(s)
    PROVE  StreamInv'
<1> DEFINE e == conn[s]
           p == Popped(s)
           c == Oldest(s)
<1>1. EpInv(s, e) /\ FrameInv(e)
  BY DEF IInv, StreamInv
<1>2. p = Pop(e) /\ c = Head(e.ready)
  BY PoppedIsPop
<1> HIDE DEF p, c
<1>3. CASE WhenHeaderReceived(s)
  <2> DEFINE x == when_header_received(s, p, c)
  <2>1. e.batch > 0 /\ Head(e.ready).op = "header" /\ conn' = [conn EXCEPT ![s] = x]
    BY <1>3 DEF WhenHeaderReceived, Runs, p, c
  <2>2. Keeps(e, x)
    BY <1>1, <1>2, <2>1, HeaderFrame
  <2> HIDE DEF x
  <2> QED
    BY <2>1, <2>2, OneStream
<1>4. ASSUME NEW k \in Outcome, NEW r \in Reply, WhenPayloadReceived(s, r, k)
      PROVE  StreamInv'
  <2> DEFINE x == when_payload_received(p, c, r, k)
  <2>1. e.batch > 0 /\ Head(e.ready).op = "payload" /\ conn' = [conn EXCEPT ![s] = x]
    BY <1>4 DEF WhenPayloadReceived, Runs, p, c
  <2>2. Keeps(e, x)
    BY <1>1, <1>2, <2>1, PayloadFrame
  <2> HIDE DEF x
  <2> QED
    BY <2>1, <2>2, OneStream
<1>5. ASSUME NEW k \in Outcome, WriteContinues(s, k)
      PROVE  StreamInv'
  <2> DEFINE x == write_some(p, e.wop.buf, e.wop.n, k)
  <2>1. e.batch > 0 /\ Head(e.ready).op = "write_some" /\ conn' = [conn EXCEPT ![s] = x]
    BY <1>5 DEF WriteContinues, Runs, p
  <2>2. Keeps(e, x)
    BY <1>1, <1>2, <2>1, ContinueFrame
  <2> HIDE DEF x
  <2> QED
    BY <2>1, <2>2, OneStream
<1>6. ASSUME NEW k \in Outcome, WhenMessageSent(s, k)
      PROVE  StreamInv'
  <2> DEFINE x == when_message_sent(p, c, k)
  <2>1. e.batch > 0 /\ Head(e.ready).op = "write" /\ conn' = [conn EXCEPT ![s] = x]
    BY <1>6 DEF WhenMessageSent, Runs, p, c
  <2>2. Keeps(e, x)
    BY <1>1, <1>2, <2>1, SentFrame
  <2> HIDE DEF x
  <2> QED
    BY <2>1, <2>2, OneStream
<1>7. CASE s = "server" /\ WhenTimeout
  <2> DEFINE x == when_timeout(p, c)
  <2>1. e.batch > 0 /\ Head(e.ready).op = "timer" /\ conn' = [conn EXCEPT ![s] = x]
    BY <1>7 DEF WhenTimeout, Runs, p, c
  <2>2. Keeps(e, x)
    BY <1>1, <1>2, <1>7, <2>1, TimeoutFrame
  <2> HIDE DEF x
  <2> QED
    BY <2>1, <2>2, OneStream
<1>8. ASSUME s = "client", NEW k \in Outcome, SendAndReset(k)
      PROVE  StreamInv'
  <2> DEFINE x == send_and_reset(p, c, k)
  <2>1. e.batch > 0 /\ Head(e.ready).op = "timer" /\ conn' = [conn EXCEPT ![s] = x]
    BY <1>8 DEF SendAndReset, Runs, p, c
  <2>2. Keeps(e, x)
    BY <1>1, <1>2, <1>8, <2>1, SenderFrame
  <2> HIDE DEF x
  <2> QED
    BY <2>1, <2>2, OneStream
<1> QED
  BY <1>3, <1>4, <1>5, <1>6, <1>7, <1>8 DEF Loop

\* A segment goes from the one end to the other.
LEMMA ReadSegmentStream ==
    ASSUME IInv, StreamInv, NEW s \in Side, ReadSegment(s)
    PROVE  StreamInv'
<1> DEFINE p == Peer(s)
           e == conn[s]
           f == conn[p]
           seg == Head(f.out)
           n == IF e.hdr.msg \in BigMsgs THEN 0 ELSE 1
           y == [f EXCEPT !.out = Tail(f.out)]
           x == IF e.rop = "header"
                THEN ReadEnds(e, seg, e.rbuf, Done("header", "ok", 1))
                ELSE ReadEnds(e, e.hdr, seg, Done("payload", "ok", n))
<1>1. p \in Side /\ p # s /\ Peer(p) = s /\ \A t \in Side : t = s \/ t = p
  BY DEF Peer, Side
<1>p. p = Peer(s)
  OBVIOUS
<1>2. f.out # <<>> /\ e.rop # "none"
  BY DEF ReadSegment
<1> HIDE DEF p
<1>3. /\ EpInv(s, e) /\ e \in Endpoint /\ f \in Endpoint /\ f.out \in Seq(Segment)
      /\ FrameInv(e) /\ FrameInv(f)
  BY <1>1 DEF IInv, StreamInv, Endpoint
<1>4. conn' = [conn EXCEPT ![p] = y, ![s] = x]
  <2>1. e.rop = "header" =>
           ReadEnds(e, seg, e.rbuf, Done("header", "ok", 1))
              = Post([e EXCEPT !.rop = "none", !.hdr = seg], Done("header", "ok", 1))
    BY <1>3 DEF ReadEnds, Post, Endpoint
  <2>2. ReadEnds(e, e.hdr, seg, Done("payload", "ok", n))
                  = Post([e EXCEPT !.rop = "none", !.rbuf = seg], Done("payload", "ok", n))
    <3> HIDE DEF n
    <3> QED
      BY <1>3 DEF ReadEnds, Post, Endpoint
  <2>3. x = IF e.rop = "header"
            THEN Post([e EXCEPT !.rop = "none", !.hdr = seg], Done("header", "ok", 1))
            ELSE Post([e EXCEPT !.rop = "none", !.rbuf = seg],
                      Done("payload", "ok", IF e.hdr.msg \in BigMsgs THEN 0 ELSE 1))
    BY <2>1, <2>2
  <2> HIDE DEF x
  <2> QED
    BY <1>1, <2>3 DEF ReadSegment, p
<1>5. PICK a \in Nat : Awaits(e, a) /\ Carries(f, a)
  BY <1>p DEF StreamInv
<1>6. PICK b \in Nat : Awaits(f, b) /\ Carries(e, b)
  BY <1>1 DEF StreamInv
<1>7. /\ FrameInv(y) /\ Fits(a, seg) /\ Carries(y, After(seg))
      /\ Awaits(y, b)
  BY <1>2, <1>3, <1>5, <1>6, TakeFrame
<1>8. seg \in Segment /\ n \in 0..2
  BY <1>2, <1>3
<1> HIDE DEF y, seg, n
<1>9. ReadsOn(e, x, After(seg)) /\ After(seg) \in Nat
  BY <1>2, <1>3, <1>5, <1>7, <1>8, ArriveFrame
<1> HIDE DEF x
<1>10. FrameInv(x) /\ Awaits(x, After(seg)) /\ Carries(x, b)
  BY <1>6, <1>9 DEF ReadsOn
<1>11. conn'[s] = x /\ conn'[p] = y
  BY <1>1, <1>4 DEF IInv
<1>12. ASSUME NEW t \in Side
       PROVE  /\ FrameInv(conn'[t])
              /\ \E z \in Nat : Awaits(conn'[t], z) /\ Carries(conn'[Peer(t)], z)
  <2>1. CASE t = s
    BY <1>p, <1>7, <1>9, <1>10, <1>11, <2>1
  <2>2. CASE t = p
    BY <1>1, <1>7, <1>10, <1>11, <2>2
  <2> QED
    BY <1>1, <2>1, <2>2
<1> QED
  BY <1>12 DEF StreamInv

LEMMA KernelStream ==
    ASSUME IInv, StreamInv, NEW s \in Side, Kernel(s)
    PROVE  StreamInv'
<1> DEFINE e == conn[s]
<1>1. EpInv(s, e) /\ FrameInv(e) /\ e \in Endpoint
  BY DEF IInv, StreamInv
<1>2. ASSUME NEW k \in Outcome, WriteReady(s, k)
      PROVE  StreamInv'
  <2> DEFINE x == write_some(e, e.wop.buf, e.wop.n, k)
  <2>1. e.wop.st = "pending" /\ conn' = [conn EXCEPT ![s] = x]
    BY <1>2 DEF WriteReady
  <2>2. Keeps(e, x)
    BY <1>1, <2>1, ResumeFrame
  <2> HIDE DEF x
  <2> QED
    BY <2>1, <2>2, OneStream
<1>3. ASSUME ReadSegment(s)
      PROVE  StreamInv'
  BY <1>3, ReadSegmentStream
<1>4. ASSUME NEW ec \in {"eof", "error"}, ReadFails(s, ec)
      PROVE  StreamInv'
  <2> DEFINE c == Done(e.rop, ec, 0)
             x == ReadEnds(e, e.hdr, e.rbuf, c)
  <2>1. e.rop # "none"
    BY <1>4 DEF ReadFails
  <2>2. x = Post([e EXCEPT !.rop = "none"], c)
    BY <1>1 DEF ReadEnds, Post, Endpoint
  <2>3. conn' = [conn EXCEPT ![s] = x]
    <3>1. conn' = [conn EXCEPT ![s] = Post([e EXCEPT !.rop = "none"], c)]
      BY <1>4 DEF ReadFails
    <3> HIDE DEF x
    <3> QED
      BY <2>2, <3>1
  <2>4. Keeps(e, x)
    BY <1>1, <2>1, FailFrame
  <2> HIDE DEF x
  <2> QED
    BY <2>3, <2>4, OneStream
<1>5. ASSUME NEW b \in BOOLEAN, Reactor(s, b)
      PROVE  StreamInv'
  <2> DEFINE q == IF b THEN Append(e.ready, Done("timer", "ok", 0)) ELSE e.ready
             x == [e EXCEPT !.ready = q, !.batch = Len(q), !.timer = e.timer /\ ~b]
  <2>1. Keeps(e, x)
    BY <1>1, ReactorFrame
  <2>2. conn' = [conn EXCEPT ![s] = x]
    <3>1. conn' = [conn EXCEPT ![s].ready = q, ![s].batch = Len(q), ![s].timer = @ /\ ~b]
      BY <1>5 DEF Reactor
    <3> HIDE DEF q
    <3> QED
      BY <1>1, <3>1 DEF IInv
  <2> HIDE DEF x
  <2> QED
    BY <2>1, <2>2, OneStream
<1> QED
  BY <1>2, <1>3, <1>4, <1>5 DEF Kernel

LEMMA UpperStream ==
    ASSUME IInv, StreamInv, NEW s \in Side, Upper(s)
    PROVE  StreamInv'
<1> DEFINE e == conn[s]
<1>1. Core(s, e) /\ FrameInv(e)
  BY DEF IInv, EpInv, StreamInv
<1>2. ASSUME NEW k \in Outcome, Send(s, k)
      PROVE  StreamInv'
  <2> DEFINE x == do_send_message(e, k)
  <2>1. conn' = [conn EXCEPT ![s] = x]
    BY <1>2 DEF Send
  <2>2. Keeps(e, x)
    BY <1>1, SendKeeps
  <2> HIDE DEF x
  <2> QED
    BY <2>1, <2>2, OneStream
<1>3. CASE Disconnect(s)
  <2> DEFINE x == connection_close(e)
  <2>1. conn' = [conn EXCEPT ![s] = x]
    BY <1>3 DEF Disconnect, disconnect
  <2>2. Keeps(e, x)
    BY <1>1, CloseKeeps
  <2> HIDE DEF x
  <2> QED
    BY <2>1, <2>2, OneStream
<1> QED
  BY <1>2, <1>3 DEF Upper

LEMMA NextStream ==
    ASSUME IInv, StreamInv, [Next]_vars
    PROVE  StreamInv'
<1>1. ASSUME NEW s \in Side, Loop(s) \/ Kernel(s) \/ Upper(s)
      PROVE  StreamInv'
  BY <1>1, LoopStream, KernelStream, UpperStream
<1>2. CASE NetworkCut \/ UNCHANGED vars
  <2>1. conn' = conn
    BY <1>2 DEF NetworkCut, vars
  <2> QED
    BY <2>1 DEF StreamInv
<1> QED
  BY <1>1, <1>2 DEF Next

-----------------------------------------------------------------------------
(***************************************************************************)
(* The order of the messages, where the client sends no heartbeats and no  *)
(* more than two messages are queued.                                      *)
(***************************************************************************)

\* With three messages queued, do_write writes the last of them before the second
\* (see MCConnectionOrder).
ShortQueue == QueueBound <= 2 /\ ~ClientHB

\* The header of the next message comes after message m, or the rest of m itself.
Follows(m, seg) == seg.msg = IF seg.kind = "header" THEN m + 1 ELSE m

Numbered(m, q) ==
    /\ q # <<>> => Follows(m, q[1])
    /\ \A i \in 1..(Len(q) - 1) : Follows(q[i].msg, q[i + 1])

\* The message that the last segment of q belongs to, if m came before q.
LastOf(m, q) == IF q = <<>> THEN m ELSE q[Len(q)].msg

LEMMA NumberedAppend ==
    ASSUME NEW q \in Seq(Segment), NEW seg \in Segment, NEW m \in Nat,
           Numbered(m, q), Follows(LastOf(m, q), seg)
    PROVE  /\ Append(q, seg) \in Seq(Segment)
           /\ Numbered(m, Append(q, seg))
           /\ LastOf(m, Append(q, seg)) = seg.msg
<1> DEFINE p == Append(q, seg)
           n == Len(q)
<1>1. /\ p \in Seq(Segment) /\ p # <<>> /\ n \in Nat /\ Len(p) = n + 1
      /\ \A i \in 1..n : p[i] = q[i]
      /\ p[n + 1] = seg
  BY AppendProperties
<1>2. q = <<>> <=> n = 0
  OBVIOUS
<1> HIDE DEF p, n
<1>3. LastOf(m, p) = seg.msg
  BY <1>1 DEF LastOf
<1>4. Follows(m, p[1])
  <2>1. CASE n = 0
    BY <1>1, <1>2, <2>1 DEF LastOf
  <2>2. CASE n # 0
    BY <1>1, <1>2, <2>2 DEF Numbered
  <2> QED
    BY <2>1, <2>2
<1>5. ASSUME NEW i \in 1..(Len(p) - 1)
      PROVE  Follows(p[i].msg, p[i + 1])
  <2>1. i \in 1..n /\ n # 0
    BY <1>1
  <2>2. CASE i = n
    BY <1>1, <1>2, <2>1, <2>2 DEF LastOf, n
  <2>3. CASE i # n
    <3>1. i \in 1..(Len(q) - 1) /\ i + 1 \in 1..n
      BY <1>1, <2>1, <2>3 DEF n
    <3> QED
      BY <1>1, <2>1, <3>1 DEF Numbered
  <2> QED
    BY <2>2, <2>3
<1>6. Numbered(m, p)
  BY <1>4, <1>5 DEF Numbered
<1> QED
  BY <1>1, <1>3, <1>6 DEF p

LEMMA NumberedTail ==
    ASSUME NEW q \in Seq(Segment), q # <<>>, NEW m \in Nat, Numbered(m, q)
    PROVE  /\ Follows(m, Head(q))
           /\ Numbered(Head(q).msg, Tail(q))
           /\ LastOf(Head(q).msg, Tail(q)) = LastOf(m, q)
<1> DEFINE p == Tail(q)
           n == Len(q)
<1>1. /\ p \in Seq(Segment) /\ n \in Nat \ {0} /\ Len(p) = n - 1
      /\ \A i \in 1..(n - 1) : p[i] = q[i + 1]
      /\ Head(q) = q[1]
  BY HeadTailProperties
<1> HIDE DEF p, n
<1>2. p = <<>> <=> n = 1
  BY <1>1, EmptySeq
<1>3. Follows(m, Head(q)) /\ \A i \in 1..(n - 1) : Follows(q[i].msg, q[i + 1])
  BY <1>1 DEF Numbered, n
<1>4. p # <<>> => Follows(Head(q).msg, p[1])
  <2> SUFFICES ASSUME p # <<>>
               PROVE  Follows(Head(q).msg, p[1])
    OBVIOUS
  <2>1. 1 \in 1..(n - 1)
    BY <1>1, <1>2
  <2> QED
    BY <1>1, <1>3, <2>1
<1>5. ASSUME NEW i \in 1..(Len(p) - 1)
      PROVE  Follows(p[i].msg, p[i + 1])
  <2>1. i \in 1..(n - 1) /\ i + 1 \in 1..(n - 1)
    BY <1>1
  <2> QED
    BY <1>1, <1>3, <2>1
<1>6. LastOf(Head(q).msg, p) = LastOf(m, q)
  <2>1. CASE n = 1
    BY <1>1, <1>2, <2>1 DEF LastOf, n
  <2>2. CASE n # 1
    <3>1. n - 1 \in 1..(n - 1) /\ (n - 1) + 1 = n
      BY <1>1, <2>2
    <3> QED
      BY <1>1, <1>2, <2>2, <3>1 DEF LastOf, n
  <2> QED
    BY <2>1, <2>2
<1> QED
  BY <1>3, <1>4, <1>5, <1>6 DEF Numbered, p

\* The last message on the wire when the first n segments of message m are there.
Upto(m, n) == IF n = 0 THEN m - 1 ELSE m

LEMMA NumberedRest ==
    ASSUME NEW q \in Seq(Segment), NEW x \in Nat, NEW m \in Msg, m # Heartbeat,
           NEW n \in 0..2, Started(m, n),
           Numbered(x, q), LastOf(x, q) = Upto(m, n)
    PROVE  LET o == q \o SubSeq(Segments(m), n + 1, Len(Segments(m))) IN
           /\ Numbered(x, o)
           /\ LastOf(x, o) = m
<1> DEFINE h == [kind |-> "header", msg |-> m]
           b == [kind |-> "payload", msg |-> m]
           g == <<h, b>>
           r == SubSeq(Segments(m), n + 1, Len(Segments(m)))
<1>1. h \in Segment /\ b \in Segment /\ h.msg = m /\ b.msg = m
  BY DEF Segment
<1>2. n = 0 => Follows(Upto(m, n), h)
  <2>1. m \in Nat /\ m # 0
    BY DEF Msg, Heartbeat
  <2> QED
    BY <2>1 DEF Follows, Upto
<1>3. Follows(m, b)
  BY DEF Follows
<1>4. Segments(m) = g /\ g \in Seq(Segment) /\ Len(g) = 2 /\ g[1] = h /\ g[2] = b
  BY <1>1 DEF Segments
<1>5. CASE n = 0
  <2>1. r = g
    <3> HIDE DEF g
    <3>1. n + 1 = 1
      BY <1>5
    <3>2. SubSeq(g, 1, Len(g)) = g
      BY <1>4, SubSeqFull
    <3> QED
      BY <1>4, <3>1, <3>2
  <2>2. q \o <<h, b>> = Append(Append(q, h), b)
    BY <1>1
  <2>g. g = <<h, b>>
    OBVIOUS
  <2> HIDE DEF h, b, r, g
  <2> DEFINE p == Append(q, h)
  <2>3. p \in Seq(Segment) /\ Numbered(x, p) /\ LastOf(x, p) = m
    BY <1>1, <1>2, <1>5, NumberedAppend
  <2> HIDE DEF p
  <2>4. Numbered(x, Append(p, b)) /\ LastOf(x, Append(p, b)) = m
    BY <1>1, <1>3, <2>3, NumberedAppend
  <2> QED
    BY <2>1, <2>2, <2>4, <2>g DEF p, r
<1>6. CASE n = 1
  <2>1. r = <<b>>
    <3> DEFINE t == <<b>>
    <3>1. t \in Seq(Segment) /\ Len(t) = 1 /\ t[1] = b
      BY <1>1
    <3> HIDE DEF g, t, b
    <3>2. r = SubSeq(g, 2, 2)
      <4>1. n + 1 = 2 /\ Len(Segments(m)) = 2
        BY <1>4, <1>6
      <4> QED
        BY <1>4, <4>1
    <3>3. \A i \in 2..2 : g[i] \in Segment
      BY <1>1, <1>4
    <3>4. /\ SubSeq(g, 2, 2) \in Seq(Segment)
          /\ Len(SubSeq(g, 2, 2)) = 1
          /\ \A i \in 1..1 : SubSeq(g, 2, 2)[i] = g[2 + i - 1]
      BY <3>3, SubSeqProperties
    <3>5. \A i \in 1..1 : SubSeq(g, 2, 2)[i] = t[i]
      BY <1>4, <3>1, <3>4
    <3>6. SubSeq(g, 2, 2) = t
      BY <3>1, <3>4, <3>5, SeqEqual
    <3> QED
      BY <3>2, <3>6 DEF t
  <2>2. q \o <<b>> = Append(q, b)
    BY <1>1, AppendIsConcat
  <2>3. Upto(m, n) = m
    BY <1>6 DEF Upto
  <2> HIDE DEF h, b, r, g
  <2>4. Numbered(x, Append(q, b)) /\ LastOf(x, Append(q, b)) = m
    BY <1>1, <1>3, <2>3, NumberedAppend
  <2> QED
    BY <2>1, <2>2, <2>4 DEF r
<1> QED
  BY <1>5, <1>6 DEF Started

-----------------------------------------------------------------------------
\* The messages in _write_queue are the last ones, and the first of them is written.
QueueOrder(e) ==
    /\ Len(e.wq) <= 2 /\ Len(e.wq) <= e.nsent
    /\ \A i \in 1..Len(e.wq) : e.wq[i] + Len(e.wq) = e.nsent + i
    /\ e.wop.st # "idle" => e.wq # <<>> /\ e.wop.buf = e.wq[1]

GotOrder(e) == \A i \in 1..Len(e.got) : e.got[i] = i

\* The header buffer is that of the message delivered last, or of the next one.
ReadOrder(e) ==
    e.open =>
        /\ e.rop = "header" => e.hdr.msg = Len(e.got)
        /\ e.rop = "payload" \/ ~None(e.ready, HeaderOk) \/ ~None(e.ready, PayloadOk)
              => e.hdr.msg = Len(e.got) + 1
        /\ ~None(e.ready, PayloadOk) => e.rbuf.msg = e.hdr.msg

\* The client's timer never runs.
Silent(s, e) == s = "client" => ~e.timer /\ None(e.ready, Expired)

OwnOrder(s, e) == QueueOrder(e) /\ GotOrder(e) /\ ReadOrder(e) /\ Silent(s, e)

\* z is the last message on the wire.
Writes(e, z) ==
    e.open => /\ e.wop.st # "idle" => z = Upto(e.wop.buf, e.wop.n)
              /\ e.wop.st = "idle" /\ None(e.ready, Broken)
                    => z = IF e.wq = <<>> THEN e.nsent ELSE e.wq[1]

Sends(e, x) == Numbered(x, e.out) /\ Writes(e, LastOf(x, e.out))

\* What a step of an endpoint does to neither order.
KeepsOrder(s, e, h) ==
    /\ OwnOrder(s, h)
    /\ h.hdr = e.hdr
    /\ \A x \in Nat : Sends(e, x) => Sends(h, x)

SameOrder(s, e, h) ==
    /\ h.open = e.open /\ h.rop = e.rop /\ h.wop = e.wop /\ h.hdr = e.hdr /\ h.out = e.out
    /\ h.wq = e.wq /\ h.nsent = e.nsent /\ h.got = e.got /\ h.rbuf = e.rbuf
    /\ \A C \in {HeaderOk, PayloadOk, Broken} : None(h.ready, C) <=> None(e.ready, C)
    /\ Silent(s, h)

LEMMA SameOrderKeeps ==
    ASSUME NEW s, NEW e, NEW h, OwnOrder(s, e), SameOrder(s, e, h)
    PROVE  KeepsOrder(s, e, h)
  BY DEF KeepsOrder, OwnOrder, SameOrder, QueueOrder, GotOrder, ReadOrder, Sends, Writes

LEMMA OrderTwice ==
    ASSUME NEW s, NEW e, NEW g, NEW h, KeepsOrder(s, e, g), KeepsOrder(s, g, h)
    PROVE  KeepsOrder(s, e, h)
  BY DEF KeepsOrder

\* A closed connection reads and writes nothing any more.
LEMMA ClosedOrder ==
    ASSUME NEW s, NEW e, NEW h, OwnOrder(s, e), ~h.open, h.out = e.out, h.hdr = e.hdr,
           h.wq = e.wq, h.nsent = e.nsent, h.got = e.got,
           h.wop = e.wop \/ h.wop = NoWrite, Silent(s, h)
    PROVE  KeepsOrder(s, e, h)
  BY NoWriteType
  DEF KeepsOrder, OwnOrder, QueueOrder, GotOrder, ReadOrder, Sends, Writes

-----------------------------------------------------------------------------
\* Writing message m, the first in the queue, further.
WritesOn(s, e, h, z) ==
    /\ OwnOrder(s, h)
    /\ h.hdr = e.hdr
    /\ \A x \in Nat :
          Numbered(x, e.out) /\ (e.open => LastOf(x, e.out) = z) => Sends(h, x)

\* With o on the wire, w and the completion c tell what is left to write.
Numbers(e, w, o, c, z) ==
    \A x \in Nat :
        Numbered(x, e.out) /\ (e.open => LastOf(x, e.out) = z)
            => /\ Numbered(x, o)
               /\ e.open => /\ w.st # "idle" => LastOf(x, o) = Upto(w.buf, w.n)
                            /\ w.st = "idle" /\ c \notin Broken => LastOf(x, o) = e.wq[1]

\* The three outcomes of a write that post a completion share this argument.
LEMMA WrittenOrder ==
    ASSUME NEW s \in Side, NEW e \in Endpoint, OwnOrder(s, e), None(e.ready, WriteDone),
           e.wq # <<>>,
           NEW w \in WriteOp, NEW o \in Seq(Segment), NEW c \in Completion, NEW z,
           c \notin HeaderOk, c \notin PayloadOk, c \notin Expired,
           w.st # "idle" => w.buf = e.wq[1],
           Numbers(e, w, o, c, z)
    PROVE  WritesOn(s, e, Post(Written(e, w, o), c), z)
<1> DEFINE y == Written(e, w, o)
           h == Post(y, c)
<1>0. e.ready \in Seq(Completion)
  BY DEF Endpoint
<1>b. None(e.ready, Broken)
  BY SubKinds
<1>1. /\ y \in Endpoint /\ y.wop = w /\ y.out = o
      /\ SameUpper(e, y)
      /\ y.open = e.open /\ y.rop = e.rop /\ y.ready = e.ready
  BY SetWrite
<1>t. y.wq = e.wq /\ y.timer = e.timer
  BY DEF Written, Endpoint
<1>2. h = Post(y, c)
  OBVIOUS
<1> HIDE DEF y, h
<1>3. /\ h.ready = Append(e.ready, c) /\ h.out = o /\ SameUpper(e, h)
      /\ h.open = e.open /\ h.rop = e.rop /\ h.wop = w /\ h.wq = e.wq
      /\ h.timer = e.timer
  <2>1. /\ h.ready = Append(y.ready, c) /\ SameUpper(y, h) /\ h.timer = y.timer
        /\ h.wq = y.wq
        /\ h.open = y.open /\ h.rop = y.rop /\ h.wop = y.wop /\ h.out = y.out
    <3>1. y \in Endpoint
      BY <1>1
    <3> QED
      BY <1>2, <3>1, PostType
  <2> QED
    BY <1>1, <1>t, <2>1 DEF SameUpper
<1>4. \A C \in {HeaderOk, PayloadOk, Expired} : None(h.ready, C) <=> None(e.ready, C)
  BY <1>0, <1>3, NoneAppend
<1>5. None(h.ready, Broken) <=> c \notin Broken
  BY <1>0, <1>b, <1>3, NoneAppend
<1>6. QueueOrder(h) /\ GotOrder(h)
  BY <1>3 DEF OwnOrder, QueueOrder, GotOrder, SameUpper
<1>7. ReadOrder(h)
  BY <1>3, <1>4 DEF OwnOrder, ReadOrder, SameUpper
<1>8. Silent(s, h)
  BY <1>3, <1>4 DEF OwnOrder, Silent
<1>9. ASSUME NEW x \in Nat, Numbered(x, e.out), e.open => LastOf(x, e.out) = z
      PROVE  Sends(h, x)
  <2>1. /\ Numbered(x, o)
        /\ e.open => /\ w.st # "idle" => LastOf(x, o) = Upto(w.buf, w.n)
                     /\ w.st = "idle" /\ c \notin Broken => LastOf(x, o) = e.wq[1]
    BY <1>9 DEF Numbers
  <2> QED
    BY <1>3, <1>5, <2>1 DEF Sends, Writes
<1>10. WritesOn(s, e, h, z)
  BY <1>3, <1>6, <1>7, <1>8, <1>9 DEF WritesOn, OwnOrder, SameUpper
<1> QED
  BY <1>10 DEF h, y

\* One async_write_some goes on with the first message of the queue.
LEMMA WriteOrder ==
    ASSUME NEW s \in Side, NEW e \in Endpoint, OwnOrder(s, e), None(e.ready, WriteDone),
           e.wq # <<>>, NEW m \in Msg, m # Heartbeat, m = e.wq[1],
           NEW n \in 0..2, Started(m, n), NEW k \in Outcome
    PROVE  WritesOn(s, e, write_some(e, m, n, k), Upto(m, n))
<1> DEFINE segs == Segments(m)
           h == write_some(e, m, n, k)
           z == Upto(m, n)
<1>0. /\ e.ready \in Seq(Completion) /\ e.out \in Seq(Segment)
      /\ segs \in Seq(Segment) /\ Len(segs) \in 1..2
      /\ SubSeq(segs, n + 1, Len(segs)) \in Seq(Segment)
  BY SegmentsType, RestType DEF Endpoint
<1>k. \A i \in 0..2 : \A op \in {"write_some", "write"} : \A ec \in Ec :
         LET c == Done(op, ec, i) IN
         /\ c \in Completion
         /\ c \notin HeaderOk /\ c \notin PayloadOk /\ c \notin Expired
  BY DEF Done, Completion, HeaderOk, PayloadOk, Expired, Op, Ec
<1>2. CASE ~e.open \/ k = "error"
  <2> DEFINE c == Done("write", "error", n)
             w == NoWrite
             o == e.out
  <2>1. h = Post([e EXCEPT !.wop = NoWrite], c)
    BY <1>2 DEF write_some
  <2>2. [e EXCEPT !.wop = NoWrite] = Written(e, w, o)
    BY DEF Endpoint, Written
  <2>3. c \in Completion /\ c \notin HeaderOk /\ c \notin PayloadOk /\ c \notin Expired
        /\ c \in Broken
    BY <1>k, FrameKinds DEF Ec
  <2>4. h = Post(Written(e, w, o), c)
    BY <2>1, <2>2
  <2>5. w \in WriteOp /\ w.st = "idle" /\ o \in Seq(Segment) /\ o = e.out
    BY <1>0, NoWriteType
  <2> HIDE DEF c, h, w, o, z
  <2>6. Numbers(e, w, o, c, z)
    BY <2>3, <2>5 DEF Numbers
  <2>7. WritesOn(s, e, Post(Written(e, w, o), c), z)
    BY <2>3, <2>5, <2>6, WrittenOrder
  <2> QED
    BY <2>4, <2>7 DEF h, z
<1>3. CASE e.open /\ k = "pending"
  <2> DEFINE w == [st |-> "pending", buf |-> m, n |-> n]
  <2>1. h = [e EXCEPT !.wop = w]
    BY <1>3 DEF write_some
  <2>2. w \in WriteOp /\ w.st = "pending" /\ w.buf = m /\ w.n = n
    BY DEF WriteOp
  <2> HIDE DEF w, h
  <2>3. /\ h.wop = w /\ h.hdr = e.hdr /\ h.rbuf = e.rbuf /\ h.nsent = e.nsent
        /\ h.got = e.got /\ h.wq = e.wq /\ h.timer = e.timer
        /\ h.open = e.open /\ h.rop = e.rop /\ h.ready = e.ready /\ h.out = e.out
    BY <2>1, <2>2 DEF Endpoint
  <2>4. QueueOrder(h) /\ GotOrder(h) /\ ReadOrder(h) /\ Silent(s, h)
    BY <2>2, <2>3 DEF OwnOrder, QueueOrder, GotOrder, ReadOrder, Silent
  <2>5. ASSUME NEW x \in Nat, Numbered(x, e.out), e.open => LastOf(x, e.out) = z
        PROVE  Sends(h, x)
    BY <1>3, <2>2, <2>3, <2>5 DEF Sends, Writes
  <2> QED
    BY <2>3, <2>4, <2>5 DEF WritesOn, OwnOrder, h
<1>4. CASE e.open /\ k = "part" /\ n + 1 < Len(segs)
  <2> DEFINE w == [st |-> "queued", buf |-> m, n |-> n + 1]
             o == Append(e.out, segs[n + 1])
             c == Done("write_some", "ok", 0)
             g == [kind |-> "header", msg |-> m]
  <2>1. h = Post(Written(e, w, o), c)
    BY <1>4 DEF write_some, Written
  <2>2. w \in WriteOp /\ w.st = "queued" /\ w.buf = m /\ w.n = n + 1
    BY <1>0, <1>4 DEF WriteOp
  <2>3. n = 0 /\ segs[n + 1] = g
    <3>1. n = 0 /\ Len(segs) = 2
      BY <1>0, <1>4
    <3> QED
      BY <3>1 DEF Segments
  <2>4. g \in Segment /\ g.msg = m /\ Follows(z, g)
    <3>1. m \in Nat /\ m # 0
      BY DEF Msg, Heartbeat
    <3> QED
      BY <2>3, <3>1 DEF Segment, Follows, Upto, Msg
  <2> HIDE DEF g
  <2>5. o \in Seq(Segment)
    BY <1>0, <2>3, <2>4
  <2>6. c \in Completion /\ c \notin HeaderOk /\ c \notin PayloadOk /\ c \notin Expired
    BY <1>k DEF Ec
  <2>7. Upto(w.buf, w.n) = m
    BY <2>2, <2>3 DEF Upto
  <2>8. ASSUME NEW x \in Nat, Numbered(x, e.out), LastOf(x, e.out) = z
        PROVE  Numbered(x, o) /\ LastOf(x, o) = m
    BY <1>0, <2>3, <2>4, <2>8, NumberedAppend
  <2> HIDE DEF w, o, c, h, z
  <2>9. Numbers(e, w, o, c, z)
    BY <1>4, <2>2, <2>7, <2>8 DEF Numbers
  <2>10. WritesOn(s, e, Post(Written(e, w, o), c), z)
    BY <2>2, <2>5, <2>6, <2>9, WrittenOrder
  <2> QED
    BY <2>1, <2>10 DEF h, z
<1>5. CASE e.open /\ k \notin {"error", "pending"} /\ ~(k = "part" /\ n + 1 < Len(segs))
  <2> DEFINE o == e.out \o SubSeq(segs, n + 1, Len(segs))
             c == Done("write", "ok", Len(segs))
             w == NoWrite
  <2>1. h = Post(Written(e, w, o), c)
    BY <1>5 DEF write_some, Written
  <2>2. o \in Seq(Segment) /\ w \in WriteOp /\ w.st = "idle"
    BY <1>0, NoWriteType
  <2>3. c \in Completion /\ c \notin HeaderOk /\ c \notin PayloadOk /\ c \notin Expired
    BY <1>0, <1>k DEF Ec
  <2>4. ASSUME NEW x \in Nat, Numbered(x, e.out), LastOf(x, e.out) = z
        PROVE  Numbered(x, o) /\ LastOf(x, o) = m
    BY <1>0, <2>4, NumberedRest
  <2> HIDE DEF o, c, h, w, z
  <2>5. Numbers(e, w, o, c, z)
    BY <1>5, <2>2, <2>4 DEF Numbers
  <2>6. WritesOn(s, e, Post(Written(e, w, o), c), z)
    BY <2>2, <2>3, <2>5, WrittenOrder
  <2> QED
    BY <2>1, <2>6 DEF h, z
<1> QED
  BY <1>2, <1>3, <1>4, <1>5

\* Writing does not touch the queue.
LEMMA WriteQueue ==
    ASSUME NEW e \in Endpoint, NEW m \in Msg, NEW n \in 0..2, NEW k
    PROVE  write_some(e, m, n, k).wq = e.wq
  BY DEF write_some, Post, Endpoint

\* do_send_message, as long as the queue is short.
LEMMA SendOrder ==
    ASSUME NEW s \in Side, NEW e, Core(s, e), OwnOrder(s, e), Len(e.wq) < 2,
           NEW k \in Outcome
    PROVE  LET x == do_send_message(e, k) IN
           /\ KeepsOrder(s, e, x)
           /\ Len(x.wq) = Len(e.wq) + 1
<1> DEFINE m == e.nsent + 1
           q == Append(e.wq, m)
           y == [e EXCEPT !.nsent = m, !.wq = q]
           x == do_send_message(e, k)
<1>0. e \in Endpoint /\ e.wq \in Seq(Msg) /\ m \in Nat /\ m \in Msg /\ e.nsent \in Nat
  BY DEF Core, Endpoint, Msg
<1>1. /\ q \in Seq(Msg) /\ Len(q) = Len(e.wq) + 1 /\ q[Len(q)] = m /\ q # <<>>
      /\ Len(e.wq) \in Nat
      /\ \A i \in 1..Len(e.wq) : q[i] = e.wq[i]
  BY <1>0
<1>2. x = IF Len(y.wq) = 1 THEN write_some(y, y.wq[Len(y.wq)], 0, k) ELSE y
  <2>1. [[e EXCEPT !.nsent = @ + 1] EXCEPT !.wq = Append(@, e.nsent + 1)] = y
    BY <1>0 DEF Endpoint
  <2> QED
    BY <2>1 DEF do_send_message, push, do_write
<1>m. m = e.nsent + 1
  OBVIOUS
<1> HIDE DEF q, m
<1>3. /\ y \in Endpoint /\ y.wq = q /\ y.nsent = m
      /\ y.open = e.open /\ y.rop = e.rop /\ y.wop = e.wop /\ y.hdr = e.hdr
      /\ y.ready = e.ready /\ y.out = e.out /\ y.got = e.got /\ y.rbuf = e.rbuf
      /\ y.timer = e.timer
  BY <1>0, <1>1 DEF Endpoint
<1> HIDE DEF x, y
<1>4. GotOrder(y) /\ ReadOrder(y) /\ Silent(s, y)
  BY <1>3 DEF OwnOrder, GotOrder, ReadOrder, Silent
<1>5. QueueOrder(y)
  <2>1. Len(q) <= 2 /\ Len(q) <= m
    BY <1>0, <1>1, <1>m DEF OwnOrder, QueueOrder
  <2>2. ASSUME NEW i \in 1..Len(q)
        PROVE  q[i] + Len(q) = m + i
    <3>1. CASE i = Len(q)
      BY <1>0, <1>1, <3>1
    <3>2. CASE i # Len(q)
      <4>1. i \in 1..Len(e.wq)
        BY <1>1, <3>2
      <4>2. e.wq[i] + Len(e.wq) = e.nsent + i /\ q[i] = e.wq[i] /\ e.wq[i] \in Nat
        BY <1>0, <1>1, <4>1 DEF OwnOrder, QueueOrder, Msg
      <4> QED
        BY <1>0, <1>1, <1>m, <4>1, <4>2
    <3> QED
      BY <3>1, <3>2
  <2>3. e.wop.st # "idle" => e.wop.buf = q[1]
    <3>1. e.wop.st # "idle" => e.wq # <<>> /\ e.wop.buf = e.wq[1]
      BY DEF OwnOrder, QueueOrder
    <3>2. e.wq # <<>> => 1 \in 1..Len(e.wq)
      BY <1>0
    <3> QED
      BY <1>1, <3>1, <3>2
  <2> QED
    BY <1>1, <1>3, <2>1, <2>2, <2>3 DEF QueueOrder
<1>6. OwnOrder(s, y)
  BY <1>4, <1>5 DEF OwnOrder
<1>7. CASE Len(q) = 1
  <2>1. e.wq = <<>>
    <3>1. \A n \in Nat : n + 1 = 1 => n = 0
      OBVIOUS
    <3>2. Len(e.wq) = 0
      BY <1>1, <1>7, <3>1
    <3> QED
      BY <1>0, <3>2
  <2>2. None(e.ready, WriteDone) /\ e.wop.st = "idle"
    BY <2>1 DEF Core, WriteInv, Has
  <2>3. x = write_some(y, m, 0, k) /\ q[1] = m
    BY <1>1, <1>2, <1>3, <1>7
  <2>4. Started(m, 0) /\ Upto(m, 0) = e.nsent /\ m # Heartbeat
    BY <1>0, <1>m DEF Started, Upto, Heartbeat
  <2>5. WritesOn(s, y, x, e.nsent)
    <3>1. WritesOn(s, y, write_some(y, m, 0, k), Upto(m, 0))
      BY <1>0, <1>1, <1>3, <1>6, <2>2, <2>3, <2>4, WriteOrder
    <3> QED
      BY <2>3, <2>4, <3>1
  <2>6. None(e.ready, Broken)
    BY <2>2, SubKinds
  <2>7. ASSUME NEW z \in Nat, Sends(e, z)
        PROVE  Sends(x, z)
    <3>1. Numbered(z, y.out) /\ (y.open => LastOf(z, y.out) = e.nsent)
      BY <1>3, <2>1, <2>2, <2>6, <2>7 DEF Sends, Writes
    <3> QED
      BY <2>5, <3>1 DEF WritesOn
  <2>8. x.wq = q
    <3>1. y \in Endpoint /\ None(y.ready, WriteDone)
      BY <1>3, <2>2
    <3>2. write_some(y, m, 0, k).wq = y.wq
      BY <1>0, <3>1, WriteQueue
    <3> QED
      BY <1>3, <2>3, <3>2
  <2> QED
    BY <1>1, <1>3, <2>5, <2>7, <2>8 DEF KeepsOrder, WritesOn, x
<1>8. CASE Len(q) # 1
  <2>1. x = y
    BY <1>2, <1>3, <1>8
  <2>2. e.wq # <<>> /\ q[1] = e.wq[1]
    <3>1. Len(e.wq) # 0
      BY <1>1, <1>8
    <3>2. 1 \in 1..Len(e.wq)
      BY <1>1, <3>1
    <3> QED
      BY <1>1, <3>1, <3>2
  <2>3. ASSUME NEW z \in Nat, Sends(e, z)
        PROVE  Sends(x, z)
    BY <1>1, <1>3, <2>1, <2>2, <2>3 DEF Sends, Writes
  <2> QED
    BY <1>1, <1>3, <1>6, <2>1, <2>3 DEF KeepsOrder, x
<1> QED
  BY <1>7, <1>8

LEMMA TimerOrder ==
    ASSUME NEW s \in Side, NEW e, Core(s, e), OwnOrder(s, e)
    PROVE  /\ SameOrder(s, e, timer_cancel(e))
           /\ s = "server" => SameOrder(s, e, timer_restart(e))
<1> DEFINE x == timer_cancel(e)
           y == timer_restart(e)
<1>1. /\ ~x.timer /\ SameUpper(e, x) /\ x.wq = e.wq
      /\ None(x.ready, Expired) <=> None(e.ready, Expired)
  BY TimerCancel
<1>2. SameFrame(e, x) /\ SameFrame(e, y) /\ x \in Endpoint
  BY TimerFrame
<1>3. y = [x EXCEPT !.timer = TRUE]
  BY DEF timer_restart
<1> HIDE DEF x, y
<1>4. SameUpper(x, y) /\ y.wq = x.wq
  BY <1>2, <1>3 DEF Endpoint, SameUpper
<1>5. Silent(s, x) /\ (s = "server" => Silent(s, y))
  BY <1>1 DEF Silent, OwnOrder
<1> QED
  BY <1>1, <1>2, <1>4, <1>5 DEF SameOrder, SameUpper, SameFrame, x, y

LEMMA CloseTimer ==
    ASSUME NEW s \in Side, NEW e, Core(s, e)
    PROVE  ~connection_close(e).timer
<1> DEFINE t == timer_cancel(e)
           r == abort_read(t)
           w == abort_write(r)
           x == connection_close(e)
<1>1. Core(s, t) /\ t \in Endpoint /\ ~t.timer
  BY TimerCancel, TimerFrame
<1>2. x = IF t.open THEN [w EXCEPT !.open = FALSE] ELSE t
  BY DEF connection_close, close_if_open, socket_close
<1> HIDE DEF t, x
<1>3. CASE t.open
  <2>1. r \in Endpoint /\ Core(s, r) /\ r.timer = t.timer
    <3>1. r \in Endpoint /\ Core(s, r)
      BY <1>1, <1>3, AbortRead DEF Core
    <3>2. r.timer = t.timer
      BY <1>1 DEF abort_read, Post, Endpoint
    <3> QED
      BY <3>1, <3>2
  <2> HIDE DEF r
  <2>2. w \in Endpoint /\ w.timer = r.timer
    <3>1. w \in Endpoint
      BY <2>1, AbortWrite DEF Core
    <3>2. w.timer = r.timer
      BY <2>1 DEF abort_write, Post, Endpoint
    <3> QED
      BY <3>1, <3>2
  <2> HIDE DEF w
  <2>3. x.timer = w.timer
    BY <1>2, <1>3, <2>2 DEF Endpoint
  <2> QED
    BY <1>1, <2>1, <2>2, <2>3 DEF x
<1> QED
  BY <1>1, <1>2, <1>3 DEF x

\* connection_close, and the event that is reported next, after the completion
\* that took f to e.
LEMMA CloseOrder ==
    ASSUME NEW s \in Side, NEW e, Core(s, e), OwnOrder(s, e),
           NEW f, e.out = f.out, e.hdr = f.hdr
    PROVE  /\ KeepsOrder(s, f, connection_close(e))
           /\ \A ev \in Event :
                 KeepsOrder(s, f, upper_layer_event_callback(connection_close(e), ev))
<1> DEFINE x == connection_close(e)
<1>1. /\ x \in Endpoint /\ SameUpper(e, x) /\ x.wq = e.wq /\ ~x.open
      /\ None(x.ready, Expired) <=> None(e.ready, Expired)
  BY ConnectionClose DEF Core
<1>2. x.out = e.out /\ (x.wop = e.wop \/ x.wop = NoWrite)
  BY CloseParts
<1>3. ~x.timer
  BY CloseTimer
<1> HIDE DEF x
<1>4. Silent(s, x)
  BY <1>1, <1>3 DEF OwnOrder, Silent
<1>5. KeepsOrder(s, e, x)
  BY <1>1, <1>2, <1>4, ClosedOrder DEF SameUpper
<1>6. KeepsOrder(s, f, x)
  BY <1>1, <1>2, <1>5 DEF KeepsOrder, Sends, Writes
<1>7. ASSUME NEW ev \in Event
      PROVE  KeepsOrder(s, f, upper_layer_event_callback(x, ev))
  <2> DEFINE y == upper_layer_event_callback(x, ev)
  <2>1. y = [x EXCEPT !.events = Append(x.events, ev)]
    BY DEF upper_layer_event_callback
  <2> HIDE DEF y
  <2>2. /\ y.open = x.open /\ y.out = x.out /\ y.hdr = x.hdr /\ y.wq = x.wq
        /\ y.nsent = x.nsent /\ y.got = x.got /\ y.wop = x.wop
        /\ y.timer = x.timer /\ y.ready = x.ready
    BY <1>1, <2>1 DEF Endpoint
  <2>3. Silent(s, y)
    BY <1>4, <2>2 DEF Silent
  <2>4. KeepsOrder(s, e, y)
    BY <1>1, <1>2, <2>2, <2>3, ClosedOrder DEF SameUpper
  <2>5. KeepsOrder(s, f, y)
    BY <1>1, <1>2, <2>2, <2>4 DEF KeepsOrder, Sends, Writes
  <2> QED
    BY <2>5 DEF y
<1> QED
  BY <1>6, <1>7 DEF x

\* The oldest completion is taken; only one of a write says something of the order.
LEMMA PopOrder ==
    ASSUME NEW s \in Side, NEW e, Core(s, e), OwnOrder(s, e), e.batch > 0
    PROVE  LET p == Pop(e)  c == Head(e.ready) IN
           /\ SameUpper(e, p) /\ p.wq = e.wq
           /\ OwnOrder(s, p)
           /\ c \notin Broken => KeepsOrder(s, e, p)
<1> DEFINE p == Pop(e)
           c == Head(e.ready)
<1>1. /\ p.open = e.open /\ p.rop = e.rop /\ p.wop = e.wop /\ p.wq = e.wq
      /\ p.out = e.out
      /\ \A C : c \in C => ~None(e.ready, C)
      /\ \A C \in {HeaderOk, PayloadOk, Broken, Stray} :
            c \notin C => (None(p.ready, C) <=> None(e.ready, C))
  BY PopFrame
<1>2. /\ SameUpper(e, p) /\ p.timer = e.timer
      /\ c \in Expired => None(p.ready, Expired)
      /\ c \notin Expired => (None(p.ready, Expired) <=> None(e.ready, Expired))
  BY PopInv
<1> HIDE DEF p, c
<1>3. QueueOrder(p) /\ GotOrder(p) /\ Silent(s, p)
  BY <1>1, <1>2 DEF OwnOrder, QueueOrder, GotOrder, Silent, SameUpper
<1>4. \A C \in {HeaderOk, PayloadOk} : None(e.ready, C) => None(p.ready, C)
  BY <1>1
<1>5. OwnOrder(s, p)
  BY <1>1, <1>2, <1>3, <1>4 DEF OwnOrder, ReadOrder, SameUpper
<1>6. ASSUME c \notin Broken
      PROVE  KeepsOrder(s, e, p)
  BY <1>1, <1>2, <1>5, <1>6 DEF KeepsOrder, Sends, Writes, SameUpper
<1> QED
  BY <1>1, <1>2, <1>5, <1>6 DEF p, c

LEMMA StartOrder ==
    ASSUME NEW s \in Side, NEW e \in Endpoint, OwnOrder(s, e), None(e.ready, ReadDone),
           NEW op \in {"header", "payload"},
           e.hdr.msg = IF op = "header" THEN Len(e.got) ELSE Len(e.got) + 1
    PROVE  KeepsOrder(s, e, [e EXCEPT !.rop = op])
<1> DEFINE h == [e EXCEPT !.rop = op]
<1>1. /\ h.rop = op /\ h.open = e.open /\ h.wop = e.wop /\ h.out = e.out
      /\ h.hdr = e.hdr /\ h.ready = e.ready /\ h.wq = e.wq /\ h.nsent = e.nsent
      /\ h.got = e.got /\ h.rbuf = e.rbuf /\ h.timer = e.timer
  BY DEF Endpoint
<1> HIDE DEF h
<1>2. None(h.ready, HeaderOk) /\ None(h.ready, PayloadOk)
  BY <1>1, SubKinds
<1>3. ReadOrder(h)
  BY <1>1, <1>2 DEF ReadOrder
<1>4. OwnOrder(s, h)
  BY <1>1, <1>3 DEF OwnOrder, QueueOrder, GotOrder, Silent
<1>5. KeepsOrder(s, e, h)
  BY <1>1, <1>4 DEF KeepsOrder, Sends, Writes
<1> QED
  BY <1>5 DEF h

\* when_header_received: the header is that of the next message, never a heartbeat.
LEMMA HeaderOrder ==
    ASSUME NEW s \in Side, NEW e, EpInv(s, e), OwnOrder(s, e), e.batch > 0,
           Head(e.ready).op = "header"
    PROVE  KeepsOrder(s, e, when_header_received(s, Pop(e), Head(e.ready)))
<1> DEFINE p == Pop(e)
           c == Head(e.ready)
           x == when_header_received(s, p, c)
<1>1. /\ Core(s, p) /\ None(p.ready, ReadDone) /\ SameUpper(e, p) /\ p.open = e.open
      /\ Core(s, e)
  BY PopRead DEF EpInv
<1>2. c \in Completion /\ p.out = e.out /\ \A C : c \in C => ~None(e.ready, C)
  BY <1>1, PopFrame
<1> HIDE DEF x
<1>3. c.op = "header" /\ c.ec \in Ec /\ c \notin Broken
  BY <1>2 DEF Completion, Broken
<1>4. OwnOrder(s, p) /\ KeepsOrder(s, e, p)
  BY <1>1, <1>3, PopOrder
<1> HIDE DEF p, c
<1>5. CASE c.ec = "aborted" \/ (c.ec = "ok" /\ ~p.open)
  <2>1. x = p
    BY <1>5 DEF when_header_received, x
  <2> QED
    BY <1>4, <2>1 DEF x, p, c
<1>6. CASE c.ec = "eof"
  <2>1. x = upper_layer_event_callback(connection_close(p), "close")
    BY <1>6 DEF when_header_received, handle_eof, x
  <2>2. KeepsOrder(s, e, x)
    BY <1>1, <1>2, <1>4, <2>1, CloseOrder DEF SameUpper, Event
  <2> QED
    BY <2>2 DEF x, p, c
<1>7. CASE c.ec = "error"
  <2>1. x = connection_close(p)
    BY <1>7 DEF when_header_received, x
  <2>2. KeepsOrder(s, e, x)
    BY <1>1, <1>2, <1>4, <2>1, CloseOrder DEF SameUpper
  <2> QED
    BY <2>2 DEF x, p, c
<1>8. CASE c.ec = "ok" /\ p.open
  <2> DEFINE y == [p EXCEPT !.rop = "payload"]
  <2>1. c \in HeaderOk
    BY <1>2, <1>3, <1>8 DEF HeaderOk, Completion
  <2>2. p.hdr.msg = Len(p.got) + 1
    BY <1>1, <1>2, <1>8, <2>1 DEF OwnOrder, ReadOrder, SameUpper
  <2>3. p \in Endpoint
    BY <1>1 DEF Core
  <2>4. p.hdr.msg # Heartbeat
    <3>1. Len(p.got) \in Nat
      BY <2>3 DEF Endpoint
    <3> QED
      BY <2>2, <3>1 DEF Heartbeat
  <2>5. x = y
    BY <1>8, <2>4
    DEF when_header_received, header_parser, client_header_parser, server_header_parser,
        server_heartbeat_header_parser, do_receive_payload, x
  <2>6. KeepsOrder(s, p, y)
    BY <1>1, <1>4, <2>2, <2>3, StartOrder
  <2> HIDE DEF y
  <2>7. KeepsOrder(s, e, y)
    BY <1>4, <2>6, OrderTwice
  <2> QED
    BY <2>5, <2>7 DEF x, p, c
<1> QED
  BY <1>3, <1>5, <1>6, <1>7, <1>8 DEF Ec

\* The bounds of the queue let the upper layer answer with r.
Room(e, r) ==
    /\ r \in {"send", "send_close"} => Len(e.wq) < 2
    /\ r = "send_twice" => Len(e.wq) = 0

\* The message is the next one, and what the upper layer sends is queued behind.
LEMMA CallbackOrder ==
    ASSUME NEW s \in Side, NEW e, Core(s, e), Writing(e), OwnOrder(s, e),
           None(e.ready, ReadDone), e.rop = "none", e.rbuf.msg = Len(e.got) + 1,
           NEW r \in Reply, NEW k \in Outcome, Room(e, r)
    PROVE  LET x == upper_layer_callback(e, r, k) IN
           KeepsOrder(s, e, x) /\ Len(x.got) = Len(e.got) + 1
<1> DEFINE g == Append(e.got, e.rbuf.msg)
           d == [e EXCEPT !.got = g]
           d1 == do_send_message(d, k)
           d2 == do_send_message(d1, k)
           c0 == connection_close(d)
           c1 == connection_close(d1)
           x == upper_layer_callback(e, r, k)
<1>0. e \in Endpoint /\ e.got \in Seq(Msg) /\ e.rbuf.msg \in Msg /\ Len(e.wq) \in Nat
  BY DEF Core, Endpoint, Segment
<1>1. /\ g \in Seq(Msg) /\ Len(g) = Len(e.got) + 1
      /\ \A i \in 1..Len(g) : g[i] = IF i = Len(g) THEN e.rbuf.msg ELSE e.got[i]
  BY <1>0
<1>2. \A i \in 1..Len(g) : g[i] = i
  <2> HIDE DEF g
  <2>1. Len(e.got) \in Nat
    BY <1>0
  <2>2. ASSUME NEW i \in 1..Len(g), i # Len(g)  PROVE i \in 1..Len(e.got)
    BY <1>1, <2>1, <2>2
  <2> QED
    BY <1>1, <2>2 DEF OwnOrder, GotOrder
<1>3. /\ r = "none" => x = d
      /\ r = "send" => x = d1
      /\ r = "send_twice" => x = d2
      /\ r = "close" => x = c0
      /\ r = "send_close" => x = c1
  BY DEF upper_layer_callback, disconnect
<1> HIDE DEF g, x
<1>4. /\ d \in Endpoint
      /\ d.open = e.open /\ d.rop = e.rop /\ d.wop = e.wop /\ d.wq = e.wq
      /\ d.timer = e.timer /\ d.batch = e.batch /\ d.ready = e.ready
      /\ d.out = e.out /\ d.events = e.events /\ d.hdr = e.hdr /\ d.rbuf = e.rbuf
      /\ d.nsent = e.nsent /\ d.got = g
  BY <1>0, <1>1 DEF Endpoint
<1> HIDE DEF d
<1>5. Core(s, d) /\ Writing(d)
  BY <1>4
  DEF Core, ReadInv, WriteInv, TimerInv, EventInv, BeatInv, Writing, Outstanding
<1>6. GotOrder(d)
  BY <1>2, <1>4 DEF GotOrder
<1>7. ReadOrder(d)
  <2>1. None(d.ready, HeaderOk) /\ None(d.ready, PayloadOk)
    BY <1>4, SubKinds
  <2> QED
    BY <1>4, <2>1 DEF ReadOrder
<1>8. OwnOrder(s, d)
  BY <1>4, <1>6, <1>7 DEF OwnOrder, QueueOrder, Silent
<1>9. KeepsOrder(s, e, d) /\ Len(d.got) = Len(e.got) + 1
  BY <1>1, <1>4, <1>8 DEF KeepsOrder, Sends, Writes
<1>10. KeepsOrder(s, e, c0) /\ c0.got = d.got
  <2>1. c0.got = d.got
    BY <1>5, ConnectionClose DEF SameUpper
  <2>2. KeepsOrder(s, e, c0)
    BY <1>4, <1>5, <1>8, CloseOrder
  <2> QED
    BY <2>1, <2>2
<1>11. ASSUME Len(e.wq) < 2
       PROVE  /\ Core(s, d1) /\ Writing(d1) /\ KeepsOrder(s, e, d1) /\ OwnOrder(s, d1)
              /\ d1.got = d.got /\ Len(d1.wq) = Len(e.wq) + 1
  <2>1. Core(s, d1) /\ Writing(d1) /\ d1.got = d.got
    BY <1>5, SendMessage
  <2>2. KeepsOrder(s, d, d1) /\ Len(d1.wq) = Len(e.wq) + 1
    BY <1>4, <1>5, <1>8, <1>11, SendOrder
  <2> HIDE DEF d1
  <2>3. KeepsOrder(s, e, d1) /\ OwnOrder(s, d1)
    BY <1>9, <2>2, OrderTwice DEF KeepsOrder
  <2> QED
    BY <2>1, <2>2, <2>3
<1> HIDE DEF d1, c0
<1>12. ASSUME Len(e.wq) < 2
       PROVE  KeepsOrder(s, e, c1) /\ c1.got = d.got
  <2>1. c1.got = d.got
    BY <1>11, <1>12, ConnectionClose DEF SameUpper
  <2>2. KeepsOrder(s, d1, c1)
    BY <1>11, <1>12, CloseOrder
  <2> HIDE DEF c1
  <2>3. KeepsOrder(s, e, c1)
    BY <1>11, <1>12, <2>2, OrderTwice
  <2> QED
    BY <2>1, <2>3
<1>13. ASSUME Len(e.wq) = 0
       PROVE  KeepsOrder(s, e, d2) /\ d2.got = d.got
  <2>a. Len(e.wq) < 2
    BY <1>13
  <2>b. Len(d1.wq) = Len(e.wq) + 1
    BY <1>11, <2>a
  <2>0. Len(e.wq) < 2 /\ Len(d1.wq) < 2
    BY <1>13, <2>a, <2>b
  <2>1. d2.got = d.got
    BY <1>11, <2>0, SendMessage
  <2>2. KeepsOrder(s, d1, d2)
    BY <1>11, <2>0, SendOrder
  <2> HIDE DEF d2
  <2>3. KeepsOrder(s, e, d2)
    BY <1>11, <2>0, <2>2, OrderTwice
  <2> QED
    BY <2>1, <2>3
<1> HIDE DEF d2, c1
<1> QED
  BY <1>3, <1>9, <1>10, <1>11, <1>12, <1>13 DEF Reply, Room, x

\* when_payload_received: the message is delivered, and the next one awaited.
LEMMA PayloadOrder ==
    ASSUME NEW s \in Side, NEW e, EpInv(s, e), FrameInv(e), OwnOrder(s, e), e.batch > 0,
           Head(e.ready).op = "payload", NEW r \in Reply, NEW k \in Outcome, Room(e, r)
    PROVE  KeepsOrder(s, e, when_payload_received(Pop(e), Head(e.ready), r, k))
<1> DEFINE p == Pop(e)
           c == Head(e.ready)
           x == when_payload_received(p, c, r, k)
<1>1. /\ Core(s, p) /\ Writing(p) /\ p.rop = "none" /\ None(p.ready, ReadDone)
      /\ SameUpper(e, p) /\ p.open = e.open /\ Core(s, e)
  BY PopRead DEF EpInv
<1>2. /\ c \in Completion /\ p.out = e.out /\ p.wq = e.wq
      /\ \A C : c \in C => ~None(e.ready, C)
  BY <1>1, PopFrame
<1> HIDE DEF x
<1>3. c.op = "payload" /\ c.ec \in Ec /\ c \notin Broken
  BY <1>2 DEF Completion, Broken
<1>4. OwnOrder(s, p) /\ KeepsOrder(s, e, p)
  BY <1>1, <1>3, PopOrder
<1> HIDE DEF p, c
<1>5. CASE c.ec \in {"eof", "error"} \/ c.n = 0
  <2>1. x = connection_close(p)
    BY <1>5 DEF when_payload_received, x
  <2>2. KeepsOrder(s, e, x)
    BY <1>1, <1>2, <1>4, <2>1, CloseOrder DEF SameUpper
  <2> QED
    BY <2>2 DEF x, p, c
<1>6. CASE ~(c.ec \in {"eof", "error"} \/ c.n = 0) /\ ~p.open
  <2>1. x = p
    BY <1>6 DEF when_payload_received, do_receive_message, x
  <2> QED
    BY <1>4, <2>1 DEF x, p, c
<1>7. CASE ~(c.ec \in {"eof", "error"} \/ c.n = 0) /\ p.open
  <2> DEFINE u == upper_layer_callback(p, r, k)
             y == do_receive_message(u)
  <2>1. x = y
    BY <1>7 DEF when_payload_received, x
  <2>2. c \notin Stray
    BY <1>1, <1>2, <1>7 DEF FrameInv
  <2>3. c.ec = "ok"
    BY <1>2, <1>3, <1>7, <2>2 DEF Stray, Ec, Completion
  <2>4. c \in PayloadOk
    BY <1>2, <1>3, <2>3 DEF PayloadOk, Completion
  <2>5. p.hdr.msg = Len(p.got) + 1 /\ p.rbuf.msg = Len(p.got) + 1
    BY <1>1, <1>2, <1>7, <2>4 DEF OwnOrder, ReadOrder, SameUpper
  <2>6. Room(p, r)
    BY <1>2 DEF Room
  <2>7. KeepsOrder(s, p, u) /\ Len(u.got) = Len(p.got) + 1
    BY <1>1, <1>4, <2>5, <2>6, CallbackOrder
  <2>8. Core(s, u) /\ (u.open => None(u.ready, ReadDone))
    BY <1>1, <1>7, UpperCallback
  <2> HIDE DEF u
  <2>9. KeepsOrder(s, e, u) /\ OwnOrder(s, u) /\ u \in Endpoint
    BY <1>4, <2>7, <2>8, OrderTwice DEF KeepsOrder, Core
  <2>10. u.hdr.msg = Len(u.got)
    BY <2>5, <2>7 DEF KeepsOrder
  <2>11. KeepsOrder(s, e, y)
    <3>1. CASE u.open
      <4> DEFINE z == [u EXCEPT !.rop = "header"]
      <4>1. y = z
        BY <3>1 DEF do_receive_message
      <4>2. KeepsOrder(s, u, z)
        BY <2>8, <2>9, <2>10, <3>1, StartOrder
      <4> HIDE DEF z, y
      <4>3. KeepsOrder(s, e, z)
        BY <2>9, <4>2, OrderTwice
      <4> QED
        BY <4>1, <4>3
    <3>2. CASE ~u.open
      BY <2>9, <3>2 DEF do_receive_message
    <3> QED
      BY <3>1, <3>2
  <2> QED
    BY <2>1, <2>11 DEF x, p, c
<1> QED
  BY <1>5, <1>6, <1>7

\* The rest of the first message of the queue, which was partly written.
LEMMA RestOrder ==
    ASSUME NEW s \in Side, NEW e \in Endpoint, FrameInv(e), OwnOrder(s, e),
           e.wop.st # "idle",
           NEW p \in Endpoint, OwnOrder(s, p), p.open = e.open, p.wop = e.wop,
           p.out = e.out, p.hdr = e.hdr, p.wq = e.wq, p.nsent = e.nsent,
           None(p.ready, WriteDone), NEW k \in Outcome
    PROVE  KeepsOrder(s, e, write_some(p, e.wop.buf, e.wop.n, k))
<1> DEFINE m == e.wop.buf
           n == e.wop.n
           x == write_some(p, m, n, k)
<1>0. e.wop \in WriteOp /\ e.wq \in Seq(Msg) /\ e.nsent \in Nat
  BY DEF Endpoint
<1>1. m \in Msg /\ n \in 0..2 /\ Started(m, n)
  BY <1>0 DEF WriteOp, FrameInv
<1>2. p.wq # <<>> /\ m = p.wq[1]
  BY DEF OwnOrder, QueueOrder
<1>3. m # Heartbeat
  <2>1. Len(e.wq) \in Nat \ {0} /\ Len(e.wq) <= e.nsent
    BY <1>0, <1>2 DEF OwnOrder, QueueOrder
  <2>2. 1 \in 1..Len(e.wq)
    BY <2>1
  <2>3. m + Len(e.wq) = e.nsent + 1
    BY <1>2, <2>2 DEF OwnOrder, QueueOrder
  <2> HIDE DEF m
  <2> QED
    BY <1>0, <2>1, <2>3 DEF Heartbeat
<1> HIDE DEF m, n, x
<1>4. WritesOn(s, p, x, Upto(m, n))
  BY <1>1, <1>2, <1>3, WriteOrder DEF x
<1>5. ASSUME NEW z \in Nat, Sends(e, z)
      PROVE  Sends(x, z)
  <2>1. Numbered(z, p.out) /\ (p.open => LastOf(z, p.out) = Upto(m, n))
    BY <1>5 DEF Sends, Writes, m, n
  <2> QED
    BY <1>4, <2>1 DEF WritesOn
<1>6. KeepsOrder(s, e, x)
  BY <1>4, <1>5 DEF KeepsOrder, WritesOn
<1> QED
  BY <1>6 DEF x, m, n

LEMMA ContinueOrder ==
    ASSUME NEW s \in Side, NEW e, EpInv(s, e), FrameInv(e), OwnOrder(s, e), e.batch > 0,
           Head(e.ready).op = "write_some", NEW k \in Outcome
    PROVE  KeepsOrder(s, e, write_some(Pop(e), e.wop.buf, e.wop.n, k))
<1> DEFINE p == Pop(e)
           c == Head(e.ready)
<1>1. Core(s, e) /\ e \in Endpoint
  BY DEF EpInv, Core
<1>2. /\ p \in Endpoint /\ c \in Completion
      /\ p.open = e.open /\ p.wop = e.wop /\ p.out = e.out
  BY <1>1, PopFrame
<1>3. /\ c \in WriteDone => None(p.ready, WriteDone)
      /\ c \in Continuation => ~None(e.ready, Continuation)
  BY <1>1, PopInv
<1>4. SameUpper(e, p) /\ p.wq = e.wq /\ OwnOrder(s, p)
  BY <1>1, PopOrder
<1> HIDE DEF p, c
<1>5. c \in WriteDone /\ c \in Continuation
  <2>1. c \in Completion /\ c.op = "write_some"
    BY <1>2 DEF c
  <2> QED
    BY <2>1 DEF Completion, WriteDone, Continuation
<1>6. e.wop.st = "queued"
  BY <1>1, <1>3, <1>5 DEF Core, WriteInv
<1>7. KeepsOrder(s, e, write_some(p, e.wop.buf, e.wop.n, k))
  BY <1>1, <1>2, <1>3, <1>4, <1>5, <1>6, RestOrder DEF SameUpper
<1> QED
  BY <1>7 DEF p

LEMMA ResumeOrder ==
    ASSUME NEW s \in Side, NEW e, EpInv(s, e), FrameInv(e), OwnOrder(s, e),
           e.wop.st = "pending", NEW k \in Outcome
    PROVE  KeepsOrder(s, e, write_some(e, e.wop.buf, e.wop.n, k))
<1>1. e \in Endpoint /\ None(e.ready, WriteDone)
  BY DEF EpInv, Core, Endpoint, WriteInv
<1> QED
  BY <1>1, RestOrder

\* when_message_sent: of two messages, the second is written when the first is out.
LEMMA SentOrder ==
    ASSUME NEW s \in Side, NEW e, EpInv(s, e), FrameInv(e), OwnOrder(s, e), e.batch > 0,
           Head(e.ready).op = "write", NEW k \in Outcome
    PROVE  KeepsOrder(s, e, when_message_sent(Pop(e), Head(e.ready), k))
<1> DEFINE p == Pop(e)
           c == Head(e.ready)
           y == connection_close(p)
           x == when_message_sent(p, c, k)
<1>1. /\ Core(s, p) /\ p \in Endpoint /\ Core(s, e)
      /\ p.wop.st = "idle" /\ None(p.ready, WriteDone)
      /\ p.wq # <<>> /\ p.wq \in Seq(Msg) /\ p.nsent \in Nat
  BY PopWrite DEF EpInv, Core, Endpoint
<1>2. /\ c \in Completion /\ p.open = e.open /\ p.out = e.out /\ p.wop = e.wop
      /\ \A C : c \in C => ~None(e.ready, C)
      /\ c \notin Broken => (None(p.ready, Broken) <=> None(e.ready, Broken))
  BY <1>1, PopFrame
<1>3. c.op = "write" /\ c.ec \in Ec
  BY <1>2 DEF Completion
<1>4. OwnOrder(s, p) /\ SameUpper(e, p) /\ p.wq = e.wq
  BY <1>1, PopOrder
<1> HIDE DEF p, c, x
<1>5. CASE c.ec = "error"
  <2>1. x = upper_layer_event_callback(y, "pipe")
    BY <1>5 DEF when_message_sent, x
  <2>2. KeepsOrder(s, e, x)
    BY <1>1, <1>2, <1>4, <2>1, CloseOrder DEF SameUpper, Event
  <2> QED
    BY <2>2 DEF x, p, c
<1>6. CASE c.ec # "error" /\ c.n = 0
  <2>1. x = y
    BY <1>6 DEF when_message_sent, x
  <2>2. KeepsOrder(s, e, x)
    BY <1>1, <1>2, <1>4, <2>1, CloseOrder DEF SameUpper
  <2> QED
    BY <2>2 DEF x, p, c
<1>7. CASE c.ec # "error" /\ c.n # 0
  <2> DEFINE wq == Tail(p.wq)
             q == [p EXCEPT !.wq = wq]
             m == wq[Len(wq)]
  <2>1. /\ wq \in Seq(Msg) /\ Len(wq) \in Nat /\ Len(wq) + 1 = Len(p.wq)
        /\ \A i \in 1..Len(wq) : wq[i] = p.wq[i + 1]
    BY <1>1
  <2>2. x = IF Len(wq) > 0 THEN write_some(q, m, 0, k) ELSE q
    <3>1. x = IF Len(q.wq) > 0 THEN do_write(q, k) ELSE q
      BY <1>7 DEF when_message_sent, x
    <3>2. q.wq = wq
      BY <1>1 DEF Endpoint
    <3> QED
      BY <3>1, <3>2 DEF do_write
  <2>3. /\ Len(p.wq) <= 2 /\ Len(p.wq) <= p.nsent
        /\ \A i \in 1..Len(p.wq) : p.wq[i] + Len(p.wq) = p.nsent + i
        /\ \A i \in 1..Len(p.wq) : p.wq[i] \in Nat
    BY <1>1, <1>4 DEF OwnOrder, QueueOrder, Msg
  <2> HIDE DEF wq
  <2>4. /\ q \in Endpoint
        /\ q.open = p.open /\ q.rop = p.rop /\ q.wop = p.wop /\ q.ready = p.ready
        /\ q.out = p.out /\ q.hdr = p.hdr /\ q.nsent = p.nsent /\ q.got = p.got
        /\ q.rbuf = p.rbuf /\ q.timer = p.timer /\ q.wq = wq
    BY <1>1, <2>1 DEF Endpoint
  <2> HIDE DEF q
  <2>5. ASSUME NEW i \in 1..Len(wq)
        PROVE  wq[i] + Len(wq) = p.nsent + i
    <3>1. i + 1 \in 1..Len(p.wq) /\ i \in Nat
      BY <2>1
    <3>2. p.wq[i + 1] + Len(p.wq) = p.nsent + (i + 1) /\ p.wq[i + 1] \in Nat
      BY <2>3, <3>1
    <3>3. wq[i] + (Len(wq) + 1) = p.nsent + (i + 1) /\ wq[i] \in Nat
      BY <2>1, <3>2
    <3>4. \A a, b, n, j \in Nat : a + (b + 1) = n + (j + 1) => a + b = n + j
      OBVIOUS
    <3>5. i \in Nat /\ Len(wq) \in Nat /\ p.nsent \in Nat
      BY <1>1, <2>1
    <3> QED
      BY <3>3, <3>4, <3>5
  <2>6. QueueOrder(q)
    <3>1. Len(wq) <= 2 /\ Len(wq) <= p.nsent
      BY <1>1, <2>1, <2>3
    <3> QED
      BY <1>1, <2>4, <2>5, <3>1 DEF QueueOrder
  <2>7. OwnOrder(s, q)
    BY <1>4, <2>4, <2>6 DEF OwnOrder, GotOrder, ReadOrder, Silent
  <2>8. e.open => c \notin Broken
    <3> SUFFICES ASSUME e.open  PROVE c \notin Broken
      OBVIOUS
    <3>1. c \notin Stray
      BY <1>2 DEF FrameInv
    <3>2. c.ec = "ok"
      BY <1>2, <1>3, <1>7, <3>1 DEF Stray, Ec, Completion
    <3> QED
      BY <3>2 DEF Broken
  <2>9. None(p.ready, Broken)
    BY <1>1, SubKinds
  <2>10. ASSUME NEW z \in Nat, Sends(e, z)
         PROVE  Numbered(z, q.out) /\ (q.open => LastOf(z, q.out) = p.wq[1])
    <3>1. Numbered(z, q.out)
      BY <1>2, <2>4, <2>10 DEF Sends
    <3>2. ASSUME q.open
          PROVE  LastOf(z, q.out) = p.wq[1]
      <4>1. e.open /\ e.wop.st = "idle" /\ e.wq # <<>>
        BY <1>1, <1>2, <1>4, <2>4, <3>2
      <4>2. None(e.ready, Broken)
        BY <1>2, <2>8, <2>9, <4>1
      <4> QED
        BY <1>2, <1>4, <2>4, <2>10, <4>1, <4>2 DEF Sends, Writes
    <3> QED
      BY <3>1, <3>2
  <2>11. CASE Len(wq) > 0
    <3>1. Len(wq) = 1 /\ Len(p.wq) = 2
      <4>1. \A n \in Nat : n > 0 /\ n + 1 <= 2 => n = 1
        OBVIOUS
      <4>2. Len(wq) \in Nat /\ Len(wq) + 1 <= 2 /\ Len(wq) + 1 = Len(p.wq)
        BY <2>1, <2>3
      <4>3. Len(wq) = 1
        BY <2>11, <4>1, <4>2
      <4> QED
        BY <4>2, <4>3
    <3>2. m = wq[1] /\ 1 \in 1..Len(p.wq) /\ 1 \in 1..Len(wq)
      BY <3>1
    <3>3. m \in Msg /\ m \in Nat
      BY <2>1, <3>2 DEF Msg
    <3>4. m = p.wq[1] + 1 /\ p.wq[1] \in Nat
      <4>1. m + 1 = p.nsent + 1
        BY <2>5, <3>1, <3>2
      <4>2. p.wq[1] + 2 = p.nsent + 1 /\ p.wq[1] \in Nat
        BY <2>3, <3>1, <3>2
      <4> HIDE DEF m
      <4> QED
        BY <1>1, <3>3, <4>1, <4>2
    <3>5. x = write_some(q, m, 0, k)
      BY <2>2, <2>11
    <3>6. wq # <<>>
      BY <2>11
    <3> HIDE DEF m
    <3>7. m # Heartbeat /\ Started(m, 0) /\ Upto(m, 0) = p.wq[1]
      BY <3>4 DEF Heartbeat, Started, Upto
    <3>8. WritesOn(s, q, x, p.wq[1])
      <4>1. m = q.wq[1] /\ q.wq # <<>> /\ None(q.ready, WriteDone)
        BY <1>1, <2>4, <3>2, <3>6
      <4>2. WritesOn(s, q, write_some(q, m, 0, k), Upto(m, 0))
        BY <2>4, <2>7, <3>3, <3>7, <4>1, WriteOrder
      <4> QED
        BY <3>5, <3>7, <4>2
    <3>9. KeepsOrder(s, e, x)
      BY <1>4, <2>4, <2>10, <3>8 DEF KeepsOrder, WritesOn, SameUpper
    <3> QED
      BY <3>9 DEF x, p, c
  <2>12. CASE ~(Len(wq) > 0)
    <3>0. Len(wq) = 0
      BY <2>1, <2>12
    <3>1. x = q /\ wq = <<>>
      BY <2>1, <2>2, <2>12, <3>0, EmptySeq
    <3>2. Len(p.wq) = 1 /\ 1 \in 1..Len(p.wq)
      <4> DEFINE a == Len(wq)
                 b == Len(p.wq)
      <4>1. a + 1 = b /\ a = 0
        BY <2>1, <3>0
      <4> HIDE DEF a, b
      <4>2. b = 1 /\ 1 \in 1..b
        BY <4>1
      <4> QED
        BY <4>2 DEF b
    <3>3. p.wq[1] = p.nsent
      <4>1. p.wq[1] + 1 = p.nsent + 1 /\ p.wq[1] \in Nat
        BY <2>3, <3>2
      <4> QED
        BY <1>1, <4>1
    <3>4. ASSUME NEW z \in Nat, Sends(e, z)
          PROVE  Sends(q, z)
      BY <1>1, <2>4, <2>10, <3>1, <3>3, <3>4 DEF Sends, Writes
    <3>5. KeepsOrder(s, e, q)
      BY <1>4, <2>4, <2>7, <3>4 DEF KeepsOrder, SameUpper
    <3> QED
      BY <3>1, <3>5 DEF x, p, c
  <2> QED
    BY <2>11, <2>12
<1> QED
  BY <1>5, <1>6, <1>7

LEMMA PopTimerOrder ==
    ASSUME NEW s \in Side, NEW e, EpInv(s, e), OwnOrder(s, e), e.batch > 0,
           Head(e.ready).op = "timer"
    PROVE  LET p == Pop(e)  c == Head(e.ready) IN
           /\ Core(s, p) /\ OwnOrder(s, p) /\ KeepsOrder(s, e, p)
           /\ p.out = e.out /\ p.hdr = e.hdr
           /\ s = "client" => c.ec = "aborted"
<1> DEFINE p == Pop(e)
           c == Head(e.ready)
<1>1. Core(s, p) /\ Core(s, e) /\ (c.ec # "aborted" => ~None(e.ready, Expired))
  BY PopTimer DEF EpInv
<1>2. p.out = e.out /\ p.hdr = e.hdr
  BY <1>1, PopFrame
<1>3. c \notin Broken
  BY DEF Broken
<1>4. OwnOrder(s, p) /\ KeepsOrder(s, e, p)
  BY <1>1, <1>3, PopOrder
<1>5. s = "client" => c.ec = "aborted"
  BY <1>1 DEF OwnOrder, Silent
<1> QED
  BY <1>1, <1>2, <1>4, <1>5

LEMMA TimeoutOrder ==
    ASSUME NEW e, EpInv("server", e), OwnOrder("server", e), e.batch > 0,
           Head(e.ready).op = "timer"
    PROVE  KeepsOrder("server", e, when_timeout(Pop(e), Head(e.ready)))
<1> DEFINE p == Pop(e)
           c == Head(e.ready)
           y == upper_layer_event_callback(connection_close(p), "timeout")
           x == when_timeout(p, c)
<1>0. "server" \in Side /\ "timeout" \in Event
  BY DEF Side, Event
<1>1. /\ Core("server", p) /\ OwnOrder("server", p) /\ KeepsOrder("server", e, p)
      /\ p.out = e.out /\ p.hdr = e.hdr
  BY <1>0, PopTimerOrder
<1>2. x = IF c.ec = "aborted" THEN p ELSE y
  BY DEF when_timeout
<1> HIDE DEF p, c, x
<1>3. KeepsOrder("server", e, y)
  BY <1>0, <1>1, CloseOrder
<1> QED
  BY <1>1, <1>2, <1>3 DEF x, p, c

\* The client's timer only ever reports that connection_close stopped it.
LEMMA SenderOrder ==
    ASSUME NEW e, EpInv("client", e), OwnOrder("client", e), e.batch > 0,
           Head(e.ready).op = "timer", NEW k \in Outcome
    PROVE  KeepsOrder("client", e, send_and_reset(Pop(e), Head(e.ready), k))
<1> DEFINE p == Pop(e)
           c == Head(e.ready)
           x == send_and_reset(p, c, k)
<1>0. "client" \in Side
  BY DEF Side
<1>1. /\ Core("client", p) /\ OwnOrder("client", p)
      /\ p.out = e.out /\ p.hdr = e.hdr /\ c.ec = "aborted"
  BY <1>0, PopTimerOrder
<1>2. x = connection_close(p)
  BY <1>1 DEF send_and_reset, send_heartbeat
<1> HIDE DEF p, c, x
<1>3. KeepsOrder("client", e, connection_close(p))
  BY <1>0, <1>1, CloseOrder
<1> QED
  BY <1>2, <1>3 DEF x, p, c

\* A read that fails gives the reader nothing.
LEMMA FailOrder ==
    ASSUME NEW s \in Side, NEW e, EpInv(s, e), OwnOrder(s, e), e.rop # "none",
           NEW ec \in {"eof", "error"}
    PROVE  KeepsOrder(s, e, ReadEnds(e, e.hdr, e.rbuf, Done(e.rop, ec, 0)))
<1> DEFINE c == Done(e.rop, ec, 0)
           q == Append(e.ready, c)
           h == ReadEnds(e, e.hdr, e.rbuf, c)
<1>1. /\ e \in Endpoint /\ e.ready \in Seq(Completion)
      /\ e.rop \in {"header", "payload"} /\ None(e.ready, ReadDone)
  BY DEF EpInv, Core, ReadInv, Endpoint
<1>2. c \in Completion
  BY <1>1 DEF Done, Completion, Op, Ec
<1>3. \A C \in {HeaderOk, PayloadOk, Broken, Expired} : c \notin C
  <2>1. c \notin Expired
    BY <1>1 DEF Done, Expired
  <2> QED
    BY <1>1, <2>1, FrameKinds
<1> HIDE DEF c
<1>4. \A C \in {HeaderOk, PayloadOk, Broken, Expired} : None(q, C) <=> None(e.ready, C)
  BY <1>1, <1>2, <1>3, NoneAppend
<1>5. h = [e EXCEPT !.rop = "none", !.hdr = e.hdr, !.rbuf = e.rbuf, !.ready = q]
  BY DEF ReadEnds
<1> HIDE DEF q, h
<1>6. /\ h.rop = "none" /\ h.open = e.open /\ h.wop = e.wop /\ h.hdr = e.hdr
      /\ h.out = e.out /\ h.ready = q /\ h.wq = e.wq /\ h.nsent = e.nsent
      /\ h.got = e.got /\ h.rbuf = e.rbuf /\ h.timer = e.timer
  BY <1>1, <1>5 DEF Endpoint
<1>7. None(e.ready, HeaderOk) /\ None(e.ready, PayloadOk)
  BY <1>1, SubKinds
<1>8. ReadOrder(h)
  BY <1>4, <1>6, <1>7 DEF ReadOrder
<1>9. OwnOrder(s, h)
  BY <1>4, <1>6, <1>8 DEF OwnOrder, QueueOrder, GotOrder, Silent
<1>10. KeepsOrder(s, e, h)
  BY <1>4, <1>6, <1>9 DEF KeepsOrder, Sends, Writes
<1> QED
  BY <1>10 DEF h, c

LEMMA ReactorOrder ==
    ASSUME NEW s \in Side, NEW e, EpInv(s, e), OwnOrder(s, e), NEW x \in BOOLEAN,
           x => e.timer
    PROVE  LET q == IF x THEN Append(e.ready, Done("timer", "ok", 0)) ELSE e.ready
           IN  KeepsOrder(s, e, [e EXCEPT !.ready = q, !.batch = Len(q),
                                          !.timer = e.timer /\ ~x])
<1> DEFINE c == Done("timer", "ok", 0)
           q == IF x THEN Append(e.ready, c) ELSE e.ready
           b == Len(q)
           t == e.timer /\ ~x
           y == [e EXCEPT !.ready = q, !.batch = b, !.timer = t]
<1>1. e \in Endpoint /\ e.ready \in Seq(Completion)
  BY DEF EpInv, Core, Endpoint
<1>2. c \in Completion /\ \A C \in {HeaderOk, PayloadOk, Broken, Stray} : c \notin C
  BY CompletionKinds, FrameKinds DEF Ec
<1> HIDE DEF c
<1>3. \A C \in {HeaderOk, PayloadOk, Broken} : None(q, C) <=> None(e.ready, C)
  BY <1>1, <1>2, NoneAppend
<1>4. s = "client" => ~x /\ q = e.ready
  BY DEF OwnOrder, Silent
<1>t. s = "client" => ~t
  BY DEF OwnOrder, Silent
<1> HIDE DEF q, b, t
<1>5. /\ y.open = e.open /\ y.rop = e.rop /\ y.wop = e.wop /\ y.hdr = e.hdr
      /\ y.out = e.out /\ y.ready = q /\ y.wq = e.wq /\ y.nsent = e.nsent
      /\ y.got = e.got /\ y.rbuf = e.rbuf /\ y.timer = t
  BY <1>1 DEF Endpoint
<1> HIDE DEF y
<1>6. Silent(s, y)
  BY <1>4, <1>5, <1>t DEF OwnOrder, Silent
<1>7. SameOrder(s, e, y)
  BY <1>3, <1>5, <1>6 DEF SameOrder
<1>8. KeepsOrder(s, e, y)
  BY <1>7, SameOrderKeeps
<1> QED
  BY <1>8 DEF y, q, b, t, c

\* The reader is given the next segment of the stream.
LEMMA ArriveOrder ==
    ASSUME NEW s \in Side, NEW e, EpInv(s, e), OwnOrder(s, e), e.rop # "none",
           NEW seg \in Segment, seg.kind = e.rop, Follows(e.hdr.msg, seg), NEW n \in 0..2
    PROVE  LET h == IF e.rop = "header"
                    THEN ReadEnds(e, seg, e.rbuf, Done("header", "ok", 1))
                    ELSE ReadEnds(e, e.hdr, seg, Done("payload", "ok", n))
           IN  /\ OwnOrder(s, h)
               /\ h.hdr.msg = seg.msg
               /\ \A y \in Nat : Sends(e, y) => Sends(h, y)
<1> DEFINE c == IF e.rop = "header" THEN Done("header", "ok", 1) ELSE Done("payload", "ok", n)
           d == IF e.rop = "header" THEN seg ELSE e.hdr
           r == IF e.rop = "header" THEN e.rbuf ELSE seg
           q == Append(e.ready, c)
           h == ReadEnds(e, d, r, c)
<1>1. /\ e \in Endpoint /\ e.ready \in Seq(Completion)
      /\ e.rop \in {"header", "payload"} /\ None(e.ready, ReadDone)
      /\ e.hdr \in Segment /\ e.rbuf \in Segment /\ e.open
  BY DEF EpInv, Core, ReadInv, Endpoint
<1>2. None(e.ready, HeaderOk) /\ None(e.ready, PayloadOk)
  BY <1>1, SubKinds
<1>3. /\ c \in Completion /\ c \notin Broken /\ c \notin Expired
      /\ c \in HeaderOk <=> e.rop = "header"
      /\ c \in PayloadOk <=> e.rop = "payload"
  <2>1. c = Done(e.rop, "ok", IF e.rop = "header" THEN 1 ELSE n)
    BY <1>1
  <2>2. c \in Completion
    BY <1>1 DEF Done, Completion, Op, Ec
  <2> QED
    BY <1>1, <2>2 DEF Done, HeaderOk, PayloadOk, Broken, Expired
<1>4. /\ e.rop = "header" => seg.msg = Len(e.got) + 1 /\ d = seg
      /\ e.rop = "payload" => /\ seg.msg = Len(e.got) + 1 /\ d = e.hdr /\ r = seg
                              /\ seg.msg = e.hdr.msg
  <2>1. e.rop = "header" => seg.msg = e.hdr.msg + 1 /\ e.hdr.msg = Len(e.got)
    BY <1>1 DEF Follows, OwnOrder, ReadOrder
  <2>2. e.rop = "payload" => seg.msg = e.hdr.msg /\ e.hdr.msg = Len(e.got) + 1
    BY <1>1 DEF Follows, OwnOrder, ReadOrder
  <2> QED
    BY <1>1, <2>1, <2>2
<1>5. d.msg = Len(e.got) + 1 /\ d.msg = seg.msg /\ (e.rop = "payload" => r.msg = d.msg)
  BY <1>1, <1>4
<1>6. ReadEnds(e, d, r, c) =
        IF e.rop = "header"
        THEN ReadEnds(e, seg, e.rbuf, Done("header", "ok", 1))
        ELSE ReadEnds(e, e.hdr, seg, Done("payload", "ok", n))
  OBVIOUS
<1>7. h = [e EXCEPT !.rop = "none", !.hdr = d, !.rbuf = r, !.ready = q]
  BY DEF ReadEnds
<1> HIDE DEF c, d, r
<1>8. /\ \A C \in {Broken, Expired} : None(q, C) <=> None(e.ready, C)
      /\ e.rop # "payload" => None(q, PayloadOk)
  BY <1>1, <1>2, <1>3, NoneAppend
<1> HIDE DEF q, h
<1>9. /\ h.rop = "none" /\ h.open = e.open /\ h.wop = e.wop /\ h.hdr = d /\ h.rbuf = r
      /\ h.out = e.out /\ h.ready = q /\ h.wq = e.wq /\ h.nsent = e.nsent
      /\ h.got = e.got /\ h.timer = e.timer
  BY <1>1, <1>7 DEF Endpoint
<1>10. ReadOrder(h)
  BY <1>5, <1>8, <1>9 DEF ReadOrder
<1>11. OwnOrder(s, h)
  BY <1>8, <1>9, <1>10 DEF OwnOrder, QueueOrder, GotOrder, Silent
<1>12. ASSUME NEW y \in Nat, Sends(e, y)  PROVE Sends(h, y)
  BY <1>8, <1>9, <1>12 DEF Sends, Writes
<1>13. OwnOrder(s, h) /\ h.hdr.msg = seg.msg /\ \A y \in Nat : Sends(e, y) => Sends(h, y)
  BY <1>5, <1>9, <1>11, <1>12
<1> QED
  BY <1>6, <1>13 DEF h

\* The other end of that read: the oldest segment is off the wire.
LEMMA TakeOrder ==
    ASSUME NEW s \in Side, NEW e \in Endpoint, OwnOrder(s, e), e.out # <<>>,
           NEW x \in Nat, Sends(e, x)
    PROVE  LET h == [e EXCEPT !.out = Tail(e.out)] IN
           /\ OwnOrder(s, h) /\ h.hdr = e.hdr
           /\ Follows(x, Head(e.out))
           /\ Sends(h, Head(e.out).msg)
<1> DEFINE o == Tail(e.out)
           h == [e EXCEPT !.out = o]
           z == Head(e.out).msg
<1>1. e.out \in Seq(Segment)
  BY DEF Endpoint
<1>2. Follows(x, Head(e.out)) /\ Numbered(z, o) /\ LastOf(z, o) = LastOf(x, e.out)
  BY <1>1, NumberedTail DEF Sends
<1> HIDE DEF o
<1>3. /\ h.open = e.open /\ h.rop = e.rop /\ h.wop = e.wop /\ h.hdr = e.hdr
      /\ h.out = o /\ h.ready = e.ready /\ h.wq = e.wq /\ h.nsent = e.nsent
      /\ h.got = e.got /\ h.rbuf = e.rbuf /\ h.timer = e.timer
  BY DEF Endpoint
<1> HIDE DEF h, z
<1>4. OwnOrder(s, h)
  BY <1>3 DEF OwnOrder, QueueOrder, GotOrder, ReadOrder, Silent
<1>5. Sends(h, z)
  BY <1>2, <1>3 DEF Sends, Writes
<1> QED
  BY <1>2, <1>3, <1>4, <1>5 DEF h, o, z

-----------------------------------------------------------------------------
\* The stream that an end reads goes on from the last header it read.
OrderInv ==
    \A s \in Side :
        /\ OwnOrder(s, conn[s])
        /\ Sends(conn[Peer(s)], conn[s].hdr.msg)

LEMMA OneOrder ==
    ASSUME IInv, OrderInv, NEW s \in Side, NEW x, KeepsOrder(s, conn[s], x),
           conn' = [conn EXCEPT ![s] = x]
    PROVE  OrderInv'
<1>1. ASSUME NEW t \in Side
      PROVE  /\ OwnOrder(t, conn'[t]) /\ conn'[t].hdr = conn[t].hdr
             /\ \A z \in Nat : Sends(conn[t], z) => Sends(conn'[t], z)
  <2>1. CASE t = s
    <3>1. conn'[t] = x
      BY <2>1 DEF IInv
    <3> QED
      BY <2>1, <3>1 DEF KeepsOrder
  <2>2. CASE t # s
    <3>1. conn'[t] = conn[t]
      BY <2>2 DEF IInv
    <3> QED
      BY <3>1 DEF OrderInv
  <2> QED
    BY <2>1, <2>2
<1>2. ASSUME NEW t \in Side
      PROVE  OwnOrder(t, conn'[t]) /\ Sends(conn'[Peer(t)], conn'[t].hdr.msg)
  <2>1. Peer(t) \in Side
    BY DEF Peer, Side
  <2>2. conn[t].hdr.msg \in Nat
    BY DEF IInv, Endpoint, Segment, Msg
  <2>3. Sends(conn[Peer(t)], conn[t].hdr.msg)
    BY DEF OrderInv
  <2> QED
    BY <1>1, <2>1, <2>2, <2>3
<1> QED
  BY <1>2 DEF OrderInv

LEMMA InitOrder == Init /\ ShortQueue => OrderInv
<1> SUFFICES ASSUME Init, ShortQueue, NEW s \in Side
             PROVE  OwnOrder(s, conn[s]) /\ Sends(conn[Peer(s)], conn[s].hdr.msg)
  BY DEF OrderInv
<1>1. ASSUME NEW t \in Side
      PROVE  LET e == conn[t] IN
             OwnOrder(t, e) /\ e.hdr.msg = 0 /\ Sends(e, 0)
  <2> DEFINE e == conn[t]
  <2>1. e = NewConnection(t)
    BY DEF Init
  <2>2. /\ e.rop = "header" /\ e.wop = NoWrite /\ e.ready = <<>> /\ e.out = <<>>
        /\ e.wq = <<>> /\ e.nsent = 0 /\ e.got = <<>> /\ e.hdr.msg = 0
        /\ t = "client" => ~e.timer
    BY <2>1 DEF NewConnection, WithHeartbeat, ShortQueue
  <2> HIDE DEF e
  <2>3. \A C : None(e.ready, C)
    <3>1. Len(e.ready) = 0
      BY <2>2
    <3> QED
      BY <3>1 DEF None, Queued
  <2>4. Len(e.wq) = 0 /\ Len(e.got) = 0 /\ Len(e.out) = 0
    BY <2>2
  <2>5. QueueOrder(e) /\ GotOrder(e)
    BY <2>2, <2>4, NoWriteType DEF QueueOrder, GotOrder
  <2>6. ReadOrder(e) /\ Silent(t, e)
    BY <2>2, <2>3, <2>4 DEF ReadOrder, Silent
  <2>7. Numbered(0, e.out) /\ LastOf(0, e.out) = 0
    BY <2>2, <2>4 DEF Numbered, LastOf
  <2>8. Sends(e, 0)
    BY <2>2, <2>7, NoWriteType DEF Sends, Writes
  <2> QED
    BY <2>2, <2>5, <2>6, <2>8 DEF OwnOrder, e
<1>2. Peer(s) \in Side
  BY DEF Peer, Side
<1> QED
  BY <1>1, <1>2

\* What the bounds on the queue leave to the upper layer.
LEMMA SendRoom ==
    ASSUME ShortQueue, IInv, NEW s \in Side
    PROVE  /\ CanSend(s, 1) => Len(conn[s].wq) < 2
           /\ CanSend(s, 2) => Len(conn[s].wq) = 0
<1>1. Len(conn[s].wq) \in Nat /\ QueueBound \in Nat /\ QueueBound <= 2
  BY ConnectionAssumption DEF ShortQueue, IInv, Endpoint
<1>2. \A a, b \in Nat : b <= 2 => (a + 1 <= b => a < 2) /\ (a + 2 <= b => a = 0)
  OBVIOUS
<1> QED
  BY <1>1, <1>2 DEF CanSend

LEMMA LoopOrder ==
    ASSUME ShortQueue, IInv, StreamInv, OrderInv, NEW s \in Side, Loop(s)
    PROVE  OrderInv'
<1> DEFINE e == conn[s]
           p == Popped(s)
           c == Oldest(s)
<1>1. EpInv(s, e) /\ FrameInv(e) /\ OwnOrder(s, e)
  BY DEF IInv, StreamInv, OrderInv
<1>2. p = Pop(e) /\ c = Head(e.ready)
  BY PoppedIsPop
<1> HIDE DEF p, c
<1>3. CASE WhenHeaderReceived(s)
  <2> DEFINE x == when_header_received(s, p, c)
  <2>1. e.batch > 0 /\ Head(e.ready).op = "header" /\ conn' = [conn EXCEPT ![s] = x]
    BY <1>3 DEF WhenHeaderReceived, Runs, p, c
  <2>2. KeepsOrder(s, e, x)
    BY <1>1, <1>2, <2>1, HeaderOrder
  <2> HIDE DEF x
  <2> QED
    BY <2>1, <2>2, OneOrder
<1>4. ASSUME NEW k \in Outcome, NEW r \in Reply, WhenPayloadReceived(s, r, k)
      PROVE  OrderInv'
  <2> DEFINE x == when_payload_received(p, c, r, k)
  <2>1. e.batch > 0 /\ Head(e.ready).op = "payload" /\ conn' = [conn EXCEPT ![s] = x]
    BY <1>4 DEF WhenPayloadReceived, Runs, p, c
  <2>2. Room(e, r)
    BY <1>4, SendRoom DEF WhenPayloadReceived, Room
  <2>3. KeepsOrder(s, e, x)
    BY <1>1, <1>2, <2>1, <2>2, PayloadOrder
  <2> HIDE DEF x
  <2> QED
    BY <2>1, <2>3, OneOrder
<1>5. ASSUME NEW k \in Outcome, WriteContinues(s, k)
      PROVE  OrderInv'
  <2> DEFINE x == write_some(p, e.wop.buf, e.wop.n, k)
  <2>1. e.batch > 0 /\ Head(e.ready).op = "write_some" /\ conn' = [conn EXCEPT ![s] = x]
    BY <1>5 DEF WriteContinues, Runs, p
  <2>2. KeepsOrder(s, e, x)
    BY <1>1, <1>2, <2>1, ContinueOrder
  <2> HIDE DEF x
  <2> QED
    BY <2>1, <2>2, OneOrder
<1>6. ASSUME NEW k \in Outcome, WhenMessageSent(s, k)
      PROVE  OrderInv'
  <2> DEFINE x == when_message_sent(p, c, k)
  <2>1. e.batch > 0 /\ Head(e.ready).op = "write" /\ conn' = [conn EXCEPT ![s] = x]
    BY <1>6 DEF WhenMessageSent, Runs, p, c
  <2>2. KeepsOrder(s, e, x)
    BY <1>1, <1>2, <2>1, SentOrder
  <2> HIDE DEF x
  <2> QED
    BY <2>1, <2>2, OneOrder
<1>7. CASE s = "server" /\ WhenTimeout
  <2> DEFINE x == when_timeout(p, c)
  <2>1. e.batch > 0 /\ Head(e.ready).op = "timer" /\ conn' = [conn EXCEPT ![s] = x]
    BY <1>7 DEF WhenTimeout, Runs, p, c
  <2>2. KeepsOrder(s, e, x)
    BY <1>1, <1>2, <1>7, <2>1, TimeoutOrder
  <2> HIDE DEF x
  <2> QED
    BY <2>1, <2>2, OneOrder
<1>8. ASSUME s = "client", NEW k \in Outcome, SendAndReset(k)
      PROVE  OrderInv'
  <2> DEFINE x == send_and_reset(p, c, k)
  <2>1. e.batch > 0 /\ Head(e.ready).op = "timer" /\ conn' = [conn EXCEPT ![s] = x]
    BY <1>8 DEF SendAndReset, Runs, p, c
  <2>2. KeepsOrder(s, e, x)
    BY <1>1, <1>2, <1>8, <2>1, SenderOrder
  <2> HIDE DEF x
  <2> QED
    BY <2>1, <2>2, OneOrder
<1> QED
  BY <1>3, <1>4, <1>5, <1>6, <1>7, <1>8 DEF Loop

\* A segment goes from the one end to the other.
LEMMA ReadSegmentOrder ==
    ASSUME IInv, StreamInv, OrderInv, NEW s \in Side, ReadSegment(s)
    PROVE  OrderInv'
<1> DEFINE p == Peer(s)
           e == conn[s]
           f == conn[p]
           seg == Head(f.out)
           n == IF e.hdr.msg \in BigMsgs THEN 0 ELSE 1
           y == [f EXCEPT !.out = Tail(f.out)]
           x == IF e.rop = "header"
                THEN ReadEnds(e, seg, e.rbuf, Done("header", "ok", 1))
                ELSE ReadEnds(e, e.hdr, seg, Done("payload", "ok", n))
<1>1. p \in Side /\ p # s /\ Peer(p) = s /\ \A t \in Side : t = s \/ t = p
  BY DEF Peer, Side
<1>p. p = Peer(s)
  OBVIOUS
<1>2. f.out # <<>> /\ e.rop # "none"
  BY DEF ReadSegment
<1> HIDE DEF p
<1>3. /\ EpInv(s, e) /\ e \in Endpoint /\ f \in Endpoint /\ f.out \in Seq(Segment)
      /\ FrameInv(e) /\ FrameInv(f) /\ OwnOrder(s, e) /\ OwnOrder(p, f)
      /\ e.hdr.msg \in Nat /\ f.hdr.msg \in Nat
  BY <1>1 DEF IInv, StreamInv, OrderInv, Endpoint, Segment, Msg
<1>4. conn' = [conn EXCEPT ![p] = y, ![s] = x]
  <2>1. e.rop = "header" =>
           ReadEnds(e, seg, e.rbuf, Done("header", "ok", 1))
              = Post([e EXCEPT !.rop = "none", !.hdr = seg], Done("header", "ok", 1))
    BY <1>3 DEF ReadEnds, Post, Endpoint
  <2>2. ReadEnds(e, e.hdr, seg, Done("payload", "ok", n))
                  = Post([e EXCEPT !.rop = "none", !.rbuf = seg], Done("payload", "ok", n))
    <3> HIDE DEF n
    <3> QED
      BY <1>3 DEF ReadEnds, Post, Endpoint
  <2>3. x = IF e.rop = "header"
            THEN Post([e EXCEPT !.rop = "none", !.hdr = seg], Done("header", "ok", 1))
            ELSE Post([e EXCEPT !.rop = "none", !.rbuf = seg],
                      Done("payload", "ok", IF e.hdr.msg \in BigMsgs THEN 0 ELSE 1))
    BY <2>1, <2>2
  <2> HIDE DEF x
  <2> QED
    BY <1>1, <2>3 DEF ReadSegment, p
<1>5. Sends(f, e.hdr.msg) /\ Sends(e, f.hdr.msg)
  BY <1>1, <1>p DEF OrderInv
<1>6. seg.kind = e.rop
  <2>1. PICK a \in Nat : Awaits(e, a) /\ Carries(f, a)
    BY <1>p DEF StreamInv
  <2>2. Fits(a, seg)
    BY <1>2, <1>3, <2>1, TakeFrame
  <2>3. e.rop \in {"header", "payload"} /\ seg.kind \in {"header", "payload"}
    <3>1. seg \in Segment
      BY <1>2, <1>3
    <3> HIDE DEF seg
    <3> QED
      BY <1>2, <1>3, <3>1 DEF Endpoint, Segment
  <2> HIDE DEF seg
  <2> QED
    BY <1>3, <2>1, <2>2, <2>3 DEF Fits, Awaits, FrameInv
<1>7. /\ OwnOrder(p, y) /\ y.hdr = f.hdr
      /\ Follows(e.hdr.msg, seg)
      /\ Sends(y, seg.msg)
  BY <1>1, <1>2, <1>3, <1>5, TakeOrder
<1>8. seg \in Segment /\ n \in 0..2
  BY <1>2, <1>3
<1> HIDE DEF y, seg, n
<1>9. /\ OwnOrder(s, x) /\ x.hdr.msg = seg.msg
      /\ \A z \in Nat : Sends(e, z) => Sends(x, z)
  BY <1>2, <1>3, <1>6, <1>7, <1>8, ArriveOrder
<1> HIDE DEF x
<1>10. Sends(x, y.hdr.msg)
  BY <1>3, <1>5, <1>7, <1>9
<1>11. conn'[s] = x /\ conn'[p] = y
  BY <1>1, <1>4 DEF IInv
<1>12. ASSUME NEW t \in Side
       PROVE  OwnOrder(t, conn'[t]) /\ Sends(conn'[Peer(t)], conn'[t].hdr.msg)
  <2>1. CASE t = s
    BY <1>p, <1>7, <1>9, <1>11, <2>1
  <2>2. CASE t = p
    BY <1>1, <1>7, <1>10, <1>11, <2>2
  <2> QED
    BY <1>1, <2>1, <2>2
<1> QED
  BY <1>12 DEF OrderInv

LEMMA KernelOrder ==
    ASSUME IInv, StreamInv, OrderInv, NEW s \in Side, Kernel(s)
    PROVE  OrderInv'
<1> DEFINE e == conn[s]
<1>1. EpInv(s, e) /\ FrameInv(e) /\ OwnOrder(s, e) /\ e \in Endpoint
  BY DEF IInv, StreamInv, OrderInv
<1>2. ASSUME NEW k \in Outcome, WriteReady(s, k)
      PROVE  OrderInv'
  <2> DEFINE x == write_some(e, e.wop.buf, e.wop.n, k)
  <2>1. e.wop.st = "pending" /\ conn' = [conn EXCEPT ![s] = x]
    BY <1>2 DEF WriteReady
  <2>2. KeepsOrder(s, e, x)
    BY <1>1, <2>1, ResumeOrder
  <2> HIDE DEF x
  <2> QED
    BY <2>1, <2>2, OneOrder
<1>3. ASSUME ReadSegment(s)
      PROVE  OrderInv'
  BY <1>3, ReadSegmentOrder
<1>4. ASSUME NEW ec \in {"eof", "error"}, ReadFails(s, ec)
      PROVE  OrderInv'
  <2> DEFINE c == Done(e.rop, ec, 0)
             x == ReadEnds(e, e.hdr, e.rbuf, c)
  <2>1. e.rop # "none"
    BY <1>4 DEF ReadFails
  <2>2. x = Post([e EXCEPT !.rop = "none"], c)
    BY <1>1 DEF ReadEnds, Post, Endpoint
  <2>3. conn' = [conn EXCEPT ![s] = x]
    <3>1. conn' = [conn EXCEPT ![s] = Post([e EXCEPT !.rop = "none"], c)]
      BY <1>4 DEF ReadFails
    <3> HIDE DEF x
    <3> QED
      BY <2>2, <3>1
  <2>4. KeepsOrder(s, e, x)
    BY <1>1, <2>1, FailOrder
  <2> HIDE DEF x
  <2> QED
    BY <2>3, <2>4, OneOrder
<1>5. ASSUME NEW b \in BOOLEAN, Reactor(s, b)
      PROVE  OrderInv'
  <2> DEFINE q == IF b THEN Append(e.ready, Done("timer", "ok", 0)) ELSE e.ready
             x == [e EXCEPT !.ready = q, !.batch = Len(q), !.timer = e.timer /\ ~b]
  <2>0. b => e.timer
    BY <1>5 DEF Reactor
  <2>1. KeepsOrder(s, e, x)
    BY <1>1, <2>0, ReactorOrder
  <2>2. conn' = [conn EXCEPT ![s] = x]
    <3>1. conn' = [conn EXCEPT ![s].ready = q, ![s].batch = Len(q), ![s].timer = @ /\ ~b]
      BY <1>5 DEF Reactor
    <3> HIDE DEF q
    <3> QED
      BY <1>1, <3>1 DEF IInv
  <2> HIDE DEF x
  <2> QED
    BY <2>1, <2>2, OneOrder
<1> QED
  BY <1>2, <1>3, <1>4, <1>5 DEF Kernel

LEMMA UpperOrder ==
    ASSUME ShortQueue, IInv, OrderInv, NEW s \in Side, Upper(s)
    PROVE  OrderInv'
<1> DEFINE e == conn[s]
<1>1. Core(s, e) /\ OwnOrder(s, e)
  BY DEF IInv, EpInv, OrderInv
<1>2. ASSUME NEW k \in Outcome, Send(s, k)
      PROVE  OrderInv'
  <2> DEFINE x == do_send_message(e, k)
  <2>1. conn' = [conn EXCEPT ![s] = x] /\ Len(e.wq) < 2
    BY <1>2, SendRoom DEF Send
  <2>2. KeepsOrder(s, e, x)
    BY <1>1, <2>1, SendOrder
  <2> HIDE DEF x
  <2> QED
    BY <2>1, <2>2, OneOrder
<1>3. CASE Disconnect(s)
  <2> DEFINE x == connection_close(e)
  <2>1. conn' = [conn EXCEPT ![s] = x]
    BY <1>3 DEF Disconnect, disconnect
  <2>2. KeepsOrder(s, e, x)
    BY <1>1, CloseOrder
  <2> HIDE DEF x
  <2> QED
    BY <2>1, <2>2, OneOrder
<1> QED
  BY <1>2, <1>3 DEF Upper

LEMMA NextOrder ==
    ASSUME ShortQueue, IInv, StreamInv, OrderInv, [Next]_vars
    PROVE  OrderInv'
<1>1. ASSUME NEW s \in Side, Loop(s) \/ Kernel(s) \/ Upper(s)
      PROVE  OrderInv'
  BY <1>1, LoopOrder, KernelOrder, UpperOrder
<1>2. CASE NetworkCut \/ UNCHANGED vars
  <2>1. conn' = conn
    BY <1>2 DEF NetworkCut, vars
  <2> QED
    BY <2>1 DEF OrderInv
<1> QED
  BY <1>1, <1>2 DEF Next

-----------------------------------------------------------------------------
(***************************************************************************)
(* The theorems.                                                           *)
(***************************************************************************)

\* Every handler, in any order the io loops and the kernel allow, keeps the
\* invariant that the properties of one endpoint follow from.
THEOREM Invariance == Spec => []IInv
<1>1. Init => IInv
  BY InitInv
<1>2. IInv /\ [Next]_vars => IInv'
  BY NextInv
<1> QED
  BY <1>1, <1>2, PTL DEF Spec

\* The members of both Connection objects and what boost.asio holds for them
\* stay of their types, however many messages are sent.
THEOREM TypeCorrect == Spec => []TypeOK
<1>1. IInv => TypeOK
  BY DEF IInv, TypeOK
<1> QED
  BY <1>1, Invariance, PTL

\* Never two reads at a time on one Connection, and no open one without a read:
\* when_payload_received and when_header_received always go on reading.
THEOREM SingleReader == Spec => []OneReader
<1>1. IInv => OneReader
  BY DEF IInv, EpInv, Core, ReadInv, Reading, OneReader
<1> QED
  BY <1>1, Invariance, PTL

\* when_message_sent never pops an empty _write_queue, and async_write never
\* holds a buffer that was popped.
THEOREM BuffersHeld == Spec => []WriteHeld
<1>1. IInv => WriteHeld
  BY DEF IInv, EpInv, Core, WriteInv, WriteHeld
<1> QED
  BY <1>1, Invariance, PTL

\* While a connection is open, its non-empty _write_queue is being written.
THEOREM NoLostWakeup == Spec => []WriterAlive
<1>1. IInv => WriterAlive
  BY DEF IInv, EpInv, Writing, Outstanding, WriterAlive
<1> QED
  BY <1>1, Invariance, PTL

\* connection_close leaves no operation of the socket behind, nor the timeout
\* timer of the server.
THEOREM CloseIsFinal == Spec => []ClosedIsQuiet
<1>1. IInv => ClosedIsQuiet
  BY DEF IInv, EpInv, Core, ReadInv, WriteInv, TimerInv, ClosedIsQuiet
<1> QED
  BY <1>1, Invariance, PTL

\* However the handlers of a broken connection follow one another, each kind of
\* event reaches the upper layer once.
THEOREM NoRepeatedEvent == Spec => []EventsOnce
<1>1. IInv => EventsOnce
  BY DEF IInv, EpInv, Core, EventInv, NoDuplicate, EventsOnce
<1> QED
  BY <1>1, Invariance, PTL

\* A message that had arrived is dropped once the connection is closed.
THEOREM DropIfClosed == Spec => QuietAfterClose
<1>1. IInv /\ [Next]_vars =>
         [\A s \in Side :
             (~conn[s].open \/ conn[s].events # <<>>) => conn'[s].got = conn[s].got]_vars
  <2> SUFFICES ASSUME IInv, [Next]_vars, NEW s \in Side,
                      ~conn[s].open \/ conn[s].events # <<>>
               PROVE  conn'[s].got = conn[s].got
    OBVIOUS
  <2>1. ~conn[s].open
    BY DEF IInv, EpInv, Core, EventInv
  <2> QED
    BY <2>1, NextInv DEF Quiet
<1> QED
  BY <1>1, Invariance, PTL DEF Spec, QuietAfterClose

\* However the pieces of the messages, their continuations and the heartbeats of
\* the sender's timer follow one another, the stream is a sequence of whole
\* messages: async_read finds a header where it looks for one, and after it the
\* body that the header announced.
THEOREM NeverInterleaved == Spec => []Framed
<1>1. Init => IInv /\ StreamInv
  BY InitInv, InitStream
<1>2. (IInv /\ StreamInv) /\ [Next]_vars => (IInv /\ StreamInv)'
  BY NextInv, NextStream
<1>3. IInv /\ StreamInv => Framed
  <2> SUFFICES ASSUME IInv, StreamInv, NEW s \in Side, conn[Peer(s)].out # <<>>
               PROVE  LET e == conn[s]  in == conn[Peer(s)].out IN
                      /\ e.rop = "header" => Head(in).kind = "header"
                      /\ e.rop = "payload" =>
                            Head(in) = [kind |-> "payload", msg |-> e.hdr.msg]
    BY DEF Framed
  <2> DEFINE e == conn[s]
             f == conn[Peer(s)]
  <2>1. f \in Endpoint
    BY DEF IInv, Peer, Side
  <2>2. PICK x \in Nat : Awaits(e, x) /\ Carries(f, x)
    BY DEF StreamInv
  <2>3. FrameInv(f) /\ FrameInv(e)
    BY DEF StreamInv, Peer, Side
  <2> HIDE DEF e, f
  <2>4. Fits(x, Head(f.out))
    BY <2>1, <2>2, <2>3, TakeFrame DEF f
  <2>5. /\ e.rop = "header" => Head(f.out).kind = "header"
        /\ e.rop = "payload" => Head(f.out) = [kind |-> "payload", msg |-> e.hdr.msg]
    BY <2>2, <2>3, <2>4 DEF Awaits, FrameInv, Fits
  <2> QED
    BY <2>5 DEF e, f
<1> QED
  BY <1>1, <1>2, <1>3, PTL DEF Spec

\* do_write starts the message at the back of _write_queue, and when_message_sent
\* pops the one at its front.  As long as the queue holds no more than two
\* messages and no heartbeat gets between them, both are the right ones: every
\* message reaches the other end once and in the order it was sent.
THEOREM InOrderIfShort == ShortQueue => (Spec => []InOrder)
<1> SUFFICES ASSUME ShortQueue
             PROVE  Spec => []InOrder
  OBVIOUS
<1>1. Init => IInv /\ StreamInv /\ OrderInv
  BY InitInv, InitStream, InitOrder
<1>2. (IInv /\ StreamInv /\ OrderInv) /\ [Next]_vars => (IInv /\ StreamInv /\ OrderInv)'
  BY NextInv, NextStream, NextOrder
<1>3. OrderInv => InOrder
  BY DEF OrderInv, OwnOrder, GotOrder, InOrder
<1> QED
  BY <1>1, <1>2, <1>3, PTL DEF Spec

=============================================================================
