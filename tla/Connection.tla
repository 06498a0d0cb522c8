----------------------------- MODULE Connection -----------------------------
(***************************************************************************)
(* The two ends of one framed TCP connection: class Connection and its     *)
(* subclasses ServerConnection, ServerConnectionWithHeartbeat,             *)
(* ClientConnection and ClientConnectionWithHeartbeat, each driven by its  *)
(* own single-threaded io loop (execution_context ctx{1}).                 *)
(*                                                                         *)
(* An endpoint is a record.  Every member function is an operator from     *)
(* records to records, so that a handler is the composition of the calls   *)
(* it makes; an action pops one completion from the io loop's queue and    *)
(* runs its handler to the end, as the loop does.  The asynchronous        *)
(* operations are those of boost.asio: a completion is queued in FIFO      *)
(* order, cancelling an operation that is still outstanding queues it with *)
(* "aborted", and cancelling one that has already completed does nothing.  *)
(* The reactor takes its turn when the completions that were queued before *)
(* its last turn are handled; expired timers are found only then.          *)
(***************************************************************************)
EXTENDS Naturals, Sequences

CONSTANTS
    ServerHB,     \* the server was built with ServerConnectionWithHeartbeat
    ClientHB,     \* the client was built with ClientConnectionWithHeartbeat
    MaxSend,      \* bound: messages the upper layer of each end sends
    QueueBound,   \* bound: entries of _write_queue when the upper layer sends
    TimerBound,   \* bound: entries of _write_queue when the sender's timer fires
    WireCap,      \* bound: segments the kernel's buffers hold in one direction
    BigMsgs,      \* messages whose body is longer than buffer_size (8192)
    MayCut        \* whether the network between the two hosts may go down

ASSUME ConnectionAssumption ==
    /\ ServerHB \in BOOLEAN
    /\ ClientHB \in BOOLEAN
    /\ MaxSend \in [{"server", "client"} -> Nat]
    /\ QueueBound \in Nat
    /\ TimerBound \in Nat
    /\ WireCap \in Nat
    /\ BigMsgs \subseteq Nat
    /\ MayCut \in BOOLEAN

VARIABLES
    conn,   \* conn[s]: the Connection object of side s and its asio operations
    net     \* "up", or "down" once the hosts can no longer reach each other

vars == <<conn, net>>

Side == {"server", "client"}
Peer(s) == IF s = "server" THEN "client" ELSE "server"

(***************************************************************************)
(* Messages are numbered in the order the upper layer of an end sends      *)
(* them; 0 stands for the heartbeat, which is a header without a body.     *)
(***************************************************************************)
Msg == Nat
Heartbeat == 0
Segment == [kind : {"header", "payload"}, msg : Msg]

\* What a buffer_sequence holds: a header, and the body of a normal message.
Segments(m) ==
    IF m = Heartbeat THEN <<[kind |-> "header", msg |-> m]>>
    ELSE <<[kind |-> "header", msg |-> m], [kind |-> "payload", msg |-> m]>>

(***************************************************************************)
(* A completion queued on the io loop.  n is what the handler learns from  *)
(* the byte count: the segments written, and for a body 1 when all of it   *)
(* was read and 0 when less was.                                           *)
(***************************************************************************)
Op == {"header", "payload", "write_some", "write", "timer"}
Ec == {"ok", "eof", "error", "aborted"}
Completion == [op : Op, ec : Ec, n : 0..2]
Done(op, ec, n) == [op |-> op, ec |-> ec, n |-> n]

Event == {"timeout", "close", "pipe"}

(***************************************************************************)
(* The outstanding async_write: its buffer_sequence and how many segments  *)
(* of it are written.  "pending" waits for the socket; "queued" is between *)
(* two async_write_some calls, its continuation in the io loop's queue.    *)
(***************************************************************************)
WriteOp == [st : {"idle", "pending", "queued"}, buf : Msg, n : 0..2]
NoWrite == [st |-> "idle", buf |-> 0, n |-> 0]

Endpoint ==
    [open   : BOOLEAN,                            \* holding_socket->is_open()
     wq     : Seq(Msg),                           \* _write_queue
     wop    : WriteOp,
     rop    : {"none", "header", "payload"},      \* the outstanding async_read
     timer  : BOOLEAN,                            \* an async_wait is outstanding
     ready  : Seq(Completion),                    \* the io loop's queue, oldest first
     batch  : Nat,                                \* how many of them precede the next
                                                  \* turn of the reactor
     out    : Seq(Segment),                       \* written, not yet read by the peer
     hdr    : Segment,                            \* _header_buffer
     rbuf   : Segment,                            \* _receive_buffer
     nsent  : Nat,                                \* messages handed to do_send_message
     got    : Seq(Msg),                           \* bodies given to upper_layer_callback
     events : Seq(Event),                         \* calls of upper_layer_event_callback
     threw  : BOOLEAN]                            \* an exception left the io loop

TypeOK ==
    /\ conn \in [Side -> Endpoint]
    /\ net \in {"up", "down"}

WithHeartbeat(s) == IF s = "server" THEN ServerHB ELSE ClientHB

(***************************************************************************)
(* A connection just constructed: the heartbeat timer is started by the    *)
(* constructor of the two heartbeat classes, the first header read by      *)
(* new_connection on the server and AsyncClient::start on the client.      *)
(***************************************************************************)
NewConnection(s) ==
    [open |-> TRUE, wq |-> <<>>, wop |-> NoWrite, rop |-> "header",
     timer |-> WithHeartbeat(s), ready |-> <<>>, batch |-> 0, out |-> <<>>,
     hdr |-> [kind |-> "header", msg |-> 0],
     rbuf |-> [kind |-> "header", msg |-> 0],
     nsent |-> 0, got |-> <<>>, events |-> <<>>, threw |-> FALSE]

-----------------------------------------------------------------------------
(***************************************************************************)
(* boost.asio                                                              *)
(***************************************************************************)

Post(e, c) == [e EXCEPT !.ready = Append(@, c)]

\* basic_waitable_timer::cancel: only a wait that has not expired is aborted.
timer_cancel(e) ==
    IF e.timer THEN Post([e EXCEPT !.timer = FALSE], Done("timer", "aborted", 0))
    ELSE e

\* expires_from_now(interval) followed by async_wait.
timer_restart(e) == [timer_cancel(e) EXCEPT !.timer = TRUE]

\* socket::cancel, reads before writes, followed by socket::close.
abort_read(e) ==
    IF e.rop = "none" THEN e
    ELSE Post([e EXCEPT !.rop = "none"], Done(e.rop, "aborted", 0))

abort_write(e) ==
    IF e.wop.st # "pending" THEN e
    ELSE Post([e EXCEPT !.wop = NoWrite], Done("write", "aborted", e.wop.n))

socket_close(e) == [abort_write(abort_read(e)) EXCEPT !.open = FALSE]

(***************************************************************************)
(* One async_write_some of an async_write whose first n segments of buf    *)
(* are out.  k is the kernel's answer: nothing yet, part of the rest, all  *)
(* of the rest, or an error.                                               *)
(***************************************************************************)
write_some(e, buf, n, k) ==
    LET segs == Segments(buf)
    IN  IF ~e.open \/ k = "error"
        THEN Post([e EXCEPT !.wop = NoWrite], Done("write", "error", n))
        ELSE IF k = "pending"
        THEN [e EXCEPT !.wop = [st |-> "pending", buf |-> buf, n |-> n]]
        ELSE IF k = "part" /\ n + 1 < Len(segs)
        THEN Post([e EXCEPT !.wop = [st |-> "queued", buf |-> buf, n |-> n + 1],
                            !.out = Append(@, segs[n + 1])],
                  Done("write_some", "ok", 0))
        ELSE Post([e EXCEPT !.wop = NoWrite,
                            !.out = @ \o SubSeq(segs, n + 1, Len(segs))],
                  Done("write", "ok", Len(segs)))

\* The exception leaves io_context::run and ends the process.
Terminate(e) ==
    [e EXCEPT !.open = FALSE, !.rop = "none", !.wop = NoWrite, !.timer = FALSE,
              !.ready = <<>>, !.batch = 0, !.threw = TRUE]

-----------------------------------------------------------------------------
(***************************************************************************)
(* Connection                                                              *)
(*                                                                         *)
(* Definitions with a suffix, such as push_unguarded, are slips that the   *)
(* code does not make; no action uses them.  The properties are tested     *)
(* against them (see the README).                                          *)
(***************************************************************************)

upper_layer_event_callback(e, ev) == [e EXCEPT !.events = Append(@, ev)]

\* Connection::connection_close
close_if_open(e) == IF e.open THEN socket_close(e) ELSE e

\* The heartbeat classes stop their timer first; it never runs in the others.
connection_close(e) == close_if_open(timer_cancel(e))

\* Writes the BACK of the queue.
do_write(e, k) == write_some(e, e.wq[Len(e.wq)], 0, k)

push_unguarded(e, m, k) == do_write([e EXCEPT !.wq = Append(@, m)], k)

push(e, m, k) ==
    LET q == [e EXCEPT !.wq = Append(@, m)]
    IN  IF Len(q.wq) = 1 THEN do_write(q, k) ELSE q

do_send_message(e, k) ==
    push([e EXCEPT !.nsent = @ + 1], e.nsent + 1, k)

do_send_header(e, k) == push(e, Heartbeat, k)

when_message_sent_stops(e, c, k) ==
    IF c.ec = "error"
    THEN upper_layer_event_callback(connection_close(e), "pipe")
    ELSE IF c.n = 0 THEN connection_close(e)
    ELSE [e EXCEPT !.wq = Tail(@)]

when_message_sent_keeps(e, c, k) ==
    IF c.ec = "error"
    THEN upper_layer_event_callback(connection_close(e), "pipe")
    ELSE IF c.n = 0 THEN connection_close(e) ELSE do_write(e, k)

\* Pops the FRONT of the queue.  A write error leaves the queue as it is.
when_message_sent(e, c, k) ==
    IF c.ec = "error"
    THEN upper_layer_event_callback(connection_close(e), "pipe")
    ELSE IF c.n = 0
    THEN connection_close(e)
    ELSE LET q == [e EXCEPT !.wq = Tail(@)]
         IN  IF Len(q.wq) > 0 THEN do_write(q, k) ELSE q

do_receive_message_unguarded(e) == [e EXCEPT !.rop = "header"]

do_receive_message(e) == IF e.open THEN [e EXCEPT !.rop = "header"] ELSE e

\* The resize of _receive_buffer is to its own capacity: it stays at buffer_size.
do_receive_payload(e) == [e EXCEPT !.rop = "payload"]

\* HeartbeatChecker::heartbeat_received
heartbeat_received(e) == timer_restart(e)

\* ServerConnection: a heartbeat "Should not be here!".
server_header_parser(e) ==
    IF e.hdr.msg # Heartbeat THEN do_receive_payload(e) ELSE Terminate(e)

\* ServerConnectionWithHeartbeat
server_heartbeat_header_parser(e) ==
    IF e.hdr.msg # Heartbeat THEN do_receive_payload(e)
    ELSE do_receive_message(heartbeat_received(e))

\* ClientConnection: any other header is ignored, and nothing more is read.
client_header_parser(e) ==
    IF e.hdr.msg # Heartbeat THEN do_receive_payload(e) ELSE e

header_parser(s, e) ==
    IF s = "client" THEN client_header_parser(e)
    ELSE IF ServerHB THEN server_heartbeat_header_parser(e)
    ELSE server_header_parser(e)

handle_eof(e) == upper_layer_event_callback(connection_close(e), "close")

when_header_received_ignores_eof(s, e, c) ==
    CASE c.ec \in {"aborted", "eof"} -> e
      [] c.ec = "error" -> connection_close(e)
      [] c.ec = "ok"    -> IF e.open THEN header_parser(s, e) ELSE e

when_header_received(s, e, c) ==
    CASE c.ec = "aborted" -> e
      [] c.ec = "eof"     -> handle_eof(e)
      [] c.ec = "error"   -> connection_close(e)
      [] c.ec = "ok"      -> IF e.open THEN header_parser(s, e) ELSE e

\* ConnectionManager::disconnect
disconnect(e) == connection_close(e)

(***************************************************************************)
(* What the upper layer's receive callback does before it returns: the     *)
(* calls of send and disconnect that the coordinator, the worker and the   *)
(* echo models make.                                                       *)
(***************************************************************************)
Reply == {"none", "send", "send_twice", "close", "send_close"}

upper_layer_callback(e, r, k) ==
    LET d == [e EXCEPT !.got = Append(@, e.rbuf.msg)]
    IN  CASE r = "none"       -> d
          [] r = "send"       -> do_send_message(d, k)
          [] r = "send_twice" -> do_send_message(do_send_message(d, k), k)
          [] r = "close"      -> disconnect(d)
          [] r = "send_close" -> disconnect(do_send_message(d, k))

when_payload_received_unguarded(e, c, r, k) ==
    IF c.ec \in {"eof", "error"} \/ c.n = 0
    THEN connection_close(e)
    ELSE do_receive_message(upper_layer_callback(e, r, k))

when_payload_received_stops(e, c, r, k) ==
    IF c.ec \in {"eof", "error"} \/ c.n = 0
    THEN connection_close(e)
    ELSE IF e.open THEN upper_layer_callback(e, r, k) ELSE e

when_payload_received(e, c, r, k) ==
    IF c.ec \in {"eof", "error"} \/ c.n = 0
    THEN connection_close(e)
    ELSE do_receive_message(IF e.open THEN upper_layer_callback(e, r, k) ELSE e)

when_timeout_only_reports(e, c) ==
    IF c.ec = "aborted" THEN e ELSE upper_layer_event_callback(e, "timeout")

\* ServerConnectionWithHeartbeat
when_timeout(e, c) ==
    IF c.ec = "aborted" THEN e
    ELSE upper_layer_event_callback(connection_close(e), "timeout")

\* ClientConnectionWithHeartbeat::send_heartbeat
send_heartbeat(e, c, k) ==
    IF c.ec = "aborted" THEN connection_close(e) ELSE do_send_header(e, k)

\* HeartbeatSender::send_and_reset
send_and_reset(e, c, k) ==
    LET h == send_heartbeat(e, c, k)
    IN  IF c.ec = "aborted" THEN h ELSE timer_restart(h)

-----------------------------------------------------------------------------
(***************************************************************************)
(* The kernel and the network                                              *)
(***************************************************************************)

\* A segment that s wrote after its peer closed, or that the closed peer never
\* read, is answered with a reset.
Reset(s) == net = "up" /\ ~conn[Peer(s)].open /\ conn[s].out # <<>>

WriteOutcomes(s) ==
    LET room == IF Len(conn[s].out) >= WireCap THEN 0 ELSE WireCap - Len(conn[s].out)
    IN  (IF room = 0 THEN {"pending"} ELSE {})
          \cup (IF room >= 1 THEN {"part"} ELSE {})
          \cup (IF room >= 2 THEN {"all"} ELSE {})
          \cup (IF Reset(s) \/ net = "down" THEN {"error"} ELSE {})

\* The outstanding write gets on.
WriteReady(s, k) ==
    /\ conn[s].wop.st = "pending"
    /\ k \in WriteOutcomes(s) \ {"pending"}
    /\ conn' = [conn EXCEPT ![s] = write_some(@, @.wop.buf, @.wop.n, k)]
    /\ UNCHANGED net

\* The outstanding read finds the next segment of the stream.  The body of a
\* message larger than the buffer is read no further than the buffer.
ReadSegment(s) ==
    LET p   == Peer(s)
        seg == Head(conn[p].out)
        e   == conn[s]
    IN  /\ net = "up"
        /\ conn[p].out # <<>>
        /\ e.rop # "none"
        /\ conn' = [conn EXCEPT
              ![p].out = Tail(@),
              ![s] = IF e.rop = "header"
                     THEN Post([e EXCEPT !.rop = "none", !.hdr = seg],
                               Done("header", "ok", 1))
                     ELSE Post([e EXCEPT !.rop = "none", !.rbuf = seg],
                               Done("payload", "ok",
                                    IF e.hdr.msg \in BigMsgs THEN 0 ELSE 1))]
        /\ UNCHANGED net

\* The outstanding read finds the end of the stream, or a reset.
ReadFails(s, ec) ==
    /\ net = "up"
    /\ conn[s].rop # "none"
    /\ \/ ec = "eof" /\ ~conn[Peer(s)].open /\ conn[Peer(s)].out = <<>>
       \/ ec = "error" /\ Reset(s)
    /\ conn' = [conn EXCEPT ![s] = Post([@ EXCEPT !.rop = "none"], Done(@.rop, ec, 0))]
    /\ UNCHANGED net

\* A turn of the reactor: everything queued so far is handled before the next.
\* With x the timer has expired, and its wait is queued last.
Reactor(s, x) ==
    LET e == conn[s]
        q == IF x THEN Append(e.ready, Done("timer", "ok", 0)) ELSE e.ready
    IN  /\ e.batch = 0
        /\ q # <<>>
        /\ x => e.timer
        /\ x /\ s = "client" => Len(e.wq) < TimerBound
        /\ conn' = [conn EXCEPT ![s].ready = q,
                                ![s].batch = Len(q),
                                ![s].timer = @ /\ ~x]
        /\ UNCHANGED net

\* The hosts lose sight of each other: nothing that was not read arrives.
NetworkCut ==
    /\ MayCut
    /\ net = "up"
    /\ net' = "down"
    /\ UNCHANGED conn

-----------------------------------------------------------------------------
(***************************************************************************)
(* The io loop of side s runs the handler of its oldest completion.        *)
(***************************************************************************)

Runs(s, op) == conn[s].batch > 0 /\ Head(conn[s].ready).op = op
Popped(s) == [conn[s] EXCEPT !.ready = Tail(@), !.batch = @ - 1]
Oldest(s) == Head(conn[s].ready)

CanSend(s, n) ==
    /\ conn[s].nsent + n <= MaxSend[s]
    /\ Len(conn[s].wq) + n <= QueueBound

WhenHeaderReceived(s) ==
    /\ Runs(s, "header")
    /\ conn' = [conn EXCEPT ![s] = when_header_received(s, Popped(s), Oldest(s))]
    /\ UNCHANGED net

WhenPayloadReceived(s, r, k) ==
    /\ Runs(s, "payload")
    /\ r \in {"send", "send_close"} => CanSend(s, 1)
    /\ r = "send_twice" => CanSend(s, 2)
    /\ k \in WriteOutcomes(s)
    /\ conn' = [conn EXCEPT ![s] = when_payload_received(Popped(s), Oldest(s), r, k)]
    /\ UNCHANGED net

\* The continuation of a partly done async_write, inside boost.asio.
WriteContinues(s, k) ==
    /\ Runs(s, "write_some")
    /\ k \in WriteOutcomes(s)
    /\ conn' = [conn EXCEPT ![s] = write_some(Popped(s), @.wop.buf, @.wop.n, k)]
    /\ UNCHANGED net

WhenMessageSent(s, k) ==
    /\ Runs(s, "write")
    /\ k \in WriteOutcomes(s)
    /\ conn' = [conn EXCEPT ![s] = when_message_sent(Popped(s), Oldest(s), k)]
    /\ UNCHANGED net

WhenTimeout ==
    /\ Runs("server", "timer")
    /\ conn' = [conn EXCEPT !["server"] = when_timeout(Popped("server"), Oldest("server"))]
    /\ UNCHANGED net

SendAndReset(k) ==
    /\ Runs("client", "timer")
    /\ k \in WriteOutcomes("client")
    /\ conn' = [conn EXCEPT !["client"] =
                   send_and_reset(Popped("client"), Oldest("client"), k)]
    /\ UNCHANGED net

(***************************************************************************)
(* The upper layer, in a handler of another connection of the same loop:   *)
(* a broadcast sends on every connection, whichever one delivered.         *)
(***************************************************************************)
Send(s, k) ==
    /\ ~conn[s].threw
    /\ CanSend(s, 1)
    /\ k \in WriteOutcomes(s)
    /\ conn' = [conn EXCEPT ![s] = do_send_message(@, k)]
    /\ UNCHANGED net

Disconnect(s) ==
    /\ ~conn[s].threw
    /\ conn' = [conn EXCEPT ![s] = disconnect(@)]
    /\ UNCHANGED net

-----------------------------------------------------------------------------
Outcome == {"pending", "part", "all", "error"}

Init ==
    /\ conn = [s \in Side |-> NewConnection(s)]
    /\ net = "up"

\* One turn of the io loop of side s.
Loop(s) ==
    \/ WhenHeaderReceived(s)
    \/ \E k \in Outcome :
          \/ \E r \in Reply : WhenPayloadReceived(s, r, k)
          \/ WriteContinues(s, k)
          \/ WhenMessageSent(s, k)
    \/ s = "server" /\ WhenTimeout
    \/ s = "client" /\ \E k \in Outcome : SendAndReset(k)

Kernel(s) ==
    \/ \E k \in Outcome : WriteReady(s, k)
    \/ ReadSegment(s)
    \/ \E ec \in {"eof", "error"} : ReadFails(s, ec)
    \/ \E x \in BOOLEAN : Reactor(s, x)

Upper(s) ==
    \/ \E k \in Outcome : Send(s, k)
    \/ Disconnect(s)

Next ==
    \/ \E s \in Side : Loop(s) \/ Kernel(s) \/ Upper(s)
    \/ NetworkCut

Spec == Init /\ [][Next]_vars

(***************************************************************************)
(* Both io loops run and the kernel completes what it can.  The upper      *)
(* layers owe nothing, and the network need not fail.                      *)
(***************************************************************************)
Fairness ==
    \A s \in Side :
        /\ WF_vars(Loop(s) \/ Reactor(s, FALSE))
        /\ WF_vars(\E k \in Outcome : WriteReady(s, k))
        /\ WF_vars(ReadSegment(s) \/ \E ec \in {"eof", "error"} : ReadFails(s, ec))
        /\ WF_vars(Reactor(s, TRUE))

FairSpec == Spec /\ Fairness

-----------------------------------------------------------------------------
(***************************************************************************)
(* Properties                                                              *)
(***************************************************************************)

\* The completions of a read, of a write, of a part of a write, and of an
\* expired timer.
ReadDone == [op : {"header", "payload"}, ec : Ec, n : 0..2]
WriteDone == [op : {"write_some", "write"}, ec : Ec, n : 0..2]
Continuation == [op : {"write_some"}, ec : Ec, n : 0..2]
Expired == [op : {"timer"}, ec : Ec \ {"aborted"}, n : 0..2]

\* The positions in the io loop's queue q of completions in C.
Queued(q, C) == {i \in 1..Len(q) : q[i] \in C}
None(q, C) == Queued(q, C) = {}
AtMostOne(q, C) == \A i, j \in Queued(q, C) : i = j
Has(seq, x) == \E i \in 1..Len(seq) : seq[i] = x

\* "connection is singal thread read" (connection.hpp:19-21): _header_buffer and
\* _receive_buffer belong to one read from the moment it is started until its
\* handler has run, and an open connection never stops reading.
OneReader ==
    \A s \in Side : LET e == conn[s] IN
        /\ AtMostOne(e.ready, ReadDone)
        /\ e.rop # "none" => None(e.ready, ReadDone)
        /\ e.open => e.rop # "none" \/ ~None(e.ready, ReadDone)

\* One async_write at a time, and the buffers it was given stay in _write_queue
\* until its handler pops them: no write reads freed memory, and
\* when_message_sent never pops an empty queue.
WriteHeld ==
    \A s \in Side : LET e == conn[s] IN
        /\ AtMostOne(e.ready, WriteDone)
        /\ e.wop.st = "pending" => None(e.ready, WriteDone)
        /\ e.wop.st # "idle" => Has(e.wq, e.wop.buf)
        /\ ~None(e.ready, WriteDone) => e.wq # <<>>

\* No wakeup of the writer is lost: while the socket is open, a message in
\* _write_queue means that a write is outstanding or about to be handled.
WriterAlive ==
    \A s \in Side : LET e == conn[s] IN
        e.open /\ e.wq # <<>> => e.wop.st # "idle" \/ ~None(e.ready, WriteDone)

\* After connection_close no operation of the socket is outstanding and the
\* server's timeout timer is off: nothing keeps the io loop waiting.
ClosedIsQuiet ==
    \A s \in Side : LET e == conn[s] IN
        ~e.open => /\ e.rop = "none"
                   /\ e.wop.st # "pending"
                   /\ s = "server" => ~e.timer

\* The upper layer hears of each kind of failure at most once, although three
\* handlers can find the same connection broken one after the other.  Two kinds may
\* both be reported, a close and then a timeout.
EventsOnce ==
    \A s \in Side : \A i, j \in 1..Len(conn[s].events) :
        conn[s].events[i] = conn[s].events[j] => i = j

\* Once a connection is closed, or its end was reported, no message is delivered
\* on it, not even one that had completely arrived ("drop the msg if closed").
QuietAfterClose ==
    [][\A s \in Side :
          (~conn[s].open \/ conn[s].events # <<>>) => conn'[s].got = conn[s].got]_vars

\* Writes are never interleaved: a reader that expects the body of a message
\* finds the body of that message, and one that expects a header finds a header.
Framed ==
    \A s \in Side : LET e == conn[s]  in == conn[Peer(s)].out IN
        in # <<>> =>
            /\ e.rop = "header" => Head(in).kind = "header"
            /\ e.rop = "payload" => Head(in) = [kind |-> "payload", msg |-> e.hdr.msg]

\* The messages of one end reach the other in the order sent, each once.
InOrder ==
    \A s \in Side : \A i \in 1..Len(conn[s].got) : conn[s].got[i] = i

\* connection_close of the client stops the heartbeat: a closed connection
\* without completions left has no timer, and the io loop can return.
HeartbeatStops ==
    ~conn["client"].open /\ conn["client"].ready = <<>> => ~conn["client"].timer

-----------------------------------------------------------------------------
\* A message is delivered, unless the connection breaks.
Delivered ==
    \A s \in Side : \A m \in 1..MaxSend[s] :
        conn[s].nsent >= m ~> \/ Has(conn[Peer(s)].got, m)
                             \/ ~conn["server"].open
                             \/ ~conn["client"].open
                             \/ net = "down"

\* When one end closes, the other closes too, as long as the network is up.
CloseSpreads ==
    \A s \in Side : ~conn[s].open ~> (~conn[Peer(s)].open \/ net = "down")

\* A server with a heartbeat closes the connection to a host it cannot reach.
LostPeerDetected ==
    net = "down" ~> ~conn["server"].open

=============================================================================
