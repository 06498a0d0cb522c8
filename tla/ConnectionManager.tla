------------------------- MODULE ConnectionManager --------------------------
(***************************************************************************)
(* RealConnectionManager: the connections of one process by their ids.     *)
(* An operator takes and returns what a handler works on,                  *)
(*                                                                         *)
(*     m      the manager: holdings, next_id, and the callbacks that       *)
(*            new_connection binds to an id                                *)
(*     net    all connections, see Link                                    *)
(*     threw  the exception that ends the handler, or Nothing              *)
(*                                                                         *)
(* as the fields of a record w, which may have others.  A call after an    *)
(* exception does nothing: the handler is left.                            *)
(*                                                                         *)
(* A connection is reduced to what module Connection shows of one that     *)
(* neither end queues more than two messages on: a pair of FIFO streams    *)
(* with an end on each side.  Whoever uses the module keeps to that.       *)
(***************************************************************************)
EXTENDS Integers, Sequences

Side == {"client", "server"}
Other(side) == IF side = "client" THEN "server" ELSE "client"

Nothing == "nothing"
Exception == {Nothing, "refused", "exists", "null", "unexpected event"}

(***************************************************************************)
(* end    the socket of each side; the server's is in the backlog of its   *)
(*        acceptor at first, then in an accept handler that is queued      *)
(* to     to[s]: what is on its way to side s                              *)
(* late   late[s]: side s has written after the other had closed           *)
(* write  write[s]: "failed" when the handler of a write that failed is    *)
(*        queued, and "stuck" after it has run: the message stays in       *)
(*        _write_queue, and what is queued behind it is never written      *)
(***************************************************************************)
End == {"none", "backlog", "accepted", "open", "closed"}

Link(Msg) == [end   : [Side -> End],
              to    : [Side -> Seq(Msg)],
              late  : [Side -> BOOLEAN],
              write : [Side -> {"ok", "failed", "stuck"}]]

NoLink == [end   |-> [s \in Side |-> "none"],
           to    |-> [s \in Side |-> <<>>],
           late  |-> [s \in Side |-> FALSE],
           write |-> [s \in Side |-> "ok"]]

Throw(w, e) == IF w.threw = Nothing THEN [w EXCEPT !.threw = e] ELSE w

-----------------------------------------------------------------------------
(***************************************************************************)
(* Connection                                                              *)
(***************************************************************************)

\* What neither end can read any more is gone.
shut(k, side) ==
    IF k.end[side] = "none" THEN k
    ELSE IF k.end[Other(side)] = "closed"
    THEN [k EXCEPT !.end[side] = "closed", !.to = NoLink.to, !.late = NoLink.late]
    ELSE [k EXCEPT !.end[side] = "closed"]

connection_close(net, l, side) == [net EXCEPT ![l] = shut(@, side)]

\* An open socket takes the message, one of at most two in its direction.  A write
\* to one that is closed fails, unless the queue is stuck already.
do_send_message(net, l, side, msg) ==
    LET k == net[l]
    IN  IF k.end[side] = "open"
        THEN [net EXCEPT ![l].to[Other(side)] = Append(@, msg),
                         ![l].late[side] = @ \/ k.end[Other(side)] = "closed"]
        ELSE IF k.write[side] = "ok" THEN [net EXCEPT ![l].write[side] = "failed"]
        ELSE net

-----------------------------------------------------------------------------
(***************************************************************************)
(* RealConnectionManager                                                   *)
(***************************************************************************)

NewManager == [holdings |-> <<>>, next_id |-> 0, callback |-> <<>>]

Held(m) == DOMAIN m.holdings

Put(f, k, v) == [x \in DOMAIN f \cup {k} |-> IF x = k THEN v ELSE f[x]]

\* The Connection gets callbacks that are bound to its id, and starts to read.
hold_unbound(w, l, side, conn_id) ==
    [w EXCEPT !.m.holdings = Put(@, conn_id, l), !.m.callback = Put(@, l, 0),
              !.net[l].end[side] = "open"]

hold_elsewhere(w, l, side, conn_id) ==
    [w EXCEPT !.m.holdings = Put(@, conn_id + 1, l), !.m.callback = Put(@, l, conn_id),
              !.net[l].end[side] = "open"]

hold(w, l, side, conn_id) ==
    [w EXCEPT !.m.holdings = Put(@, conn_id, l), !.m.callback = Put(@, l, conn_id),
              !.net[l].end[side] = "open"]

\* A given id is taken, any negative one asks for the next.
assign_id(m, given_id) == IF given_id >= 0 THEN given_id ELSE m.next_id

new_connection_unchecked(w, l, side, given_id) ==
    IF w.threw # Nothing THEN w
    ELSE LET conn_id == assign_id(w.m, given_id)
         IN  hold([w EXCEPT !.m.next_id = conn_id + 1], l, side, conn_id)

\* When the id exists the socket that was passed in is dropped, which closes it.
new_connection(w, l, side, given_id) ==
    IF w.threw # Nothing THEN w
    ELSE LET conn_id == assign_id(w.m, given_id)
             next    == [w EXCEPT !.m.next_id = conn_id + 1]
         IN  IF conn_id \in Held(w.m)
             THEN Throw([next EXCEPT !.net = connection_close(@, l, side)], "exists")
             ELSE hold(next, l, side, conn_id)

\* holdings[conn_id]-> inserts and dereferences a null pointer when there is none.
manager_send(w, side, conn_id, msg) ==
    IF w.threw # Nothing THEN w
    ELSE IF conn_id \notin Held(w.m) THEN Throw(w, "null")
    ELSE [w EXCEPT !.net = do_send_message(@, w.m.holdings[conn_id], side, msg)]

manager_disconnect(w, side, conn_id) ==
    IF w.threw # Nothing THEN w
    ELSE IF conn_id \notin Held(w.m) THEN Throw(w, "null")
    ELSE [w EXCEPT !.net = connection_close(@, w.m.holdings[conn_id], side)]

=============================================================================
