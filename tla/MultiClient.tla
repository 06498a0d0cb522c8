----------------------------- MODULE MultiClient ------------------------------
(***************************************************************************)
(* Processes with many connections: MultiClients, each of which connects   *)
(* to the servers in its address book when it first sends to them, and     *)
(* AsyncServers, both over a RealConnectionManager.  Every process is the  *)
(* single thread of its io loop, so a handler is one action, calls up into *)
(* the upper layer and from there down again included.                     *)
(*                                                                         *)
(* Two pairs of upper layers are modelled, one of which a behaviour has    *)
(* from its first state on:                                                *)
(*                                                                         *)
(*   sort   SortMapReduceClient and SortMapReduceServer, the pair that     *)
(*          test/unit_test/network_test.cpp runs over these classes;       *)
(*   chat   clients that react to the start and to any answer with any     *)
(*          few sends and disconnects, and servers that answer each        *)
(*          message and may then disconnect, as the echo server and the    *)
(*          coordinator do.  Neither minds what events it gets.            *)
(*                                                                         *)
(* No upper layer makes more than QueueBound requests on an id, so that no *)
(* connection ever has more messages than that in either direction: the    *)
(* streams of ConnectionManager are faithful to connection.cpp up to there *)
(* and no further.                                                         *)
(***************************************************************************)
EXTENDS ConnectionManager, FiniteSets

CONSTANTS
    Client,    \* the processes with a MultiClient
    Server,    \* the processes with an AsyncServer
    Model,     \* which of the pairs of upper layers behaviours have
    address_book,  \* address_book[i]: the server under the id i, for every client
    MaxSend,   \* bound: MaxSend[c] messages are sent by c as a chat client
    Mortal     \* the processes that may die

VARIABLES
    model,   \* the upper layers
    cl,      \* cl[c]: the MultiClient of c and its upper layer
    sv,      \* sv[s]: the AsyncServer of s and its upper layer
    net      \* net[l]: the connections

vars == <<model, cl, sv, net>>

\* Bound: the requests of a client on one id.  With three messages in its queue a
\* connection writes the wrong one (connection.cpp:149; run MCConnectionOrder).
QueueBound == 2

nreduce == Cardinality(Server)
Id == DOMAIN address_book

\* Every id stands for a server.  The test has a client, a server and an id for each
\* of the numbers below nreduce, and the ids are those of as many servers.
MultiClientAssumption ==
    /\ IsFiniteSet(Server)
    /\ Id \subseteq Nat
    /\ \A i \in Id : address_book[i] \in Server
    /\ "sort" \in Model =>
          /\ Server # {}
          /\ Id = 0..(nreduce - 1)
          /\ \A i, j \in Id : address_book[i] = address_book[j] => i = j
          /\ IsFiniteSet(Client) /\ Cardinality(Client) = nreduce

ASSUME MultiClientAssumption

(***************************************************************************)
(* A connection is named by the client, the id it connects to, and whether *)
(* it is its first attempt with that id or the second; there is no third.  *)
(***************************************************************************)
ConnName == Client \X Id \X {1, 2}

None == "none"
Msg == [client : Client, id : Id, n : Nat, by : Server \cup {None}]

Request(c, i, n) == [client |-> c, id |-> i, n |-> n, by |-> None]
Reply(s, m) == [m EXCEPT !.by = s]

State == {"posted", "running", "crashed"} \cup (Exception \ {Nothing})

NewClient ==
    [m |-> NewManager, established |-> {}, st |-> "posted", nsent |-> 0,
     asked |-> [i \in Id |-> <<>>], answered |-> [i \in Id |-> <<>>],
     told |-> {}, reset |-> {}, finished |-> 0, next_dest |-> 0]

NewServer ==
    [m |-> NewManager, listening |-> TRUE, accepting |-> TRUE, st |-> "running",
     numbers |-> <<>>, stored |-> FALSE]

Init ==
    /\ model \in Model
    /\ cl = [c \in Client |-> NewClient]
    /\ sv = [s \in Server |-> NewServer]
    /\ net = [l \in ConnName |-> NoLink]

ManagerType(m, ids, names) ==
    /\ Held(m) \subseteq ids
    /\ m.next_id \in Nat
    /\ DOMAIN m.callback \subseteq names
    /\ \A i \in Held(m) : m.holdings[i] \in names
    /\ \A l \in DOMAIN m.callback : m.callback[l] \in ids

TypeOK ==
    /\ model \in Model
    /\ \A c \in Client :
          /\ ManagerType(cl[c].m, Id, ConnName)
          /\ cl[c].established \subseteq Id
          /\ cl[c].st \in State
          /\ cl[c].finished \in 0..nreduce
    /\ \A s \in Server :
          /\ ManagerType(sv[s].m, Nat, ConnName)
          /\ sv[s].listening \in BOOLEAN
          /\ sv[s].accepting \in BOOLEAN
          /\ sv[s].st \in State
          /\ sv[s].stored \in BOOLEAN
    /\ net \in [ConnName -> Link(Msg)]

-----------------------------------------------------------------------------
(***************************************************************************)
(* MultiClient.  w has the fields of cl[c] besides those that the manager  *)
(* works on.                                                               *)
(***************************************************************************)

Attempt(w, c, i) ==
    <<c, i, IF w.net[<<c, i, 1>>].end["client"] = "none" THEN 1 ELSE 2>>

\* try_resolve and try_connect: the kernel puts the connection into the backlog of
\* the server's acceptor, or refuses it.
try_connect(w, c, i, l) ==
    IF sv[address_book[i]].listening
    THEN [w EXCEPT !.net[l].end = [client |-> "open", server |-> "backlog"]]
    ELSE Throw(w, "refused")

do_connect(w, c, i) ==
    LET l  == Attempt(w, c, i)
        w2 == new_connection(try_connect(w, c, i, l), l, "client", i)
    IN  IF w2.threw = Nothing THEN [w2 EXCEPT !.established = @ \cup {i}] ELSE w2

send(w, c, i, msg) ==
    manager_send(IF i \in w.established THEN w ELSE do_connect(w, c, i),
                 "client", i, msg)

disconnect(w, i) ==
    LET w2 == manager_disconnect(w, "client", i)
    IN  IF w2.threw = Nothing THEN [w2 EXCEPT !.established = @ \ {i}] ELSE w2

-----------------------------------------------------------------------------
(***************************************************************************)
(* The upper layer of a client.                                            *)
(***************************************************************************)

Ask(w, c, i) ==
    LET msg == Request(c, i, w.nsent + 1)
        w2  == send(w, c, i, msg)
    IN  IF w2.threw = Nothing
        THEN [w2 EXCEPT !.nsent = @ + 1, !.asked[i] = Append(@, msg)]
        ELSE w2

\* SortMapReduceClient: the next chunk goes to the next server.
fetch_and_send_stays(w, c) ==
    [Ask(w, c, w.next_dest) EXCEPT !.finished = @ + 1]

fetch_and_send(w, c) ==
    [Ask([w EXCEPT !.next_dest = @ + 1], c, w.next_dest) EXCEPT !.finished = @ + 1]

sort_logic(w, c, i) ==
    LET w2 == disconnect(w, i)
    IN  IF w2.threw = Nothing /\ w2.finished # nreduce THEN fetch_and_send(w2, c) ELSE w2

\* A chat client uses an id to disconnect only after it has sent to it.
Call == {<<"send", i>> : i \in Id} \cup {<<"disconnect", i>> : i \in Id}

MayCall(w, c, call) ==
    IF call[1] = "send"
    THEN w.nsent < MaxSend[c] /\ Len(w.asked[call[2]]) < QueueBound
    ELSE w.asked[call[2]] # <<>>

Perform(w, c, call) ==
    IF call[1] = "send" THEN Ask(w, c, call[2]) ELSE disconnect(w, call[2])

One(w, c) ==
    {w} \cup {Perform(w, c, call) :
                 call \in {k \in Call : w.threw = Nothing /\ MayCall(w, c, k)}}

\* What a chat client may leave behind: at most three calls.
Reactions(w, c) ==
    LET Two == UNION {One(v, c) : v \in One(w, c)}
    IN  UNION {One(v, c) : v \in Two}

-----------------------------------------------------------------------------
(***************************************************************************)
(* The io loop of a client.                                                *)
(***************************************************************************)

\* The process is gone: the kernel closes its sockets.
CloseAll(n, names, side) ==
    [l \in ConnName |-> IF l \in names THEN shut(n[l], side) ELSE n[l]]

Of(c) == {l \in ConnName : l[1] = c}
With(s) == {l \in ConnName : address_book[l[2]] = s}

ClientWork(c) ==
    [net |-> net, threw |-> Nothing, m |-> cl[c].m, established |-> cl[c].established,
     nsent |-> cl[c].nsent, asked |-> cl[c].asked, answered |-> cl[c].answered,
     told |-> cl[c].told, reset |-> cl[c].reset, finished |-> cl[c].finished,
     next_dest |-> cl[c].next_dest, st |-> "running"]

\* What the handler has left, or the end of a process that lets an exception out of
\* its io loop.
ClientReturns(c, w) ==
    /\ cl' = [cl EXCEPT ![c] =
                 [m |-> w.m, established |-> w.established, nsent |-> w.nsent,
                  asked |-> w.asked, answered |-> w.answered, told |-> w.told,
                  reset |-> w.reset, finished |-> w.finished, next_dest |-> w.next_dest,
                  st |-> IF w.threw = Nothing THEN w.st ELSE w.threw]]
    /\ net' = IF w.threw = Nothing THEN w.net ELSE CloseAll(w.net, Of(c), "client")
    /\ UNCHANGED <<model, sv>>

\* MultiClient::start has posted the event.
StartEvent(c) ==
    /\ cl[c].st = "posted"
    /\ LET w == ClientWork(c)
       IN  \/ model = "sort" /\ ClientReturns(c, fetch_and_send(w, c))
           \/ model = "chat" /\ \E v \in Reactions(w, c) : ClientReturns(c, v)

Running(c, l) == l[1] = c /\ cl[c].st = "running" /\ net[l].end["client"] = "open"

\* An answer is read and goes up with the id that its connection is bound to.
ClientReceive(c, l) ==
    /\ Running(c, l)
    /\ net[l].to["client"] # <<>>
    /\ LET i == cl[c].m.callback[l]
           r == ClientWork(c)
           w == [r EXCEPT !.net[l].to["client"] = Tail(@),
                          !.answered[i] = Append(@, Head(net[l].to["client"]))]
       IN  \/ model = "sort" /\ ClientReturns(c, sort_logic(w, c, i))
           \/ model = "chat" /\ \E v \in Reactions(w, c) : ClientReturns(c, v)

\* The event of connection l goes up, where SortMapReduceClient knows the start only.
ClientEvent_swallowed(w, l) == w

ClientEvent(w, l) ==
    IF model = "sort" THEN Throw(w, "unexpected event")
    ELSE [w EXCEPT !.told = @ \cup {w.m.callback[l]}]

\* A chat client may make calls when it is told.
ClientReports(c, w, l) ==
    LET v == ClientEvent(w, l)
    IN  \E u \in IF model = "sort" THEN {v} ELSE Reactions(v, c) : ClientReturns(c, u)

ClientCloses(c, l) ==
    [ClientWork(c) EXCEPT !.net = connection_close(@, l, "client")]

\* handle_eof: what the server sent before it closed has been read.
Eof(l, side) ==
    /\ net[l].end[Other(side)] = "closed"
    /\ net[l].to[side] = <<>>

\* The other end closed with something unread, or was never accepted.
Reset(l, side) ==
    /\ net[l].end[Other(side)] = "closed"
    /\ net[l].to[Other(side)] # <<>> \/ net[l].to[side] = <<>>

\* A write fails that finds its own socket closed, or the connection reset.
WriteFails(l, side) ==
    \/ net[l].write[side] = "failed"
    \/ /\ net[l].write[side] = "ok"
       /\ net[l].end[side] = "open"
       /\ net[l].end[Other(side)] = "closed"
       /\ net[l].late[side]
       /\ Len(net[l].to[Other(side)]) >= 2

ClientEof(c, l) ==
    /\ Running(c, l)
    /\ Eof(l, "client")
    /\ ClientReports(c, ClientCloses(c, l), l)

\* A read error closes the connection, and no event tells the upper layer.
ClientReset(c, l) ==
    /\ Running(c, l)
    /\ Reset(l, "client")
    /\ LET w == ClientCloses(c, l)
       IN  ClientReturns(c, [w EXCEPT !.reset = @ \cup {w.m.callback[l]}])

ClientPipe(c, l) ==
    /\ l[1] = c
    /\ cl[c].st = "running"
    /\ WriteFails(l, "client")
    /\ LET w == [ClientCloses(c, l) EXCEPT !.net[l].write["client"] = "stuck"]
       IN  ClientReports(c, w, l)

ClientCrash(c) ==
    /\ c \in Mortal
    /\ cl[c].st \in {"posted", "running"}
    /\ cl' = [cl EXCEPT ![c].st = "crashed"]
    /\ net' = CloseAll(net, Of(c), "client")
    /\ UNCHANGED <<model, sv>>

-----------------------------------------------------------------------------
(***************************************************************************)
(* The io loop of a server.                                                *)
(***************************************************************************)

ServerWork(s) ==
    [net |-> net, threw |-> Nothing, m |-> sv[s].m, listening |-> sv[s].listening,
     accepting |-> sv[s].accepting, numbers |-> sv[s].numbers, stored |-> sv[s].stored]

\* When the process goes, what its acceptor has not handed over is reset.
ServerReturns(s, w) ==
    /\ sv' = [sv EXCEPT ![s] =
                 [m |-> w.m, listening |-> w.listening /\ w.threw = Nothing,
                  accepting |-> w.accepting /\ w.threw = Nothing,
                  numbers |-> w.numbers, stored |-> w.stored,
                  st |-> IF w.threw = Nothing THEN "running" ELSE w.threw]]
    /\ net' = IF w.threw = Nothing THEN w.net ELSE CloseAll(w.net, With(s), "server")
    /\ UNCHANGED <<model, cl>>

\* The outstanding async_accept completes.
Accepted(s, l) ==
    /\ sv[s].st = "running"
    /\ sv[s].accepting
    /\ l \in With(s)
    /\ net[l].end["server"] = "backlog"
    /\ net' = [net EXCEPT ![l].end["server"] = "accepted"]
    /\ sv' = [sv EXCEPT ![s].accepting = FALSE]
    /\ UNCHANGED <<model, cl>>

do_accept_once(w) == w

do_accept(w) == [w EXCEPT !.accepting = w.listening]

when_accept(s, l) ==
    /\ sv[s].st = "running"
    /\ l \in With(s)
    /\ net[l].end["server"] = "accepted"
    /\ ServerReturns(s, do_accept(new_connection(ServerWork(s), l, "server", -1)))

\* stop: the acceptor closes, and with it what waits in its backlog.
stop(w, s) ==
    [w EXCEPT !.listening = FALSE, !.accepting = FALSE,
              !.net = [l \in ConnName |->
                          IF l \in With(s) /\ w.net[l].end["server"] = "backlog"
                          THEN shut(w.net[l], "server")
                          ELSE w.net[l]]]

\* SortMapReduceServer: a chunk from every client makes the result.
sort_server_logic(w, s, i, msg) ==
    LET w2 == manager_send([w EXCEPT !.numbers = Append(@, msg)], "server", i, Reply(s, msg))
    IN  IF w2.threw = Nothing /\ Len(w2.numbers) = nreduce
        THEN [stop(w2, s) EXCEPT !.stored = TRUE]
        ELSE w2

ServerOpen(s, l) == l \in With(s) /\ sv[s].st = "running" /\ net[l].end["server"] = "open"

ServerReceive(s, l) ==
    /\ ServerOpen(s, l)
    /\ net[l].to["server"] # <<>>
    /\ LET i   == sv[s].m.callback[l]
           msg == Head(net[l].to["server"])
           w   == [ServerWork(s) EXCEPT !.net[l].to["server"] = Tail(@)]
           w2  == manager_send(w, "server", i, Reply(s, msg))
       IN  \/ model = "sort" /\ ServerReturns(s, sort_server_logic(w, s, i, msg))
           \/ model = "chat" /\ ServerReturns(s, w2)
           \/ model = "chat" /\ ServerReturns(s, manager_disconnect(w2, "server", i))

ServerCloses(s, l) ==
    [ServerWork(s) EXCEPT !.net = connection_close(@, l, "server")]

\* Either server takes a close; SortMapReduceServer takes nothing else.
ServerEof(s, l) ==
    /\ ServerOpen(s, l)
    /\ Eof(l, "server")
    /\ ServerReturns(s, ServerCloses(s, l))

ServerReset(s, l) ==
    /\ ServerOpen(s, l)
    /\ Reset(l, "server")
    /\ ServerReturns(s, ServerCloses(s, l))

ServerPipe(s, l) ==
    /\ l \in With(s)
    /\ sv[s].st = "running"
    /\ WriteFails(l, "server")
    /\ LET w == [ServerCloses(s, l) EXCEPT !.net[l].write["server"] = "stuck"]
       IN  ServerReturns(s, IF model = "sort" THEN Throw(w, "unexpected event") ELSE w)

ServerCrash(s) ==
    /\ s \in Mortal
    /\ sv[s].st = "running"
    /\ sv' = [sv EXCEPT ![s].st = "crashed", ![s].listening = FALSE, ![s].accepting = FALSE]
    /\ net' = CloseAll(net, With(s), "server")
    /\ UNCHANGED <<model, cl>>

-----------------------------------------------------------------------------
ClientLoop(c) ==
    \/ StartEvent(c)
    \/ \E l \in ConnName : \/ ClientReceive(c, l)
                           \/ ClientEof(c, l)
                           \/ ClientReset(c, l)
                           \/ ClientPipe(c, l)

ServerLoop(s) ==
    \E l \in ConnName : \/ when_accept(s, l)
                        \/ ServerReceive(s, l)
                        \/ ServerEof(s, l)
                        \/ ServerReset(s, l)
                        \/ ServerPipe(s, l)

Next ==
    \/ \E c \in Client : ClientLoop(c) \/ ClientCrash(c)
    \/ \E s \in Server : \/ ServerLoop(s)
                         \/ \E l \in ConnName : Accepted(s, l)
                         \/ ServerCrash(s)

Spec == Init /\ [][Next]_vars

(***************************************************************************)
(* The kernel serves the acceptors, and the processes do not all rest      *)
(* while the io loop of one has a handler queued.  The second is weak      *)
(* fairness of the loops taken together, with ENABLED spelled out.  It is  *)
(* less than a scheduler gives every process, and enough: a process        *)
(* crashes once, and what the upper layers send is bounded.                *)
(***************************************************************************)
ClientReady(c) ==
    \/ cl[c].st = "posted"
    \/ cl[c].st = "running" /\ \E l \in Of(c) :
          \/ WriteFails(l, "client")
          \/ /\ net[l].end["client"] = "open"
             /\ net[l].to["client"] # <<>> \/ net[l].end["server"] = "closed"

ServerReady(s) ==
    sv[s].st = "running" /\ \E l \in With(s) :
        \/ net[l].end["server"] = "accepted"
        \/ WriteFails(l, "server")
        \/ /\ net[l].end["server"] = "open"
           /\ net[l].to["server"] # <<>> \/ net[l].end["client"] = "closed"

Ready == (\E c \in Client : ClientReady(c)) \/ (\E s \in Server : ServerReady(s))

Fairness ==
    /\ WF_vars(\E s \in Server : \E l \in ConnName : Accepted(s, l))
    /\ []<>~Ready \/ []<><<TRUE>>_vars

FairSpec == Spec /\ Fairness

-----------------------------------------------------------------------------
(***************************************************************************)
(* Properties                                                              *)
(***************************************************************************)

\* The books of a manager agree: an id is held for the connection whose callbacks
\* are bound to it, at a server ids are given out from 0 on without a gap, and a
\* client has lost no connection: one whose id is not established is closed, so
\* the next send to that id cannot leave a first connection open behind it.  The
\* types are part of it: ids stay in the address book.
BooksAgree ==
    /\ TypeOK
    /\ \A c \in Client : LET m == cl[c].m IN
          /\ \A i \in Held(m) : m.callback[m.holdings[i]] = i
          /\ cl[c].established \subseteq Held(m)
          /\ \A i \in Held(m) \ cl[c].established :
                net[m.holdings[i]].end["client"] = "closed"
    /\ \A s \in Server : LET m == sv[s].m IN
          /\ \A i \in Held(m) : m.callback[m.holdings[i]] = i
          /\ \A l \in With(s) : net[l].end["server"] = "open" =>
                \E i \in Held(m) : m.holdings[i] = l
          /\ Held(m) = 0..(m.next_id - 1)

\* No call reaches an id that holdings does not have, where operator[] would make
\* a null pointer, as long as upper layers use the ids that they have sent to or
\* that came up with a message.
NoNullPointer ==
    /\ \A c \in Client : cl[c].st # "null"
    /\ \A s \in Server : sv[s].st # "null"

NobodyCrashed ==
    /\ \A c \in Client : cl[c].st # "crashed"
    /\ \A s \in Server : sv[s].st # "crashed"

\* SortMapReduceClient throws on any event, SortMapReduceServer on all but a close,
\* and both when a connection is refused or an id used again: as long as nobody
\* crashes, none of that happens, however the processes are scheduled.  Whoever
\* crashes, a server has stored its result only when it has the chunk of every client.
SortRunsClean ==
    /\ model = "sort" /\ NobodyCrashed =>
          /\ \A c \in Client : cl[c].st \in {"posted", "running"}
          /\ \A s \in Server : sv[s].st = "running"
    /\ \A s \in Server : sv[s].stored =>
          {sv[s].numbers[k].client : k \in DOMAIN sv[s].numbers} = Client

\* What the upper layers of a client see is an exchange of requests and answers:
\* on each id the answers come from the server that the address book has there,
\* one for each request and in their order.  No answer is taken for that to another
\* request, even when ids are used again after a disconnect.
asked == [c \in Client |-> cl[c].asked]
answered == [c \in Client |-> cl[c].answered]

Exchange == INSTANCE Exchange WITH Answer <- [i \in Id |-> [m \in Msg |-> Reply(address_book[i], m)]]

ExchangeSpec == Exchange!Spec

\* In the end, when the clients have asked all that they want to, no request is left
\* without its answer, unless the client disconnected or died first, or the connection
\* was lost.  Of that an event tells it, except in one case: a read error closes the
\* connection silently (connection.cpp:56).
Excused(c, i) ==
    \/ cl[c].st # "running"
    \/ i \notin cl[c].established
    \/ i \in cl[c].told \cup cl[c].reset

Answered ==
    <>[](\A c \in Client : \A i \in Id :
            Len(asked[c][i]) = Len(answered[c][i]) \/ Excused(c, i))

\* Every server gets to its result and every connection is closed again, after
\* which the io loops of all processes are out of work and return.
SortDone ==
    model = "sort" ~>
        \/ ~NobodyCrashed
        \/ /\ \A s \in Server : sv[s].stored
           /\ \A l \in ConnName : \A side \in Side :
                 net[l].end[side] \in {"none", "closed"}

=============================================================================
