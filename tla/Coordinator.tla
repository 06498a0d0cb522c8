---------------------------- MODULE Coordinator -----------------------------
(***************************************************************************)
(* The start of a computation: CoordinatorServer, the worker processes     *)
(* that connect to it (WorkerDeamon), the acceptor that lets them in       *)
(* (AsyncServer) and the client end of their connections (AsyncClient).    *)
(*                                                                         *)
(* A connection is named by the worker process at its other end: every     *)
(* process makes one.  It is a pair of FIFO streams, which is what module  *)
(* Connection shows of a connection on which no end has more than two      *)
(* messages queued; here no end ever sends more.  The server and the       *)
(* clients run without heartbeats, as the coordinator's do.                *)
(***************************************************************************)
EXTENDS Naturals, Sequences, FiniteSets

CONSTANTS
    Worker,    \* the processes that may try to connect
    Cookie,    \* the cookies drawn by the coordinator, one for each place
    cookieOf,  \* cookieOf[w]: the cookie that w was started with
    Default,   \* a WorkerInfo without an address
    MayCrash   \* whether processes may die

\* worker_size of the CoordinatorServer; a host file has at least one entry.
worker_num == Cardinality(Cookie)

ASSUME CoordinatorAssumption ==
    /\ IsFiniteSet(Cookie)
    /\ Cookie # {}
    /\ Default \notin Worker
    /\ MayCrash \in BOOLEAN

VARIABLES
    cstate,       \* current_state of the CoordinatorServer
    cookies,      \* cookies that no worker has presented yet
    worker_info,  \* WorkerInfo of the registered workers; its domain is also that
                  \* of the map workers, which is assigned together with it
    listening,    \* the acceptor is open
    accepting,    \* an async_accept is outstanding
    conn,         \* conn[w]: the server's end of w's connection
    toC, toW,     \* toC[w], toW[w]: messages on their way from and to w
    wstate,       \* wstate[w]: current_state of w's WorkerDeamon
    wopen,        \* wopen[w]: the client's end of w's connection is open
    peers         \* peers[w]: the addresses w has received

server == <<cstate, cookies, worker_info, listening, accepting>>
worker == <<wstate, wopen, peers>>
vars == <<cstate, cookies, worker_info, listening, accepting, conn, toC, toW,
          wstate, wopen, peers>>

\* The data server of w listens where only w does: w stands for its address.
Info == Worker \cup {Default}
InfoMap == UNION {[S -> Info] : S \in SUBSET Worker}
NoPeers == [w \in {} |-> Default]

Firsconnection(w) == [firstcookie |-> cookieOf[w]]
FirsconnectionOK == [type |-> "firstconnectionok", info |-> NoPeers]
WorkerInfoMap(m) == [type |-> "peersinfo", info |-> m]

FirstMsg == {Firsconnection(w) : w \in Worker}
CoordMsg == [type : {"firstconnectionok", "peersinfo"}, info : InfoMap]

registered == DOMAIN worker_info

TypeOK ==
    /\ cstate \in {"firstconnection", "peersinfo", "crashed"}
    /\ cookies \subseteq Cookie
    /\ worker_info \in InfoMap
    /\ listening \in BOOLEAN
    /\ accepting \in BOOLEAN
    /\ conn \in [Worker -> {"none", "backlog", "accepted", "open", "closed"}]
    /\ toC \in [Worker -> Seq(FirstMsg)]
    /\ toW \in [Worker -> Seq(CoordMsg)]
    /\ wstate \in [Worker -> {"off", "connected", "firstconnection_ok",
                              "recv_worker_info", "finished", "refused",
                              "failed", "crashed"}]
    /\ wopen \in [Worker -> BOOLEAN]
    /\ peers \in [Worker -> InfoMap]

Init ==
    /\ cstate = "firstconnection"
    /\ cookies = Cookie
    /\ worker_info = NoPeers
    /\ listening = TRUE
    /\ accepting = TRUE
    /\ conn = [w \in Worker |-> "none"]
    /\ toC = [w \in Worker |-> <<>>]
    /\ toW = [w \in Worker |-> <<>>]
    /\ wstate = [w \in Worker |-> "off"]
    /\ wopen = [w \in Worker |-> FALSE]
    /\ peers = [w \in Worker |-> NoPeers]

-----------------------------------------------------------------------------
(***************************************************************************)
(* The worker process.  Definitions with a suffix, here and below, are     *)
(* slips that the code does not make; the properties are tested against    *)
(* them.                                                                   *)
(***************************************************************************)

\* The constructor of AsyncClient connects, or throws and ends the process.
Connect(w) ==
    /\ wstate[w] = "off"
    /\ IF listening
       THEN /\ wstate' = [wstate EXCEPT ![w] = "connected"]
            /\ wopen' = [wopen EXCEPT ![w] = TRUE]
            /\ conn' = [conn EXCEPT ![w] = "backlog"]
       ELSE /\ wstate' = [wstate EXCEPT ![w] = "refused"]
            /\ UNCHANGED <<wopen, conn>>
    /\ UNCHANGED <<server, toC, toW, peers>>

\* RunClient: the first message of the worker.
init_logic(w) ==
    /\ wstate[w] = "connected"
    /\ wstate' = [wstate EXCEPT ![w] = "firstconnection_ok"]
    /\ toC' = [toC EXCEPT ![w] = Append(@, Firsconnection(w))]
    /\ UNCHANGED <<server, conn, toW, wopen, peers>>

\* assert_message_type and from_buffer throw when the type is another one.
unexpected(w) ==
    /\ wstate' = [wstate EXCEPT ![w] = "failed"]
    /\ wopen' = [wopen EXCEPT ![w] = FALSE]
    /\ UNCHANGED peers

firstconnection_ok(w, m) ==
    IF m.type = "firstconnectionok"
    THEN /\ wstate' = [wstate EXCEPT ![w] = "recv_worker_info"]
         /\ UNCHANGED <<wopen, peers>>
    ELSE unexpected(w)

recv_worker_info_stays(w, m) ==
    IF m.type = "peersinfo"
    THEN /\ peers' = [peers EXCEPT ![w] = m.info]
         /\ wstate' = [wstate EXCEPT ![w] = "finished"]
         /\ UNCHANGED wopen
    ELSE unexpected(w)

recv_worker_info(w, m) ==
    IF m.type = "peersinfo"
    THEN /\ peers' = [peers EXCEPT ![w] = m.info]
         /\ wstate' = [wstate EXCEPT ![w] = "finished"]
         /\ wopen' = [wopen EXCEPT ![w] = FALSE]      \* disconnect
    ELSE unexpected(w)

\* A message reaches the worker's state machine.
WorkerLogic(w) ==
    /\ wopen[w]
    /\ toW[w] # <<>>
    /\ toW' = [toW EXCEPT ![w] = Tail(@)]
    /\ \/ wstate[w] = "firstconnection_ok" /\ firstconnection_ok(w, Head(toW[w]))
       \/ wstate[w] = "recv_worker_info" /\ recv_worker_info(w, Head(toW[w]))
    /\ UNCHANGED <<server, conn, toC>>

WorkerLosesConnection_eof(w) ==
    /\ wopen[w]
    /\ wstate[w] # "connected"
    /\ conn[w] = "closed"
    /\ toW[w] = <<>> /\ toC[w] = <<>>
    /\ wopen' = [wopen EXCEPT ![w] = FALSE]
    /\ UNCHANGED <<server, conn, toC, toW, wstate, peers>>

\* End of the stream, or a reset: the connection closes, the event is ignored.
WorkerLosesConnection(w) ==
    /\ wopen[w]
    /\ wstate[w] # "connected"
    /\ conn[w] = "closed"
    /\ toW[w] = <<>> \/ toC[w] # <<>>
    /\ wopen' = [wopen EXCEPT ![w] = FALSE]
    /\ UNCHANGED <<server, conn, toC, toW, wstate, peers>>

WorkerCrash(w) ==
    /\ MayCrash
    /\ wopen[w]
    /\ wstate' = [wstate EXCEPT ![w] = "crashed"]
    /\ wopen' = [wopen EXCEPT ![w] = FALSE]
    /\ UNCHANGED <<server, conn, toC, toW, peers>>

-----------------------------------------------------------------------------
(***************************************************************************)
(* AsyncServer                                                             *)
(***************************************************************************)

\* The kernel has a connection for the outstanding async_accept: its handler
\* is queued.
Accepted(w) ==
    /\ accepting
    /\ conn[w] = "backlog"
    /\ conn' = [conn EXCEPT ![w] = "accepted"]
    /\ accepting' = FALSE
    /\ UNCHANGED <<cstate, cookies, worker_info, listening, toC, toW, worker>>

when_accept_once(w) ==
    /\ conn[w] = "accepted"
    /\ conn' = [conn EXCEPT ![w] = "open"]
    /\ UNCHANGED <<cstate, cookies, worker_info, listening, accepting, toC, toW, worker>>

\* new_connection, then do_accept, which fails when the acceptor was closed in
\* the meantime.
when_accept(w) ==
    /\ conn[w] = "accepted"
    /\ conn' = [conn EXCEPT ![w] = "open"]
    /\ accepting' = listening
    /\ UNCHANGED <<cstate, cookies, worker_info, listening, toC, toW, worker>>

\* The acceptor closes: the kernel resets what it had not handed over.  A
\* handler that is queued already still runs.
stop ==
    /\ listening' = FALSE
    /\ accepting' = FALSE

dropBacklog(c) == [w \in Worker |-> IF c[w] = "backlog" THEN "closed" ELSE c[w]]

-----------------------------------------------------------------------------
(***************************************************************************)
(* CoordinatorServer                                                       *)
(***************************************************************************)

erase_nothing(cs, c) == cs

erase(cs, c) == cs \ {c}

\* The message carries the cookie only: the WorkerInfo stays as constructed.
from_buffer(m) == [firstcookie |-> m.firstcookie, worker_info |-> Default]

\* send on the connections of S; on one that is closed the write just fails.
send(S, q, m) ==
    [w \in Worker |-> IF w \in S /\ conn[w] = "open" THEN Append(q[w], m) ELSE q[w]]

all_registered_early(info) == Cardinality(DOMAIN info) + 1 >= worker_num

all_registered(info) == Cardinality(DOMAIN info) = worker_num

accept_first_silent(w, q) == q

\* The answer to the worker that just registered, before any broadcast.
accept_first(w, q) == send({w}, q, FirsconnectionOK)

firstconnection(w, f) ==
    LET legal == f.firstcookie \in cookies
        info  == IF legal
                 THEN [v \in registered \cup {w} |->
                          IF v = w THEN f.worker_info ELSE worker_info[v]]
                 ELSE worker_info
        q     == IF legal THEN accept_first(w, toW) ELSE toW
        c     == IF legal THEN conn ELSE [conn EXCEPT ![w] = "closed"]
    IN  /\ cookies' = IF legal THEN erase(cookies, f.firstcookie) ELSE cookies
        /\ worker_info' = info
        /\ IF all_registered(info)
           THEN /\ cstate' = "peersinfo"
                /\ toW' = send(DOMAIN info, q, WorkerInfoMap(info))
                /\ conn' = dropBacklog(c)
                /\ stop
           ELSE /\ toW' = q
                /\ conn' = c
                /\ UNCHANGED <<cstate, listening, accepting>>

\* Every message is ignored.
peersinfo(w) == UNCHANGED <<server, conn, toW>>

\* A message reaches the coordinator's state machine.
CoordinatorLogic(w) ==
    /\ conn[w] = "open"
    /\ toC[w] # <<>>
    /\ toC' = [toC EXCEPT ![w] = Tail(@)]
    /\ \/ cstate = "firstconnection" /\ firstconnection(w, from_buffer(Head(toC[w])))
       \/ cstate = "peersinfo" /\ peersinfo(w)
    /\ UNCHANGED worker

\* End of the stream, or a reset because the worker died without reading.
CoordinatorLosesConnection(w) ==
    /\ conn[w] = "open"
    /\ wstate[w] # "off"
    /\ ~wopen[w]
    /\ toC[w] = <<>> \/ toW[w] # <<>>
    /\ conn' = [conn EXCEPT ![w] = "closed"]
    /\ UNCHANGED <<server, toC, toW, worker>>

CoordinatorCrash ==
    /\ MayCrash
    /\ cstate # "crashed"
    /\ cstate' = "crashed"
    /\ listening' = FALSE
    /\ accepting' = FALSE
    /\ conn' = [w \in Worker |-> IF conn[w] = "none" THEN "none" ELSE "closed"]
    /\ UNCHANGED <<cookies, worker_info, toC, toW, worker>>

-----------------------------------------------------------------------------
WorkerLoop(w) == init_logic(w) \/ WorkerLogic(w) \/ WorkerLosesConnection(w)

CoordinatorLoop(w) ==
    when_accept(w) \/ CoordinatorLogic(w) \/ CoordinatorLosesConnection(w)

Next ==
    \/ \E w \in Worker : \/ Connect(w)
                         \/ WorkerLoop(w)
                         \/ WorkerCrash(w)
                         \/ Accepted(w)
                         \/ CoordinatorLoop(w)
    \/ CoordinatorCrash

Spec == Init /\ [][Next]_vars

(***************************************************************************)
(* The io loops handle what is queued and the kernel serves the acceptor's *)
(* backlog.  Nobody is obliged to start a worker.                          *)
(***************************************************************************)
Fairness ==
    /\ WF_vars(\E w \in Worker : Accepted(w))
    /\ \A w \in Worker : /\ WF_vars(WorkerLoop(w))
                         /\ WF_vars(CoordinatorLoop(w))

FairSpec == Spec /\ Fairness

-----------------------------------------------------------------------------
(***************************************************************************)
(* Properties                                                              *)
(***************************************************************************)

\* A cookie lets one process in, once: the cookies of the registered workers and
\* the cookies left are the cookies drawn, and no two workers share one.
CookiesOnce ==
    /\ cookies = Cookie \ {cookieOf[w] : w \in registered}
    /\ \A v, w \in registered : cookieOf[v] = cookieOf[w] => v = w
    /\ Cardinality(registered) + Cardinality(cookies) = worker_num

\* The state machines of the two sides stay in step, however the answer to a
\* worker and the broadcast are delayed: no worker gets a message that its
\* state does not expect ("Unexpected Message", coordinator.cpp:81).
NoUnexpectedMessage == \A w \in Worker : wstate[w] # "failed"

\* The workers that finished agree on who takes part: all got the same map, and
\* it has every registered worker, themselves included, and nobody else.
PeersAgree ==
    \A w \in Worker : wstate[w] = "finished" =>
        /\ peers[w] = worker_info
        /\ w \in registered
        /\ Cardinality(registered) = worker_num

\* Whom each worker has learned of.
learned == [w \in Worker |-> DOMAIN peers[w]]

\* The coordinator and its workers implement the rendezvous.
Rendezvous == INSTANCE Rendezvous
    WITH Member <- Worker, Size <- worker_num, joined <- registered, told <- learned

RendezvousSpec == Rendezvous!Spec

Crashed == cstate = "crashed" \/ \E w \in Worker : wstate[w] = "crashed"

\* When each cookie was presented by some process, the rendezvous takes place:
\* every worker that was registered gets the addresses, unless someone died.
Meeting ==
    (\A c \in Cookie : \E w \in Worker : cookieOf[w] = c /\ wstate[w] # "off")
        ~> \/ Crashed
           \/ /\ Cardinality(registered) = worker_num
              /\ \A w \in registered : wstate[w] = "finished"

\* After stop() the server's connections to the registered workers go: each worker
\* disconnects when it has the addresses, or is found dead.
StopLetsGo ==
    ~listening ~> \A w \in registered : conn[w] = "closed"

\* After stop() the server has no connection left to any process: the acceptor is
\* closed and "cancel of connection is done by the logics" (server.cpp:46).
StopsClean ==
    ~listening ~> \A w \in Worker : conn[w] \in {"none", "closed"}

\* A worker does not outlive the coordinator.
WorkersLetGo ==
    cstate = "crashed" ~> \A w \in Worker : ~wopen[w]

=============================================================================
