------------------------- MODULE CoordinatorProofs --------------------------
(***************************************************************************)
(* The rendezvous of Coordinator, for every set of workers and cookies.    *)
(***************************************************************************)
EXTENDS Coordinator, FiniteSetTheorems, TLAPS

(***************************************************************************)
(* The inductive invariant.  Registration decides what is in the two       *)
(* streams of a worker and in which state of its machine it is; the        *)
(* messages still on their way must be known to conclude anything about    *)
(* the states in which they will be received.                              *)
(***************************************************************************)

Complete == Cardinality(registered) = worker_num
Broadcast == WorkerInfoMap(worker_info)

\* The coordinator's books.
Books ==
    /\ cookies = Cookie \ {cookieOf[w] : w \in registered}
    /\ \A w \in registered : cookieOf[w] \in Cookie
    /\ \A v, w \in registered : cookieOf[v] = cookieOf[w] => v = w
    /\ IsFiniteSet(registered)
    /\ Cardinality(registered) + Cardinality(cookies) = worker_num
    /\ cstate = "firstconnection" => ~Complete
    /\ cstate = "peersinfo" => Complete

\* What w has sent and the coordinator has not handled.
FromWorker(w) ==
    /\ toC[w] \in {<<>>, <<Firsconnection(w)>>}
    /\ wstate[w] \in {"off", "connected", "refused"} => toC[w] = <<>> /\ w \notin registered
    /\ w \in registered => toC[w] = <<>>

\* What the coordinator has sent and w has not handled.
ToWorker(w) ==
    /\ w \notin registered =>
          toW[w] = <<>> /\ wstate[w] \notin {"recv_worker_info", "finished"}
    /\ w \in registered /\ wstate[w] = "firstconnection_ok" =>
          \/ toW[w] = <<FirsconnectionOK>>
          \/ toW[w] = <<FirsconnectionOK, Broadcast>> /\ Complete
    /\ wstate[w] = "recv_worker_info" =>
          \/ toW[w] = <<>>
          \/ toW[w] = <<Broadcast>> /\ Complete

\* What w has learned.
Told(w) ==
    /\ wstate[w] = "finished" => peers[w] = worker_info /\ w \in registered /\ Complete
    /\ wstate[w] # "finished" => peers[w] = NoPeers
    /\ wopen[w] => wstate[w] \in {"connected", "firstconnection_ok", "recv_worker_info"}
    /\ wstate[w] # "failed"

IInv == TypeOK /\ Books /\ \A w \in Worker : FromWorker(w) /\ ToWorker(w) /\ Told(w)

-----------------------------------------------------------------------------
(***************************************************************************)
(* Streams and maps.                                                       *)
(***************************************************************************)

LEMMA AppendPair == ASSUME NEW x, NEW y  PROVE Append(<<x>>, y) = <<x, y>>
<1>1. <<x>> \in Seq({x, y}) /\ <<x, y>> \in Seq({x, y})
  OBVIOUS
<1>2. Append(<<x>>, y) \in Seq({x, y})
  BY <1>1
<1>3. Len(Append(<<x>>, y)) = 2 /\ Append(<<x>>, y)[1] = x /\ Append(<<x>>, y)[2] = y
  BY <1>1
<1>4. Len(<<x, y>>) = 2 /\ <<x, y>>[1] = x /\ <<x, y>>[2] = y
  OBVIOUS
<1>5. \A s, t \in Seq({x, y}) :
         Len(s) = Len(t) /\ (\A i \in 1..Len(s) : s[i] = t[i]) => s = t
  OBVIOUS
<1>6. \A i \in 1..2 : i = 1 \/ i = 2
  OBVIOUS
<1> QED
  BY <1>1, <1>2, <1>3, <1>4, <1>5, <1>6

\* What popping and appending do to the streams of the rendezvous.
LEMMA Streams ==
    ASSUME NEW x, NEW y
    PROVE  /\ Tail(<<x>>) = <<>> /\ Head(<<x>>) = x
           /\ Tail(<<x, y>>) = <<y>> /\ Head(<<x, y>>) = x
           /\ Append(<<>>, x) = <<x>>
           /\ Append(<<x>>, y) = <<x, y>>
           /\ <<x>> # <<>> /\ <<x, y>> # <<>>
<1>1. Append(<<x>>, y) = <<x, y>>
  BY AppendPair
<1>2. /\ Tail(<<x>>) = <<>> /\ Head(<<x>>) = x
      /\ Tail(<<x, y>>) = <<y>> /\ Head(<<x, y>>) = x
      /\ Append(<<>>, x) = <<x>>
      /\ <<x>> # <<>> /\ <<x, y>> # <<>>
  OBVIOUS
<1> QED
  BY <1>1, <1>2

\* A map from workers to addresses is in InfoMap.
LEMMA InfoMapIntro ==
    ASSUME NEW S \in SUBSET Worker, NEW f \in [S -> Info]
    PROVE  f \in InfoMap
  BY DEF InfoMap

LEMMA InfoMapType ==
    ASSUME NEW f \in InfoMap
    PROVE  /\ DOMAIN f \in SUBSET Worker
           /\ f \in [DOMAIN f -> Info]
<1>1. PICK S \in SUBSET Worker : f \in [S -> Info]
  BY DEF InfoMap
<1>2. DOMAIN f = S
  BY <1>1
<1> QED
  BY <1>1, <1>2

LEMMA NoPeersType == NoPeers \in InfoMap /\ DOMAIN NoPeers = {}
<1>1. NoPeers \in [{} -> Info]
  BY DEF NoPeers
<1> QED
  BY <1>1, InfoMapIntro DEF NoPeers

LEMMA MessageTypes ==
    /\ FirsconnectionOK \in CoordMsg
    /\ \A m \in InfoMap : WorkerInfoMap(m) \in CoordMsg
    /\ \A w \in Worker : Firsconnection(w) \in FirstMsg
  BY NoPeersType DEF FirsconnectionOK, WorkerInfoMap, CoordMsg, FirstMsg

LEMMA SendType ==
    ASSUME NEW S, NEW q \in [Worker -> Seq(CoordMsg)], NEW m \in CoordMsg
    PROVE  send(S, q, m) \in [Worker -> Seq(CoordMsg)]
  BY DEF send

LEMMA WorkerNum == worker_num \in Nat /\ worker_num # 0
  BY CoordinatorAssumption, FS_CardinalityType, FS_EmptySet DEF worker_num

-----------------------------------------------------------------------------
(***************************************************************************)
(* Registration.                                                           *)
(***************************************************************************)

\* The coordinator's map after the registration of w.
Registered(w) == [v \in registered \cup {w} |->
                     IF v = w THEN Default ELSE worker_info[v]]

\* The two outcomes of a first message, one disjunct for each.
Rejects(w) ==
    /\ cookieOf[w] \notin cookies
    /\ UNCHANGED <<cookies, worker_info, cstate, listening, accepting, toW>>
    /\ conn' = [conn EXCEPT ![w] = "closed"]

Registers(w) ==
    /\ cookieOf[w] \in cookies
    /\ cookies' = cookies \ {cookieOf[w]}
    /\ worker_info' = Registered(w)
    /\ LET q == send({w}, toW, FirsconnectionOK)
       IN  IF Complete'
           THEN /\ cstate' = "peersinfo"
                /\ toW' = send(registered', q, Broadcast')
                /\ conn' = dropBacklog(conn)
                /\ listening' = FALSE
                /\ accepting' = FALSE
           ELSE /\ toW' = q
                /\ UNCHANGED <<conn, cstate, listening, accepting>>

\* The handler of a first message does one of the two.
LEMMA FirstMessage ==
    ASSUME NEW w \in Worker, Books, cstate = "firstconnection",
           firstconnection(w, from_buffer(Firsconnection(w)))
    PROVE  Rejects(w) \/ Registers(w)
<1> DEFINE f == from_buffer(Firsconnection(w))
<1>1. f.firstcookie = cookieOf[w] /\ f.worker_info = Default
  BY DEF from_buffer, Firsconnection
<1>2. CASE cookieOf[w] \in cookies
  <2>1. worker_info' = Registered(w)
    BY <1>1, <1>2 DEF firstconnection, Registered
  <2>2. cookies' = cookies \ {cookieOf[w]}
    BY <1>1, <1>2 DEF firstconnection, erase
  <2>3. all_registered(Registered(w)) <=> Complete'
    BY <2>1 DEF all_registered, Complete, registered, worker_num
  <2>4. CASE Complete'
    <3>1. /\ cstate' = "peersinfo"
          /\ toW' = send(DOMAIN Registered(w), accept_first(w, toW),
                          WorkerInfoMap(Registered(w)))
          /\ conn' = dropBacklog(conn)
          /\ stop
      BY <1>1, <1>2, <2>3, <2>4 DEF firstconnection, Registered
    <3> QED
      BY <1>2, <2>1, <2>2, <2>4, <3>1
      DEF Registers, accept_first, registered, Broadcast, stop
  <2>5. CASE ~Complete'
    <3>1. toW' = accept_first(w, toW) /\ UNCHANGED <<conn, cstate, listening, accepting>>
      BY <1>1, <1>2, <2>3, <2>5 DEF firstconnection, Registered
    <3> QED
      BY <1>2, <2>1, <2>2, <2>5, <3>1 DEF Registers, accept_first
  <2> QED
    BY <2>4, <2>5
<1>3. CASE cookieOf[w] \notin cookies
  <2>1. ~all_registered(worker_info)
    BY DEF Books, Complete, all_registered, registered
  <2> QED
    BY <1>1, <1>3, <2>1 DEF firstconnection, Rejects
<1> QED
  BY <1>2, <1>3

\* A message that the coordinator handles is the first one of its worker.
LEMMA CoordinatorHandles ==
    ASSUME IInv, NEW w \in Worker, CoordinatorLogic(w)
    PROVE  /\ toC' = [toC EXCEPT ![w] = <<>>]
           /\ UNCHANGED worker
           /\ conn[w] = "open"
           /\ w \notin registered
           /\ wstate[w] \notin {"off", "connected", "refused"}
           /\ \/ cstate = "firstconnection" /\ (Rejects(w) \/ Registers(w))
              \/ UNCHANGED <<server, conn, toW>>
<1>1. toC[w] = <<Firsconnection(w)>>
  BY DEF IInv, FromWorker, CoordinatorLogic
<1>2. Head(toC[w]) = Firsconnection(w) /\ Tail(toC[w]) = <<>> /\ toC[w] # <<>>
  BY <1>1, Streams
<1>3. toC' = [toC EXCEPT ![w] = <<>>] /\ UNCHANGED worker /\ conn[w] = "open"
  BY <1>2 DEF CoordinatorLogic
<1>4. w \notin registered /\ wstate[w] \notin {"off", "connected", "refused"}
  BY <1>2 DEF IInv, FromWorker
<1>5. \/ cstate = "firstconnection" /\ firstconnection(w, from_buffer(Firsconnection(w)))
      \/ peersinfo(w)
  BY <1>2 DEF CoordinatorLogic
<1>6. CASE peersinfo(w)
  BY <1>3, <1>4, <1>6 DEF peersinfo
<1>7. CASE cstate = "firstconnection" /\ firstconnection(w, from_buffer(Firsconnection(w)))
  <2>1. Rejects(w) \/ Registers(w)
    BY <1>7, FirstMessage DEF IInv
  <2> QED
    BY <1>3, <1>4, <1>7, <2>1
<1> QED
  BY <1>5, <1>6, <1>7

\* The books after a registration.
LEMMA RegistersBooks ==
    ASSUME IInv, NEW w \in Worker, w \notin registered, cstate = "firstconnection",
           Registers(w)
    PROVE  Books' /\ registered' = registered \cup {w} /\ worker_info' \in InfoMap
<1>1. registered' = registered \cup {w}
  BY DEF Registers, Registered, registered
<1>2. cookieOf[w] \in cookies /\ cookies' = cookies \ {cookieOf[w]}
  BY DEF Registers
<1>3. cookieOf[w] \in Cookie /\ \A v \in registered : cookieOf[v] # cookieOf[w]
  BY <1>2 DEF IInv, Books
<1>4. cookies' = Cookie \ {cookieOf[v] : v \in registered'}
  BY <1>1, <1>2 DEF IInv, Books
<1>5. \A v \in registered' : cookieOf[v] \in Cookie
  BY <1>1, <1>3 DEF IInv, Books
<1>6. \A u, v \in registered' : cookieOf[u] = cookieOf[v] => u = v
  BY <1>1, <1>3 DEF IInv, Books
<1>7. IsFiniteSet(registered') /\ Cardinality(registered') = Cardinality(registered) + 1
  BY <1>1, FS_AddElement DEF IInv, Books
<1>8. Cardinality(cookies') = Cardinality(cookies) - 1
  <2>1. IsFiniteSet(cookies)
    BY CoordinatorAssumption, FS_Subset DEF IInv, TypeOK
  <2> QED
    BY <1>2, <2>1, FS_RemoveElement
<1>9. Cardinality(registered') + Cardinality(cookies') = worker_num
  <2>1. Cardinality(registered) \in Nat /\ Cardinality(cookies) \in Nat
    BY FS_CardinalityType, FS_Subset, CoordinatorAssumption DEF IInv, TypeOK, Books
  <2> QED
    BY <1>7, <1>8, <2>1 DEF IInv, Books
<1>10. (cstate' = "firstconnection" => ~Complete') /\ (cstate' = "peersinfo" => Complete')
  BY DEF Registers
<1>11. worker_info' \in InfoMap
  <2>1. registered \cup {w} \subseteq Worker /\ worker_info \in [registered -> Info]
    BY InfoMapType DEF IInv, TypeOK, registered
  <2>2. Registered(w) \in [registered \cup {w} -> Info]
    BY <2>1 DEF Registered, Info
  <2> QED
    BY <2>1, <2>2, InfoMapIntro DEF Registers
<1> QED
  BY <1>1, <1>4, <1>5, <1>6, <1>7, <1>9, <1>10, <1>11 DEF Books

\* What the handler of a registration appends to the stream of a worker.
LEMMA RegistersStream ==
    ASSUME IInv, NEW w \in Worker, w \notin registered, conn[w] = "open", Registers(w),
           registered' = registered \cup {w}, NEW v \in Worker
    PROVE  /\ v \notin registered' => toW'[v] = toW[v]
           /\ v = w => \/ toW'[v] = <<FirsconnectionOK>>
                       \/ toW'[v] = <<FirsconnectionOK, Broadcast'>> /\ Complete'
           /\ v \in registered => \/ toW'[v] = toW[v]
                                  \/ toW'[v] = Append(toW[v], Broadcast') /\ Complete'
<1> DEFINE q == send({w}, toW, FirsconnectionOK)
<1>1. toW[w] = <<>>
  BY DEF IInv, ToWorker
<1>2. q[w] = <<FirsconnectionOK>>
  BY <1>1, Streams DEF send
<1>3. v # w => q[v] = toW[v]
  BY DEF send
<1>4. CASE Complete'
  <2>1. toW' = send(registered', q, Broadcast')
    BY <1>4 DEF Registers
  <2>2. toW'[v] = q[v] \/ (v \in registered' /\ toW'[v] = Append(q[v], Broadcast'))
    BY <2>1 DEF send
  <2>3. Append(<<FirsconnectionOK>>, Broadcast') = <<FirsconnectionOK, Broadcast'>>
    BY AppendPair
  <2>4. v = w => \/ toW'[v] = <<FirsconnectionOK>>
                 \/ toW'[v] = <<FirsconnectionOK, Broadcast'>>
    BY <1>2, <2>2, <2>3
  <2> HIDE DEF q
  <2> QED
    BY <1>3, <1>4, <2>2, <2>4
<1>5. CASE ~Complete'
  <2>1. toW' = q
    BY <1>5 DEF Registers
  <2> HIDE DEF q
  <2> QED
    BY <1>2, <1>3, <2>1
<1> QED
  BY <1>4, <1>5

LEMMA RegistersInv ==
    ASSUME IInv, NEW w \in Worker, cstate = "firstconnection", Registers(w),
           toC' = [toC EXCEPT ![w] = <<>>], UNCHANGED worker, conn[w] = "open",
           w \notin registered, wstate[w] \notin {"off", "connected", "refused"}
    PROVE  IInv'
<1>1. Books' /\ registered' = registered \cup {w} /\ worker_info' \in InfoMap
  BY RegistersBooks
<1>2. ~Complete
  BY DEF IInv, Books
<1>3. TypeOK'
  <2> DEFINE q == send({w}, toW, FirsconnectionOK)
  <2>1. Broadcast' \in CoordMsg
    BY <1>1, MessageTypes DEF Broadcast
  <2>2. toW' \in [Worker -> Seq(CoordMsg)]
    <3>1. q \in [Worker -> Seq(CoordMsg)]
      BY MessageTypes, SendType DEF IInv, TypeOK
    <3>2. toW' = q \/ toW' = send(registered', q, Broadcast')
      BY DEF Registers
    <3>3. send(registered', q, Broadcast') \in [Worker -> Seq(CoordMsg)]
      BY <2>1, <3>1, SendType
    <3> HIDE DEF q
    <3> QED
      BY <3>1, <3>2, <3>3
  <2>3. /\ cstate' \in {"firstconnection", "peersinfo", "crashed"}
        /\ cookies' \subseteq Cookie
        /\ listening' \in BOOLEAN /\ accepting' \in BOOLEAN
        /\ conn' \in [Worker -> {"none", "backlog", "accepted", "open", "closed"}]
    BY DEF Registers, dropBacklog, IInv, TypeOK
  <2>4. toC' \in [Worker -> Seq(FirstMsg)]
    BY DEF IInv, TypeOK
  <2> QED
    BY <1>1, <2>2, <2>3, <2>4 DEF IInv, TypeOK, worker
<1>4. ASSUME NEW v \in Worker  PROVE FromWorker(v)'
  <2>1. v = w => toC'[v] = <<>>
    BY DEF IInv, TypeOK
  <2>2. v # w => toC'[v] = toC[v]
    BY DEF IInv, TypeOK
  <2> QED
    BY <1>1, <2>1, <2>2 DEF IInv, FromWorker, worker, Firsconnection
<1>5. ASSUME NEW v \in Worker  PROVE ToWorker(v)'
  <2>1. CASE v \notin registered'
    <3>1. v \notin registered /\ toW'[v] = toW[v]
      BY <1>1, <2>1, RegistersStream
    <3> QED
      BY <2>1, <3>1 DEF IInv, ToWorker, worker
  <2>2. CASE v = w
    <3>1. wstate[v] \notin {"recv_worker_info", "finished"}
      BY <2>2 DEF IInv, ToWorker
    <3> QED
      BY <1>1, <2>2, <3>1, RegistersStream DEF ToWorker, worker
  <2>3. CASE v \in registered
    <3>1. \/ toW'[v] = toW[v]
          \/ toW'[v] = Append(toW[v], Broadcast') /\ Complete'
      BY <1>1, <2>3, RegistersStream
    <3>2. v \in registered'
      BY <1>1, <2>3
    <3>3. /\ wstate[v] = "firstconnection_ok" => toW[v] = <<FirsconnectionOK>>
          /\ wstate[v] = "recv_worker_info" => toW[v] = <<>>
      BY <1>2, <2>3 DEF IInv, ToWorker
    <3>4. /\ Append(<<FirsconnectionOK>>, Broadcast') = <<FirsconnectionOK, Broadcast'>>
          /\ Append(<<>>, Broadcast') = <<Broadcast'>>
      BY Streams
    <3> QED
      BY <3>1, <3>2, <3>3, <3>4 DEF ToWorker, worker
  <2> QED
    BY <1>1, <2>1, <2>2, <2>3
<1>6. ASSUME NEW v \in Worker  PROVE Told(v)'
  BY <1>2 DEF IInv, Told, worker, NoPeers
<1> QED
  BY <1>1, <1>3, <1>4, <1>5, <1>6 DEF IInv

-----------------------------------------------------------------------------
(***************************************************************************)
(* The other steps.                                                        *)
(***************************************************************************)

Own(w) == FromWorker(w) /\ ToWorker(w) /\ Told(w)

\* A step leaves the workers alone whose variables it does not touch.
LEMMA Elsewhere ==
    ASSUME IInv, worker_info' = worker_info, NEW v \in Worker,
           toC'[v] = toC[v], toW'[v] = toW[v], wstate'[v] = wstate[v],
           peers'[v] = peers[v], wopen'[v] = wopen[v]
    PROVE  Own(v)'
<1>1. Own(v) /\ registered' = registered /\ Broadcast' = Broadcast
  BY DEF IInv, Own, registered, Broadcast
<1>2. Complete' <=> Complete
  BY DEF Complete, registered, worker_num
<1>3. FromWorker(v)'
  BY <1>1 DEF Own, FromWorker, Firsconnection
<1>4. ToWorker(v)'
  BY <1>1, <1>2 DEF Own, ToWorker, FirsconnectionOK, NoPeers
<1>5. Told(v)'
  BY <1>1, <1>2 DEF Own, Told, NoPeers
<1> QED
  BY <1>3, <1>4, <1>5 DEF Own

\* A step that leaves the coordinator's books alone keeps them.
LEMMA SameBooks ==
    ASSUME IInv, UNCHANGED <<cookies, worker_info>>,
           cstate' = cstate \/ cstate' = "crashed"
    PROVE  Books'
  BY DEF IInv, Books, Complete, registered, worker_num

LEMMA InitInv == Init => IInv
<1> SUFFICES ASSUME Init  PROVE IInv
  OBVIOUS
<1>1. registered = {} /\ NoPeers \in InfoMap
  BY NoPeersType DEF Init, registered
<1>2. TypeOK
  BY <1>1 DEF Init, TypeOK
<1>3. Cardinality(registered) = 0 /\ IsFiniteSet(registered)
  BY <1>1, FS_EmptySet
<1>4. ~Complete
  BY <1>3, WorkerNum DEF Complete
<1>5. Cardinality(registered) + Cardinality(cookies) = worker_num
  BY <1>3, WorkerNum DEF Init, worker_num
<1>6. Books
  BY <1>1, <1>3, <1>4, <1>5 DEF Init, Books
<1>7. ASSUME NEW w \in Worker  PROVE FromWorker(w) /\ ToWorker(w) /\ Told(w)
  BY <1>1 DEF Init, FromWorker, ToWorker, Told
<1> QED
  BY <1>2, <1>6, <1>7 DEF IInv

LEMMA ConnectInv ==
    ASSUME IInv, NEW w \in Worker, Connect(w)
    PROVE  IInv'
<1>1. /\ UNCHANGED <<server, toC, toW, peers>>
      /\ wstate[w] = "off"
      /\ \/ /\ wstate' = [wstate EXCEPT ![w] = "connected"]
            /\ wopen' = [wopen EXCEPT ![w] = TRUE]
         \/ /\ wstate' = [wstate EXCEPT ![w] = "refused"]
            /\ UNCHANGED wopen
  BY DEF Connect
<1>2. TypeOK'
  BY DEF Connect, IInv, TypeOK, server
<1>3. Books'
  BY <1>1, SameBooks DEF server
<1>4. ASSUME NEW v \in Worker, v # w  PROVE Own(v)'
  BY <1>1, <1>4, Elsewhere DEF server, IInv, TypeOK
<1>5. Own(w)'
  <2>1. \/ wstate'[w] = "connected"
        \/ wstate'[w] = "refused" /\ wopen'[w] = wopen[w]
    BY <1>1 DEF IInv, TypeOK
  <2>2. FromWorker(w) /\ ToWorker(w) /\ Told(w)
    BY DEF IInv
  <2>3. w \notin registered /\ registered' = registered
    BY <1>1, <2>2 DEF FromWorker, server, registered
  <2>4. toC'[w] = <<>> /\ toW'[w] = <<>> /\ peers'[w] = NoPeers /\ ~wopen[w]
    BY <1>1, <2>2, <2>3 DEF FromWorker, ToWorker, Told
  <2> QED
    BY <1>1, <2>1, <2>3, <2>4
    DEF Own, FromWorker, ToWorker, Told, server, NoPeers, Firsconnection
<1> QED
  BY <1>2, <1>3, <1>4, <1>5 DEF IInv, Own

LEMMA init_logicInv ==
    ASSUME IInv, NEW w \in Worker, init_logic(w)
    PROVE  IInv'
<1>1. /\ UNCHANGED <<server, conn, toW, wopen, peers>>
      /\ wstate[w] = "connected"
      /\ wstate' = [wstate EXCEPT ![w] = "firstconnection_ok"]
      /\ toC' = [toC EXCEPT ![w] = Append(toC[w], Firsconnection(w))]
  BY DEF init_logic
<1>2. FromWorker(w) /\ ToWorker(w) /\ Told(w)
  BY DEF IInv
<1>3. toC[w] = <<>> /\ w \notin registered
  BY <1>1, <1>2 DEF FromWorker
<1>4. toC' = [toC EXCEPT ![w] = <<Firsconnection(w)>>]
  BY <1>1, <1>3, Streams
<1>5. TypeOK'
  <2>1. toC' \in [Worker -> Seq(FirstMsg)]
    BY <1>4, MessageTypes DEF IInv, TypeOK
  <2> QED
    BY <1>1, <2>1 DEF IInv, TypeOK, server
<1>6. Books'
  BY <1>1, SameBooks DEF server
<1>7. ASSUME NEW v \in Worker, v # w  PROVE Own(v)'
  BY <1>1, <1>4, <1>7, Elsewhere DEF server, IInv, TypeOK
<1>8. Own(w)'
  <2>1. wstate'[w] = "firstconnection_ok" /\ toC'[w] = <<Firsconnection(w)>>
    BY <1>1, <1>4 DEF IInv, TypeOK
  <2>2. registered' = registered
    BY <1>1 DEF server, registered
  <2> QED
    BY <1>1, <1>2, <1>3, <2>1, <2>2
    DEF Own, FromWorker, ToWorker, Told, server, NoPeers, Firsconnection
<1> QED
  BY <1>5, <1>6, <1>7, <1>8 DEF IInv, Own

\* The message that a worker receives is the one its state expects.
LEMMA Expected ==
    ASSUME IInv, NEW w \in Worker, WorkerLogic(w)
    PROVE  /\ UNCHANGED <<server, conn, toC>>
           /\ toW' = [toW EXCEPT ![w] = Tail(toW[w])]
           /\ w \in registered
           /\ \/ /\ wstate[w] = "firstconnection_ok"
                 /\ Tail(toW[w]) = <<>> \/ (Tail(toW[w]) = <<Broadcast>> /\ Complete)
                 /\ wstate' = [wstate EXCEPT ![w] = "recv_worker_info"]
                 /\ UNCHANGED <<wopen, peers>>
              \/ /\ wstate[w] = "recv_worker_info"
                 /\ Complete
                 /\ peers' = [peers EXCEPT ![w] = worker_info]
                 /\ wstate' = [wstate EXCEPT ![w] = "finished"]
                 /\ wopen' = [wopen EXCEPT ![w] = FALSE]
<1>1. /\ UNCHANGED <<server, conn, toC>>
      /\ toW' = [toW EXCEPT ![w] = Tail(toW[w])]
      /\ toW[w] # <<>>
  BY DEF WorkerLogic
<1>2. w \in registered
  BY <1>1 DEF IInv, ToWorker
<1>3. CASE wstate[w] = "firstconnection_ok" /\ firstconnection_ok(w, Head(toW[w]))
  <2>1. \/ toW[w] = <<FirsconnectionOK>>
        \/ toW[w] = <<FirsconnectionOK, Broadcast>> /\ Complete
    BY <1>2, <1>3 DEF IInv, ToWorker
  <2>2. /\ Head(toW[w]) = FirsconnectionOK
        /\ Tail(toW[w]) = <<>> \/ (Tail(toW[w]) = <<Broadcast>> /\ Complete)
    <3>1. /\ Head(<<FirsconnectionOK>>) = FirsconnectionOK
          /\ Tail(<<FirsconnectionOK>>) = <<>>
          /\ Head(<<FirsconnectionOK, Broadcast>>) = FirsconnectionOK
          /\ Tail(<<FirsconnectionOK, Broadcast>>) = <<Broadcast>>
      BY Streams
    <3> QED
      BY <2>1, <3>1
  <2>3. Head(toW[w]).type = "firstconnectionok"
    BY <2>2 DEF FirsconnectionOK
  <2> QED
    BY <1>1, <1>2, <1>3, <2>2, <2>3 DEF firstconnection_ok
<1>4. CASE wstate[w] = "recv_worker_info" /\ recv_worker_info(w, Head(toW[w]))
  <2>1. toW[w] = <<Broadcast>> /\ Complete
    BY <1>1, <1>4 DEF IInv, ToWorker
  <2>2. Head(toW[w]) = Broadcast
    BY <2>1, Streams
  <2>3. Head(toW[w]).type = "peersinfo" /\ Head(toW[w]).info = worker_info
    BY <2>2 DEF Broadcast, WorkerInfoMap
  <2> QED
    BY <1>1, <1>2, <1>4, <2>1, <2>3 DEF recv_worker_info
<1> QED
  BY <1>3, <1>4 DEF WorkerLogic

LEMMA WorkerLogicInv ==
    ASSUME IInv, NEW w \in Worker, WorkerLogic(w)
    PROVE  IInv'
<1>1. /\ UNCHANGED <<server, conn, toC>>
      /\ toW' = [toW EXCEPT ![w] = Tail(toW[w])]
      /\ w \in registered
  BY Expected
<1>2. /\ registered' = registered /\ Broadcast' = Broadcast
      /\ Complete' <=> Complete
  BY <1>1 DEF server, registered, Broadcast, Complete, worker_num
<1>3. Books'
  BY <1>1, SameBooks DEF server
<1>4. toW' \in [Worker -> Seq(CoordMsg)]
  <2>1. toW[w] \in Seq(CoordMsg) /\ toW[w] # <<>>
    BY DEF IInv, TypeOK, WorkerLogic
  <2>2. Tail(toW[w]) \in Seq(CoordMsg)
    BY <2>1
  <2> QED
    BY <1>1, <2>2 DEF IInv, TypeOK
<1>5. FromWorker(w) /\ ToWorker(w) /\ Told(w)
  BY DEF IInv
<1>6. toW'[w] = Tail(toW[w])
  BY <1>1 DEF IInv, TypeOK
<1>7. CASE /\ wstate[w] = "firstconnection_ok"
           /\ Tail(toW[w]) = <<>> \/ (Tail(toW[w]) = <<Broadcast>> /\ Complete)
           /\ wstate' = [wstate EXCEPT ![w] = "recv_worker_info"]
           /\ UNCHANGED <<wopen, peers>>
  <2>1. TypeOK'
    BY <1>1, <1>4, <1>7 DEF IInv, TypeOK, server
  <2>2. ASSUME NEW v \in Worker, v # w  PROVE Own(v)'
    BY <1>1, <1>7, <2>2, Elsewhere DEF server, IInv, TypeOK
  <2>3. wstate'[w] = "recv_worker_info" /\ peers'[w] = peers[w]
    BY <1>7 DEF IInv, TypeOK
  <2>4. Own(w)'
    BY <1>1, <1>2, <1>5, <1>6, <1>7, <2>3
    DEF Own, FromWorker, ToWorker, Told, NoPeers, Firsconnection
  <2> QED
    BY <1>3, <2>1, <2>2, <2>4 DEF IInv, Own
<1>8. CASE /\ wstate[w] = "recv_worker_info"
           /\ Complete
           /\ peers' = [peers EXCEPT ![w] = worker_info]
           /\ wstate' = [wstate EXCEPT ![w] = "finished"]
           /\ wopen' = [wopen EXCEPT ![w] = FALSE]
  <2>1. TypeOK'
    BY <1>1, <1>4, <1>8 DEF IInv, TypeOK, server
  <2>2. ASSUME NEW v \in Worker, v # w  PROVE Own(v)'
    BY <1>1, <1>8, <2>2, Elsewhere DEF server, IInv, TypeOK
  <2>3. wstate'[w] = "finished" /\ peers'[w] = worker_info' /\ ~wopen'[w]
    BY <1>1, <1>8 DEF IInv, TypeOK, server
  <2>4. Own(w)'
    BY <1>1, <1>2, <1>5, <1>8, <2>3
    DEF Own, FromWorker, ToWorker, Told, NoPeers, Firsconnection
  <2> QED
    BY <1>3, <2>1, <2>2, <2>4 DEF IInv, Own
<1> QED
  BY <1>7, <1>8, Expected

\* A worker that loses its connection or dies leaves nothing to be received.
LEMMA WorkerEndsInv ==
    ASSUME IInv, NEW w \in Worker, WorkerLosesConnection(w) \/ WorkerCrash(w)
    PROVE  IInv'
<1>1. /\ UNCHANGED <<server, conn, toC, toW, peers>>
      /\ wopen[w]
      /\ wopen' = [wopen EXCEPT ![w] = FALSE]
      /\ wstate' = wstate \/ wstate' = [wstate EXCEPT ![w] = "crashed"]
  BY DEF WorkerLosesConnection, WorkerCrash
<1>2. TypeOK'
  BY <1>1 DEF IInv, TypeOK, server
<1>3. Books'
  BY <1>1, SameBooks DEF server
<1>4. ASSUME NEW v \in Worker, v # w  PROVE Own(v)'
  BY <1>1, <1>4, Elsewhere DEF server, IInv, TypeOK
<1>5. Own(w)'
  <2>1. FromWorker(w) /\ ToWorker(w) /\ Told(w)
    BY DEF IInv
  <2>2. wstate'[w] \in {wstate[w], "crashed"} /\ ~wopen'[w]
    BY <1>1 DEF IInv, TypeOK
  <2>3. registered' = registered /\ Broadcast' = Broadcast /\ (Complete' <=> Complete)
    BY <1>1 DEF server, registered, Broadcast, Complete, worker_num
  <2>4. wstate[w] # "finished" /\ peers[w] = NoPeers
    BY <1>1, <2>1 DEF Told
  <2> QED
    BY <1>1, <2>1, <2>2, <2>3, <2>4
    DEF Own, FromWorker, ToWorker, Told, server, NoPeers, Firsconnection
<1> QED
  BY <1>2, <1>3, <1>4, <1>5 DEF IInv, Own

\* Accepting, rejecting and losing connections, and the end of the coordinator,
\* do not touch what the workers know.
LEMMA ServerInv ==
    ASSUME IInv, TypeOK', UNCHANGED <<cookies, worker_info, toW, worker>>,
           cstate' = cstate \/ cstate' = "crashed",
           \/ UNCHANGED toC
           \/ \E w \in Worker : /\ toC' = [toC EXCEPT ![w] = <<>>]
                                /\ w \notin registered
    PROVE  IInv'
<1>1. Books'
  BY SameBooks
<1>2. registered' = registered /\ Broadcast' = Broadcast /\ (Complete' <=> Complete)
  BY DEF registered, Broadcast, Complete, worker_num
<1>3. ASSUME NEW v \in Worker  PROVE Own(v)'
  <2>1. FromWorker(v) /\ ToWorker(v) /\ Told(v)
    BY DEF IInv
  <2>2. toC'[v] = toC[v] \/ toC'[v] = <<>>
    BY DEF IInv, TypeOK
  <2> QED
    BY <1>2, <2>1, <2>2
    DEF Own, FromWorker, ToWorker, Told, worker, NoPeers, Firsconnection, FirsconnectionOK
<1> QED
  BY <1>1, <1>3 DEF IInv, Own

LEMMA CoordinatorLogicInv ==
    ASSUME IInv, NEW w \in Worker, CoordinatorLogic(w)
    PROVE  IInv'
<1>1. /\ toC' = [toC EXCEPT ![w] = <<>>]
      /\ UNCHANGED worker
      /\ conn[w] = "open"
      /\ w \notin registered
      /\ wstate[w] \notin {"off", "connected", "refused"}
  BY CoordinatorHandles
<1>2. CASE cstate = "firstconnection" /\ Registers(w)
  BY <1>1, <1>2, RegistersInv
<1>3. CASE Rejects(w) \/ UNCHANGED <<server, conn, toW>>
  <2>1. /\ UNCHANGED <<cookies, worker_info, cstate, listening, accepting, toW>>
        /\ conn' \in {conn, [conn EXCEPT ![w] = "closed"]}
    BY <1>3 DEF Rejects, server
  <2>2. TypeOK'
    BY <1>1, <2>1 DEF IInv, TypeOK, worker
  <2> QED
    BY <1>1, <2>1, <2>2, ServerInv
<1> QED
  BY <1>2, <1>3, CoordinatorHandles

\* Every step keeps the invariant.
LEMMA NextInv == IInv /\ [Next]_vars => IInv'
<1> SUFFICES ASSUME IInv, [Next]_vars  PROVE IInv'
  OBVIOUS
<1>1. ASSUME NEW w \in Worker, Connect(w)  PROVE IInv'
  BY <1>1, ConnectInv
<1>2. ASSUME NEW w \in Worker, init_logic(w)  PROVE IInv'
  BY <1>2, init_logicInv
<1>3. ASSUME NEW w \in Worker, WorkerLogic(w)  PROVE IInv'
  BY <1>3, WorkerLogicInv
<1>4. ASSUME NEW w \in Worker, WorkerLosesConnection(w) \/ WorkerCrash(w)  PROVE IInv'
  BY <1>4, WorkerEndsInv
<1>5. ASSUME NEW w \in Worker, Accepted(w)  PROVE IInv'
  BY <1>5, ServerInv DEF Accepted, IInv, TypeOK, worker
<1>6. ASSUME NEW w \in Worker, when_accept(w)  PROVE IInv'
  BY <1>6, ServerInv DEF when_accept, IInv, TypeOK, worker
<1>7. ASSUME NEW w \in Worker, CoordinatorLogic(w)  PROVE IInv'
  BY <1>7, CoordinatorLogicInv
<1>8. ASSUME NEW w \in Worker, CoordinatorLosesConnection(w)  PROVE IInv'
  BY <1>8, ServerInv DEF CoordinatorLosesConnection, IInv, TypeOK, server, worker
<1>9. CASE CoordinatorCrash
  BY <1>9, ServerInv DEF CoordinatorCrash, IInv, TypeOK, worker
<1>10. CASE UNCHANGED vars
  BY <1>10, ServerInv DEF vars, IInv, TypeOK, worker
<1> QED
  BY <1>1, <1>2, <1>3, <1>4, <1>5, <1>6, <1>7, <1>8, <1>9, <1>10
  DEF Next, WorkerLoop, CoordinatorLoop

-----------------------------------------------------------------------------
(***************************************************************************)
(* What follows for the specification.                                     *)
(***************************************************************************)

\* The inductive invariant holds in every reachable state: the books of the
\* coordinator, the messages under way and the states of the workers agree.
THEOREM Invariance == Spec => []IInv
  BY InitInv, NextInv, PTL DEF Spec

\* The variables keep their types.
THEOREM TypeCorrect == Spec => []TypeOK
<1>1. IInv => TypeOK
  BY DEF IInv
<1> QED
  BY <1>1, Invariance, PTL

\* A cookie lets one process in, once (firstconnection erases it,
\* coordinator.cpp:106).
THEOREM OneCookieOneWorker == Spec => []CookiesOnce
<1>1. IInv => CookiesOnce
  BY DEF IInv, Books, CookiesOnce
<1> QED
  BY <1>1, Invariance, PTL

\* No worker is sent a message that its state does not expect, whichever way the
\* deliveries, crashes and lost connections fall (coordinator.cpp:77-85).
THEOREM StatesInStep == Spec => []NoUnexpectedMessage
<1>1. IInv => NoUnexpectedMessage
  BY DEF IInv, Told, NoUnexpectedMessage
<1> QED
  BY <1>1, Invariance, PTL

\* The workers that finished know the same peers, and know all of them
\* (coordinator.cpp:112-116, 149-162).
THEOREM Agreement == Spec => []PeersAgree
<1>1. IInv => PeersAgree
  BY DEF IInv, Told, PeersAgree, Complete
<1> QED
  BY <1>1, Invariance, PTL

\* The instance has a copy of its own of what it extends.
LEMMA SameCardinality ==
    ASSUME NEW S
    PROVE  Rendezvous!Cardinality(S) = Cardinality(S)
  BY DEF Rendezvous!Cardinality, Cardinality

LEMMA InitRefines == Init => Rendezvous!Init
  BY NoPeersType DEF Init, Rendezvous!Init, registered, learned

\* A registration is a Join, the receipt of the peers' addresses a Tell, and
\* every other step stutters.
LEMMA NextRefines == IInv /\ [Next]_vars => [Rendezvous!Next]_<<registered, learned>>
<1> SUFFICES ASSUME IInv, [Next]_vars
             PROVE  [Rendezvous!Next]_<<registered, learned>>
  OBVIOUS
<1>1. ASSUME UNCHANGED <<worker_info, peers>>  PROVE UNCHANGED <<registered, learned>>
  BY <1>1 DEF registered, learned
<1>2. ASSUME NEW w \in Worker, CoordinatorLogic(w)
      PROVE  [Rendezvous!Next]_<<registered, learned>>
  <2>1. w \notin registered /\ UNCHANGED peers
    BY <1>2, CoordinatorHandles DEF worker
  <2>2. CASE cstate = "firstconnection" /\ Registers(w)
    <3>1. registered' = registered \cup {w}
      BY <2>1, <2>2, RegistersBooks
    <3>2. Cardinality(registered) < worker_num
      <4>1. Cardinality(registered) \in Nat /\ Cardinality(cookies) \in Nat
        BY FS_CardinalityType, FS_Subset, CoordinatorAssumption DEF IInv, TypeOK, Books
      <4>2. Cardinality(registered) + Cardinality(cookies) = worker_num
        BY DEF IInv, Books
      <4>3. Cardinality(registered) # worker_num
        BY <2>2 DEF IInv, Books, Complete
      <4> QED
        BY <4>1, <4>2, <4>3
    <3>3. UNCHANGED learned
      BY <2>1 DEF learned
    <3>4. Rendezvous!Join(w)
      BY <2>1, <3>1, <3>2, <3>3, SameCardinality DEF Rendezvous!Join
    <3>5. Rendezvous!Next
      BY <3>4 DEF Rendezvous!Next, Rendezvous!Join
    <3> QED
      BY <3>5
  <2>3. CASE Rejects(w) \/ UNCHANGED <<server, conn, toW>>
    BY <1>1, <2>1, <2>3 DEF Rejects, server
  <2> QED
    BY <1>2, <2>2, <2>3, CoordinatorHandles
<1>3. ASSUME NEW w \in Worker, WorkerLogic(w)
      PROVE  [Rendezvous!Next]_<<registered, learned>>
  <2>1. UNCHANGED worker_info /\ w \in registered
    BY <1>3, Expected DEF server
  <2>2. CASE UNCHANGED peers
    BY <1>1, <2>1, <2>2
  <2>3. CASE /\ wstate[w] = "recv_worker_info"
             /\ Complete
             /\ peers' = [peers EXCEPT ![w] = worker_info]
    <3>1. peers[w] = NoPeers
      BY <2>3 DEF IInv, Told
    <3>2. learned[w] = {}
      BY <3>1, NoPeersType DEF learned
    <3>3. learned' = [learned EXCEPT ![w] = registered]
      BY <2>3 DEF learned, registered, IInv, TypeOK
    <3>4. UNCHANGED registered
      BY <2>1 DEF registered
    <3>5. Rendezvous!Tell(w)
      BY <2>1, <2>3, <3>2, <3>3, <3>4, SameCardinality DEF Rendezvous!Tell, Complete
    <3>6. Rendezvous!Next
      BY <3>5 DEF Rendezvous!Next, Rendezvous!Tell
    <3> QED
      BY <3>6
  <2> QED
    BY <1>3, <2>2, <2>3, Expected
<1>4. ASSUME NEW w \in Worker, Connect(w) \/ init_logic(w)
      PROVE  UNCHANGED <<registered, learned>>
  BY <1>1, <1>4 DEF Connect, init_logic, server
<1>5. ASSUME NEW w \in Worker, WorkerLosesConnection(w) \/ WorkerCrash(w)
      PROVE  UNCHANGED <<registered, learned>>
  BY <1>1, <1>5 DEF WorkerLosesConnection, WorkerCrash, server
<1>6. ASSUME NEW w \in Worker,
             Accepted(w) \/ when_accept(w) \/ CoordinatorLosesConnection(w)
      PROVE  UNCHANGED <<registered, learned>>
  BY <1>1, <1>6 DEF Accepted, when_accept, CoordinatorLosesConnection, server, worker
<1>7. CASE CoordinatorCrash \/ UNCHANGED vars
  BY <1>1, <1>7 DEF CoordinatorCrash, vars, worker
<1> QED
  BY <1>2, <1>3, <1>4, <1>5, <1>6, <1>7 DEF Next, WorkerLoop, CoordinatorLoop

\* The coordinator and its workers implement the rendezvous: nobody learns of the
\* members before all have joined, and nobody joins after.
THEOREM Implements == Spec => RendezvousSpec
  BY InitRefines, NextRefines, Invariance, PTL
  DEF Spec, RendezvousSpec, Rendezvous!Spec
=============================================================================
