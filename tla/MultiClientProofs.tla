------------------------- MODULE MultiClientProofs --------------------------
(***************************************************************************)
(* The type invariant and the safety properties of MultiClient, and that   *)
(* it implements Exchange, for any sets of clients and servers, any        *)
(* address book and any number of messages, with no more than QueueBound   *)
(* of them on an id, which is shown too.                                   *)
(***************************************************************************)
EXTENDS MultiClient, FiniteSetTheorems, TLAPS

(***************************************************************************)
(* Types.                                                                  *)
(***************************************************************************)

Partial(D, R) == UNION {[S -> R] : S \in SUBSET D}

Manager(ids) == [holdings : Partial(ids, ConnName), next_id : Nat,
                 callback : Partial(ConnName, ids)]

ClientWorkType ==
    [net : [ConnName -> Link(Msg)], threw : Exception, m : Manager(Id),
     established : SUBSET Id, nsent : Nat, asked : [Id -> Seq(Msg)],
     answered : [Id -> Seq(Msg)], told : SUBSET Id, reset : SUBSET Id,
     finished : Nat, next_dest : Nat, st : {"running"}]

ClientType ==
    [m : Manager(Id), established : SUBSET Id, nsent : Nat, asked : [Id -> Seq(Msg)],
     answered : [Id -> Seq(Msg)], told : SUBSET Id, reset : SUBSET Id,
     finished : Nat, next_dest : Nat, st : State]

ServerWorkType ==
    [net : [ConnName -> Link(Msg)], threw : Exception, m : Manager(Nat),
     listening : BOOLEAN, accepting : BOOLEAN, numbers : Seq(Msg), stored : BOOLEAN]

ServerType ==
    [m : Manager(Nat), listening : BOOLEAN, accepting : BOOLEAN, st : State,
     numbers : Seq(Msg), stored : BOOLEAN]

-----------------------------------------------------------------------------
(***************************************************************************)
(* The inductive invariant.                                                *)
(***************************************************************************)

First(c, i) == <<c, i, 1>>
Second(c, i) == <<c, i, 2>>

\* On an open connection the requests are those that have been answered, those
\* whose answers are on their way, and those that the server has not read.
Stream(i, asks, answers, down, up) ==
    LET a == Len(answers)
        b == Len(down)
        d == Len(up)
    IN  /\ a + b + d = Len(asks)
        /\ \A j \in 1..b : down[j] = Reply(address_book[i], asks[a + j])
        /\ \A j \in 1..d : up[j] = asks[a + b + j]

\* What the books of client c have for the id i, and the connections with it.
Line(c, w, i, alive) ==
    LET k == w.net[First(c, i)]
    IN  /\ i \in Held(w.m) => /\ w.m.holdings[i] = First(c, i)
                              /\ w.m.callback[First(c, i)] = i
                              /\ k.end["client"] \in {"open", "closed"}
        /\ i \in Held(w.m) \ w.established => k.end["client"] = "closed"
        /\ i \notin Held(w.m) => /\ k = NoLink
                                 /\ w.asked[i] = <<>>
                                 /\ w.answered[i] = <<>>
        /\ k.end["client"] = "open" =>
              Stream(i, w.asked[i], w.answered[i], k.to["client"], k.to["server"])
        /\ alive => w.net[Second(c, i)] = NoLink

ClientOK(c, w, alive) ==
    /\ w.established \subseteq Held(w.m)
    /\ DOMAIN w.m.callback = {First(c, i) : i \in Held(w.m)}
    /\ \A i \in Id : Line(c, w, i, alive)

\* A sort client has asked as many servers as it has counted.
Progress(w) == w.next_dest = w.finished /\ w.finished <= nreduce

ServerOK(s, w) ==
    /\ Held(w.m) = 0..(w.m.next_id - 1)
    /\ \A i \in Held(w.m) : /\ w.m.holdings[i] \in With(s)
                            /\ w.m.holdings[i] \in DOMAIN w.m.callback
                            /\ w.m.callback[w.m.holdings[i]] = i
                            /\ w.net[w.m.holdings[i]].end["server"] \in {"open", "closed"}
    /\ \A l \in With(s) : w.net[l].end["server"] = "open" =>
          /\ l \in DOMAIN w.m.callback
          /\ w.m.callback[l] \in Held(w.m)
          /\ w.m.holdings[w.m.callback[l]] = l

Alive(c) == cl[c].st \in {"posted", "running"}

Inv ==
    /\ \A c \in Client : /\ ClientOK(c, ClientWork(c), Alive(c))
                         /\ Progress(cl[c])
                         /\ cl[c].st = "posted" => cl[c].finished = 0
                         /\ cl[c].st # "null"
    /\ \A s \in Server : ServerOK(s, ServerWork(s)) /\ sv[s].st # "null"

Types ==
    /\ model \in Model
    /\ cl \in [Client -> ClientType]
    /\ sv \in [Server -> ServerType]
    /\ net \in [ConnName -> Link(Msg)]

-----------------------------------------------------------------------------
(***************************************************************************)
(* Facts about functions, sequences and the connections.                   *)
(***************************************************************************)

LEMMA PartialDef ==
    ASSUME NEW D, NEW R, NEW f
    PROVE  f \in Partial(D, R) <=> f \in [DOMAIN f -> R] /\ DOMAIN f \subseteq D
  BY DEF Partial

\* An entry that is put into a book.
LEMMA PutPartial ==
    ASSUME NEW D, NEW R, NEW f \in Partial(D, R), NEW k \in D, NEW v \in R
    PROVE  /\ Put(f, k, v) \in Partial(D, R)
           /\ DOMAIN Put(f, k, v) = DOMAIN f \cup {k}
           /\ Put(f, k, v)[k] = v
           /\ \A x \in DOMAIN f : x # k => Put(f, k, v)[x] = f[x]
  BY PartialDef DEF Put

LEMMA LinkTypes ==
    /\ NoLink \in Link(Msg)
    /\ \A n \in [ConnName -> Link(Msg)], l \in ConnName, k \in Link(Msg) :
          [n EXCEPT ![l] = k] \in [ConnName -> Link(Msg)]
  BY DEF NoLink, Link, Side, End

\* A socket that is closed.
LEMMA ShutLink ==
    ASSUME NEW k \in Link(Msg), NEW side \in Side
    PROVE  LET q == shut(k, side) IN
           /\ q \in Link(Msg)
           /\ q.end[Other(side)] = k.end[Other(side)]
           /\ k.end[side] = "none" => q = k
           /\ k.end[side] # "none" => q.end[side] = "closed"
           /\ k.end[Other(side)] # "closed" => q.to = k.to
  BY LinkTypes DEF shut, Link, Side, End, Other, NoLink

\* A message that is given to a connection.
LEMMA SendLink ==
    ASSUME NEW n \in [ConnName -> Link(Msg)], NEW l \in ConnName,
           NEW side \in Side, NEW msg \in Msg
    PROVE  LET q == do_send_message(n, l, side, msg) IN
           /\ q \in [ConnName -> Link(Msg)]
           /\ \A x \in ConnName : x # l => q[x] = n[x]
           /\ q[l].end = n[l].end
           /\ q[l].to[side] = n[l].to[side]
           /\ n[l].end[side] # "open" => q[l].to = n[l].to
           /\ n[l].end[side] = "open" =>
                 q[l].to[Other(side)] = Append(n[l].to[Other(side)], msg)
<1>1. n[l] \in Link(Msg)
  OBVIOUS
<1>2. n[l].to[Other(side)] \in Seq(Msg) /\ Other(side) \in Side /\ Other(side) # side
  BY <1>1 DEF Link, Side, Other
<1>3. CASE n[l].end[side] = "open"
  <2> DEFINE late == n[l].late[side] \/ n[l].end[Other(side)] = "closed"
             to   == Append(n[l].to[Other(side)], msg)
             k    == [n[l] EXCEPT !.to[Other(side)] = to, !.late[side] = late]
  <2>1. do_send_message(n, l, side, msg) = [n EXCEPT ![l] = k]
    BY <1>3 DEF do_send_message
  <2>2. late \in BOOLEAN /\ to \in Seq(Msg)
    BY <1>2
  <2> HIDE DEF late
  <2>3. /\ k \in Link(Msg) /\ k.end = n[l].end
        /\ k.to[side] = n[l].to[side] /\ k.to[Other(side)] = to
    <3> HIDE DEF to
    <3> QED
      BY <1>1, <1>2, <2>2 DEF Link
  <2> HIDE DEF k
  <2> QED
    BY <1>3, <2>1, <2>3, LinkTypes
<1>4. CASE n[l].end[side] # "open"
  BY <1>1, <1>2, <1>4 DEF do_send_message, Link, Side, End
<1> QED
  BY <1>3, <1>4

-----------------------------------------------------------------------------
(***************************************************************************)
(* What the calls in a handler of a client do.                             *)
(***************************************************************************)

\* The client changes its connections only, and their server end only when it
\* connects.
ClientFrame(c, n, q) ==
    \A l \in ConnName :
        /\ l \notin Of(c) => q[l] = n[l]
        /\ \/ q[l].end["server"] = n[l].end["server"]
           \/ n[l].end["server"] = "none" /\ q[l].end["server"] = "backlog"

\* The fields of the upper layer.
SameUpper(w, u) ==
    /\ u.nsent = w.nsent /\ u.asked = w.asked /\ u.answered = w.answered
    /\ u.told = w.told /\ u.reset = w.reset
    /\ u.finished = w.finished /\ u.next_dest = w.next_dest

LEMMA Names ==
    ASSUME NEW c \in Client, NEW i \in Id
    PROVE  /\ First(c, i) \in ConnName /\ Second(c, i) \in ConnName
           /\ First(c, i) \in Of(c) /\ Second(c, i) \in Of(c)
           /\ \A j \in Id : /\ First(c, i) # Second(c, j)
                            /\ First(c, i) = First(c, j) => i = j
                            /\ Second(c, i) = Second(c, j) => i = j
           /\ i \in Nat /\ address_book[i] \in Server
  BY MultiClientAssumption DEF ConnName, First, Second, Of, MultiClientAssumption

LEMMA ClientThrow ==
    ASSUME NEW w \in ClientWorkType, NEW e \in Exception, w.threw = Nothing
    PROVE  LET u == Throw(w, e) IN
           /\ u \in ClientWorkType
           /\ u = [w EXCEPT !.threw = e]
           /\ u.threw = e /\ u.m = w.m /\ u.net = w.net
           /\ u.established = w.established /\ SameUpper(w, u)
  BY DEF Throw, ClientWorkType, SameUpper

\* A connection that gets its id.
LEMMA ClientHold ==
    ASSUME NEW w \in ClientWorkType, NEW l \in ConnName, NEW i \in Id
    PROVE  LET u == hold(w, l, "client", i) IN
           /\ u \in ClientWorkType
           /\ u.m.holdings = Put(w.m.holdings, i, l)
           /\ u.m.callback = Put(w.m.callback, l, i)
           /\ u.net = [w.net EXCEPT ![l].end["client"] = "open"]
           /\ u.threw = w.threw /\ u.established = w.established
           /\ SameUpper(w, u)
<1> DEFINE h == Put(w.m.holdings, i, l)
           b == Put(w.m.callback, l, i)
           k == [w.net[l] EXCEPT !.end["client"] = "open"]
           n == [w.net EXCEPT ![l] = k]
<1>1. w.m \in Manager(Id) /\ w.net \in [ConnName -> Link(Msg)]
  BY DEF ClientWorkType
<1>2. h \in Partial(Id, ConnName) /\ b \in Partial(ConnName, Id)
  BY <1>1, PutPartial, ZenonT(30) DEF Manager
<1>3. k \in Link(Msg) /\ n \in [ConnName -> Link(Msg)]
  <2>1. w.net[l] \in Link(Msg)
    BY <1>1
  <2>2. k \in Link(Msg)
    BY <2>1 DEF Link, Side, End
  <2> HIDE DEF k
  <2> QED
    BY <1>1, <2>2
<1> DEFINE m == [w.m EXCEPT !.holdings = h, !.callback = b]
<1> HIDE DEF h, b
<1>4. m \in Manager(Id) /\ m.holdings = h /\ m.callback = b
  BY <1>1, <1>2 DEF Manager
<1> HIDE DEF k, n, m
<1>5. hold(w, l, "client", i) = [w EXCEPT !.m = m, !.net = n]
  BY <1>1 DEF hold, h, b, k, n, m, ClientWorkType
<1>6. n = [w.net EXCEPT ![l].end["client"] = "open"]
  BY DEF n, k
<1>7. LET u == [w EXCEPT !.m = m, !.net = n] IN
      /\ u \in ClientWorkType /\ u.m = m /\ u.net = n /\ u.threw = w.threw
      /\ u.established = w.established /\ SameUpper(w, u)
  BY <1>3, <1>4 DEF ClientWorkType, SameUpper
<1> QED
  BY <1>4, <1>5, <1>6, <1>7 DEF h, b

\* The connection is put into the backlog of the server.
LEMMA ClientDial ==
    ASSUME NEW w \in ClientWorkType, NEW l \in ConnName
    PROVE  LET e == [client |-> "open", server |-> "backlog"]
               u == [w EXCEPT !.net[l].end = e]
           IN
           /\ u \in ClientWorkType
           /\ u.net = [w.net EXCEPT ![l].end = e]
           /\ u.m = w.m /\ u.threw = w.threw /\ u.established = w.established
           /\ SameUpper(w, u)
<1> DEFINE e == [client |-> "open", server |-> "backlog"]
           n == [w.net EXCEPT ![l].end = e]
<1>1. w.net \in [ConnName -> Link(Msg)]
  BY DEF ClientWorkType
<1>2. e \in [Side -> End]
  BY DEF Side, End
<1> HIDE DEF e
<1>3. n \in [ConnName -> Link(Msg)]
  BY <1>1, <1>2 DEF Link
<1>4. [w EXCEPT !.net[l].end = e] = [w EXCEPT !.net = n]
  BY DEF ClientWorkType
<1> HIDE DEF n
<1>5. LET u == [w EXCEPT !.net = n] IN
      /\ u \in ClientWorkType /\ u.m = w.m /\ u.net = n /\ u.threw = w.threw
      /\ u.established = w.established /\ SameUpper(w, u)
  BY <1>3 DEF ClientWorkType, SameUpper
<1> QED
  BY <1>4, <1>5 DEF n, e

LEMMA ClientNextId ==
    ASSUME NEW w \in ClientWorkType, NEW d \in Nat
    PROVE  LET u == [w EXCEPT !.m.next_id = d] IN
           /\ u \in ClientWorkType
           /\ u.m.holdings = w.m.holdings /\ u.m.callback = w.m.callback
           /\ u.net = w.net /\ u.threw = w.threw /\ u.established = w.established
           /\ SameUpper(w, u)
<1> DEFINE m == [w.m EXCEPT !.next_id = d]
<1>1. m \in Manager(Id) /\ m.holdings = w.m.holdings /\ m.callback = w.m.callback
  BY DEF ClientWorkType, Manager
<1>2. [w EXCEPT !.m.next_id = d] = [w EXCEPT !.m = m]
  BY DEF ClientWorkType
<1> HIDE DEF m
<1> QED
  BY <1>1, <1>2 DEF ClientWorkType, SameUpper

\* A change of the connections alone.
LEMMA ClientNet ==
    ASSUME NEW w \in ClientWorkType, NEW n \in [ConnName -> Link(Msg)]
    PROVE  LET u == [w EXCEPT !.net = n] IN
           /\ u \in ClientWorkType
           /\ u.m = w.m /\ u.net = n /\ u.threw = w.threw
           /\ u.established = w.established
           /\ SameUpper(w, u)
  BY DEF ClientWorkType, SameUpper

LEMMA ClientEstablish ==
    ASSUME NEW w \in ClientWorkType, NEW E \in SUBSET Id
    PROVE  LET u == [w EXCEPT !.established = E] IN
           /\ u \in ClientWorkType
           /\ u.m = w.m /\ u.net = w.net /\ u.threw = w.threw
           /\ u.established = E
           /\ SameUpper(w, u)
  BY DEF ClientWorkType, SameUpper

LEMMA CloseNet ==
    ASSUME NEW n \in [ConnName -> Link(Msg)], NEW l \in ConnName, NEW side \in Side
    PROVE  LET q == connection_close(n, l, side) IN
           /\ q \in [ConnName -> Link(Msg)]
           /\ q[l] = shut(n[l], side)
           /\ \A x \in ConnName : x # l => q[x] = n[x]
  BY ShutLink DEF connection_close

\* What a call leaves behind.
CallOK(c, w, u) ==
    /\ u \in ClientWorkType
    /\ ClientOK(c, u, u.threw = Nothing)
    /\ ClientFrame(c, w.net, u.net)
    /\ u.threw # "null"

\* MultiClient::do_connect, for an id that is not established.
LEMMA DoConnect ==
    ASSUME NEW c \in Client, NEW i \in Id, NEW w \in ClientWorkType,
           ClientOK(c, w, TRUE), w.threw = Nothing, i \notin w.established
    PROVE  LET u == do_connect(w, c, i) IN
           /\ CallOK(c, w, u)
           /\ SameUpper(w, u)
           /\ u.threw = Nothing => i \in u.established
<1> DEFINE l  == Attempt(w, c, i)
           e  == [client |-> "open", server |-> "backlog"]
           w1 == [w EXCEPT !.net[l].end = e]
           w2 == [w1 EXCEPT !.m.next_id = i + 1]
           u  == do_connect(w, c, i)
<1>1. /\ First(c, i) \in ConnName /\ Second(c, i) \in ConnName
      /\ First(c, i) \in Of(c) /\ Second(c, i) \in Of(c)
      /\ i \in Nat
  BY Names
<1>2. Line(c, w, i, TRUE)
  BY DEF ClientOK
<1>3. l = IF i \in Held(w.m) THEN Second(c, i) ELSE First(c, i)
  BY <1>2 DEF Attempt, Line, First, Second, NoLink, Side
<1>4. l \in ConnName /\ l \in Of(c) /\ w.net[l] = NoLink
  BY <1>1, <1>2, <1>3 DEF Line
<1>5. CASE ~sv[address_book[i]].listening
  <2>1. u = Throw(w, "refused")
    <3> DEFINE v == Throw(w, "refused")
    <3>1. try_connect(w, c, i, l) = v
      BY <1>5 DEF try_connect
    <3>2. v.threw # Nothing
      BY ClientThrow DEF Exception, Nothing
    <3> HIDE DEF v
    <3>3. new_connection(v, l, "client", i) = v
      BY <3>2 DEF new_connection
    <3> QED
      BY <3>1, <3>2, <3>3 DEF do_connect, v
  <2>2. /\ u \in ClientWorkType /\ u.threw = "refused" /\ u.m = w.m /\ u.net = w.net
        /\ u.established = w.established /\ SameUpper(w, u)
    <3>1. "refused" \in Exception
      BY DEF Exception
    <3> HIDE DEF u
    <3> QED
      BY <2>1, <3>1, ClientThrow
  <2>3. ClientOK(c, u, FALSE) /\ ClientFrame(c, w.net, u.net)
    BY <2>2 DEF ClientOK, Line, SameUpper, ClientFrame
  <2> QED
    BY <2>2, <2>3 DEF CallOK, Nothing
<1>6. CASE sv[address_book[i]].listening
  <2>1. /\ w1 \in ClientWorkType /\ w1.net = [w.net EXCEPT ![l].end = e]
        /\ w1.m = w.m /\ w1.threw = Nothing /\ w1.established = w.established
        /\ SameUpper(w, w1)
    BY <1>4, ClientDial
  <2>2. try_connect(w, c, i, l) = w1
    BY <1>6 DEF try_connect
  <2>3. /\ w2 \in ClientWorkType /\ w2.net = w1.net
        /\ w2.m.holdings = w.m.holdings /\ w2.m.callback = w.m.callback
        /\ w2.threw = Nothing /\ w2.established = w.established
        /\ SameUpper(w, w2)
    <3> HIDE DEF w1
    <3>1. i + 1 \in Nat
      BY <1>1
    <3>2. /\ w2 \in ClientWorkType /\ w2.net = w1.net
          /\ w2.m.holdings = w1.m.holdings /\ w2.m.callback = w1.m.callback
          /\ w2.threw = w1.threw /\ w2.established = w1.established
          /\ SameUpper(w1, w2)
      BY <2>1, <3>1, ClientNextId
    <3> HIDE DEF w2
    <3> QED
      BY <2>1, <3>2 DEF SameUpper
  <2>4. assign_id(w1.m, i) = i
    BY <1>1 DEF assign_id
  <2>5. /\ w2.net[l].end = e /\ w2.net[l].to = NoLink.to
        /\ \A x \in ConnName : x # l => w2.net[x] = w.net[x]
    <3> HIDE DEF e
    <3> QED
      BY <1>4, <2>1, <2>3 DEF ClientWorkType, Link
  <2>6. CASE i \in Held(w.m)
    <3> DEFINE n  == connection_close(w2.net, l, "client")
               w3 == [w2 EXCEPT !.net = n]
    <3>1. new_connection(w1, l, "client", i) = Throw(w3, "exists")
      <4> HIDE DEF w1
      <4> QED
        BY <2>1, <2>3, <2>4, <2>6 DEF new_connection, Held
    <3>2. /\ n \in [ConnName -> Link(Msg)]
          /\ \A x \in ConnName : x # l => n[x] = w.net[x]
          /\ n[l].end["server"] = "backlog"
      <4> HIDE DEF w2
      <4>1. w2.net \in [ConnName -> Link(Msg)] /\ "client" \in Side
        BY <2>3 DEF ClientWorkType, Side
      <4>2. /\ n \in [ConnName -> Link(Msg)]
            /\ n[l] = shut(w2.net[l], "client")
            /\ \A x \in ConnName : x # l => n[x] = w2.net[x]
        BY <1>4, <4>1, CloseNet
      <4>3. shut(w2.net[l], "client").end["server"] = w2.net[l].end["server"]
        BY <1>4, <4>1, ShutLink DEF Other
      <4> QED
        BY <1>4, <2>5, <4>2, <4>3
    <3>3. /\ w3 \in ClientWorkType /\ w3.net = n /\ w3.m = w2.m /\ w3.threw = Nothing
          /\ w3.established = w.established /\ SameUpper(w, w3)
      <4> HIDE DEF w2, n
      <4> QED
        BY <2>3, <3>2, ClientNet DEF SameUpper
    <3>4. /\ u \in ClientWorkType /\ u.net = n /\ u.m = w2.m /\ u.threw = "exists"
          /\ u.established = w.established /\ SameUpper(w, u)
      <4> HIDE DEF w3
      <4>1. LET v == Throw(w3, "exists") IN
            /\ v \in ClientWorkType /\ v.net = n /\ v.m = w2.m /\ v.threw = "exists"
            /\ v.established = w.established /\ SameUpper(w, v)
        BY <3>3, ClientThrow DEF Exception, SameUpper
      <4>2. u = Throw(w3, "exists")
        BY <2>2, <3>1, <4>1 DEF do_connect, Nothing
      <4> QED
        BY <4>1, <4>2
    <3>5. ClientFrame(c, w.net, u.net)
      BY <1>4, <3>2, <3>4 DEF ClientFrame, NoLink, Side
    <3>6. ClientOK(c, u, FALSE)
      <4>1. \A j \in Id : u.net[First(c, j)] = w.net[First(c, j)]
        BY <1>3, <2>6, <3>2, <3>4, Names
      <4> QED
        BY <2>3, <3>4, <4>1 DEF ClientOK, Line, SameUpper, Held
    <3> QED
      BY <3>4, <3>5, <3>6 DEF CallOK, Nothing
  <2>7. CASE i \notin Held(w.m)
    <3> DEFINE w3 == hold(w2, l, "client", i)
               w4 == [w3 EXCEPT !.established = @ \cup {i}]
    <3>1. new_connection(w1, l, "client", i) = w3
      <4> HIDE DEF w1
      <4> QED
        BY <2>1, <2>3, <2>4, <2>7 DEF new_connection, Held
    <3>2. /\ w3 \in ClientWorkType
          /\ w3.m.holdings = Put(w.m.holdings, i, l)
          /\ w3.m.callback = Put(w.m.callback, l, i)
          /\ w3.net = [w2.net EXCEPT ![l].end["client"] = "open"]
          /\ w3.threw = Nothing /\ w3.established = w.established
          /\ SameUpper(w, w3)
      <4> HIDE DEF w2
      <4>1. /\ w3 \in ClientWorkType
            /\ w3.m.holdings = Put(w2.m.holdings, i, l)
            /\ w3.m.callback = Put(w2.m.callback, l, i)
            /\ w3.net = [w2.net EXCEPT ![l].end["client"] = "open"]
            /\ w3.threw = w2.threw /\ w3.established = w2.established
            /\ SameUpper(w2, w3)
        BY <1>4, <2>3, ClientHold
      <4> HIDE DEF w3
      <4> QED
        BY <2>3, <4>1 DEF SameUpper
    <3>3. /\ u \in ClientWorkType /\ u.m = w3.m /\ u.net = w3.net /\ u.threw = Nothing
          /\ u.established = w.established \cup {i} /\ SameUpper(w, u)
      <4> HIDE DEF w3
      <4>1. /\ w4 \in ClientWorkType /\ w4.m = w3.m /\ w4.net = w3.net
            /\ w4.threw = Nothing
            /\ w4.established = w.established \cup {i} /\ SameUpper(w, w4)
        <5>1. w.established \cup {i} \in SUBSET Id
          BY DEF ClientWorkType
        <5> QED
          BY <3>2, <5>1, ClientEstablish DEF SameUpper
      <4>2. u = w4
        BY <2>2, <3>1, <3>2 DEF do_connect
      <4> QED
        BY <4>1, <4>2
    <3>4. /\ u.net[l].end = e /\ u.net[l].to = NoLink.to
          /\ \A x \in ConnName : x # l => u.net[x] = w.net[x]
      <4> HIDE DEF w2, w3
      <4>1. w2.net \in [ConnName -> Link(Msg)]
        BY <2>3 DEF ClientWorkType
      <4>2. u.net = [w2.net EXCEPT ![l].end["client"] = "open"]
        BY <3>2, <3>3
      <4>3. /\ u.net[l] = [w2.net[l] EXCEPT !.end["client"] = "open"]
            /\ \A x \in ConnName : x # l => u.net[x] = w2.net[x]
        BY <1>4, <4>1, <4>2
      <4>4. [e EXCEPT !["client"] = "open"] = e
        OBVIOUS
      <4> HIDE DEF e
      <4>5. /\ u.net[l].end = [w2.net[l].end EXCEPT !["client"] = "open"]
            /\ u.net[l].to = w2.net[l].to
        BY <1>4, <4>1, <4>3 DEF Link
      <4> QED
        BY <1>4, <2>5, <4>3, <4>4, <4>5
    <3>5. ClientFrame(c, w.net, u.net)
      BY <1>4, <3>4 DEF ClientFrame, NoLink, Side
    <3>6. /\ Held(u.m) = Held(w.m) \cup {i}
          /\ u.m.holdings[i] = l /\ u.m.callback[l] = i
          /\ DOMAIN u.m.callback = DOMAIN w.m.callback \cup {l}
          /\ \A j \in Held(w.m) : j # i => u.m.holdings[j] = w.m.holdings[j]
          /\ \A x \in DOMAIN w.m.callback : x # l => u.m.callback[x] = w.m.callback[x]
      <4> HIDE DEF w2, w3
      <4>2. u.m.holdings = Put(w.m.holdings, i, l) /\ u.m.callback = Put(w.m.callback, l, i)
        BY <3>2, <3>3
      <4>3. l \in ConnName
        BY <1>4
      <4> HIDE DEF u, l
      <4> QED
        BY <4>2 DEF Held, Put
    <3>7. l = First(c, i)
      BY <1>3, <2>7
    <3>8. Line(c, u, i, TRUE)
      <4>1. w.asked[i] = <<>> /\ w.answered[i] = <<>>
        BY <1>2, <2>7 DEF Line
      <4>2. Stream(i, u.asked[i], u.answered[i], u.net[l].to["client"], u.net[l].to["server"])
        <5>1. u.net[l].to["client"] = <<>> /\ u.net[l].to["server"] = <<>>
          BY <3>4 DEF NoLink, Side
        <5>2. u.asked[i] = <<>> /\ u.answered[i] = <<>>
          BY <3>3, <4>1 DEF SameUpper
        <5> HIDE DEF u
        <5> QED
          BY <5>1, <5>2 DEF Stream
      <4>3. u.net[Second(c, i)] = w.net[Second(c, i)]
        BY <1>1, <3>4, <3>7, Names
      <4>4. i \in Held(u.m) /\ i \in u.established /\ u.net[l].end["client"] = "open"
        BY <3>3, <3>4, <3>6
      <4>5. w.net[Second(c, i)] = NoLink
        BY <1>2 DEF Line
      <4> HIDE DEF u, l
      <4> QED
        BY <3>6, <3>7, <4>2, <4>3, <4>4, <4>5 DEF Line
    <3>9. ASSUME NEW j \in Id, j # i
          PROVE  Line(c, u, j, TRUE)
      <4>1. Line(c, w, j, TRUE)
        BY DEF ClientOK
      <4>2. First(c, j) # l /\ Second(c, j) # l /\ First(c, j) \in ConnName /\ Second(c, j) \in ConnName
        BY <3>7, <3>9, Names
      <4>3. j \in Held(w.m) => First(c, j) \in DOMAIN w.m.callback
        BY DEF ClientOK
      <4> QED
        BY <3>3, <3>4, <3>6, <3>9, <4>1, <4>2, <4>3 DEF Line, SameUpper
    <3>10. ClientOK(c, u, TRUE)
      <4>1. u.established \subseteq Held(u.m)
        BY <3>3, <3>6 DEF ClientOK
      <4>2. DOMAIN u.m.callback = {First(c, j) : j \in Held(u.m)}
        BY <3>6, <3>7 DEF ClientOK
      <4> QED
        BY <3>3, <3>8, <3>9, <4>1, <4>2 DEF ClientOK, SameUpper
    <3> QED
      BY <3>3, <3>5, <3>10 DEF CallOK, Nothing
  <2> QED
    BY <2>6, <2>7
<1> QED
  BY <1>5, <1>6

\* What a client has asked goes on from what it had.
Extended(t, s) == Len(s) <= Len(t) /\ s = SubSeq(t, 1, Len(s))

LEMMA ExtendedSame ==
    ASSUME NEW s \in Seq(Msg)
    PROVE  Extended(s, s)
  BY DEF Extended

LEMMA ExtendedAppend ==
    ASSUME NEW s \in Seq(Msg), NEW msg \in Msg
    PROVE  Extended(Append(s, msg), s)
  BY DEF Extended

LEMMA ExtendedTransitive ==
    ASSUME NEW s \in Seq(Msg), NEW t \in Seq(Msg), NEW u \in Seq(Msg),
           Extended(t, s), Extended(u, t)
    PROVE  Extended(u, s)
  BY DEF Extended

\* The upper layer asks, and nothing else happens to it.
Asked(w, u) ==
    /\ \A i \in Id : Extended(u.asked[i], w.asked[i])
    /\ u.answered = w.answered
    /\ u.finished = w.finished /\ u.next_dest = w.next_dest

LEMMA AskedTransitive ==
    ASSUME NEW w \in ClientWorkType, NEW v \in ClientWorkType, NEW u \in ClientWorkType,
           Asked(w, v), Asked(v, u)
    PROVE  Asked(w, u)
<1>1. \A i \in Id : /\ w.asked[i] \in Seq(Msg) /\ v.asked[i] \in Seq(Msg)
                    /\ u.asked[i] \in Seq(Msg)
  BY DEF ClientWorkType
<1> QED
  BY <1>1, ExtendedTransitive DEF Asked

LEMMA AskedSame ==
    ASSUME NEW w \in ClientWorkType, NEW u, SameUpper(w, u)
    PROVE  Asked(w, u)
<1>1. \A i \in Id : w.asked[i] \in Seq(Msg)
  BY DEF ClientWorkType
<1> QED
  BY <1>1, ExtendedSame DEF Asked, SameUpper

\* One more request on an open connection.
LEMMA StreamAsk ==
    ASSUME NEW i \in Id, NEW asks \in Seq(Msg), NEW answers \in Seq(Msg),
           NEW down \in Seq(Msg), NEW up \in Seq(Msg), NEW msg \in Msg,
           Stream(i, asks, answers, down, up)
    PROVE  Stream(i, Append(asks, msg), answers, down, Append(up, msg))
<1> DEFINE a == Len(answers)
           b == Len(down)
           d == Len(up)
<1>1. a \in Nat /\ b \in Nat /\ d \in Nat
  OBVIOUS
<1>2. /\ Len(Append(asks, msg)) = Len(asks) + 1 /\ Len(Append(up, msg)) = d + 1
      /\ \A j \in 1..Len(asks) : Append(asks, msg)[j] = asks[j]
      /\ \A j \in 1..d : Append(up, msg)[j] = up[j]
      /\ Append(asks, msg)[Len(asks) + 1] = msg /\ Append(up, msg)[d + 1] = msg
  OBVIOUS
<1>3. /\ a + b + d = Len(asks)
      /\ \A j \in 1..b : down[j] = Reply(address_book[i], asks[a + j])
      /\ \A j \in 1..d : up[j] = asks[a + b + j]
  BY DEF Stream
<1> HIDE DEF a, b, d
<1>4. a + b + (d + 1) = Len(asks) + 1
  BY <1>1, <1>3
<1>5. \A j \in 1..b : down[j] = Reply(address_book[i], Append(asks, msg)[a + j])
  <2> SUFFICES ASSUME NEW j \in 1..b
               PROVE  Append(asks, msg)[a + j] = asks[a + j]
    BY <1>3
  <2> QED
    BY <1>1, <1>2, <1>3
<1>6. \A j \in 1..(d + 1) : Append(up, msg)[j] = Append(asks, msg)[a + b + j]
  <2> SUFFICES ASSUME NEW j \in 1..(d + 1)
               PROVE  Append(up, msg)[j] = Append(asks, msg)[a + b + j]
    OBVIOUS
  <2>1. CASE j = d + 1
    BY <1>1, <1>2, <1>3, <2>1
  <2>2. CASE j \in 1..d
    BY <1>1, <1>2, <1>3, <2>2
  <2>3. j = d + 1 \/ j \in 1..d
    BY <1>1
  <2> QED
    BY <2>1, <2>2, <2>3
<1> QED
  BY <1>2, <1>4, <1>5, <1>6 DEF Stream, a, b, d

LEMMA FrameTransitive ==
    ASSUME NEW c, NEW n, NEW q, NEW r, ClientFrame(c, n, q), ClientFrame(c, q, r)
    PROVE  ClientFrame(c, n, r)
  BY DEF ClientFrame

LEMMA RequestType ==
    ASSUME NEW c \in Client, NEW i \in Id, NEW n \in Nat
    PROVE  Request(c, i, n) \in Msg
  BY DEF Request, Msg

\* A request on a connection that is established.
asked_on(v, i, msg) ==
    [manager_send(v, "client", i, msg) EXCEPT !.nsent = @ + 1, !.asked[i] = Append(@, msg)]

LEMMA AskOn ==
    ASSUME NEW c \in Client, NEW i \in Id, NEW v \in ClientWorkType,
           ClientOK(c, v, TRUE), v.threw = Nothing, i \in v.established,
           NEW msg \in Msg
    PROVE  LET u == asked_on(v, i, msg) IN
           /\ CallOK(c, v, u)
           /\ Asked(v, u)
           /\ u.threw = Nothing
           /\ u.m = v.m /\ u.established = v.established
           /\ u.asked[i] = Append(v.asked[i], msg)
           /\ \A j \in Id : j # i => u.asked[j] = v.asked[j]
<1> DEFINE l == First(c, i)
           n == do_send_message(v.net, l, "client", msg)
           s == manager_send(v, "client", i, msg)
           a == [v.asked EXCEPT ![i] = Append(@, msg)]
           u == asked_on(v, i, msg)
<1>1. i \in Held(v.m) /\ v.m.holdings[i] = l
  BY DEF ClientOK, Line
<1>2. s = [v EXCEPT !.net = n]
  BY <1>1 DEF manager_send
<1>3. l \in ConnName /\ l \in Of(c) /\ "client" \in Side /\ Other("client") = "server"
  BY Names DEF Side, Other
<1>4. v.net \in [ConnName -> Link(Msg)] /\ v.asked \in [Id -> Seq(Msg)] /\ v.nsent \in Nat
      /\ v.answered \in [Id -> Seq(Msg)]
  BY DEF ClientWorkType
<1>5. /\ n \in [ConnName -> Link(Msg)]
      /\ \A x \in ConnName : x # l => n[x] = v.net[x]
      /\ n[l].end = v.net[l].end
      /\ n[l].to["client"] = v.net[l].to["client"]
      /\ v.net[l].end["client"] = "open" =>
            n[l].to["server"] = Append(v.net[l].to["server"], msg)
  <2> SUFFICES ASSUME NEW x \in ConnName, NEW r \in [ConnName -> Link(Msg)], 
                      x = l, r = v.net
               PROVE  LET q == do_send_message(r, x, "client", msg) IN
                      /\ q \in [ConnName -> Link(Msg)]
                      /\ \A y \in ConnName : y # x => q[y] = r[y]
                      /\ q[x].end = r[x].end
                      /\ q[x].to["client"] = r[x].to["client"]
                      /\ r[x].end["client"] = "open" =>
                            q[x].to["server"] = Append(r[x].to["server"], msg)
    BY <1>3, <1>4
  <2> HIDE DEF n, l
  <2>1. LET q == do_send_message(r, x, "client", msg) IN
                      /\ q \in [ConnName -> Link(Msg)]
                      /\ \A y \in ConnName : y # x => q[y] = r[y]
                      /\ q[x].end = r[x].end
                      /\ q[x].to["client"] = r[x].to["client"]
                      /\ r[x].end["client"] = "open" =>
                            q[x].to[Other("client")] = Append(r[x].to[Other("client")], msg)
    BY <1>3, SendLink, SMTT(30)
  <2> QED
    BY <1>3, <2>1
<1> HIDE DEF n
<1>6. /\ s \in ClientWorkType /\ s.net = n /\ s.m = v.m /\ s.threw = Nothing
      /\ s.established = v.established /\ SameUpper(v, s)
  <2> HIDE DEF s
  <2> QED
    BY <1>2, <1>5, ClientNet
<1> HIDE DEF s
<1>7. a \in [Id -> Seq(Msg)]
  BY <1>4
<1>8. u = [s EXCEPT !.nsent = v.nsent + 1, !.asked = a]
  BY <1>6 DEF SameUpper, asked_on, s
<1> HIDE DEF a
<1>9. /\ u \in ClientWorkType /\ u.net = n /\ u.m = v.m /\ u.threw = Nothing
      /\ u.established = v.established /\ u.asked = a /\ u.answered = v.answered
      /\ u.finished = v.finished /\ u.next_dest = v.next_dest
      /\ u.nsent = v.nsent + 1
  <2>1. v.nsent + 1 \in Nat
    BY <1>4
  <2> HIDE DEF u
  <2> QED
    BY <1>6, <1>7, <1>8, <2>1 DEF ClientWorkType, SameUpper
<1> HIDE DEF u
<1>10. a[i] = Append(v.asked[i], msg) /\ \A j \in Id : j # i => a[j] = v.asked[j]
  BY <1>4 DEF a
<1>11. Line(c, u, i, TRUE)
  <2>1. Line(c, v, i, TRUE) /\ First(c, i) # Second(c, i) /\ Second(c, i) \in ConnName
    BY Names DEF ClientOK
  <2>2. v.net[l].end["client"] = "open" =>
           Stream(i, u.asked[i], u.answered[i], n[l].to["client"], n[l].to["server"])
    <3> SUFFICES ASSUME v.net[l].end["client"] = "open"
                 PROVE  Stream(i, a[i], v.answered[i], n[l].to["client"], n[l].to["server"])
      BY <1>9
    <3>1. Stream(i, v.asked[i], v.answered[i], v.net[l].to["client"], v.net[l].to["server"])
      BY <2>1 DEF Line
    <3>2. v.net[l].to["client"] \in Seq(Msg) /\ v.net[l].to["server"] \in Seq(Msg)
      BY <1>3, <1>4 DEF Link, Side
    <3>3. v.asked[i] \in Seq(Msg) /\ v.answered[i] \in Seq(Msg)
      BY <1>4
    <3> HIDE DEF l
    <3> QED
      BY <1>5, <1>10, <3>1, <3>2, <3>3, StreamAsk
  <2> QED
    BY <1>1, <1>5, <1>9, <2>1, <2>2 DEF Line
<1>12. ASSUME NEW j \in Id, j # i  PROVE  Line(c, u, j, TRUE)
  <2>1. /\ Line(c, v, j, TRUE) /\ First(c, j) # l /\ Second(c, j) # l
        /\ First(c, j) \in ConnName /\ Second(c, j) \in ConnName
    BY <1>12, Names DEF ClientOK
  <2> HIDE DEF l
  <2> QED
    BY <1>5, <1>9, <1>10, <1>12, <2>1 DEF Line
<1>13. ClientOK(c, u, TRUE)
  BY <1>9, <1>11, <1>12 DEF ClientOK
<1>14. ClientFrame(c, v.net, u.net)
  BY <1>3, <1>5, <1>9 DEF ClientFrame
<1>15. Asked(v, u)
  <2> SUFFICES ASSUME NEW j \in Id
               PROVE  Extended(u.asked[j], v.asked[j])
    BY <1>9 DEF Asked
  <2>1. v.asked[j] \in Seq(Msg)
    BY <1>4
  <2> QED
    BY <1>9, <1>10, <2>1, ExtendedSame, ExtendedAppend
<1>16. CallOK(c, v, u)
  BY <1>9, <1>13, <1>14 DEF CallOK, Nothing
<1> QED
  BY <1>9, <1>10, <1>15, <1>16 DEF u

\* What any call of the upper layer of a client leaves behind.
Called(c, w, u) == CallOK(c, w, u) /\ Asked(w, u)

\* No more than QueueBound requests on an id.
Short(w) == \A i \in Id : Len(w.asked[i]) <= QueueBound

LEMMA CalledTransitive ==
    ASSUME NEW c \in Client, NEW w \in ClientWorkType, NEW v, NEW u,
           Called(c, w, v), Called(c, v, u)
    PROVE  Called(c, w, u)
  BY AskedTransitive, FrameTransitive DEF Called, CallOK

LEMMA CalledSame ==
    ASSUME NEW c \in Client, NEW w \in ClientWorkType, ClientOK(c, w, w.threw = Nothing),
           w.threw # "null"
    PROVE  Called(c, w, w)
<1>1. SameUpper(w, w) /\ ClientFrame(c, w.net, w.net)
  BY DEF SameUpper, ClientFrame
<1> QED
  BY <1>1, AskedSame DEF Called, CallOK

\* BasicModel::send of a client, which connects when it must.
LEMMA AskCall ==
    ASSUME NEW c \in Client, NEW i \in Id, NEW w \in ClientWorkType,
           ClientOK(c, w, TRUE), w.threw = Nothing
    PROVE  /\ Called(c, w, Ask(w, c, i))
           /\ Short(w) /\ Len(w.asked[i]) < QueueBound => Short(Ask(w, c, i))
<1> DEFINE msg == Request(c, i, w.nsent + 1)
           v   == IF i \in w.established THEN w ELSE do_connect(w, c, i)
           s   == manager_send(v, "client", i, msg)
           u   == asked_on(v, i, msg)
<1>1. /\ CallOK(c, w, v) /\ SameUpper(w, v)
      /\ v.threw = Nothing => i \in v.established
  <2>1. CASE i \in w.established
    <3>1. SameUpper(w, w) /\ ClientFrame(c, w.net, w.net)
      BY DEF SameUpper, ClientFrame
    <3> QED
      BY <2>1, <3>1 DEF CallOK, Nothing
  <2>2. CASE i \notin w.established
    BY <2>2, DoConnect
  <2> QED
    BY <2>1, <2>2
<1>2. msg \in Msg
  <2>1. w.nsent + 1 \in Nat
    BY DEF ClientWorkType
  <2> QED
    BY <2>1, RequestType
<1>3. Ask(w, c, i) = IF s.threw = Nothing THEN u ELSE s
  BY DEF Ask, send, asked_on
<1> HIDE DEF v, msg
<1>4. Called(c, w, v)
  BY <1>1, AskedSame DEF Called
<1>5. CASE v.threw # Nothing
  <2>1. s = v
    BY <1>5 DEF manager_send
  <2> QED
    BY <1>1, <1>3, <1>4, <1>5, <2>1 DEF Short, SameUpper
<1>6. CASE v.threw = Nothing
  <2>1. v \in ClientWorkType /\ ClientOK(c, v, TRUE) /\ i \in v.established
    BY <1>1, <1>6 DEF CallOK
  <2>2. /\ CallOK(c, v, u) /\ Asked(v, u)
        /\ u.asked[i] = Append(v.asked[i], msg)
        /\ \A j \in Id : j # i => u.asked[j] = v.asked[j]
    BY <1>2, <1>6, <2>1, AskOn
  <2>4. s.threw = Nothing
    <3>1. i \in Held(v.m)
      BY <2>1 DEF ClientOK
    <3>2. s = [v EXCEPT !.net = do_send_message(@, v.m.holdings[i], "client", msg)]
      BY <1>6, <3>1 DEF manager_send
    <3> QED
      BY <1>6, <2>1, <3>2 DEF ClientWorkType
  <2>3. Called(c, v, u)
    BY <2>2 DEF Called
  <2> HIDE DEF u, s
  <2>5. Short(w) /\ Len(w.asked[i]) < QueueBound => Short(u)
    <3>1. v.asked = w.asked /\ w.asked \in [Id -> Seq(Msg)]
      BY <1>1 DEF SameUpper, ClientWorkType
    <3>2. /\ u.asked[i] = Append(w.asked[i], msg) /\ Len(u.asked[i]) = Len(w.asked[i]) + 1
          /\ Len(w.asked[i]) \in Nat
          /\ \A j \in Id : j # i => u.asked[j] = w.asked[j]
      BY <1>2, <2>2, <3>1
    <3> QED
      BY <3>2 DEF Short, QueueBound
  <2> QED
    BY <1>3, <1>4, <2>3, <2>4, <2>5, CalledTransitive
<1> QED
  BY <1>5, <1>6

\* MultiClient::disconnect of an id that has been connected.
LEMMA DisconnectCall ==
    ASSUME NEW c \in Client, NEW i \in Id, NEW w \in ClientWorkType,
           ClientOK(c, w, TRUE), w.threw = Nothing, i \in Held(w.m)
    PROVE  LET u == disconnect(w, i) IN
           /\ Called(c, w, u)
           /\ SameUpper(w, u)
           /\ u.threw = Nothing /\ u.m = w.m
           /\ u.established = w.established \ {i}
           /\ u.net = connection_close(w.net, First(c, i), "client")
<1> DEFINE l  == First(c, i)
           n  == connection_close(w.net, l, "client")
           w2 == manager_disconnect(w, "client", i)
           u  == [w2 EXCEPT !.established = @ \ {i}]
<1>1. Line(c, w, i, TRUE)
  BY DEF ClientOK
<1>2. w2 = [w EXCEPT !.net = n]
  BY <1>1 DEF manager_disconnect, Line
<1>3. l \in ConnName /\ l \in Of(c) /\ "client" \in Side /\ Other("client") = "server"
  BY Names DEF Side, Other
<1>4. w.net \in [ConnName -> Link(Msg)] /\ w.net[l] \in Link(Msg)
  BY <1>3 DEF ClientWorkType
<1>5. /\ n \in [ConnName -> Link(Msg)]
      /\ n[l] = shut(w.net[l], "client")
      /\ \A x \in ConnName : x # l => n[x] = w.net[x]
  BY <1>3, <1>4, CloseNet
<1>6. n[l].end["client"] = "closed" /\ n[l].end["server"] = w.net[l].end["server"]
  <2> DEFINE k == w.net[l]
  <2>1. k \in Link(Msg) /\ k.end["client"] # "none"
    BY <1>1, <1>4 DEF Line
  <2> HIDE DEF k
  <2>2. shut(k, "client").end["client"] = "closed"
        /\ shut(k, "client").end["server"] = k.end["server"]
    BY <1>3, <2>1, ShutLink
  <2> QED
    BY <1>5, <2>2 DEF k
<1> HIDE DEF n
<1>7. /\ w2 \in ClientWorkType /\ w2.net = n /\ w2.m = w.m /\ w2.threw = Nothing
      /\ w2.established = w.established /\ SameUpper(w, w2)
  <2> HIDE DEF w2
  <2> QED
    BY <1>2, <1>5, ClientNet
<1>8. disconnect(w, i) = u
  BY <1>7 DEF disconnect
<1> HIDE DEF w2
<1>9. /\ u \in ClientWorkType /\ u.net = n /\ u.m = w.m /\ u.threw = Nothing
      /\ u.established = w.established \ {i} /\ SameUpper(w, u)
  <2>1. w2.established \ {i} \in SUBSET Id
    BY <1>7 DEF ClientWorkType
  <2> QED
    BY <1>7, <2>1, ClientEstablish DEF SameUpper
<1> HIDE DEF u
<1>10. Line(c, u, i, TRUE)
  <2>1. First(c, i) # Second(c, i) /\ Second(c, i) \in ConnName
    BY Names
  <2> QED
    BY <1>1, <1>5, <1>6, <1>9, <2>1 DEF Line, SameUpper
<1>11. ASSUME NEW j \in Id, j # i  PROVE  Line(c, u, j, TRUE)
  <2>1. /\ Line(c, w, j, TRUE) /\ First(c, j) # l /\ Second(c, j) # l
        /\ First(c, j) \in ConnName /\ Second(c, j) \in ConnName
    BY <1>11, Names DEF ClientOK
  <2> HIDE DEF l
  <2> QED
    BY <1>5, <1>9, <1>11, <2>1 DEF Line, SameUpper
<1>12. ClientOK(c, u, TRUE)
  BY <1>9, <1>10, <1>11 DEF ClientOK, SameUpper
<1>13. ClientFrame(c, w.net, u.net)
  BY <1>3, <1>5, <1>6, <1>9 DEF ClientFrame
<1> QED
  BY <1>8, <1>9, <1>12, <1>13, AskedSame DEF Called, CallOK, Nothing, n, l

-----------------------------------------------------------------------------
(***************************************************************************)
(* What the upper layers of a client do when something comes up.           *)
(***************************************************************************)

LEMMA OneCall ==
    ASSUME NEW c \in Client, NEW w \in ClientWorkType,
           ClientOK(c, w, w.threw = Nothing), w.threw # "null",
           NEW u \in One(w, c)
    PROVE  Called(c, w, u) /\ (Short(w) => Short(u))
<1>1. CASE u = w
  BY <1>1, CalledSame
<1>2. CASE u # w
  <2>1. PICK call \in Call : w.threw = Nothing /\ MayCall(w, c, call) /\ u = Perform(w, c, call)
    BY <1>2 DEF One
  <2>2. ClientOK(c, w, TRUE)
    <3>1. (w.threw = Nothing) = TRUE
      BY <2>1
    <3> QED
      BY <3>1
  <2>3. PICK i \in Id : call = <<"send", i>> \/ call = <<"disconnect", i>>
    BY DEF Call
  <2>4. CASE call = <<"send", i>>
    <3>1. u = Ask(w, c, i) /\ Len(w.asked[i]) < QueueBound
      BY <2>1, <2>4 DEF Perform, MayCall
    <3> QED
      BY <2>1, <2>2, <3>1, AskCall
  <2>5. CASE call = <<"disconnect", i>>
    <3>1. u = disconnect(w, i) /\ w.asked[i] # <<>>
      BY <2>1, <2>5 DEF Perform, MayCall
    <3>2. i \in Held(w.m)
      BY <2>2, <3>1 DEF ClientOK, Line
    <3>3. LET v == disconnect(w, i) IN Called(c, w, v) /\ v.asked = w.asked
      BY <2>1, <2>2, <3>2, DisconnectCall DEF SameUpper
    <3> QED
      BY <3>1, <3>3 DEF Short
  <2> QED
    BY <2>3, <2>4, <2>5
<1> QED
  BY <1>1, <1>2

LEMMA ReactionsCalled ==
    ASSUME NEW c \in Client, NEW w \in ClientWorkType,
           ClientOK(c, w, w.threw = Nothing), w.threw # "null",
           NEW u \in Reactions(w, c)
    PROVE  Called(c, w, u) /\ (Short(w) => Short(u))
<1>1. PICK x \in One(w, c) : \E y \in One(x, c) : u \in One(y, c)
  BY DEF Reactions
<1>2. PICK y \in One(x, c) : u \in One(y, c)
  BY <1>1
<1>3. Called(c, w, x) /\ (Short(w) => Short(x))
  BY OneCall
<1>4. Called(c, x, y) /\ (Short(x) => Short(y))
  BY <1>3, OneCall DEF Called, CallOK
<1>5. Called(c, y, u) /\ (Short(y) => Short(u))
  BY <1>2, <1>4, OneCall DEF Called, CallOK
<1>6. Called(c, w, y)
  BY <1>3, <1>4, CalledTransitive
<1> QED
  BY <1>3, <1>4, <1>5, <1>6, CalledTransitive

\* Between the event or the answer and the return to the io loop.
Handled(c, w, u) ==
    /\ CallOK(c, w, u)
    /\ Progress(u)
    /\ \A i \in Id : Extended(u.asked[i], w.asked[i])
    /\ model # "sort" => (Short(w) => Short(u))
    /\ u.answered = w.answered

LEMMA CalledHandled ==
    ASSUME NEW c, NEW w, NEW u, Called(c, w, u), Progress(w),
           model = "sort" \/ (Short(w) => Short(u))
    PROVE  Handled(c, w, u)
  BY DEF Called, Handled, Asked, Progress

LEMMA SortIds ==
    ASSUME "sort" \in Model
    PROVE  /\ nreduce \in Nat /\ nreduce > 0
           /\ Id = 0..(nreduce - 1)
<1>1. IsFiniteSet(Server) /\ Server # {} /\ Id = 0..(nreduce - 1)
  BY MultiClientAssumption DEF MultiClientAssumption
<1>2. nreduce \in Nat /\ nreduce # 0
  BY <1>1, FS_CardinalityType, FS_EmptySet DEF nreduce
<1> QED
  BY <1>1, <1>2

LEMMA FetchAndSend ==
    ASSUME NEW c \in Client, NEW w \in ClientWorkType,
           ClientOK(c, w, TRUE), w.threw = Nothing, Progress(w),
           model = "sort", "sort" \in Model, w.finished # nreduce
    PROVE  Handled(c, w, fetch_and_send(w, c))
<1> DEFINE d  == w.next_dest
           w1 == [w EXCEPT !.next_dest = d + 1]
           v  == Ask(w1, c, d)
           u  == [v EXCEPT !.finished = @ + 1]
<1>1. d \in Nat /\ w.finished = d /\ d < nreduce /\ d \in Id
  BY SortIds DEF Progress, ClientWorkType
<1>2. /\ w1 \in ClientWorkType
      /\ w1.net = w.net /\ w1.m = w.m /\ w1.threw = w.threw
      /\ w1.established = w.established /\ w1.asked = w.asked /\ w1.answered = w.answered
      /\ w1.finished = w.finished /\ w1.next_dest = d + 1
  <2>1. d + 1 \in Nat
    BY <1>1
  <2> HIDE DEF d
  <2> QED
    BY <2>1 DEF ClientWorkType
<1>3. fetch_and_send(w, c) = u
  BY DEF fetch_and_send
<1> HIDE DEF w1, d
<1>4. ClientOK(c, w1, TRUE)
  BY <1>2 DEF ClientOK, Line
<1>5. Called(c, w1, v)
  BY <1>1, <1>2, <1>4, AskCall
<1> HIDE DEF v
<1>6. /\ v \in ClientWorkType /\ ClientOK(c, v, v.threw = Nothing)
      /\ ClientFrame(c, w.net, v.net) /\ v.threw # "null"
      /\ v.finished = d /\ v.next_dest = d + 1 /\ v.answered = w.answered
      /\ \A i \in Id : Extended(v.asked[i], w.asked[i])
  BY <1>1, <1>2, <1>5 DEF Called, CallOK, Asked
<1>7. /\ u \in ClientWorkType
      /\ u.net = v.net /\ u.m = v.m /\ u.threw = v.threw
      /\ u.established = v.established /\ u.asked = v.asked /\ u.answered = v.answered
      /\ u.finished = d + 1 /\ u.next_dest = d + 1
  BY <1>1, <1>6 DEF ClientWorkType
<1> HIDE DEF u
<1>8. ClientOK(c, u, u.threw = Nothing)
  BY <1>6, <1>7 DEF ClientOK, Line
<1>9. Progress(u)
  BY <1>1, <1>7, SortIds DEF Progress
<1> QED
  BY <1>3, <1>6, <1>7, <1>8, <1>9 DEF Handled, CallOK

LEMMA SortLogic ==
    ASSUME NEW c \in Client, NEW i \in Id, NEW w \in ClientWorkType,
           ClientOK(c, w, TRUE), w.threw = Nothing, Progress(w),
           model = "sort", "sort" \in Model, i \in Held(w.m)
    PROVE  Handled(c, w, sort_logic(w, c, i))
<1> DEFINE v == disconnect(w, i)
<1>1. Called(c, w, v) /\ SameUpper(w, v) /\ v.threw = Nothing
  BY DisconnectCall
<1>2. sort_logic(w, c, i) = IF v.threw = Nothing /\ v.finished # nreduce
                            THEN fetch_and_send(v, c) ELSE v
  BY DEF sort_logic
<1> HIDE DEF v
<1>3. Handled(c, w, v)
  BY <1>1, CalledHandled
<1>4. CASE v.finished = nreduce
  BY <1>2, <1>3, <1>4
<1>5. CASE v.finished # nreduce
  <2>1. v \in ClientWorkType /\ ClientOK(c, v, TRUE) /\ Progress(v)
    BY <1>1, <1>3 DEF Handled, CallOK
  <2>2. Handled(c, v, fetch_and_send(v, c))
    BY <1>1, <1>5, <2>1, FetchAndSend
  <2>3. v.asked = w.asked /\ v.answered = w.answered
    BY <1>1 DEF SameUpper
  <2>4. Handled(c, w, fetch_and_send(v, c))
    BY <1>3, <2>2, <2>3, FrameTransitive DEF Handled, CallOK
  <2> QED
    BY <1>1, <1>2, <1>5, <2>4
<1> QED
  BY <1>4, <1>5

-----------------------------------------------------------------------------
(***************************************************************************)
(* The end of a handler of a client.                                       *)
(***************************************************************************)

IInv == Types /\ Inv

LEMMA ClientKept ==
    ASSUME NEW c \in Client, NEW w, NEW v, NEW a \in BOOLEAN, NEW b \in BOOLEAN,
           ClientOK(c, w, a), b => a,
           v.m = w.m, v.established = w.established,
           v.asked = w.asked, v.answered = w.answered,
           \A i \in Id : /\ v.net[First(c, i)] = w.net[First(c, i)]
                         /\ v.net[Second(c, i)] = w.net[Second(c, i)]
    PROVE  ClientOK(c, v, b)
  BY DEF ClientOK, Line

LEMMA ServerKept ==
    ASSUME NEW s \in Server, NEW w, NEW v, ServerOK(s, w), v.m = w.m,
           \A l \in With(s) :
              \/ v.net[l].end["server"] = w.net[l].end["server"]
              \/ w.net[l].end["server"] = "none" /\ v.net[l].end["server"] = "backlog"
    PROVE  ServerOK(s, v)
<1>1. \A l \in With(s) :
         /\ w.net[l].end["server"] \in {"open", "closed"} =>
               v.net[l].end["server"] = w.net[l].end["server"]
         /\ v.net[l].end["server"] = "open" => w.net[l].end["server"] = "open"
  BY DEF With
<1>2. ASSUME NEW i \in Held(w.m)
      PROVE  v.net[w.m.holdings[i]].end["server"] \in {"open", "closed"}
  <2>1. /\ w.m.holdings[i] \in With(s)
        /\ w.net[w.m.holdings[i]].end["server"] \in {"open", "closed"}
    BY DEF ServerOK
  <2> QED
    BY <1>1, <2>1
<1>3. Held(v.m) = 0..(v.m.next_id - 1)
  BY DEF ServerOK
<1>4. ASSUME NEW i \in Held(v.m)
      PROVE  /\ v.m.holdings[i] \in With(s)
             /\ v.m.holdings[i] \in DOMAIN v.m.callback
             /\ v.m.callback[v.m.holdings[i]] = i
             /\ v.net[v.m.holdings[i]].end["server"] \in {"open", "closed"}
  <2>1. i \in Held(w.m)
    OBVIOUS
  <2> QED
    BY <1>2, <2>1 DEF ServerOK
<1>5. ASSUME NEW l \in With(s), v.net[l].end["server"] = "open"
      PROVE  /\ l \in DOMAIN v.m.callback
             /\ v.m.callback[l] \in Held(v.m)
             /\ v.m.holdings[v.m.callback[l]] = l
  <2>1. w.net[l].end["server"] = "open"
    BY <1>1, <1>5
  <2>2. /\ l \in DOMAIN w.m.callback
        /\ w.m.callback[l] \in Held(w.m)
        /\ w.m.holdings[w.m.callback[l]] = l
    BY <2>1 DEF ServerOK
  <2> QED
    BY <2>2
<1> QED
  BY <1>3, <1>4, <1>5 DEF ServerOK

\* The sockets of a process that is gone.
LEMMA CloseAllNet ==
    ASSUME NEW n \in [ConnName -> Link(Msg)], NEW names \in SUBSET ConnName,
           NEW side \in Side
    PROVE  LET q == CloseAll(n, names, side) IN
           /\ q \in [ConnName -> Link(Msg)]
           /\ \A l \in ConnName :
                 /\ l \notin names => q[l] = n[l]
                 /\ l \in names => q[l] = shut(n[l], side)
                 /\ q[l].end[Other(side)] = n[l].end[Other(side)]
  BY ShutLink DEF CloseAll

LEMMA ClientClosed ==
    ASSUME NEW c \in Client, NEW w, w.net \in [ConnName -> Link(Msg)],
           NEW a \in BOOLEAN, ClientOK(c, w, a), NEW v,
           v.net = CloseAll(w.net, Of(c), "client"),
           v.m = w.m, v.established = w.established,
           v.asked = w.asked, v.answered = w.answered
    PROVE  /\ ClientOK(c, v, FALSE)
           /\ ClientFrame(c, w.net, v.net)
           /\ v.net \in [ConnName -> Link(Msg)]
<1> DEFINE n == w.net
           q == CloseAll(n, Of(c), "client")
<1>1. "client" \in Side /\ Other("client") = "server" /\ Of(c) \in SUBSET ConnName
  BY DEF Side, Other, Of
<1>2. /\ q \in [ConnName -> Link(Msg)]
      /\ \A l \in ConnName :
            /\ l \notin Of(c) => q[l] = n[l]
            /\ l \in Of(c) => q[l] = shut(n[l], "client")
            /\ q[l].end["server"] = n[l].end["server"]
  <2> SUFFICES ASSUME NEW x \in [ConnName -> Link(Msg)], x = n
               PROVE  LET y == CloseAll(x, Of(c), "client") IN
                      /\ y \in [ConnName -> Link(Msg)]
                      /\ \A l \in ConnName :
                            /\ l \notin Of(c) => y[l] = x[l]
                            /\ l \in Of(c) => y[l] = shut(x[l], "client")
                            /\ y[l].end["server"] = x[l].end["server"]
    OBVIOUS
  <2> HIDE DEF n
  <2> QED
    BY <1>1, CloseAllNet
<1>3. \A k \in Link(Msg) :
         LET r == shut(k, "client") IN
         /\ k.end["client"] = "none" => r = k
         /\ k.end["client"] # "none" => r.end["client"] = "closed"
  BY <1>1, ShutLink
<1> HIDE DEF q
<1>4. ASSUME NEW i \in Id
      PROVE  /\ n[First(c, i)].end["client"] = "none" => q[First(c, i)] = n[First(c, i)]
             /\ n[First(c, i)].end["client"] # "none" => q[First(c, i)].end["client"] = "closed"
  <2>1. First(c, i) \in Of(c) /\ First(c, i) \in ConnName /\ n[First(c, i)] \in Link(Msg)
    BY Names
  <2> QED
    BY <1>2, <1>3, <2>1
<1>5. ASSUME NEW i \in Id
      PROVE  Line(c, v, i, FALSE)
  <2>1. Line(c, w, i, a)
    BY DEF ClientOK
  <2>2. i \notin Held(w.m) => n[First(c, i)].end["client"] = "none"
    BY <2>1 DEF Line, NoLink, Side
  <2>3. q[First(c, i)].end["client"] # "open"
    <3>1. CASE i \in Held(w.m)
      BY <1>4, <2>1, <3>1 DEF Line
    <3>2. CASE i \notin Held(w.m)
      BY <1>4, <2>2, <3>2
    <3> QED
      BY <3>1, <3>2
  <2> QED
    BY <1>4, <2>1, <2>2, <2>3 DEF Line, q
<1> QED
  BY <1>2, <1>5 DEF ClientOK, ClientFrame, q

\* ClientWork is what cl has, with the connections.
LEMMA ClientWorkTyped ==
    ASSUME Types, NEW c \in Client
    PROVE  LET w == ClientWork(c) IN
           /\ w \in ClientWorkType
           /\ w.net = net /\ w.threw = Nothing /\ w.st = "running"
           /\ w.m = cl[c].m /\ w.established = cl[c].established
           /\ w.asked = cl[c].asked /\ w.answered = cl[c].answered
           /\ w.finished = cl[c].finished /\ w.next_dest = cl[c].next_dest
<1>1. cl[c] \in ClientType /\ net \in [ConnName -> Link(Msg)]
  BY DEF Types
<1>2. Nothing \in Exception
  BY DEF Exception
<1> QED
  BY <1>1, <1>2 DEF ClientWork, ClientWorkType, ClientType

LEMMA ServerWorkTyped ==
    ASSUME Types, NEW s \in Server
    PROVE  LET w == ServerWork(s) IN
           /\ w \in ServerWorkType
           /\ w.net = net /\ w.threw = Nothing
           /\ w.m = sv[s].m /\ w.listening = sv[s].listening
           /\ w.numbers = sv[s].numbers /\ w.stored = sv[s].stored
<1>1. sv[s] \in ServerType /\ net \in [ConnName -> Link(Msg)]
  BY DEF Types
<1>2. Nothing \in Exception
  BY DEF Exception
<1> QED
  BY <1>1, <1>2 DEF ServerWork, ServerWorkType, ServerType

\* What a step of a client may leave in the state.
LEMMA ClientStep ==
    ASSUME IInv, NEW c \in Client, NEW w \in ClientType,
           cl' = [cl EXCEPT ![c] = w], UNCHANGED <<model, sv>>,
           net' \in [ConnName -> Link(Msg)], ClientFrame(c, net, net'),
           ClientOK(c, ClientWork(c)', Alive(c)'), Progress(w),
           w.st # "posted", w.st # "null"
    PROVE  IInv'
<1>1. Types /\ Inv
  BY DEF IInv
<1>2. Types'
  BY <1>1 DEF Types
<1>3. cl'[c] = w /\ \A d \in Client : d # c => cl'[d] = cl[d]
  BY <1>1 DEF Types
<1>4. ASSUME NEW d \in Client, d # c
      PROVE  ClientOK(d, ClientWork(d)', Alive(d)')
  <2>1. ClientOK(d, ClientWork(d), Alive(d))
    BY <1>1 DEF Inv
  <2>2. ASSUME NEW i \in Id
        PROVE  /\ net'[First(d, i)] = net[First(d, i)]
               /\ net'[Second(d, i)] = net[Second(d, i)]
    <3>1. /\ First(d, i) \in ConnName /\ First(d, i) \notin Of(c)
          /\ Second(d, i) \in ConnName /\ Second(d, i) \notin Of(c)
      BY <1>4, Names DEF Of, First, Second
    <3> QED
      BY <3>1 DEF ClientFrame
  <2>3. Alive(d)' = Alive(d) /\ Alive(d) \in BOOLEAN
    BY <1>3, <1>4 DEF Alive
  <2> DEFINE v == ClientWork(d)
  <2>4. /\ v.net = net /\ v'.net = net' /\ v'.m = v.m /\ v'.established = v.established
        /\ v'.asked = v.asked /\ v'.answered = v.answered
    BY <1>3, <1>4 DEF ClientWork
  <2> QED
    BY <2>1, <2>2, <2>3, <2>4, ClientKept
<1>5. ASSUME NEW s \in Server
      PROVE  ServerOK(s, ServerWork(s)')
  <2>1. ServerOK(s, ServerWork(s))
    BY <1>1 DEF Inv
  <2> DEFINE v == ServerWork(s)
  <2>2. v.net = net /\ v'.net = net' /\ v'.m = v.m
    BY DEF ServerWork
  <2>3. \A l \in With(s) :
           \/ v'.net[l].end["server"] = v.net[l].end["server"]
           \/ v.net[l].end["server"] = "none" /\ v'.net[l].end["server"] = "backlog"
    BY <2>2 DEF ClientFrame, With
  <2> HIDE DEF v
  <2> QED
    BY <2>1, <2>2, <2>3, ServerKept DEF v
<1>6. ASSUME NEW d \in Client
      PROVE  /\ ClientOK(d, ClientWork(d)', Alive(d)')
             /\ Progress(cl'[d])
             /\ cl'[d].st = "posted" => cl'[d].finished = 0
             /\ cl'[d].st # "null"
  <2>1. CASE d = c
    BY <1>3, <2>1
  <2>2. CASE d # c
    BY <1>1, <1>3, <1>4, <2>2 DEF Inv
  <2> QED
    BY <2>1, <2>2
<1>7. Inv'
  BY <1>1, <1>5, <1>6 DEF Inv
<1> QED
  BY <1>2, <1>7 DEF IInv

\* ClientReturns after a handler that kept the invariant.
LEMMA ClientReturn ==
    ASSUME IInv, NEW c \in Client, NEW w \in ClientWorkType,
           ClientOK(c, w, w.threw = Nothing), ClientFrame(c, net, w.net),
           w.threw # "null", Progress(w), ClientReturns(c, w)
    PROVE  /\ IInv'
           /\ \A d \in Client : d # c => cl'[d] = cl[d]
           /\ cl'[c].asked = w.asked /\ cl'[c].answered = w.answered
<1> DEFINE st == IF w.threw = Nothing THEN w.st ELSE w.threw
           r  == [m |-> w.m, established |-> w.established, nsent |-> w.nsent,
                  asked |-> w.asked, answered |-> w.answered, told |-> w.told,
                  reset |-> w.reset, finished |-> w.finished, next_dest |-> w.next_dest,
                  st |-> st]
<1>1. /\ cl' = [cl EXCEPT ![c] = r]
      /\ net' = IF w.threw = Nothing THEN w.net ELSE CloseAll(w.net, Of(c), "client")
      /\ UNCHANGED <<model, sv>>
  BY DEF ClientReturns
<1>2. st \in State /\ st # "posted" /\ st # "null" /\ st # "crashed"
      /\ (w.threw # Nothing => st # "running")
  BY DEF ClientWorkType, State, Exception, Nothing
<1> HIDE DEF st
<1>3. r \in ClientType
  BY <1>2 DEF ClientWorkType, ClientType
<1>4. /\ r.m = w.m /\ r.established = w.established /\ r.asked = w.asked
      /\ r.answered = w.answered /\ r.finished = w.finished /\ r.next_dest = w.next_dest
      /\ r.st = st
  OBVIOUS
<1> HIDE DEF r
<1>5. cl'[c] = r /\ \A d \in Client : d # c => cl'[d] = cl[d]
  BY <1>1 DEF IInv, Types
<1>6. w.net \in [ConnName -> Link(Msg)]
  BY DEF ClientWorkType
<1> DEFINE v == ClientWork(c)'
<1>7. /\ v.net = net' /\ v.m = w.m /\ v.established = w.established
      /\ v.asked = w.asked /\ v.answered = w.answered
  BY <1>4, <1>5 DEF ClientWork
<1> HIDE DEF v
<1>8. CASE w.threw = Nothing
  <2>1. net' = w.net
    BY <1>1, <1>8
  <2>2. ClientOK(c, w, TRUE)
    <3>1. (w.threw = Nothing) = TRUE
      BY <1>8
    <3> QED
      BY <3>1
  <2>3. \A b \in BOOLEAN : ClientOK(c, v, b)
    <3> TAKE b \in BOOLEAN
    <3> QED
      BY <1>7, <2>1, <2>2, ClientKept
  <2>4. Alive(c)' \in BOOLEAN
    BY DEF Alive
  <2>5. ClientOK(c, ClientWork(c)', Alive(c)')
    BY <2>3, <2>4 DEF v
  <2> QED
    BY <1>1, <1>2, <1>3, <1>4, <1>5, <1>6, <2>1, <2>5, ClientStep DEF Progress
<1>9. CASE w.threw # Nothing
  <2>1. net' = CloseAll(w.net, Of(c), "client")
    BY <1>1, <1>9
  <2>2. Alive(c)' = FALSE
    <3>1. ~Alive(c)'
      BY <1>2, <1>4, <1>5, <1>9 DEF Alive
    <3> QED
      BY <3>1
  <2>3. /\ ClientOK(c, v, FALSE) /\ ClientFrame(c, w.net, net')
        /\ net' \in [ConnName -> Link(Msg)]
    <3>1. (w.threw = Nothing) = FALSE
      BY <1>9
    <3>2. ClientOK(c, w, FALSE)
      BY <3>1
    <3>3. v.net = CloseAll(w.net, Of(c), "client")
      BY <1>7, <2>1
    <3>4. /\ ClientOK(c, v, FALSE) /\ ClientFrame(c, w.net, v.net)
          /\ v.net \in [ConnName -> Link(Msg)]
      BY <1>6, <1>7, <3>2, <3>3, ClientClosed
    <3> QED
      BY <1>7, <3>4
  <2>4. ClientFrame(c, net, net')
    BY <2>3, FrameTransitive
  <2>5. ClientOK(c, ClientWork(c)', Alive(c)')
    BY <2>2, <2>3 DEF v
  <2> QED
    BY <1>1, <1>2, <1>3, <1>4, <1>5, <2>3, <2>4, <2>5, ClientStep DEF Progress
<1> QED
  BY <1>8, <1>9

-----------------------------------------------------------------------------
(***************************************************************************)
(* The handlers of a client.                                               *)
(***************************************************************************)

\* What the upper layers of c see of a step: it asks, and it may get an answer.
ClientSees(c) ==
    /\ \A d \in Client : d # c => cl'[d] = cl[d]
    /\ \A i \in Id : Extended(cl'[c].asked[i], cl[c].asked[i])
    /\ model # "sort" => (Short(cl[c]) => Short(cl'[c]))
    /\ \/ cl'[c].answered = cl[c].answered
       \/ \E i \in Id :
             LET k == Len(cl[c].answered[i]) + 1
             IN  /\ k <= Len(cl[c].asked[i])
                 /\ cl'[c].answered =
                       [cl[c].answered EXCEPT ![i] =
                           Append(@, Reply(address_book[i], cl[c].asked[i][k]))]

\* The handler starts from r, ends with u, and has called the upper layer between.
LEMMA ClientHandles ==
    ASSUME IInv, NEW c \in Client, NEW r \in ClientWorkType, ClientFrame(c, net, r.net),
           NEW u, Handled(c, r, u), ClientReturns(c, u), r.asked = cl[c].asked
    PROVE  /\ IInv'
           /\ \A d \in Client : d # c => cl'[d] = cl[d]
           /\ \A i \in Id : Extended(cl'[c].asked[i], cl[c].asked[i])
           /\ model # "sort" => (Short(cl[c]) => Short(cl'[c]))
           /\ cl'[c].answered = r.answered
<1>1. /\ u \in ClientWorkType /\ ClientOK(c, u, u.threw = Nothing)
      /\ ClientFrame(c, r.net, u.net) /\ u.threw # "null" /\ Progress(u)
      /\ \A i \in Id : Extended(u.asked[i], r.asked[i])
      /\ model # "sort" => (Short(r) => Short(u))
      /\ u.answered = r.answered
  BY DEF Handled, CallOK
<1>2. ClientFrame(c, net, u.net)
  BY <1>1, FrameTransitive
<1>3. /\ IInv'
      /\ \A d \in Client : d # c => cl'[d] = cl[d]
      /\ cl'[c].asked = u.asked /\ cl'[c].answered = u.answered
  BY <1>1, <1>2, ClientReturn
<1>4. model # "sort" => (Short(cl[c]) => Short(cl'[c]))
  BY <1>1, <1>3 DEF Short
<1> QED
  BY <1>1, <1>3, <1>4

LEMMA ClientStarts ==
    ASSUME IInv, NEW c \in Client, Alive(c)
    PROVE  LET w == ClientWork(c) IN
           /\ w \in ClientWorkType
           /\ ClientOK(c, w, TRUE) /\ Progress(w) /\ ClientFrame(c, net, w.net)
           /\ w.net = net /\ w.threw = Nothing
           /\ w.m = cl[c].m
           /\ w.asked = cl[c].asked /\ w.answered = cl[c].answered
           /\ w.finished = cl[c].finished
<1> DEFINE w == ClientWork(c)
<1>1. /\ w \in ClientWorkType
      /\ w.net = net /\ w.threw = Nothing
      /\ w.m = cl[c].m
      /\ w.asked = cl[c].asked /\ w.answered = cl[c].answered
      /\ w.finished = cl[c].finished /\ w.next_dest = cl[c].next_dest
  BY ClientWorkTyped DEF IInv
<1>2. ClientOK(c, w, Alive(c)) /\ Progress(cl[c])
  BY DEF IInv, Inv
<1>3. ClientOK(c, w, TRUE)
  <2>1. Alive(c) = TRUE
    BY DEF Alive
  <2> QED
    BY <1>2, <2>1
<1> HIDE DEF w
<1>4. Progress(w) /\ ClientFrame(c, net, w.net)
  BY <1>1, <1>2 DEF Progress, ClientFrame
<1> QED
  BY <1>1, <1>3, <1>4 DEF w

LEMMA StartEventStep ==
    ASSUME IInv, NEW c \in Client, StartEvent(c)
    PROVE  IInv' /\ ClientSees(c)
<1> DEFINE w == ClientWork(c)
<1>1. cl[c].st = "posted" /\ Alive(c) /\ cl[c].finished = 0
  BY DEF StartEvent, Alive, IInv, Inv
<1>2. /\ w \in ClientWorkType
      /\ ClientOK(c, w, TRUE) /\ Progress(w) /\ ClientFrame(c, net, w.net)
      /\ w.net = net /\ w.threw = Nothing /\ w.finished = 0
      /\ w.asked = cl[c].asked /\ w.answered = cl[c].answered
  BY <1>1, ClientStarts
<1>3. \E u : Handled(c, w, u) /\ ClientReturns(c, u)
  <2>1. CASE model = "sort" /\ ClientReturns(c, fetch_and_send(w, c))
    <3>1. "sort" \in Model
      BY <2>1 DEF IInv, Types
    <3>2. w.finished # nreduce
      BY <1>2, <3>1, SortIds
    <3> HIDE DEF w
    <3> QED
      BY <1>2, <2>1, <3>1, <3>2, FetchAndSend
  <2>2. ASSUME NEW v \in Reactions(w, c), ClientReturns(c, v)
        PROVE  Handled(c, w, v)
    <3> HIDE DEF w
    <3>1. ClientOK(c, w, w.threw = Nothing) /\ w.threw # "null"
      <4>1. (w.threw = Nothing) = TRUE
        BY <1>2
      <4> QED
        BY <1>2, <4>1 DEF Nothing
    <3> QED
      BY <1>2, <3>1, ReactionsCalled, CalledHandled
  <2> QED
    BY <2>1, <2>2 DEF StartEvent
<1> HIDE DEF w
<1>4. PICK u : Handled(c, w, u) /\ ClientReturns(c, u)
  BY <1>3
<1>5. /\ IInv'
      /\ \A d \in Client : d # c => cl'[d] = cl[d]
      /\ \A i \in Id : Extended(cl'[c].asked[i], cl[c].asked[i])
      /\ model # "sort" => (Short(cl[c]) => Short(cl'[c]))
      /\ cl'[c].answered = w.answered
  BY <1>2, <1>4, ClientHandles
<1> QED
  BY <1>2, <1>5 DEF ClientSees

\* An answer is read.
LEMMA StreamAnswer ==
    ASSUME NEW i \in Id, NEW asks \in Seq(Msg), NEW answers \in Seq(Msg),
           NEW down \in Seq(Msg), NEW up \in Seq(Msg), down # <<>>,
           Stream(i, asks, answers, down, up)
    PROVE  /\ Stream(i, asks, Append(answers, Head(down)), Tail(down), up)
           /\ Len(answers) + 1 <= Len(asks)
           /\ Head(down) = Reply(address_book[i], asks[Len(answers) + 1])
           /\ Head(down) \in Msg
<1> DEFINE a == Len(answers)
           b == Len(down)
           d == Len(up)
<1>1. a \in Nat /\ b \in Nat /\ d \in Nat /\ b > 0
  OBVIOUS
<1>2. /\ Len(Append(answers, Head(down))) = a + 1 /\ Len(Tail(down)) = b - 1
      /\ \A j \in 1..(b - 1) : Tail(down)[j] = down[j + 1]
      /\ Head(down) = down[1] /\ Head(down) \in Msg
  OBVIOUS
<1>3. /\ a + b + d = Len(asks)
      /\ \A j \in 1..b : down[j] = Reply(address_book[i], asks[a + j])
      /\ \A j \in 1..d : up[j] = asks[a + b + j]
  BY DEF Stream
<1> HIDE DEF a, b, d
<1>4. a + 1 + (b - 1) + d = Len(asks) /\ a + 1 <= Len(asks)
  <2>1. a + b + d = Len(asks) /\ Len(asks) \in Nat
    BY <1>3
  <2>2. \A x, y, z, t \in Nat : x + y + z = t /\ y > 0 =>
           x + 1 + (y - 1) + z = t /\ x + 1 <= t
    OBVIOUS
  <2> QED
    BY <1>1, <2>1, <2>2
<1>5. ASSUME NEW j \in 1..(b - 1)
      PROVE  Tail(down)[j] = Reply(address_book[i], asks[a + 1 + j])
  <2>1. j + 1 \in 1..b /\ a + 1 + j = a + (j + 1)
    BY <1>1
  <2> QED
    BY <1>2, <1>3, <2>1
<1>6. ASSUME NEW j \in 1..d
      PROVE  up[j] = asks[a + 1 + (b - 1) + j]
  <2>1. a + 1 + (b - 1) + j = a + b + j
    BY <1>1
  <2> QED
    BY <1>3, <2>1
<1>7. Head(down) = Reply(address_book[i], asks[a + 1])
  BY <1>1, <1>2, <1>3
<1>8. Stream(i, asks, Append(answers, Head(down)), Tail(down), up)
  BY <1>2, <1>4, <1>5, <1>6 DEF Stream, a, b, d
<1> QED
  BY <1>2, <1>4, <1>7, <1>8 DEF a

\* A connection of a client that runs is the first with an id that it holds, unless
\* there is none.
LEMMA OwnLink ==
    ASSUME NEW c \in Client, NEW w, ClientOK(c, w, TRUE),
           NEW l \in ConnName, l[1] = c, w.net[l] # NoLink
    PROVE  \E i \in Id : /\ l = First(c, i) /\ i \in Held(w.m)
                         /\ w.m.callback[l] = i
                         /\ Line(c, w, i, TRUE)
<1>1. PICK i \in Id : l = First(c, i) \/ l = Second(c, i)
  BY DEF ConnName, First, Second
<1>2. Line(c, w, i, TRUE)
  BY DEF ClientOK
<1>3. l = First(c, i) /\ i \in Held(w.m)
  BY <1>1, <1>2 DEF Line
<1> QED
  BY <1>2, <1>3 DEF Line

\* A client reads an answer from connection l.
reading(c, l) ==
    [ClientWork(c) EXCEPT !.net[l].to["client"] = Tail(@),
                          !.answered[cl[c].m.callback[l]] =
                              Append(@, Head(net[l].to["client"]))]

LEMMA ClientReads ==
    ASSUME IInv, NEW c \in Client, NEW l \in ConnName, Running(c, l),
           net[l].to["client"] # <<>>
    PROVE  LET i == cl[c].m.callback[l]
               u == reading(c, l)
           IN
           /\ i \in Id /\ l = First(c, i) /\ i \in Held(u.m)
           /\ u \in ClientWorkType /\ u.threw = Nothing /\ u.m = cl[c].m
           /\ ClientOK(c, u, TRUE) /\ ClientFrame(c, net, u.net) /\ Progress(u)
           /\ u.asked = cl[c].asked /\ u.next_dest = cl[c].next_dest
           /\ Len(cl[c].answered[i]) + 1 <= Len(cl[c].asked[i])
           /\ u.answered = [cl[c].answered EXCEPT ![i] =
                 Append(@, Reply(address_book[i], cl[c].asked[i][Len(cl[c].answered[i]) + 1]))]
           /\ \A x \in ConnName : x # l => u.net[x] = net[x]
           /\ u.net[l].end = net[l].end /\ u.net[l].to["server"] = net[l].to["server"]
           /\ u.net[l].late = net[l].late /\ u.net[l].write = net[l].write
           /\ Len(net[l].to["server"]) < Len(cl[c].asked[i])
<1> DEFINE w == ClientWork(c)
           i == cl[c].m.callback[l]
           down == net[l].to["client"]
           k == [net[l] EXCEPT !.to["client"] = Tail(down)]
           n == [net EXCEPT ![l] = k]
           a == [cl[c].answered EXCEPT ![i] = Append(@, Head(down))]
           r == [w EXCEPT !.net[l].to["client"] = Tail(@),
                          !.answered[i] = Append(@, Head(net[l].to["client"]))]
           u == [w EXCEPT !.net = n, !.answered = a]
<1>1. /\ cl[c].st = "running" /\ Alive(c) /\ l[1] = c
      /\ net[l].end["client"] = "open" /\ down # <<>>
  BY DEF Running, Alive
<1>2. /\ w \in ClientWorkType
      /\ ClientOK(c, w, TRUE) /\ Progress(w)
      /\ w.net = net /\ w.threw = Nothing /\ w.m = cl[c].m
      /\ w.asked = cl[c].asked /\ w.answered = cl[c].answered
  BY <1>1, ClientStarts
<1>3. r = u
  BY <1>2 DEF ClientWorkType
<1> HIDE DEF w
<1>4. w.net[l] # NoLink
  BY <1>1, <1>2 DEF NoLink, Side
<1>5. /\ i \in Id /\ l = First(c, i) /\ i \in Held(w.m) /\ Line(c, w, i, TRUE)
  <2>1. PICK j \in Id : /\ l = First(c, j) /\ j \in Held(w.m)
                        /\ w.m.callback[l] = j
                        /\ Line(c, w, j, TRUE)
    BY <1>1, <1>2, <1>4, OwnLink
  <2> QED
    BY <1>2, <2>1
<1> HIDE DEF i
<1>6. /\ net \in [ConnName -> Link(Msg)] /\ net[l] \in Link(Msg) /\ down \in Seq(Msg)
      /\ net[l].to["server"] \in Seq(Msg)
      /\ cl[c].answered \in [Id -> Seq(Msg)] /\ cl[c].asked \in [Id -> Seq(Msg)]
  BY <1>2 DEF ClientWorkType, Link, Side
<1>7. /\ Stream(i, cl[c].asked[i], Append(cl[c].answered[i], Head(down)), Tail(down),
                net[l].to["server"])
      /\ Len(cl[c].answered[i]) + 1 <= Len(cl[c].asked[i])
      /\ Head(down) = Reply(address_book[i], cl[c].asked[i][Len(cl[c].answered[i]) + 1])
      /\ Head(down) \in Msg
      /\ Len(net[l].to["server"]) < Len(cl[c].asked[i])
  <2>1. Stream(i, cl[c].asked[i], cl[c].answered[i], down, net[l].to["server"])
    BY <1>1, <1>2, <1>5 DEF Line
  <2>2. cl[c].asked[i] \in Seq(Msg) /\ cl[c].answered[i] \in Seq(Msg)
    BY <1>5, <1>6
  <2> HIDE DEF down
  <2>3. Len(net[l].to["server"]) < Len(cl[c].asked[i])
    <3>1. /\ Len(down) \in Nat /\ Len(down) > 0 /\ Len(cl[c].answered[i]) \in Nat
          /\ Len(net[l].to["server"]) \in Nat
      BY <1>1, <1>6, <2>2
    <3>2. Len(cl[c].answered[i]) + Len(down) + Len(net[l].to["server"]) = Len(cl[c].asked[i])
      BY <2>1 DEF Stream
    <3>3. \A x, y, z \in Nat : y > 0 => z < x + y + z
      OBVIOUS
    <3> QED
      BY <3>1, <3>2, <3>3
  <2> QED
    BY <1>1, <1>5, <1>6, <2>1, <2>2, <2>3, StreamAnswer
<1>8. /\ k \in Link(Msg) /\ k.end = net[l].end
      /\ k.to["client"] = Tail(down) /\ k.to["server"] = net[l].to["server"]
      /\ k.late = net[l].late /\ k.write = net[l].write
  <2>1. Tail(down) \in Seq(Msg)
    BY <1>1, <1>6
  <2> HIDE DEF down
  <2> QED
    BY <1>6, <2>1 DEF Link, Side
<1>9. /\ a \in [Id -> Seq(Msg)] /\ a[i] = Append(cl[c].answered[i], Head(down))
      /\ \A j \in Id : j # i => a[j] = cl[c].answered[j]
  BY <1>5, <1>6, <1>7
<1> HIDE DEF k
<1>10. /\ n \in [ConnName -> Link(Msg)] /\ n[l] = k
       /\ \A x \in ConnName : x # l => n[x] = net[x]
  BY <1>6, <1>8
<1> HIDE DEF n, a
<1>11. /\ u \in ClientWorkType /\ u.net = n /\ u.answered = a /\ u.threw = Nothing
       /\ u.m = w.m /\ u.established = w.established /\ u.asked = w.asked
       /\ u.finished = w.finished /\ u.next_dest = w.next_dest
  BY <1>2, <1>9, <1>10 DEF ClientWorkType
<1> HIDE DEF u
<1>12. ClientOK(c, u, TRUE)
  <2>1. Line(c, u, i, TRUE)
    <3>1. Second(c, i) # l /\ Second(c, i) \in ConnName
      BY <1>5, Names
    <3>2. /\ u.net[First(c, i)] = k /\ u.net[Second(c, i)] = w.net[Second(c, i)]
          /\ u.m = w.m /\ u.established = w.established /\ u.asked = w.asked
          /\ w.net[First(c, i)] = net[l] /\ u.answered[i] = a[i]
      BY <1>2, <1>5, <1>10, <1>11, <3>1
    <3>3. /\ i \in Held(w.m) => /\ w.m.holdings[i] = First(c, i)
                                /\ w.m.callback[First(c, i)] = i
                                /\ net[l].end["client"] \in {"open", "closed"}
          /\ i \in Held(w.m) \ w.established => net[l].end["client"] = "closed"
          /\ w.net[Second(c, i)] = NoLink
      BY <1>5, <3>2 DEF Line
    <3>4. Stream(i, u.asked[i], u.answered[i], k.to["client"], k.to["server"])
      BY <1>2, <1>7, <1>8, <1>9, <3>2
    <3> QED
      BY <1>5, <1>8, <3>2, <3>3, <3>4 DEF Line
  <2>2. ASSUME NEW j \in Id, j # i  PROVE  Line(c, u, j, TRUE)
    <3>1. /\ Line(c, w, j, TRUE) /\ First(c, j) # l /\ Second(c, j) # l
          /\ First(c, j) \in ConnName /\ Second(c, j) \in ConnName
      BY <1>2, <1>5, <2>2, Names DEF ClientOK
    <3> QED
      BY <1>2, <1>9, <1>10, <1>11, <2>2, <3>1 DEF Line
  <2> QED
    BY <1>2, <1>11, <2>1, <2>2 DEF ClientOK
<1>13. ClientFrame(c, net, u.net) /\ Progress(u)
  <2>1. l \in Of(c)
    BY <1>1 DEF Of
  <2> QED
    BY <1>2, <1>8, <1>10, <1>11, <2>1 DEF ClientFrame, Progress
<1>14. a = [cl[c].answered EXCEPT ![i] =
               Append(@, Reply(address_book[i], cl[c].asked[i][Len(cl[c].answered[i]) + 1]))]
  BY <1>7 DEF a
<1>15. /\ i \in Held(u.m) /\ u.m = cl[c].m /\ u.asked = cl[c].asked
       /\ u.next_dest = w.next_dest /\ u.answered = a
  BY <1>2, <1>5, <1>11
<1>16. /\ \A x \in ConnName : x # l => u.net[x] = net[x]
       /\ u.net[l].end = net[l].end /\ u.net[l].to["server"] = net[l].to["server"]
       /\ u.net[l].late = net[l].late /\ u.net[l].write = net[l].write
  BY <1>8, <1>10, <1>11
<1>17. w.next_dest = cl[c].next_dest
  BY DEF w, ClientWork
<1>18. reading(c, l) = u
  BY <1>3 DEF reading, r, i, w
<1> QED
  BY <1>5, <1>7, <1>11, <1>12, <1>13, <1>14, <1>15, <1>16, <1>17, <1>18 DEF i

LEMMA ClientReceiveStep ==
    ASSUME IInv, NEW c \in Client, NEW l \in ConnName, ClientReceive(c, l)
    PROVE  IInv' /\ ClientSees(c)
<1> DEFINE i == cl[c].m.callback[l]
           u == reading(c, l)
           a == [cl[c].answered EXCEPT ![i] =
                 Append(@, Reply(address_book[i], cl[c].asked[i][Len(cl[c].answered[i]) + 1]))]
<1>1. Running(c, l) /\ net[l].to["client"] # <<>>
  BY DEF ClientReceive
<1>2. /\ i \in Id /\ i \in Held(u.m)
      /\ u \in ClientWorkType /\ u.threw = Nothing
      /\ ClientOK(c, u, TRUE) /\ ClientFrame(c, net, u.net) /\ Progress(u)
      /\ u.asked = cl[c].asked /\ u.answered = a
      /\ Len(cl[c].answered[i]) + 1 <= Len(cl[c].asked[i])
  BY <1>1, ClientReads
<1>3. \/ model = "sort" /\ ClientReturns(c, sort_logic(u, c, i))
      \/ model = "chat" /\ \E v \in Reactions(u, c) : ClientReturns(c, v)
  BY DEF ClientReceive, reading
<1> HIDE DEF u, i, a
<1>4. \E v : Handled(c, u, v) /\ ClientReturns(c, v)
  <2>1. CASE model = "sort" /\ ClientReturns(c, sort_logic(u, c, i))
    <3>1. "sort" \in Model
      BY <2>1 DEF IInv, Types
    <3> QED
      BY <1>2, <2>1, <3>1, SortLogic
  <2>2. ASSUME NEW v \in Reactions(u, c), ClientReturns(c, v)
        PROVE  Handled(c, u, v)
    <3>1. ClientOK(c, u, u.threw = Nothing) /\ u.threw # "null"
      <4>1. (u.threw = Nothing) = TRUE
        BY <1>2
      <4> QED
        BY <1>2, <4>1 DEF Nothing
    <3> QED
      BY <1>2, <3>1, <2>2, ReactionsCalled, CalledHandled
  <2> QED
    BY <1>3, <2>1, <2>2
<1>5. PICK v : Handled(c, u, v) /\ ClientReturns(c, v)
  BY <1>4
<1>6. /\ IInv'
      /\ \A d \in Client : d # c => cl'[d] = cl[d]
      /\ \A j \in Id : Extended(cl'[c].asked[j], cl[c].asked[j])
      /\ model # "sort" => (Short(cl[c]) => Short(cl'[c]))
      /\ cl'[c].answered = a
  BY <1>2, <1>5, ClientHandles
<1> QED
  BY <1>2, <1>6 DEF ClientSees, a

\* Connection::connection_close of an id that the client holds.
LEMMA ClientCloseCall ==
    ASSUME NEW c \in Client, NEW i \in Id, NEW w \in ClientWorkType,
           ClientOK(c, w, TRUE), i \in Held(w.m)
    PROVE  LET u == [w EXCEPT !.net = connection_close(@, First(c, i), "client")] IN
           /\ u \in ClientWorkType
           /\ ClientOK(c, u, TRUE)
           /\ ClientFrame(c, w.net, u.net)
           /\ u.threw = w.threw /\ u.m = w.m /\ u.established = w.established
           /\ SameUpper(w, u)
<1> DEFINE l  == First(c, i)
           n  == connection_close(w.net, l, "client")
           u  == [w EXCEPT !.net = connection_close(@, First(c, i), "client")]
<1>1. Line(c, w, i, TRUE)
  BY DEF ClientOK
<1>2. l \in ConnName /\ l \in Of(c) /\ "client" \in Side /\ Other("client") = "server"
  BY Names DEF Side, Other
<1>3. w.net \in [ConnName -> Link(Msg)] /\ w.net[l] \in Link(Msg)
  BY <1>2 DEF ClientWorkType
<1>4. /\ n \in [ConnName -> Link(Msg)]
      /\ n[l] = shut(w.net[l], "client")
      /\ \A x \in ConnName : x # l => n[x] = w.net[x]
  BY <1>2, <1>3, CloseNet
<1>5. n[l].end["client"] = "closed" /\ n[l].end["server"] = w.net[l].end["server"]
  <2> DEFINE k == w.net[l]
  <2>1. k \in Link(Msg) /\ k.end["client"] # "none"
    BY <1>1, <1>3 DEF Line
  <2> HIDE DEF k
  <2>2. shut(k, "client").end["client"] = "closed"
        /\ shut(k, "client").end["server"] = k.end["server"]
    BY <1>2, <2>1, ShutLink
  <2> QED
    BY <1>4, <2>2 DEF k
<1>6. u = [w EXCEPT !.net = n]
  OBVIOUS
<1> HIDE DEF n
<1>7. /\ u \in ClientWorkType /\ u.net = n /\ u.m = w.m /\ u.threw = w.threw
      /\ u.established = w.established /\ SameUpper(w, u)
  <2> HIDE DEF u
  <2> QED
    BY <1>4, <1>6, ClientNet
<1> HIDE DEF u
<1>8. Line(c, u, i, TRUE)
  <2>1. First(c, i) # Second(c, i) /\ Second(c, i) \in ConnName
    BY Names
  <2> QED
    BY <1>1, <1>4, <1>5, <1>7, <2>1 DEF Line, SameUpper
<1>9. ASSUME NEW j \in Id, j # i  PROVE  Line(c, u, j, TRUE)
  <2>1. /\ Line(c, w, j, TRUE) /\ First(c, j) # l /\ Second(c, j) # l
        /\ First(c, j) \in ConnName /\ Second(c, j) \in ConnName
    BY <1>9, Names DEF ClientOK
  <2> HIDE DEF l
  <2> QED
    BY <1>4, <1>7, <1>9, <2>1 DEF Line, SameUpper
<1>10. ClientOK(c, u, TRUE)
  BY <1>7, <1>8, <1>9 DEF ClientOK
<1>11. ClientFrame(c, w.net, u.net)
  BY <1>2, <1>4, <1>5, <1>7 DEF ClientFrame
<1> QED
  BY <1>7, <1>10, <1>11 DEF u

\* ClientReports, for the event of a connection that has been closed.
LEMMA ClientReportsStep ==
    ASSUME IInv, NEW c \in Client, NEW w \in ClientWorkType,
           ClientOK(c, w, TRUE), ClientFrame(c, net, w.net), w.threw = Nothing,
           Progress(w), w.asked = cl[c].asked, w.answered = cl[c].answered,
           NEW l \in ConnName, w.m.callback[l] \in Id, ClientReports(c, w, l)
    PROVE  IInv' /\ ClientSees(c)
<1> DEFINE v == ClientEvent(w, l)
<1>1. /\ v \in ClientWorkType
      /\ v.m = w.m /\ v.net = w.net /\ v.established = w.established
      /\ v.asked = w.asked /\ v.answered = w.answered
      /\ v.finished = w.finished /\ v.next_dest = w.next_dest
      /\ v.threw # "null"
  <2>1. CASE model = "sort"
    <3>1. "unexpected event" \in Exception
      BY DEF Exception
    <3>2. v = Throw(w, "unexpected event")
      BY <2>1 DEF ClientEvent
    <3> HIDE DEF v
    <3> QED
      BY <3>1, <3>2, ClientThrow DEF SameUpper
  <2>2. CASE model # "sort"
    <3> DEFINE t == w.told \cup {w.m.callback[l]}
    <3>1. t \in SUBSET Id
      BY DEF ClientWorkType
    <3>2. v = [w EXCEPT !.told = t]
      BY <2>2 DEF ClientEvent
    <3> HIDE DEF v, t
    <3> QED
      BY <3>1, <3>2 DEF ClientWorkType, Nothing
  <2> QED
    BY <2>1, <2>2
<1>2. \E u : Handled(c, v, u) /\ ClientReturns(c, u)
  <2>1. PICK u \in IF model = "sort" THEN {v} ELSE Reactions(v, c) : ClientReturns(c, u)
    BY DEF ClientReports
  <2> HIDE DEF v
  <2>2. ClientOK(c, v, v.threw = Nothing)
    <3>1. (v.threw = Nothing) \in BOOLEAN
      OBVIOUS
    <3>2. \A b \in BOOLEAN : ClientOK(c, v, b)
      <4> TAKE b \in BOOLEAN
      <4> QED
        BY <1>1, ClientKept
    <3> QED
      BY <3>1, <3>2
  <2>3. Progress(v)
    BY <1>1 DEF Progress
  <2>4. Called(c, v, u) /\ (Short(v) => Short(u))
    <3>1. CASE model = "sort"
      BY <1>1, <2>1, <2>2, <3>1, CalledSame
    <3>2. CASE model # "sort"
      BY <1>1, <2>1, <2>2, <3>2, ReactionsCalled
    <3> QED
      BY <3>1, <3>2
  <2> QED
    BY <2>1, <2>3, <2>4, CalledHandled
<1> HIDE DEF v
<1>3. PICK u : Handled(c, v, u) /\ ClientReturns(c, u)
  BY <1>2
<1>4. /\ IInv'
      /\ \A d \in Client : d # c => cl'[d] = cl[d]
      /\ \A i \in Id : Extended(cl'[c].asked[i], cl[c].asked[i])
      /\ model # "sort" => (Short(cl[c]) => Short(cl'[c]))
      /\ cl'[c].answered = v.answered
  <2>1. ClientFrame(c, net, v.net) /\ v.asked = cl[c].asked
    BY <1>1
  <2> QED
    BY <1>1, <1>3, <2>1, ClientHandles
<1> QED
  BY <1>1, <1>4 DEF ClientSees

\* A client closes connection l and goes on with what ClientCloses returns.
LEMMA ClientClosesCall ==
    ASSUME IInv, NEW c \in Client, NEW l \in ConnName, l[1] = c, Alive(c),
           net[l] # NoLink
    PROVE  LET w == ClientCloses(c, l) IN
           /\ w \in ClientWorkType
           /\ ClientOK(c, w, TRUE) /\ ClientFrame(c, net, w.net)
           /\ Progress(w) /\ w.threw = Nothing
           /\ w.asked = cl[c].asked /\ w.answered = cl[c].answered
           /\ w.m.callback[l] \in Id
           /\ \E i \in Id : l = First(c, i) /\ i \in Held(w.m)
<1> DEFINE r == ClientWork(c)
<1>1. /\ r \in ClientWorkType
      /\ ClientOK(c, r, TRUE) /\ Progress(r)
      /\ r.net = net /\ r.threw = Nothing
      /\ r.asked = cl[c].asked /\ r.answered = cl[c].answered
  BY ClientStarts
<1> HIDE DEF r
<1>2. PICK i \in Id : l = First(c, i) /\ i \in Held(r.m) /\ r.m.callback[l] = i
  BY <1>1, OwnLink, ZenonT(30)
<1> DEFINE u == [r EXCEPT !.net = connection_close(@, First(c, i), "client")]
<1>3. /\ u \in ClientWorkType
      /\ ClientOK(c, u, TRUE)
      /\ ClientFrame(c, r.net, u.net)
      /\ u.threw = r.threw /\ u.m = r.m /\ u.established = r.established
      /\ SameUpper(r, u)
  BY <1>1, <1>2, ClientCloseCall
<1>4. ClientCloses(c, l) = u
  BY <1>2 DEF ClientCloses, r
<1> HIDE DEF u
<1> QED
  BY <1>1, <1>2, <1>3, <1>4 DEF SameUpper, Progress

LEMMA ClientEofStep ==
    ASSUME IInv, NEW c \in Client, NEW l \in ConnName, ClientEof(c, l)
    PROVE  IInv' /\ ClientSees(c)
<1>1. l[1] = c /\ Alive(c) /\ net[l] # NoLink
  BY DEF ClientEof, Running, Alive, NoLink, Side
<1> DEFINE w == ClientCloses(c, l)
<1>2. ClientReports(c, w, l)
  BY DEF ClientEof
<1>3. /\ w \in ClientWorkType
      /\ ClientOK(c, w, TRUE) /\ ClientFrame(c, net, w.net)
      /\ Progress(w) /\ w.threw = Nothing
      /\ w.asked = cl[c].asked /\ w.answered = cl[c].answered
      /\ w.m.callback[l] \in Id
  BY <1>1, ClientClosesCall
<1> HIDE DEF w
<1> QED
  BY <1>2, <1>3, ClientReportsStep

LEMMA ClientResetStep ==
    ASSUME IInv, NEW c \in Client, NEW l \in ConnName, ClientReset(c, l)
    PROVE  IInv' /\ ClientSees(c)
<1>1. l[1] = c /\ Alive(c) /\ net[l] # NoLink
  BY DEF ClientReset, Running, Alive, NoLink, Side
<1> DEFINE w == ClientCloses(c, l)
           t == w.reset \cup {w.m.callback[l]}
           u == [w EXCEPT !.reset = t]
<1>2. ClientReturns(c, u)
  BY DEF ClientReset
<1>3. /\ w \in ClientWorkType
      /\ ClientOK(c, w, TRUE) /\ ClientFrame(c, net, w.net)
      /\ Progress(w) /\ w.threw = Nothing
      /\ w.asked = cl[c].asked /\ w.answered = cl[c].answered
      /\ w.m.callback[l] \in Id
  BY <1>1, ClientClosesCall
<1> HIDE DEF w
<1>4. t \in SUBSET Id
  BY <1>3 DEF ClientWorkType
<1> HIDE DEF t
<1>5. /\ u \in ClientWorkType
      /\ u.m = w.m /\ u.net = w.net /\ u.established = w.established
      /\ u.asked = w.asked /\ u.answered = w.answered
      /\ u.finished = w.finished /\ u.next_dest = w.next_dest
      /\ u.threw = Nothing
  BY <1>3, <1>4 DEF ClientWorkType
<1> HIDE DEF u
<1>6. ClientOK(c, u, TRUE)
  BY <1>3, <1>5, ClientKept
<1>7. Called(c, u, u) /\ Progress(u)
  <2>1. (u.threw = Nothing) = TRUE
    BY <1>5
  <2>2. ClientOK(c, u, u.threw = Nothing) /\ u.threw # "null"
    BY <1>5, <1>6, <2>1 DEF Nothing
  <2> QED
    BY <1>3, <1>5, <2>2, CalledSame DEF Progress
<1>8. /\ IInv'
      /\ \A d \in Client : d # c => cl'[d] = cl[d]
      /\ \A i \in Id : Extended(cl'[c].asked[i], cl[c].asked[i])
      /\ model # "sort" => (Short(cl[c]) => Short(cl'[c]))
      /\ cl'[c].answered = u.answered
  <2>1. ClientFrame(c, net, u.net) /\ u.asked = cl[c].asked
    BY <1>3, <1>5
  <2> QED
    BY <1>2, <1>5, <1>7, <2>1, CalledHandled, ClientHandles
<1> QED
  BY <1>3, <1>5, <1>8 DEF ClientSees

\* A failed write is noted on the connection, whose streams and ends stay.
LEMMA Stuck ==
    ASSUME NEW n \in [ConnName -> Link(Msg)], NEW l \in ConnName, NEW side \in Side
    PROVE  LET k == [n[l] EXCEPT !.write[side] = "stuck"]
               q == [n EXCEPT ![l] = k]
           IN
           /\ q \in [ConnName -> Link(Msg)] /\ q[l] = k
           /\ k.end = n[l].end /\ k.to = n[l].to
           /\ \A x \in ConnName : x # l => q[x] = n[x]
<1> DEFINE k == [n[l] EXCEPT !.write[side] = "stuck"]
<1>1. k \in Link(Msg) /\ k.end = n[l].end /\ k.to = n[l].to
  BY DEF Link
<1> HIDE DEF k
<1> QED
  BY <1>1 DEF k

LEMMA ClientPipeStep ==
    ASSUME IInv, NEW c \in Client, NEW l \in ConnName, ClientPipe(c, l)
    PROVE  IInv' /\ ClientSees(c)
<1>1. l[1] = c /\ Alive(c) /\ net[l] # NoLink
  BY DEF ClientPipe, WriteFails, Alive, NoLink, Side
<1> DEFINE w == ClientCloses(c, l)
           k == [w.net[l] EXCEPT !.write["client"] = "stuck"]
           n == [w.net EXCEPT ![l] = k]
           u == [w EXCEPT !.net = n]
<1>2. ClientReports(c, [w EXCEPT !.net[l].write["client"] = "stuck"], l)
  BY DEF ClientPipe
<1>3. /\ w \in ClientWorkType
      /\ ClientOK(c, w, TRUE) /\ ClientFrame(c, net, w.net)
      /\ Progress(w) /\ w.threw = Nothing
      /\ w.asked = cl[c].asked /\ w.answered = cl[c].answered
      /\ w.m.callback[l] \in Id
      /\ \E i \in Id : l = First(c, i) /\ i \in Held(w.m)
  BY <1>1, ClientClosesCall
<1> HIDE DEF w
<1>4. [w EXCEPT !.net[l].write["client"] = "stuck"] = u
  BY <1>3 DEF ClientWorkType
<1>5. /\ n \in [ConnName -> Link(Msg)] /\ n[l] = k
      /\ k.end = w.net[l].end /\ k.to = w.net[l].to
      /\ \A x \in ConnName : x # l => n[x] = w.net[x]
  <2> SUFFICES ASSUME NEW r \in [ConnName -> Link(Msg)], r = w.net
               PROVE  LET k2 == [r[l] EXCEPT !.write["client"] = "stuck"]
                          q2 == [r EXCEPT ![l] = k2]
                      IN
                      /\ q2 \in [ConnName -> Link(Msg)] /\ q2[l] = k2
                      /\ k2.end = r[l].end /\ k2.to = r[l].to
                      /\ \A x \in ConnName : x # l => q2[x] = r[x]
    BY <1>3 DEF ClientWorkType
  <2>1. "client" \in Side
    BY DEF Side
  <2> QED
    BY <2>1, Stuck
<1> HIDE DEF n, k
<1>6. /\ u \in ClientWorkType /\ u.net = n /\ u.m = w.m /\ u.threw = Nothing
      /\ u.established = w.established /\ SameUpper(w, u)
  BY <1>3, <1>5, ClientNet
<1> HIDE DEF u
<1>7. PICK i \in Id : l = First(c, i) /\ i \in Held(w.m) /\ Line(c, w, i, TRUE)
  BY <1>3 DEF ClientOK
<1>8. Line(c, u, i, TRUE)
  <2>1. Second(c, i) # l /\ Second(c, i) \in ConnName
    BY <1>7, Names
  <2> QED
    BY <1>5, <1>6, <1>7, <2>1 DEF Line, SameUpper
<1>9. ASSUME NEW j \in Id, j # i  PROVE  Line(c, u, j, TRUE)
  <2>1. /\ Line(c, w, j, TRUE) /\ First(c, j) # l /\ Second(c, j) # l
        /\ First(c, j) \in ConnName /\ Second(c, j) \in ConnName
    BY <1>3, <1>7, <1>9, Names DEF ClientOK
  <2> QED
    BY <1>5, <1>6, <1>9, <2>1 DEF Line, SameUpper
<1>10. ClientOK(c, u, TRUE)
  BY <1>3, <1>6, <1>8, <1>9 DEF ClientOK
<1>11. ClientFrame(c, net, u.net)
  <2>1. l \in Of(c)
    BY <1>1 DEF Of
  <2> QED
    BY <1>3, <1>5, <1>6, <2>1 DEF ClientFrame
<1>12. Progress(u) /\ u.asked = cl[c].asked /\ u.answered = cl[c].answered
       /\ u.m.callback[l] \in Id
  BY <1>3, <1>6 DEF Progress, SameUpper
<1>13. ClientReports(c, u, l)
  BY <1>2, <1>4
<1> QED
  BY <1>6, <1>10, <1>11, <1>12, <1>13, ClientReportsStep

LEMMA ClientCrashStep ==
    ASSUME IInv, NEW c \in Client, ClientCrash(c)
    PROVE  IInv' /\ ClientSees(c)
<1> DEFINE w == ClientWork(c)
           r == [cl[c] EXCEPT !.st = "crashed"]
<1>1. /\ cl' = [cl EXCEPT ![c] = r]
      /\ net' = CloseAll(net, Of(c), "client")
      /\ UNCHANGED <<model, sv>>
      /\ Alive(c)
  BY DEF ClientCrash, Alive
<1>2. Types /\ Inv /\ cl[c] \in ClientType
  BY DEF IInv, Types
<1>3. /\ r \in ClientType /\ r.st = "crashed" /\ r.m = cl[c].m
      /\ r.established = cl[c].established
      /\ r.asked = cl[c].asked /\ r.answered = cl[c].answered
      /\ r.finished = cl[c].finished /\ r.next_dest = cl[c].next_dest
  BY <1>2 DEF ClientType, State
<1> HIDE DEF r
<1>4. cl'[c] = r /\ \A d \in Client : d # c => cl'[d] = cl[d]
  BY <1>1, <1>2 DEF Types
<1>5. /\ ClientOK(c, w, TRUE) /\ w.net = net /\ net \in [ConnName -> Link(Msg)]
      /\ w.m = cl[c].m /\ w.established = cl[c].established
      /\ w.asked = cl[c].asked /\ w.answered = cl[c].answered
  BY <1>1, <1>2, ClientStarts, ClientWorkTyped DEF Types
<1> DEFINE v == ClientWork(c)'
<1>6. /\ v.net = CloseAll(w.net, Of(c), "client") /\ v.net = net'
      /\ v.m = w.m /\ v.established = w.established
      /\ v.asked = w.asked /\ v.answered = w.answered
  <2>1. /\ v.net = net' /\ v.m = cl'[c].m /\ v.established = cl'[c].established
        /\ v.asked = cl'[c].asked /\ v.answered = cl'[c].answered
    BY DEF ClientWork
  <2> HIDE DEF v, w
  <2> QED
    BY <1>1, <1>3, <1>4, <1>5, <2>1
<1> HIDE DEF v, w
<1>7. /\ ClientOK(c, v, FALSE) /\ ClientFrame(c, w.net, v.net)
      /\ v.net \in [ConnName -> Link(Msg)]
  BY <1>5, <1>6, ClientClosed
<1>8. ClientOK(c, ClientWork(c)', Alive(c)')
  <2>1. ~Alive(c)'
    BY <1>3, <1>4 DEF Alive
  <2>2. Alive(c)' = FALSE
    BY <2>1
  <2> QED
    BY <1>7, <2>2 DEF v
<1>9. Progress(r)
  BY <1>2, <1>3 DEF Inv, Progress
<1>10. IInv'
  BY <1>1, <1>3, <1>5, <1>6, <1>7, <1>8, <1>9, ClientStep
<1>11. \A i \in Id : cl[c].asked[i] \in Seq(Msg)
  BY <1>2 DEF ClientType
<1> QED
  BY <1>3, <1>4, <1>10, <1>11, ExtendedSame DEF ClientSees, Short

-----------------------------------------------------------------------------
(***************************************************************************)
(* What the handlers of a server do.                                       *)
(***************************************************************************)

\* On a connection that the client has open the server leaves what is on its way, or
\* takes the oldest request and answers it.
Passed(s, k, q) ==
    \/ q.to = k.to
    \/ /\ k.to["server"] # <<>>
       /\ q.to["server"] = Tail(k.to["server"])
       /\ q.to["client"] = Append(k.to["client"], Reply(s, Head(k.to["server"])))

\* The server changes its connections only, and never their client end.
ServerFrame(s, n, q) ==
    \A l \in ConnName :
        /\ l \notin With(s) => q[l] = n[l]
        /\ q[l].end["client"] = n[l].end["client"]
        /\ n[l] = NoLink => q[l] = NoLink
        /\ n[l].end["client"] = "open" => Passed(s, n[l], q[l])

\* Some connections of the server are closed, and nothing else happens.
Quiet(s, n, q) ==
    \A l \in ConnName :
        /\ l \notin With(s) => q[l] = n[l]
        /\ q[l].end["client"] = n[l].end["client"]
        /\ n[l] = NoLink => q[l] = NoLink
        /\ n[l].end["client"] = "open" => q[l].to = n[l].to
        /\ \/ q[l].end["server"] = n[l].end["server"]
           \/ n[l].end["server"] # "none" /\ q[l].end["server"] = "closed"

LEMMA QuietFrame ==
    ASSUME NEW s, NEW n, NEW q, Quiet(s, n, q)
    PROVE  ServerFrame(s, n, q)
  BY DEF Quiet, ServerFrame, Passed

LEMMA FrameQuiet ==
    ASSUME NEW s, NEW n, NEW q, NEW r, ServerFrame(s, n, q), Quiet(s, q, r)
    PROVE  ServerFrame(s, n, r)
<1> SUFFICES ASSUME NEW l \in ConnName
             PROVE  /\ l \notin With(s) => r[l] = n[l]
                    /\ r[l].end["client"] = n[l].end["client"]
                    /\ n[l] = NoLink => r[l] = NoLink
                    /\ n[l].end["client"] = "open" => Passed(s, n[l], r[l])
  BY DEF ServerFrame
<1>1. /\ l \notin With(s) => q[l] = n[l]
      /\ q[l].end["client"] = n[l].end["client"]
      /\ n[l] = NoLink => q[l] = NoLink
      /\ n[l].end["client"] = "open" => Passed(s, n[l], q[l])
  BY DEF ServerFrame
<1>2. /\ l \notin With(s) => r[l] = q[l]
      /\ r[l].end["client"] = q[l].end["client"]
      /\ q[l] = NoLink => r[l] = NoLink
      /\ q[l].end["client"] = "open" => r[l].to = q[l].to
  BY DEF Quiet
<1>3. n[l].end["client"] = "open" => Passed(s, n[l], r[l])
  <2> SUFFICES ASSUME n[l].end["client"] = "open"
               PROVE  Passed(s, n[l], r[l])
    OBVIOUS
  <2>1. Passed(s, n[l], q[l]) /\ r[l].to = q[l].to
    BY <1>1, <1>2
  <2> QED
    BY <2>1 DEF Passed
<1> QED
  BY <1>1, <1>2, <1>3

LEMMA QuietOK ==
    ASSUME NEW s \in Server, NEW w, NEW v, ServerOK(s, w), v.m = w.m,
           Quiet(s, w.net, v.net)
    PROVE  ServerOK(s, v)
<1>1. \A l \in With(s) :
         /\ w.net[l].end["server"] \in {"open", "closed"} =>
               v.net[l].end["server"] \in {"open", "closed"}
         /\ v.net[l].end["server"] = "open" => w.net[l].end["server"] = "open"
  BY DEF Quiet, With
<1>2. ASSUME NEW i \in Held(w.m)
      PROVE  v.net[w.m.holdings[i]].end["server"] \in {"open", "closed"}
  <2>1. /\ w.m.holdings[i] \in With(s)
        /\ w.net[w.m.holdings[i]].end["server"] \in {"open", "closed"}
    BY DEF ServerOK
  <2> QED
    BY <1>1, <2>1
<1>3. Held(v.m) = 0..(v.m.next_id - 1)
  BY DEF ServerOK
<1>4. ASSUME NEW i \in Held(v.m)
      PROVE  /\ v.m.holdings[i] \in With(s)
             /\ v.m.holdings[i] \in DOMAIN v.m.callback
             /\ v.m.callback[v.m.holdings[i]] = i
             /\ v.net[v.m.holdings[i]].end["server"] \in {"open", "closed"}
  <2>1. i \in Held(w.m)
    OBVIOUS
  <2> QED
    BY <1>2, <2>1 DEF ServerOK
<1>5. ASSUME NEW l \in With(s), v.net[l].end["server"] = "open"
      PROVE  /\ l \in DOMAIN v.m.callback
             /\ v.m.callback[l] \in Held(v.m)
             /\ v.m.holdings[v.m.callback[l]] = l
  <2>1. w.net[l].end["server"] = "open"
    BY <1>1, <1>5
  <2> QED
    BY <2>1 DEF ServerOK
<1> QED
  BY <1>3, <1>4, <1>5 DEF ServerOK

\* A set of connections of the server is closed.
LEMMA QuietShut ==
    ASSUME NEW s \in Server, NEW n \in [ConnName -> Link(Msg)], NEW names \in SUBSET With(s)
    PROVE  LET q == [l \in ConnName |-> IF l \in names THEN shut(n[l], "server") ELSE n[l]] IN
           /\ q \in [ConnName -> Link(Msg)]
           /\ Quiet(s, n, q)
<1> DEFINE q == [l \in ConnName |-> IF l \in names THEN shut(n[l], "server") ELSE n[l]]
<1>1. "server" \in Side /\ Other("server") = "client"
  BY DEF Side, Other
<1>2. ASSUME NEW l \in ConnName
      PROVE  LET r == shut(n[l], "server") IN
             /\ r \in Link(Msg)
             /\ r.end["client"] = n[l].end["client"]
             /\ n[l].end["server"] = "none" => r = n[l]
             /\ n[l].end["server"] # "none" => r.end["server"] = "closed"
             /\ n[l].end["client"] # "closed" => r.to = n[l].to
  <2> SUFFICES ASSUME NEW k \in Link(Msg), k = n[l]
               PROVE  LET r == shut(k, "server") IN
                      /\ r \in Link(Msg)
                      /\ r.end["client"] = k.end["client"]
                      /\ k.end["server"] = "none" => r = k
                      /\ k.end["server"] # "none" => r.end["server"] = "closed"
                      /\ k.end["client"] # "closed" => r.to = k.to
    OBVIOUS
  <2> QED
    BY <1>1, ShutLink
<1>3. \A l \in ConnName : q[l] = IF l \in names THEN shut(n[l], "server") ELSE n[l]
  OBVIOUS
<1>4. q \in [ConnName -> Link(Msg)]
  BY <1>2
<1> HIDE DEF q
<1>5. NoLink.end["server"] = "none"
  BY DEF NoLink, Side
<1>6. Quiet(s, n, q)
  <2> SUFFICES ASSUME NEW l \in ConnName
               PROVE  /\ l \notin With(s) => q[l] = n[l]
                      /\ q[l].end["client"] = n[l].end["client"]
                      /\ n[l] = NoLink => q[l] = NoLink
                      /\ n[l].end["client"] = "open" => q[l].to = n[l].to
                      /\ \/ q[l].end["server"] = n[l].end["server"]
                         \/ n[l].end["server"] # "none" /\ q[l].end["server"] = "closed"
    BY DEF Quiet
  <2>1. CASE l \in names
    BY <1>2, <1>3, <1>5, <2>1
  <2>2. CASE l \notin names
    BY <1>3, <2>2
  <2> QED
    BY <2>1, <2>2
<1> QED
  BY <1>4, <1>6 DEF q

\* A request is answered.
LEMMA StreamReply ==
    ASSUME NEW i \in Id, NEW asks \in Seq(Msg), NEW answers \in Seq(Msg),
           NEW down \in Seq(Msg), NEW up \in Seq(Msg), up # <<>>,
           Stream(i, asks, answers, down, up),
           NEW msg, msg = Reply(address_book[i], Head(up)), msg \in Msg
    PROVE  Stream(i, asks, answers, Append(down, msg), Tail(up))
<1> DEFINE a == Len(answers)
           b == Len(down)
           d == Len(up)
<1>1. a \in Nat /\ b \in Nat /\ d \in Nat /\ d > 0
  OBVIOUS
<1>2. /\ Len(Append(down, msg)) = b + 1 /\ Len(Tail(up)) = d - 1
      /\ \A j \in 1..(d - 1) : Tail(up)[j] = up[j + 1]
      /\ \A j \in 1..b : Append(down, msg)[j] = down[j]
      /\ Append(down, msg)[b + 1] = msg
      /\ Head(up) = up[1]
  OBVIOUS
<1>3. a + b + d = Len(asks) /\ Len(asks) \in Nat
  BY DEF Stream
<1>4. /\ \A j \in 1..b : down[j] = Reply(address_book[i], asks[a + j])
      /\ \A j \in 1..d : up[j] = asks[a + b + j]
  BY DEF Stream
<1> HIDE DEF a, b, d
<1>5. a + (b + 1) + (d - 1) = Len(asks)
  <2>1. \A x, y, z, t \in Nat : x + y + z = t => x + (y + 1) + (z - 1) = t
    OBVIOUS
  <2> QED
    BY <1>1, <1>3, <2>1
<1>6. ASSUME NEW j \in 1..(b + 1)
      PROVE  Append(down, msg)[j] = Reply(address_book[i], asks[a + j])
  <2>1. CASE j = b + 1
    <3>1. 1 \in 1..d /\ a + j = a + b + 1
      BY <1>1, <2>1
    <3>2. up[1] = asks[a + j]
      BY <1>4, <3>1
    <3> QED
      BY <1>2, <2>1, <3>2
  <2>2. CASE j \in 1..b
    BY <1>2, <1>4, <2>2
  <2>3. j = b + 1 \/ j \in 1..b
    BY <1>1
  <2> QED
    BY <2>1, <2>2, <2>3
<1>7. ASSUME NEW j \in 1..(d - 1)
      PROVE  Tail(up)[j] = asks[a + (b + 1) + j]
  <2>1. j + 1 \in 1..d /\ a + b + (j + 1) = a + (b + 1) + j
    BY <1>1
  <2> QED
    BY <1>2, <1>4, <2>1
<1> QED
  BY <1>2, <1>5, <1>6, <1>7 DEF Stream, a, b, d

LEMMA ReplyType ==
    ASSUME NEW s \in Server, NEW msg \in Msg
    PROVE  Reply(s, msg) \in Msg
  BY DEF Reply, Msg

\* A step of a server keeps what a client knows of its connections.
LEMMA ClientServed ==
    ASSUME NEW s \in Server, NEW c \in Client, NEW w \in ClientWorkType, NEW a \in BOOLEAN,
           ClientOK(c, w, a), NEW v, v.net \in [ConnName -> Link(Msg)],
           ServerFrame(s, w.net, v.net),
           v.m = w.m, v.established = w.established,
           v.asked = w.asked, v.answered = w.answered
    PROVE  ClientOK(c, v, a)
<1> SUFFICES ASSUME NEW i \in Id
             PROVE  Line(c, v, i, a)
  BY DEF ClientOK
<1> DEFINE l == First(c, i)
           k == w.net[l]
           q == v.net[l]
<1>1. Line(c, w, i, a)
  BY DEF ClientOK
<1>2. l \in ConnName /\ Second(c, i) \in ConnName
  BY Names
<1>3. /\ l \notin With(s) => q = k
      /\ q.end["client"] = k.end["client"]
      /\ k = NoLink => q = NoLink
      /\ k.end["client"] = "open" => Passed(s, k, q)
      /\ w.net[Second(c, i)] = NoLink => v.net[Second(c, i)] = NoLink
  BY <1>2 DEF ServerFrame
<1>4. /\ k \in Link(Msg) /\ w.asked[i] \in Seq(Msg) /\ w.answered[i] \in Seq(Msg)
      /\ k.to["client"] \in Seq(Msg) /\ k.to["server"] \in Seq(Msg)
  <2>1. /\ w.net \in [ConnName -> Link(Msg)] /\ w.asked \in [Id -> Seq(Msg)]
        /\ w.answered \in [Id -> Seq(Msg)]
    BY DEF ClientWorkType
  <2>2. k \in Link(Msg) /\ w.asked[i] \in Seq(Msg) /\ w.answered[i] \in Seq(Msg)
    BY <1>2, <2>1
  <2> HIDE DEF k
  <2> QED
    BY <2>2 DEF Link, Side
<1>5. ASSUME q.end["client"] = "open"
      PROVE  Stream(i, w.asked[i], w.answered[i], q.to["client"], q.to["server"])
  <2>1. Stream(i, w.asked[i], w.answered[i], k.to["client"], k.to["server"])
    BY <1>1, <1>3, <1>5 DEF Line
  <2>2. CASE q.to = k.to
    BY <2>1, <2>2
  <2>3. CASE q.to # k.to
    <3>1. /\ k.to["server"] # <<>>
          /\ q.to["server"] = Tail(k.to["server"])
          /\ q.to["client"] = Append(k.to["client"], Reply(s, Head(k.to["server"])))
      BY <1>3, <1>5, <2>3 DEF Passed
    <3>2. address_book[i] = s
      <4>1. l \in With(s)
        BY <1>3, <2>3
      <4> QED
        BY <4>1 DEF With, First
    <3>3. Head(k.to["server"]) \in Msg
      <4>1. ASSUME NEW t \in Seq(Msg), t # <<>>  PROVE Head(t) \in Msg
        BY <4>1
      <4> HIDE DEF k
      <4> QED
        BY <1>4, <3>1, <4>1
    <3>4. Reply(s, Head(k.to["server"])) \in Msg
      BY <3>3, ReplyType
    <3> DEFINE msg == Reply(s, Head(k.to["server"]))
    <3>5. msg = Reply(address_book[i], Head(k.to["server"])) /\ msg \in Msg
      BY <3>2, <3>4
    <3> HIDE DEF msg, k, q
    <3>6. Stream(i, w.asked[i], w.answered[i], Append(k.to["client"], msg), Tail(k.to["server"]))
      BY <1>4, <2>1, <3>1, <3>5, StreamReply
    <3> QED
      BY <3>1, <3>6 DEF msg
  <2> QED
    BY <2>2, <2>3
<1> QED
  BY <1>1, <1>3, <1>5 DEF Line

\* What a step of a server may leave in the state.
LEMMA ServerStep ==
    ASSUME IInv, NEW s \in Server, NEW w \in ServerType,
           sv' = [sv EXCEPT ![s] = w], UNCHANGED <<model, cl>>,
           net' \in [ConnName -> Link(Msg)], ServerFrame(s, net, net'),
           ServerOK(s, ServerWork(s)'), w.st # "null"
    PROVE  IInv'
<1>1. Types /\ Inv
  BY DEF IInv
<1>2. Types'
  BY <1>1 DEF Types
<1>3. sv'[s] = w /\ \A t \in Server : t # s => sv'[t] = sv[t]
  BY <1>1 DEF Types
<1>4. ASSUME NEW t \in Server, t # s
      PROVE  ServerOK(t, ServerWork(t)')
  <2> DEFINE v == ServerWork(t)
  <2>1. ServerOK(t, v)
    BY <1>1 DEF Inv
  <2>2. v.net = net /\ v'.net = net' /\ v'.m = v.m
    BY <1>3, <1>4 DEF ServerWork
  <2> HIDE DEF v
  <2>3. \A l \in With(t) : v'.net[l] = v.net[l]
    BY <1>4, <2>2 DEF ServerFrame, With
  <2>4. ServerOK(t, v')
    BY <2>1, <2>2, <2>3, ServerKept
  <2> QED
    BY <2>4 DEF v
<1>5. ASSUME NEW c \in Client
      PROVE  ClientOK(c, ClientWork(c)', Alive(c)')
  <2> DEFINE v == ClientWork(c)
  <2>1. ClientOK(c, v, Alive(c)) /\ v \in ClientWorkType
    BY <1>1, ClientWorkTyped DEF Inv
  <2>2. /\ v.net = net /\ v'.net = net' /\ v'.m = v.m /\ v'.established = v.established
        /\ v'.asked = v.asked /\ v'.answered = v.answered
    BY DEF ClientWork
  <2>3. Alive(c)' = Alive(c) /\ Alive(c) \in BOOLEAN
    BY DEF Alive
  <2> HIDE DEF v
  <2>4. ClientOK(c, v', Alive(c))
    BY <2>1, <2>2, <2>3, ClientServed
  <2> QED
    BY <2>3, <2>4 DEF v
<1>6. Inv'
  BY <1>1, <1>3, <1>4, <1>5 DEF Inv
<1> QED
  BY <1>2, <1>6 DEF IInv

\* ServerReturns after a handler that kept the invariant.
LEMMA ServerReturn ==
    ASSUME IInv, NEW s \in Server, NEW w \in ServerWorkType,
           ServerOK(s, w), ServerFrame(s, net, w.net), w.threw # "null",
           ServerReturns(s, w)
    PROVE  IInv' /\ UNCHANGED cl
<1> DEFINE st == IF w.threw = Nothing THEN "running" ELSE w.threw
           r  == [m |-> w.m, listening |-> w.listening /\ w.threw = Nothing,
                  accepting |-> w.accepting /\ w.threw = Nothing,
                  numbers |-> w.numbers, stored |-> w.stored, st |-> st]
<1>1. /\ sv' = [sv EXCEPT ![s] = r]
      /\ net' = IF w.threw = Nothing THEN w.net ELSE CloseAll(w.net, With(s), "server")
      /\ UNCHANGED <<model, cl>>
  BY DEF ServerReturns
<1>2. st \in State /\ st # "null"
  BY DEF ServerWorkType, State, Exception, Nothing
<1> HIDE DEF st
<1>3. r \in ServerType
  BY <1>2 DEF ServerWorkType, ServerType
<1>4. r.m = w.m /\ r.st = st
  OBVIOUS
<1> HIDE DEF r
<1>5. sv'[s] = r
  BY <1>1 DEF IInv, Types
<1>6. w.net \in [ConnName -> Link(Msg)]
  BY DEF ServerWorkType
<1> DEFINE v == ServerWork(s)'
<1>7. v.net = net' /\ v.m = w.m
  BY <1>4, <1>5 DEF ServerWork
<1> HIDE DEF v
<1>8. /\ net' \in [ConnName -> Link(Msg)] /\ Quiet(s, w.net, net')
  <2>1. CASE w.threw = Nothing
    BY <1>1, <1>6, <2>1 DEF Quiet
  <2>2. CASE w.threw # Nothing
    <3> DEFINE q == CloseAll(w.net, With(s), "server")
    <3>1. net' = q /\ With(s) \in SUBSET ConnName
      BY <1>1, <2>2 DEF With
    <3>2. q \in [ConnName -> Link(Msg)] /\ Quiet(s, w.net, q)
      <4> SUFFICES ASSUME NEW n \in [ConnName -> Link(Msg)], n = w.net
                   PROVE  LET y == CloseAll(n, With(s), "server") IN
                          y \in [ConnName -> Link(Msg)] /\ Quiet(s, n, y)
        BY <1>6
      <4> QED
        BY QuietShut DEF CloseAll
    <3> QED
      BY <3>1, <3>2
  <2> QED
    BY <2>1, <2>2
<1>9. ServerFrame(s, net, net')
  BY <1>8, FrameQuiet
<1>10. ServerOK(s, v)
  BY <1>7, <1>8, QuietOK
<1> QED
  BY <1>1, <1>2, <1>3, <1>4, <1>8, <1>9, <1>10, ServerStep DEF v

\* The state in which a handler of a server starts.
LEMMA ServerStarts ==
    ASSUME IInv, NEW s \in Server
    PROVE  LET w == ServerWork(s) IN
           /\ w \in ServerWorkType /\ ServerOK(s, w)
           /\ w.net = net /\ w.threw = Nothing /\ w.m = sv[s].m
           /\ net \in [ConnName -> Link(Msg)]
  BY ServerWorkTyped DEF IInv, Inv, Types

\* A connection that gets its id.
LEMMA ServerHold ==
    ASSUME NEW w \in ServerWorkType, NEW l \in ConnName, NEW i \in Nat
    PROVE  LET u == hold(w, l, "server", i) IN
           /\ u \in ServerWorkType
           /\ u.m.holdings = Put(w.m.holdings, i, l)
           /\ u.m.callback = Put(w.m.callback, l, i)
           /\ u.m.next_id = w.m.next_id
           /\ u.net = [w.net EXCEPT ![l].end["server"] = "open"]
           /\ u.threw = w.threw
           /\ u.numbers = w.numbers /\ u.stored = w.stored /\ u.listening = w.listening
<1> DEFINE h == Put(w.m.holdings, i, l)
           b == Put(w.m.callback, l, i)
           k == [w.net[l] EXCEPT !.end["server"] = "open"]
           n == [w.net EXCEPT ![l] = k]
<1>1. w.m \in Manager(Nat) /\ w.net \in [ConnName -> Link(Msg)]
  BY DEF ServerWorkType
<1>2. h \in Partial(Nat, ConnName) /\ b \in Partial(ConnName, Nat)
  <2>1. w.m.holdings \in Partial(Nat, ConnName) /\ w.m.callback \in Partial(ConnName, Nat)
    BY <1>1 DEF Manager
  <2>2. h \in Partial(Nat, ConnName)
    BY <2>1, PutPartial
  <2>3. b \in Partial(ConnName, Nat)
    BY <2>1, PutPartial
  <2> QED
    BY <2>2, <2>3
<1>3. k \in Link(Msg) /\ n \in [ConnName -> Link(Msg)]
  <2>1. w.net[l] \in Link(Msg)
    BY <1>1
  <2>2. k \in Link(Msg)
    BY <2>1 DEF Link, Side, End
  <2> HIDE DEF k
  <2> QED
    BY <1>1, <2>2
<1> DEFINE m == [w.m EXCEPT !.holdings = h, !.callback = b]
<1> HIDE DEF h, b
<1>4. m \in Manager(Nat) /\ m.holdings = h /\ m.callback = b /\ m.next_id = w.m.next_id
  BY <1>1, <1>2 DEF Manager
<1> HIDE DEF k, n, m
<1>5. hold(w, l, "server", i) = [w EXCEPT !.m = m, !.net = n]
  BY <1>1 DEF hold, h, b, k, n, m, ServerWorkType
<1>6. n = [w.net EXCEPT ![l].end["server"] = "open"]
  BY DEF n, k
<1>7. LET u == [w EXCEPT !.m = m, !.net = n] IN
      u \in ServerWorkType /\ u.m = m /\ u.net = n /\ u.threw = w.threw
      /\ u.numbers = w.numbers /\ u.stored = w.stored /\ u.listening = w.listening
  BY <1>3, <1>4 DEF ServerWorkType
<1> QED
  BY <1>4, <1>5, <1>6, <1>7 DEF h, b

\* A connection of the acceptor is handed over and gets the next id.
LEMMA Accepts ==
    ASSUME IInv, NEW s \in Server, NEW l \in ConnName, when_accept(s, l)
    PROVE  LET w == ServerWork(s)
               d == w.m.next_id
               v == do_accept(new_connection(w, l, "server", -1))
           IN
           /\ d \in Nat /\ Held(w.m) = 0..(d - 1) /\ w.m \in Manager(Nat)
           /\ d \notin Held(w.m)
           /\ v \in ServerWorkType
           /\ v.m.holdings = Put(w.m.holdings, d, l)
           /\ v.m.callback = Put(w.m.callback, l, d)
           /\ v.m.next_id = d + 1
           /\ v.net = [net EXCEPT ![l].end["server"] = "open"]
           /\ v.threw = Nothing
           /\ v.numbers = w.numbers /\ v.stored = w.stored /\ v.listening = w.listening
<1> DEFINE w  == ServerWork(s)
           d  == w.m.next_id
           w1 == [w EXCEPT !.m.next_id = d + 1]
           u  == hold(w1, l, "server", d)
           v  == [u EXCEPT !.accepting = u.listening]
<1>1. /\ w \in ServerWorkType /\ ServerOK(s, w)
      /\ w.net = net /\ w.threw = Nothing
      /\ net \in [ConnName -> Link(Msg)]
  BY ServerStarts
<1>2. l \in With(s) /\ net[l].end["server"] = "accepted"
  BY DEF when_accept
<1> HIDE DEF w
<1>3. d \in Nat /\ Held(w.m) = 0..(d - 1) /\ w.m \in Manager(Nat)
  BY <1>1 DEF ServerWorkType, Manager, ServerOK
<1>4. d \notin Held(w.m)
  BY <1>3
<1>5. new_connection(w, l, "server", -1) = u
  <2>1. assign_id(w.m, -1) = d
    BY DEF assign_id
  <2> QED
    BY <1>1, <1>4, <2>1 DEF new_connection
<1>6. /\ w1 \in ServerWorkType /\ w1.m.next_id = d + 1
      /\ w1.m.holdings = w.m.holdings /\ w1.m.callback = w.m.callback
      /\ w1.net = net /\ w1.threw = Nothing
      /\ w1.numbers = w.numbers /\ w1.stored = w.stored /\ w1.listening = w.listening
  <2> DEFINE m == [w.m EXCEPT !.next_id = d + 1]
  <2>1. m \in Manager(Nat) /\ m.holdings = w.m.holdings /\ m.callback = w.m.callback
        /\ m.next_id = d + 1
    BY <1>3 DEF Manager
  <2>2. w1 = [w EXCEPT !.m = m]
    BY <1>1 DEF ServerWorkType
  <2> HIDE DEF m, d, w1
  <2> QED
    BY <1>1, <2>1, <2>2 DEF ServerWorkType
<1> HIDE DEF w1, d
<1>7. /\ u \in ServerWorkType
      /\ u.m.holdings = Put(w.m.holdings, d, l)
      /\ u.m.callback = Put(w.m.callback, l, d)
      /\ u.m.next_id = d + 1
      /\ u.net = [net EXCEPT ![l].end["server"] = "open"]
      /\ u.threw = Nothing
      /\ u.numbers = w.numbers /\ u.stored = w.stored /\ u.listening = w.listening
  <2> SUFFICES ASSUME NEW y \in ServerWorkType, y = w1
               PROVE  LET x == hold(y, l, "server", d) IN
                      /\ x \in ServerWorkType
                      /\ x.m.holdings = Put(y.m.holdings, d, l)
                      /\ x.m.callback = Put(y.m.callback, l, d)
                      /\ x.m.next_id = y.m.next_id
                      /\ x.net = [y.net EXCEPT ![l].end["server"] = "open"]
                      /\ x.threw = y.threw
                      /\ x.numbers = y.numbers /\ x.stored = y.stored
                      /\ x.listening = y.listening
    BY <1>6
  <2> QED
    BY <1>3, ServerHold
<1> HIDE DEF u
<1>8. /\ v \in ServerWorkType /\ v.m = u.m /\ v.net = u.net /\ v.threw = Nothing
      /\ v.numbers = u.numbers /\ v.stored = u.stored /\ v.listening = u.listening
  BY <1>7 DEF ServerWorkType
<1>9. do_accept(new_connection(w, l, "server", -1)) = v
  BY <1>5 DEF do_accept
<1> HIDE DEF v
<1> QED
  BY <1>3, <1>4, <1>7, <1>8, <1>9 DEF d, w

\* The handler of an accept.
LEMMA AcceptStep ==
    ASSUME IInv, NEW s \in Server, NEW l \in ConnName, when_accept(s, l)
    PROVE  IInv' /\ UNCHANGED cl
<1> DEFINE w == ServerWork(s)
           d == w.m.next_id
           v == do_accept(new_connection(w, l, "server", -1))
<1>1. /\ w \in ServerWorkType /\ ServerOK(s, w)
      /\ w.net = net /\ w.threw = Nothing
      /\ net \in [ConnName -> Link(Msg)]
  BY ServerStarts
<1>2. /\ l \in With(s) /\ net[l].end["server"] = "accepted"
      /\ ServerReturns(s, v)
  BY DEF when_accept
<1>3. d \in Nat /\ Held(w.m) = 0..(d - 1) /\ w.m \in Manager(Nat)
  BY Accepts
<1>4. d \notin Held(w.m)
  BY Accepts
<1>5. /\ v \in ServerWorkType
      /\ v.m.holdings = Put(w.m.holdings, d, l)
      /\ v.m.callback = Put(w.m.callback, l, d)
      /\ v.m.next_id = d + 1
      /\ v.net = [net EXCEPT ![l].end["server"] = "open"]
      /\ v.threw = Nothing
  BY Accepts
<1> HIDE DEF w, v, d
<1> DEFINE h == w.m.holdings
           b == w.m.callback
<1>6. h \in Partial(Nat, ConnName) /\ b \in Partial(ConnName, Nat) /\ Held(w.m) = DOMAIN h
  BY <1>3 DEF Manager, Held
<1>7. /\ \A i \in DOMAIN h : /\ h[i] \in With(s) /\ h[i] \in DOMAIN b /\ b[h[i]] = i
                             /\ net[h[i]].end["server"] \in {"open", "closed"}
      /\ \A x \in With(s) : net[x].end["server"] = "open" =>
             x \in DOMAIN b /\ b[x] \in DOMAIN h /\ h[b[x]] = x
  BY <1>1 DEF ServerOK, Held
<1> HIDE DEF h, b
<1> DEFINE g == Put(h, d, l)
           e == Put(b, l, d)
<1>8. /\ DOMAIN g = DOMAIN h \cup {d} /\ g[d] = l /\ \A i \in DOMAIN h : g[i] = h[i]
      /\ DOMAIN e = DOMAIN b \cup {l} /\ e[l] = d
      /\ \A x \in DOMAIN b : x # l => e[x] = b[x]
  <2>1. d \in Nat /\ l \in ConnName /\ d \notin DOMAIN h
    BY <1>3, <1>4, <1>6
  <2>2. /\ DOMAIN g = DOMAIN h \cup {d} /\ g[d] = l
        /\ \A i \in DOMAIN h : i # d => g[i] = h[i]
    BY DEF Put
  <2>3. /\ DOMAIN e = DOMAIN b \cup {l} /\ e[l] = d
        /\ \A x \in DOMAIN b : x # l => e[x] = b[x]
    BY DEF Put
  <2> HIDE DEF g, e
  <2> QED
    BY <2>1, <2>2, <2>3
<1>9. v.m.holdings = g /\ v.m.callback = e /\ v.m.next_id = d + 1 /\ Held(v.m) = DOMAIN g
  BY <1>5 DEF h, b, Held
<1> HIDE DEF g, e
<1>10. /\ \A x \in ConnName : x # l => v.net[x] = net[x]
       /\ v.net[l].end["server"] = "open"
       /\ v.net[l].end["client"] = net[l].end["client"]
       /\ v.net[l].to = net[l].to
  BY <1>1, <1>5 DEF Link, Side
<1>11. ServerOK(s, v)
  <2>1. Held(v.m) = 0..(v.m.next_id - 1)
    <3>1. 0..(d - 1) \cup {d} = 0..(d + 1 - 1)
      BY <1>3
    <3> QED
      BY <1>3, <1>6, <1>8, <1>9, <3>1
  <2>2. ASSUME NEW i \in DOMAIN g
        PROVE  /\ g[i] \in With(s) /\ g[i] \in DOMAIN e /\ e[g[i]] = i
               /\ v.net[g[i]].end["server"] \in {"open", "closed"}
    <3>1. CASE i = d
      BY <1>2, <1>8, <1>10, <3>1
    <3>2. CASE i # d
      <4>1. i \in DOMAIN h /\ g[i] = h[i] /\ h[i] # l
        BY <1>2, <1>7, <1>8, <3>2
      <4>2. h[i] \in ConnName
        BY <1>7, <4>1 DEF With
      <4> QED
        BY <1>7, <1>8, <1>10, <4>1, <4>2
    <3> QED
      BY <3>1, <3>2
  <2>3. ASSUME NEW x \in With(s), v.net[x].end["server"] = "open"
        PROVE  x \in DOMAIN e /\ e[x] \in DOMAIN g /\ g[e[x]] = x
    <3>1. CASE x = l
      BY <1>8, <3>1
    <3>2. CASE x # l
      <4>1. net[x].end["server"] = "open"
        BY <1>10, <2>3, <3>2 DEF With
      <4>2. x \in DOMAIN b /\ b[x] \in DOMAIN h /\ h[b[x]] = x
        BY <1>7, <4>1
      <4> QED
        BY <1>8, <3>2, <4>2
    <3> QED
      BY <3>1, <3>2
  <2> QED
    BY <1>9, <2>1, <2>2, <2>3 DEF ServerOK
<1>12. ServerFrame(s, net, v.net)
  <2>1. net[l] # NoLink
    BY <1>2 DEF NoLink, Side
  <2> QED
    BY <1>2, <1>10, <2>1 DEF ServerFrame, Passed
<1> QED
  BY <1>2, <1>5, <1>11, <1>12, ServerReturn DEF Nothing

\* A handler goes on after some connections of the server have been closed.
LEMMA ServerQuiet ==
    ASSUME NEW s \in Server, NEW n, NEW w \in ServerWorkType, ServerOK(s, w),
           ServerFrame(s, n, w.net), NEW names \in SUBSET With(s), NEW v, v.m = w.m,
           v.net = [l \in ConnName |-> IF l \in names THEN shut(w.net[l], "server")
                                       ELSE w.net[l]]
    PROVE  /\ v.net \in [ConnName -> Link(Msg)]
           /\ ServerOK(s, v) /\ ServerFrame(s, n, v.net)
<1> DEFINE k == w.net
           q == v.net
<1>1. k \in [ConnName -> Link(Msg)]
  BY DEF ServerWorkType
<1>2. q \in [ConnName -> Link(Msg)] /\ Quiet(s, k, q)
  <2>1. q = [l \in ConnName |-> IF l \in names THEN shut(k[l], "server") ELSE k[l]]
    OBVIOUS
  <2> HIDE DEF k, q
  <2> QED
    BY <1>1, <2>1, QuietShut
<1>3. ServerOK(s, v)
  BY <1>2, QuietOK
<1>4. ServerFrame(s, n, q)
  <2>1. ServerFrame(s, n, k)
    OBVIOUS
  <2> HIDE DEF k, q
  <2> QED
    BY <1>2, <2>1, FrameQuiet
<1> QED
  BY <1>2, <1>3, <1>4

LEMMA CloseIsShut ==
    ASSUME NEW n \in [ConnName -> Link(Msg)], NEW l \in ConnName
    PROVE  connection_close(n, l, "server") =
              [x \in ConnName |-> IF x \in {l} THEN shut(n[x], "server") ELSE n[x]]
  BY DEF connection_close

\* The server takes the oldest request from connection l.
taken(n, l) == [n EXCEPT ![l].to["server"] = Tail(n[l].to["server"])]

LEMMA ServerTakes ==
    ASSUME NEW n \in [ConnName -> Link(Msg)], NEW l \in ConnName,
           n[l].to["server"] # <<>>
    PROVE  LET q == taken(n, l) IN
           /\ q \in [ConnName -> Link(Msg)]
           /\ \A x \in ConnName : x # l => q[x] = n[x]
           /\ q[l].end = n[l].end
           /\ q[l].to["server"] = Tail(n[l].to["server"])
           /\ q[l].to["client"] = n[l].to["client"]
           /\ q[l].late = n[l].late /\ q[l].write = n[l].write
           /\ Head(n[l].to["server"]) \in Msg
<1> DEFINE t == Tail(n[l].to["server"])
           k == [n[l] EXCEPT !.to["server"] = t]
<1>1. n[l] \in Link(Msg)
  OBVIOUS
<1>2. t \in Seq(Msg) /\ Head(n[l].to["server"]) \in Msg
  BY <1>1 DEF Link, Side
<1> HIDE DEF t
<1>3. /\ k \in Link(Msg) /\ k.end = n[l].end
      /\ k.to["server"] = t /\ k.to["client"] = n[l].to["client"]
      /\ k.late = n[l].late /\ k.write = n[l].write
  BY <1>1, <1>2 DEF Link, Side
<1>4. taken(n, l) = [n EXCEPT ![l] = k]
  BY DEF taken, t
<1> HIDE DEF k
<1> QED
  BY <1>2, <1>3, <1>4 DEF t

\* The server gives an answer to an open connection.
LEMMA ServerGives ==
    ASSUME NEW n \in [ConnName -> Link(Msg)], NEW l \in ConnName, NEW msg \in Msg,
           n[l].end["server"] = "open"
    PROVE  LET q == do_send_message(n, l, "server", msg) IN
           /\ q \in [ConnName -> Link(Msg)]
           /\ \A x \in ConnName : x # l => q[x] = n[x]
           /\ q[l].end = n[l].end
           /\ q[l].to["server"] = n[l].to["server"]
           /\ q[l].to["client"] = Append(n[l].to["client"], msg)
           /\ n[l].end["client"] # "closed" =>
                 q[l].late = n[l].late /\ q[l].write = n[l].write
<1>1. "server" \in Side /\ Other("server") = "client"
  BY DEF Side, Other
<1>2. LET q == do_send_message(n, l, "server", msg) IN
      /\ q \in [ConnName -> Link(Msg)]
      /\ \A x \in ConnName : x # l => q[x] = n[x]
      /\ q[l].end = n[l].end
      /\ q[l].to["server"] = n[l].to["server"]
      /\ n[l].end["server"] = "open" =>
            q[l].to[Other("server")] = Append(n[l].to[Other("server")], msg)
  BY <1>1, SendLink
<1>3. ASSUME n[l].end["client"] # "closed"
      PROVE  LET q == do_send_message(n, l, "server", msg) IN
             q[l].late = n[l].late /\ q[l].write = n[l].write
  <2> DEFINE to   == Append(n[l].to["client"], msg)
             late == n[l].late["server"] \/ n[l].end["client"] = "closed"
             k    == [n[l] EXCEPT !.to["client"] = to, !.late["server"] = late]
  <2>1. do_send_message(n, l, "server", msg) = [n EXCEPT ![l] = k]
    BY <1>1 DEF do_send_message
  <2>2. n[l] \in Link(Msg) /\ late = n[l].late["server"]
    BY <1>3 DEF Link, Side
  <2> HIDE DEF to, late
  <2>3. k.late = n[l].late /\ k.write = n[l].write
    BY <2>2 DEF Link
  <2> HIDE DEF k
  <2> QED
    BY <2>1, <2>3
<1> QED
  BY <1>1, <1>2, <1>3

\* The answer to a request that has been read from connection l.
given(w, s, l) ==
    manager_send(w, "server", sv[s].m.callback[l], Reply(s, Head(net[l].to["server"])))

LEMMA ServerAnswers ==
    ASSUME IInv, NEW s \in Server, NEW l \in ConnName, ServerOpen(s, l),
           net[l].to["server"] # <<>>, NEW w \in ServerWorkType, w.m = sv[s].m,
           w.threw = Nothing,
           w.net = taken(net, l)
    PROVE  LET i == sv[s].m.callback[l]
               u == given(w, s, l)
           IN
           /\ u \in ServerWorkType /\ ServerOK(s, u) /\ ServerFrame(s, net, u.net)
           /\ u.threw = Nothing /\ u.m = w.m
           /\ i \in Held(u.m) /\ u.m.holdings[i] = l
           /\ u.listening = w.listening /\ u.accepting = w.accepting
           /\ u.numbers = w.numbers /\ u.stored = w.stored
           /\ \A x \in ConnName : x # l => u.net[x] = net[x]
           /\ u.net[l].end = net[l].end
           /\ u.net[l].to["server"] = Tail(net[l].to["server"])
           /\ net[l].end["client"] # "closed" =>
                 u.net[l].late = net[l].late /\ u.net[l].write = net[l].write
<1> DEFINE i   == sv[s].m.callback[l]
           msg == Head(net[l].to["server"])
           ans == Reply(s, msg)
           r   == ServerWork(s)
           q   == do_send_message(w.net, l, "server", ans)
           u   == [w EXCEPT !.net = q]
<1>1. /\ r \in ServerWorkType /\ ServerOK(s, r)
      /\ r.net = net /\ r.threw = Nothing /\ r.m = sv[s].m
      /\ net \in [ConnName -> Link(Msg)]
  BY ServerStarts
<1> HIDE DEF r
<1>2. l \in With(s) /\ net[l].end["server"] = "open"
  BY DEF ServerOpen
<1>3. i \in Held(w.m) /\ w.m.holdings[i] = l
  <2>1. r.net[l].end["server"] = "open"
    BY <1>1, <1>2
  <2>2. r.m.callback[l] \in Held(r.m) /\ r.m.holdings[r.m.callback[l]] = l
    BY <1>1, <1>2, <2>1 DEF ServerOK
  <2> QED
    BY <1>1, <2>2
<1> HIDE DEF i
<1>4. /\ w.net \in [ConnName -> Link(Msg)]
      /\ \A x \in ConnName : x # l => w.net[x] = net[x]
      /\ w.net[l].end = net[l].end
      /\ w.net[l].to["server"] = Tail(net[l].to["server"])
      /\ w.net[l].to["client"] = net[l].to["client"]
      /\ w.net[l].late = net[l].late /\ w.net[l].write = net[l].write
      /\ msg \in Msg
  BY <1>1, ServerTakes
<1>5. ans \in Msg
  BY <1>4, ReplyType
<1> HIDE DEF ans
<1>7. /\ q \in [ConnName -> Link(Msg)]
      /\ \A x \in ConnName : x # l => q[x] = w.net[x]
      /\ q[l].end = w.net[l].end
      /\ q[l].to["server"] = w.net[l].to["server"]
      /\ q[l].to["client"] = Append(w.net[l].to["client"], ans)
      /\ w.net[l].end["client"] # "closed" =>
            q[l].late = w.net[l].late /\ q[l].write = w.net[l].write
  <2> SUFFICES ASSUME NEW n, n \in [ConnName -> Link(Msg)], n = w.net,
                      n[l].end["server"] = "open"
               PROVE  LET y == do_send_message(n, l, "server", ans) IN
                      /\ y \in [ConnName -> Link(Msg)]
                      /\ \A x \in ConnName : x # l => y[x] = n[x]
                      /\ y[l].end = n[l].end
                      /\ y[l].to["server"] = n[l].to["server"]
                      /\ y[l].to["client"] = Append(n[l].to["client"], ans)
                      /\ n[l].end["client"] # "closed" =>
                            y[l].late = n[l].late /\ y[l].write = n[l].write
    BY <1>2, <1>4
  <2> QED
    BY <1>5, ServerGives
<1>8. manager_send(w, "server", i, ans) = u
  BY <1>3 DEF manager_send
<1> HIDE DEF q
<1>9. /\ u \in ServerWorkType /\ u.net = q /\ u.m = w.m /\ u.threw = Nothing
      /\ u.listening = w.listening /\ u.accepting = w.accepting
      /\ u.numbers = w.numbers /\ u.stored = w.stored
  BY <1>7 DEF ServerWorkType
<1> HIDE DEF u, msg
<1>10. ServerFrame(s, net, u.net)
  <2>1. Passed(s, net[l], q[l])
    BY <1>4, <1>7 DEF Passed, ans, msg
  <2>2. net[l] # NoLink
    BY <1>2 DEF NoLink, Side
  <2> QED
    BY <1>2, <1>4, <1>7, <1>9, <2>1, <2>2 DEF ServerFrame, Passed
<1>11. ServerOK(s, u)
  <2>1. ASSUME NEW x \in With(s)
        PROVE  u.net[x].end["server"] = r.net[x].end["server"]
    <3>1. x \in ConnName
      BY DEF With
    <3>2. q[x].end = net[x].end
      BY <1>4, <1>7, <3>1
    <3> QED
      BY <1>1, <1>9, <3>2
  <2>2. u.m = r.m
    BY <1>1, <1>9
  <2> QED
    BY <1>1, <2>1, <2>2, ServerKept
<1>12. /\ \A x \in ConnName : x # l => u.net[x] = net[x]
       /\ u.net[l].end = net[l].end
       /\ u.net[l].to["server"] = Tail(net[l].to["server"])
       /\ net[l].end["client"] # "closed" =>
             u.net[l].late = net[l].late /\ u.net[l].write = net[l].write
  BY <1>4, <1>7, <1>9
<1> QED
  BY <1>3, <1>8, <1>9, <1>10, <1>11, <1>12 DEF given, i, msg, ans

LEMMA ServerReceiveStep ==
    ASSUME IInv, NEW s \in Server, NEW l \in ConnName, ServerReceive(s, l)
    PROVE  IInv' /\ UNCHANGED cl
<1> DEFINE i   == sv[s].m.callback[l]
           msg == Head(net[l].to["server"])
           r   == ServerWork(s)
           n   == taken(net, l)
           w   == [r EXCEPT !.net = n]
           u   == given(w, s, l)
<1>1. /\ r \in ServerWorkType /\ ServerOK(s, r)
      /\ r.net = net /\ r.threw = Nothing /\ r.m = sv[s].m
      /\ net \in [ConnName -> Link(Msg)]
  BY ServerStarts
<1>2. ServerOpen(s, l) /\ net[l].to["server"] # <<>>
  BY DEF ServerReceive
<1>3. [r EXCEPT !.net[l].to["server"] = Tail(@)] = w
  BY <1>1 DEF ServerWorkType, taken
<1>4. \/ ServerReturns(s, sort_server_logic(w, s, i, msg))
      \/ ServerReturns(s, u)
      \/ ServerReturns(s, manager_disconnect(u, "server", i))
  BY <1>3 DEF ServerReceive, given
<1> HIDE DEF r
<1>5. n \in [ConnName -> Link(Msg)] /\ msg \in Msg
  BY <1>1, <1>2, ServerTakes
<1> HIDE DEF n
<1>6. w \in ServerWorkType /\ w.m = sv[s].m /\ w.threw = Nothing /\ w.net = n
  BY <1>1, <1>5 DEF ServerWorkType
<1> HIDE DEF w
<1>7. /\ u \in ServerWorkType /\ ServerOK(s, u) /\ ServerFrame(s, net, u.net)
      /\ u.threw = Nothing /\ u.m = w.m
      /\ i \in Held(u.m) /\ u.m.holdings[i] = l
  BY <1>2, <1>6, ServerAnswers DEF n
<1>8. ASSUME ServerReturns(s, sort_server_logic(w, s, i, msg))
      PROVE  IInv' /\ UNCHANGED cl
  <2> DEFINE m == Append(w.numbers, msg)
             x == [w EXCEPT !.numbers = m]
             y == given(x, s, l)
             z == [stop(y, s) EXCEPT !.stored = TRUE]
  <2>1. x \in ServerWorkType /\ x.m = sv[s].m /\ x.threw = Nothing /\ x.net = n
    <3>1. m \in Seq(Msg)
      BY <1>5, <1>6 DEF ServerWorkType
    <3> HIDE DEF m
    <3> QED
      BY <1>6, <3>1 DEF ServerWorkType
  <2>2. /\ sort_server_logic(w, s, i, msg) \in {y, z}
    BY DEF sort_server_logic, given
  <2> HIDE DEF x
  <2>3. /\ y \in ServerWorkType /\ ServerOK(s, y) /\ ServerFrame(s, net, y.net)
        /\ y.threw = Nothing
    BY <1>2, <2>1, ServerAnswers DEF n
  <2> HIDE DEF y
  <2> DEFINE late == {k \in With(s) : y.net[k].end["server"] = "backlog"}
             q == [k \in ConnName |-> IF k \in late THEN shut(y.net[k], "server") ELSE y.net[k]]
  <2>4. z = [y EXCEPT !.listening = FALSE, !.accepting = FALSE, !.net = q, !.stored = TRUE]
    <3>1. q = [k \in ConnName |-> IF k \in With(s) /\ y.net[k].end["server"] = "backlog"
                                  THEN shut(y.net[k], "server") ELSE y.net[k]]
      OBVIOUS
    <3> HIDE DEF q, late
    <3> QED
      BY <2>3, <3>1 DEF stop, ServerWorkType
  <2>5. z.m = y.m /\ z.net = q /\ z.threw = Nothing
    <3> HIDE DEF q, z
    <3> QED
      BY <2>3, <2>4 DEF ServerWorkType
  <2>6. q \in [ConnName -> Link(Msg)] /\ ServerOK(s, z) /\ ServerFrame(s, net, z.net)
    <3> HIDE DEF z
    <3>1. late \in SUBSET With(s) /\ z.net = [k \in ConnName |->
             IF k \in late THEN shut(y.net[k], "server") ELSE y.net[k]]
      BY <2>5
    <3> HIDE DEF q, late
    <3> QED
      BY <2>3, <2>5, <3>1, ServerQuiet
  <2> HIDE DEF q
  <2>7. z \in ServerWorkType
    <3> HIDE DEF z
    <3> QED
      BY <2>3, <2>4, <2>6 DEF ServerWorkType
  <2> HIDE DEF z
  <2>8. CASE ServerReturns(s, y)
    BY <2>3, <2>8, ServerReturn DEF Nothing
  <2>9. CASE ServerReturns(s, z)
    BY <2>5, <2>6, <2>7, <2>9, ServerReturn DEF Nothing
  <2> QED
    BY <1>8, <2>2, <2>8, <2>9
<1>9. ASSUME ServerReturns(s, manager_disconnect(u, "server", i))
      PROVE  IInv' /\ UNCHANGED cl
  <2> HIDE DEF u
  <2> DEFINE q == connection_close(u.net, l, "server")
             v == [u EXCEPT !.net = q]
  <2>1. manager_disconnect(u, "server", i) = v
    BY <1>7 DEF manager_disconnect
  <2>2. l \in With(s)
    BY <1>2 DEF ServerOpen
  <2>3. v.m = u.m /\ v.net = q /\ v.threw = Nothing
    <3> HIDE DEF q
    <3> QED
      BY <1>7 DEF ServerWorkType
  <2>4. q = [x \in ConnName |-> IF x \in {l} THEN shut(u.net[x], "server") ELSE u.net[x]]
    <3> SUFFICES ASSUME NEW k \in [ConnName -> Link(Msg)], k = u.net
                 PROVE  connection_close(k, l, "server") =
                    [x \in ConnName |-> IF x \in {l} THEN shut(k[x], "server") ELSE k[x]]
      BY <1>7 DEF ServerWorkType
    <3> QED
      BY CloseIsShut
  <2>5. q \in [ConnName -> Link(Msg)] /\ ServerOK(s, v) /\ ServerFrame(s, net, v.net)
    <3> DEFINE names == {l}
    <3>1. names \in SUBSET With(s)
      BY <2>2
    <3>2. v.net = [x \in ConnName |-> IF x \in names THEN shut(u.net[x], "server") ELSE u.net[x]]
      BY <2>3, <2>4
    <3> HIDE DEF q, v, names
    <3>3. u \in ServerWorkType /\ ServerOK(s, u) /\ ServerFrame(s, net, u.net) /\ v.m = u.m
      BY <1>7, <2>3
    <3>4. /\ v.net \in [ConnName -> Link(Msg)]
          /\ ServerOK(s, v) /\ ServerFrame(s, net, v.net)
      BY <3>1, <3>2, <3>3, ServerQuiet
    <3> QED
      BY <2>3, <3>4
  <2>6. v \in ServerWorkType
    <3> HIDE DEF q
    <3> QED
      BY <1>7, <2>5 DEF ServerWorkType
  <2> HIDE DEF v
  <2> QED
    BY <1>9, <2>1, <2>3, <2>5, <2>6, ServerReturn DEF Nothing
<1>10. ASSUME ServerReturns(s, u)
       PROVE  IInv' /\ UNCHANGED cl
  <2> HIDE DEF u
  <2> QED
    BY <1>7, <1>10, ServerReturn DEF Nothing
<1> QED
  BY <1>4, <1>8, <1>9, <1>10

\* A server closes connection l and goes on with what ServerCloses returns.
LEMMA ServerClosesCall ==
    ASSUME IInv, NEW s \in Server, NEW l \in With(s)
    PROVE  LET w == ServerCloses(s, l) IN
           /\ w \in ServerWorkType /\ ServerOK(s, w) /\ ServerFrame(s, net, w.net)
           /\ w.threw = Nothing
<1> DEFINE r == ServerWork(s)
           q == connection_close(net, l, "server")
           w == [r EXCEPT !.net = q]
           names == {l}
<1>1. /\ r \in ServerWorkType /\ ServerOK(s, r)
      /\ r.net = net /\ r.threw = Nothing /\ r.m = sv[s].m
      /\ net \in [ConnName -> Link(Msg)]
  BY ServerStarts
<1>2. ServerCloses(s, l) = w
  BY <1>1 DEF ServerCloses
<1>3. l \in ConnName /\ names \in SUBSET With(s)
  BY DEF With
<1>4. q = [x \in ConnName |-> IF x \in names THEN shut(net[x], "server") ELSE net[x]]
  BY <1>1, <1>3, CloseIsShut
<1> HIDE DEF r
<1>5. w.net = q /\ w.m = r.m /\ w.threw = Nothing
  BY <1>1 DEF ServerWorkType
<1>6. ServerFrame(s, net, r.net)
  BY <1>1 DEF ServerFrame, Passed
<1>7. w.net = [x \in ConnName |-> IF x \in names THEN shut(r.net[x], "server") ELSE r.net[x]]
  BY <1>1, <1>4, <1>5
<1> HIDE DEF q, w, names
<1>8. w.net \in [ConnName -> Link(Msg)] /\ ServerOK(s, w) /\ ServerFrame(s, net, w.net)
  BY <1>1, <1>3, <1>5, <1>6, <1>7, ServerQuiet
<1>9. w \in ServerWorkType
  BY <1>1, <1>5, <1>8 DEF ServerWorkType, w
<1> QED
  BY <1>2, <1>5, <1>8, <1>9

LEMMA ServerEofStep ==
    ASSUME IInv, NEW s \in Server, NEW l \in ConnName, ServerEof(s, l) \/ ServerReset(s, l)
    PROVE  IInv' /\ UNCHANGED cl
<1> DEFINE w == ServerCloses(s, l)
<1>1. l \in With(s) /\ ServerReturns(s, w)
  BY DEF ServerEof, ServerReset, ServerOpen
<1>2. /\ w \in ServerWorkType /\ ServerOK(s, w) /\ ServerFrame(s, net, w.net)
      /\ w.threw = Nothing
  BY <1>1, ServerClosesCall
<1> HIDE DEF w
<1> QED
  BY <1>1, <1>2, ServerReturn DEF Nothing

LEMMA ServerPipeStep ==
    ASSUME IInv, NEW s \in Server, NEW l \in ConnName, ServerPipe(s, l)
    PROVE  IInv' /\ UNCHANGED cl
<1> DEFINE w == ServerCloses(s, l)
           k == [w.net[l] EXCEPT !.write["server"] = "stuck"]
           n == [w.net EXCEPT ![l] = k]
           u == [w EXCEPT !.net = n]
           v == [u EXCEPT !.threw = "unexpected event"]
<1>1. l \in With(s) /\ net[l] # NoLink
  <2>1. NoLink.end["server"] = "none" /\ NoLink.write["server"] = "ok"
    BY DEF NoLink, Side
  <2> QED
    BY <2>1 DEF ServerPipe, WriteFails
<1>2. LET y == [w EXCEPT !.net[l].write["server"] = "stuck"] IN
      ServerReturns(s, y) \/ ServerReturns(s, Throw(y, "unexpected event"))
  BY DEF ServerPipe
<1>3. /\ w \in ServerWorkType /\ ServerOK(s, w) /\ ServerFrame(s, net, w.net)
      /\ w.threw = Nothing
  BY <1>1, ServerClosesCall
<1> HIDE DEF w
<1>4. [w EXCEPT !.net[l].write["server"] = "stuck"] = u
  BY <1>3 DEF ServerWorkType
<1>5. /\ n \in [ConnName -> Link(Msg)] /\ n[l] = k
      /\ k.end = w.net[l].end /\ k.to = w.net[l].to
      /\ \A x \in ConnName : x # l => n[x] = w.net[x]
  <2> SUFFICES ASSUME NEW r \in [ConnName -> Link(Msg)], r = w.net
               PROVE  LET k2 == [r[l] EXCEPT !.write["server"] = "stuck"]
                          q2 == [r EXCEPT ![l] = k2]
                      IN
                      /\ q2 \in [ConnName -> Link(Msg)] /\ q2[l] = k2
                      /\ k2.end = r[l].end /\ k2.to = r[l].to
                      /\ \A x \in ConnName : x # l => q2[x] = r[x]
    BY <1>3 DEF ServerWorkType
  <2>1. "server" \in Side
    BY DEF Side
  <2> QED
    BY <2>1, Stuck
<1> HIDE DEF n, k
<1>6. u \in ServerWorkType /\ u.net = n /\ u.m = w.m /\ u.threw = Nothing
  BY <1>3, <1>5 DEF ServerWorkType
<1>7. v \in ServerWorkType /\ v.net = n /\ v.m = w.m /\ v.threw = "unexpected event"
  <2> HIDE DEF u
  <2> QED
    BY <1>6 DEF ServerWorkType, Exception
<1>8. Throw(u, "unexpected event") = v
  BY <1>6 DEF Throw
<1> HIDE DEF u, v
<1>9. ServerFrame(s, net, n)
  <2>1. \A x \in ConnName : n[x].end = w.net[x].end /\ n[x].to = w.net[x].to
    BY <1>5
  <2> SUFFICES ASSUME NEW x \in ConnName
               PROVE  /\ x \notin With(s) => n[x] = net[x]
                      /\ n[x].end["client"] = net[x].end["client"]
                      /\ net[x] = NoLink => n[x] = NoLink
                      /\ net[x].end["client"] = "open" => Passed(s, net[x], n[x])
    BY DEF ServerFrame
  <2>2. /\ x \notin With(s) => w.net[x] = net[x]
        /\ w.net[x].end["client"] = net[x].end["client"]
        /\ net[x] = NoLink => w.net[x] = NoLink
        /\ net[x].end["client"] = "open" => Passed(s, net[x], w.net[x])
    BY <1>3 DEF ServerFrame
  <2>3. net[x].end["client"] = "open" => Passed(s, net[x], n[x])
    BY <2>1, <2>2 DEF Passed
  <2> QED
    BY <1>1, <1>5, <2>1, <2>2, <2>3
<1>10. ASSUME NEW y, y.net = n, y.m = w.m
       PROVE  ServerOK(s, y)
  <2>1. \A x \in With(s) : y.net[x].end["server"] = w.net[x].end["server"]
    BY <1>5, <1>10 DEF With
  <2> QED
    BY <1>3, <1>10, <2>1, ServerKept
<1>11. CASE ServerReturns(s, u)
  BY <1>6, <1>9, <1>10, <1>11, ServerReturn DEF Nothing
<1>12. CASE ServerReturns(s, v)
  BY <1>7, <1>9, <1>10, <1>12, ServerReturn
<1> QED
  BY <1>2, <1>4, <1>8, <1>11, <1>12

LEMMA AcceptedStep ==
    ASSUME IInv, NEW s \in Server, NEW l \in ConnName, Accepted(s, l)
    PROVE  IInv' /\ UNCHANGED cl
<1> DEFINE k == [net[l] EXCEPT !.end["server"] = "accepted"]
           r == [sv[s] EXCEPT !.accepting = FALSE]
<1>1. /\ l \in With(s) /\ net[l].end["server"] = "backlog"
      /\ net' = [net EXCEPT ![l].end["server"] = "accepted"]
      /\ sv' = [sv EXCEPT ![s].accepting = FALSE]
      /\ UNCHANGED <<model, cl>>
  BY DEF Accepted
<1>2. /\ net \in [ConnName -> Link(Msg)] /\ sv \in [Server -> ServerType]
      /\ sv[s].st # "null" /\ ServerOK(s, ServerWork(s))
  BY DEF IInv, Types, Inv
<1>3. net[l] \in Link(Msg) /\ sv[s] \in ServerType
  BY <1>2
<1>4. /\ k \in Link(Msg) /\ k.end["client"] = net[l].end["client"]
      /\ k.end["server"] = "accepted" /\ k.to = net[l].to
  BY <1>3 DEF Link, Side, End
<1>5. r \in ServerType /\ r.m = sv[s].m /\ r.st = sv[s].st
  BY <1>3 DEF ServerType
<1>6. net' = [net EXCEPT ![l] = k] /\ sv' = [sv EXCEPT ![s] = r]
  BY <1>1
<1> HIDE DEF k, r
<1>7. /\ net' \in [ConnName -> Link(Msg)] /\ net'[l] = k
      /\ \A x \in ConnName : x # l => net'[x] = net[x]
  BY <1>2, <1>4, <1>6
<1>8. ServerFrame(s, net, net')
  <2>1. net[l] # NoLink
    BY <1>1 DEF NoLink, Side
  <2> QED
    BY <1>1, <1>4, <1>7, <2>1 DEF ServerFrame, Passed
<1> DEFINE w == ServerWork(s)
           v == w'
<1>9. w.m = sv[s].m /\ w.net = net /\ v.net = net' /\ v.m = sv'[s].m
  BY DEF ServerWork
<1>10. v.m = w.m
  BY <1>2, <1>5, <1>6, <1>9
<1> HIDE DEF w, v
<1>11. ServerOK(s, v)
  <2>1. ServerOK(s, w)
    BY <1>2 DEF w
  <2>2. \A x \in ConnName : net[x].end["server"] \in {"open", "closed"} => net'[x] = net[x]
    BY <1>1, <1>7
  <2>3. \A x \in ConnName : net'[x].end["server"] = "open" => net'[x] = net[x]
    BY <1>4, <1>7
  <2>4. ASSUME NEW i \in Held(w.m)
        PROVE  /\ w.m.holdings[i] \in With(s)
               /\ w.m.holdings[i] \in DOMAIN w.m.callback
               /\ w.m.callback[w.m.holdings[i]] = i
               /\ net'[w.m.holdings[i]].end["server"] \in {"open", "closed"}
    <3>1. /\ w.m.holdings[i] \in With(s)
          /\ w.m.holdings[i] \in DOMAIN w.m.callback
          /\ w.m.callback[w.m.holdings[i]] = i
          /\ net[w.m.holdings[i]].end["server"] \in {"open", "closed"}
      BY <1>9, <2>1 DEF ServerOK
    <3>2. w.m.holdings[i] \in ConnName
      BY <3>1 DEF With
    <3> QED
      BY <2>2, <3>1, <3>2
  <2>5. ASSUME NEW x \in With(s), net'[x].end["server"] = "open"
        PROVE  /\ x \in DOMAIN w.m.callback
               /\ w.m.callback[x] \in Held(w.m)
               /\ w.m.holdings[w.m.callback[x]] = x
    <3>1. net[x].end["server"] = "open"
      BY <2>3, <2>5 DEF With
    <3> QED
      BY <1>9, <2>1, <3>1 DEF ServerOK
  <2>6. Held(w.m) = 0..(w.m.next_id - 1)
    BY <2>1 DEF ServerOK
  <2> QED
    BY <1>9, <1>10, <2>4, <2>5, <2>6 DEF ServerOK
<1> QED
  BY <1>1, <1>2, <1>5, <1>6, <1>7, <1>8, <1>11, ServerStep DEF v, w

LEMMA ServerCrashStep ==
    ASSUME IInv, NEW s \in Server, ServerCrash(s)
    PROVE  IInv' /\ UNCHANGED cl
<1> DEFINE r == [sv[s] EXCEPT !.st = "crashed", !.listening = FALSE, !.accepting = FALSE]
           w == ServerWork(s)
           v == w'
<1>1. /\ sv' = [sv EXCEPT ![s] = r]
      /\ net' = CloseAll(net, With(s), "server")
      /\ UNCHANGED <<model, cl>>
  BY DEF ServerCrash, IInv, Types
<1>2. /\ net \in [ConnName -> Link(Msg)] /\ sv \in [Server -> ServerType]
      /\ sv[s] \in ServerType
  BY DEF IInv, Types
<1>3. r \in ServerType /\ r.m = sv[s].m /\ r.st = "crashed"
  BY <1>2 DEF ServerType, State
<1> HIDE DEF r
<1>4. net' = [l \in ConnName |-> IF l \in With(s) THEN shut(net[l], "server") ELSE net[l]]
  BY <1>1 DEF CloseAll
<1>5. net' \in [ConnName -> Link(Msg)] /\ Quiet(s, net, net')
  <2>1. LET q == [l \in ConnName |-> IF l \in With(s) THEN shut(net[l], "server") ELSE net[l]] IN
        q \in [ConnName -> Link(Msg)] /\ Quiet(s, net, q)
    BY <1>2, QuietShut
  <2> QED
    BY <1>4, <2>1
<1>6. ServerFrame(s, net, net')
  BY <1>5, QuietFrame
<1>7. w.m = sv[s].m /\ w.net = net /\ v.net = net' /\ v.m = sv'[s].m /\ ServerOK(s, w)
  BY DEF ServerWork, IInv, Inv
<1>8. v.m = w.m
  BY <1>1, <1>2, <1>3, <1>7
<1> HIDE DEF w, v
<1>9. ServerOK(s, v)
  BY <1>5, <1>7, <1>8, QuietOK
<1> QED
  BY <1>1, <1>3, <1>5, <1>6, <1>9, ServerStep DEF v, w

-----------------------------------------------------------------------------
(***************************************************************************)
(* The specification.                                                      *)
(***************************************************************************)

LEMMA InitIInv == Init => IInv
<1> SUFFICES ASSUME Init
             PROVE  IInv
  OBVIOUS
<1>1. /\ model \in Model
      /\ cl = [c \in Client |-> NewClient]
      /\ sv = [s \in Server |-> NewServer]
      /\ net = [l \in ConnName |-> NoLink]
  BY DEF Init
<1>2. /\ <<>> \in Partial(Id, ConnName) /\ <<>> \in Partial(Nat, ConnName)
      /\ <<>> \in Partial(ConnName, Id) /\ <<>> \in Partial(ConnName, Nat)
      /\ DOMAIN <<>> = {}
  <2>1. DOMAIN <<>> = {}
    OBVIOUS
  <2>2. \A R : <<>> \in [DOMAIN <<>> -> R]
    BY <2>1
  <2> QED
    BY <2>1, <2>2, PartialDef
<1>3. NewManager \in Manager(Id) /\ NewManager \in Manager(Nat)
  BY <1>2 DEF NewManager, Manager
<1>4. NewClient \in ClientType
  <2>1. [i \in Id |-> <<>>] \in [Id -> Seq(Msg)]
    OBVIOUS
  <2> QED
    BY <1>3, <2>1 DEF NewClient, ClientType, State
<1>5. NewServer \in ServerType
  BY <1>3 DEF NewServer, ServerType, State
<1>6. Types
  BY <1>1, <1>4, <1>5, LinkTypes DEF Types
<1>7. ASSUME NEW c \in Client
      PROVE  /\ ClientOK(c, ClientWork(c), Alive(c)) /\ Progress(cl[c])
             /\ cl[c].st = "posted" => cl[c].finished = 0
             /\ cl[c].st # "null"
  <2> DEFINE w == ClientWork(c)
  <2>1. /\ w.net = net /\ w.m = NewManager /\ w.established = {}
        /\ w.asked = [i \in Id |-> <<>>] /\ w.answered = [i \in Id |-> <<>>]
    BY <1>1 DEF ClientWork, NewClient
  <2> HIDE DEF w
  <2>2. Held(w.m) = {} /\ DOMAIN w.m.callback = {}
    BY <1>2, <2>1 DEF Held, NewManager
  <2>3. ASSUME NEW i \in Id
        PROVE  Line(c, w, i, Alive(c))
    <3>1. w.net[First(c, i)] = NoLink /\ w.net[Second(c, i)] = NoLink
      BY <1>1, <2>1, Names
    <3>2. NoLink.end["client"] = "none"
      BY DEF NoLink, Side
    <3> QED
      BY <2>1, <2>2, <3>1, <3>2 DEF Line
  <2>4. ClientOK(c, w, Alive(c))
    BY <2>1, <2>2, <2>3 DEF ClientOK
  <2>5. Progress(cl[c]) /\ cl[c].st = "posted" /\ cl[c].finished = 0
    <3>1. nreduce \in Nat
      BY MultiClientAssumption, FS_CardinalityType DEF MultiClientAssumption, nreduce
    <3> QED
      BY <1>1, <3>1 DEF Progress, NewClient
  <2> QED
    BY <2>4, <2>5 DEF w
<1>8. ASSUME NEW s \in Server
      PROVE  ServerOK(s, ServerWork(s)) /\ sv[s].st # "null"
  <2> DEFINE w == ServerWork(s)
  <2>1. w.net = net /\ w.m = NewManager
    BY <1>1 DEF ServerWork, NewServer
  <2> HIDE DEF w
  <2>2. Held(w.m) = {} /\ w.m.next_id = 0
    BY <1>2, <2>1 DEF Held, NewManager
  <2>3. \A l \in With(s) : w.net[l].end["server"] = "none"
    BY <1>1, <2>1 DEF With, NoLink, Side
  <2>4. ServerOK(s, w)
    BY <2>2, <2>3 DEF ServerOK
  <2> QED
    BY <1>1, <2>4 DEF w, NewServer
<1> QED
  BY <1>6, <1>7, <1>8 DEF IInv, Inv

\* Every step keeps the invariant, and is seen by one client or by none.
LEMMA NextIInv ==
    IInv /\ [Next]_vars => IInv' /\ (UNCHANGED cl \/ \E c \in Client : ClientSees(c))
<1> SUFFICES ASSUME IInv, [Next]_vars
             PROVE  IInv' /\ (UNCHANGED cl \/ \E c \in Client : ClientSees(c))
  OBVIOUS
<1>1. ASSUME NEW c \in Client, StartEvent(c)
      PROVE  IInv' /\ ClientSees(c)
  BY <1>1, StartEventStep
<1>2. ASSUME NEW c \in Client, NEW l \in ConnName, ClientReceive(c, l)
      PROVE  IInv' /\ ClientSees(c)
  BY <1>2, ClientReceiveStep
<1>3. ASSUME NEW c \in Client, NEW l \in ConnName, ClientEof(c, l)
      PROVE  IInv' /\ ClientSees(c)
  BY <1>3, ClientEofStep
<1>4. ASSUME NEW c \in Client, NEW l \in ConnName, ClientReset(c, l)
      PROVE  IInv' /\ ClientSees(c)
  BY <1>4, ClientResetStep
<1>5. ASSUME NEW c \in Client, NEW l \in ConnName, ClientPipe(c, l)
      PROVE  IInv' /\ ClientSees(c)
  BY <1>5, ClientPipeStep
<1>6. ASSUME NEW c \in Client, ClientCrash(c)
      PROVE  IInv' /\ ClientSees(c)
  BY <1>6, ClientCrashStep
<1>7. ASSUME NEW s \in Server, NEW l \in ConnName, when_accept(s, l)
      PROVE  IInv' /\ UNCHANGED cl
  BY <1>7, AcceptStep
<1>8. ASSUME NEW s \in Server, NEW l \in ConnName, ServerReceive(s, l)
      PROVE  IInv' /\ UNCHANGED cl
  BY <1>8, ServerReceiveStep
<1>9. ASSUME NEW s \in Server, NEW l \in ConnName, ServerEof(s, l) \/ ServerReset(s, l)
      PROVE  IInv' /\ UNCHANGED cl
  BY <1>9, ServerEofStep
<1>10. ASSUME NEW s \in Server, NEW l \in ConnName, ServerPipe(s, l)
       PROVE  IInv' /\ UNCHANGED cl
  BY <1>10, ServerPipeStep
<1>11. ASSUME NEW s \in Server, NEW l \in ConnName, Accepted(s, l)
       PROVE  IInv' /\ UNCHANGED cl
  BY <1>11, AcceptedStep
<1>12. ASSUME NEW s \in Server, ServerCrash(s)
       PROVE  IInv' /\ UNCHANGED cl
  BY <1>12, ServerCrashStep
<1>13. CASE UNCHANGED vars
  <2>1. UNCHANGED <<model, cl, sv, net>>
    BY <1>13 DEF vars
  <2>2. Types'
    BY <2>1 DEF IInv, Types
  <2>3. /\ \A c \in Client : /\ ClientWork(c)' = ClientWork(c) /\ Alive(c)' = Alive(c)
                             /\ Progress(cl[c])' = Progress(cl[c])
        /\ \A s \in Server : ServerWork(s)' = ServerWork(s)
    BY <2>1 DEF ClientWork, Alive, Progress, ServerWork
  <2>4. \A c \in Client : ClientOK(c, ClientWork(c), Alive(c))' = ClientOK(c, ClientWork(c), Alive(c))
    BY <2>3 DEF ClientOK, Line
  <2>5. \A s \in Server : ServerOK(s, ServerWork(s))' = ServerOK(s, ServerWork(s))
    BY <2>3 DEF ServerOK
  <2>6. Inv'
    BY <2>1, <2>3, <2>4, <2>5 DEF IInv, Inv
  <2> QED
    BY <2>1, <2>2, <2>6 DEF IInv
<1>14. ASSUME NEW c \in Client, ClientLoop(c) \/ ClientCrash(c)
       PROVE  IInv' /\ ClientSees(c)
  BY <1>1, <1>2, <1>3, <1>4, <1>5, <1>6, <1>14 DEF ClientLoop
<1>15. ASSUME NEW s \in Server,
              ServerLoop(s) \/ (\E l \in ConnName : Accepted(s, l)) \/ ServerCrash(s)
       PROVE  IInv' /\ UNCHANGED cl
  BY <1>7, <1>8, <1>9, <1>10, <1>11, <1>12, <1>15 DEF ServerLoop
<1> QED
  BY <1>13, <1>14, <1>15 DEF Next

\* The inductive invariant.
LEMMA Inductive == Spec => []IInv
<1>1. Init => IInv
  BY InitIInv
<1>2. IInv /\ [Next]_vars => IInv'
  BY NextIInv
<1> QED
  BY <1>1, <1>2, PTL DEF Spec

\* Every field of the processes and of the connections has its type, and a sort client
\* never counts more servers than there are.
LEMMA TypesGiveTypeOK == IInv => TypeOK
<1> SUFFICES ASSUME IInv
             PROVE  TypeOK
  OBVIOUS
<1>1. Types /\ Inv
  BY DEF IInv
<1>2. ASSUME NEW ids, NEW m \in Manager(ids)
      PROVE  ManagerType(m, ids, ConnName)
  <2>1. m.holdings \in Partial(ids, ConnName) /\ m.callback \in Partial(ConnName, ids)
        /\ m.next_id \in Nat
    BY DEF Manager
  <2> QED
    BY <2>1, PartialDef DEF ManagerType, Held
<1>3. ASSUME NEW c \in Client
      PROVE  /\ ManagerType(cl[c].m, Id, ConnName)
             /\ cl[c].established \subseteq Id
             /\ cl[c].st \in State
             /\ cl[c].finished \in 0..nreduce
  <2>1. cl[c] \in ClientType
    BY <1>1 DEF Types
  <2>2. /\ cl[c].m \in Manager(Id) /\ cl[c].established \subseteq Id
        /\ cl[c].st \in State /\ cl[c].finished \in Nat
    BY <2>1 DEF ClientType
  <2>3. cl[c].finished <= nreduce /\ nreduce \in Nat
    BY <1>1, MultiClientAssumption, FS_CardinalityType
    DEF Inv, Progress, MultiClientAssumption, nreduce
  <2> QED
    BY <1>2, <2>2, <2>3
<1>4. ASSUME NEW s \in Server
      PROVE  /\ ManagerType(sv[s].m, Nat, ConnName)
             /\ sv[s].listening \in BOOLEAN
             /\ sv[s].accepting \in BOOLEAN
             /\ sv[s].st \in State
             /\ sv[s].stored \in BOOLEAN
  <2>1. sv[s] \in ServerType
    BY <1>1 DEF Types
  <2>2. /\ sv[s].m \in Manager(Nat) /\ sv[s].listening \in BOOLEAN
        /\ sv[s].accepting \in BOOLEAN /\ sv[s].st \in State /\ sv[s].stored \in BOOLEAN
    BY <2>1 DEF ServerType
  <2> QED
    BY <1>2, <2>2
<1> QED
  BY <1>1, <1>3, <1>4 DEF TypeOK, Types

\* The state of every process and connection has its type: ids stay in the address
\* book, and a sort client never counts more servers than there are.
THEOREM TypeCorrect == Spec => []TypeOK
  BY Inductive, TypesGiveTypeOK, PTL

\* The books of both kinds of connection manager agree, however ids are used again,
\* refused or disconnected, and whoever crashes.
THEOREM Books == Spec => []BooksAgree
<1>1. IInv => BooksAgree
  <2> SUFFICES ASSUME IInv
               PROVE  BooksAgree
    OBVIOUS
  <2>1. TypeOK
    BY TypesGiveTypeOK
  <2>2. ASSUME NEW c \in Client
        PROVE  /\ \A i \in Held(cl[c].m) : cl[c].m.callback[cl[c].m.holdings[i]] = i
               /\ cl[c].established \subseteq Held(cl[c].m)
               /\ \A i \in Held(cl[c].m) \ cl[c].established :
                     net[cl[c].m.holdings[i]].end["client"] = "closed"
    <3> DEFINE w == ClientWork(c)
    <3>1. /\ ClientOK(c, w, Alive(c)) /\ w.net = net
          /\ w.m = cl[c].m /\ w.established = cl[c].established
      BY DEF ClientWork, IInv, Inv
    <3> HIDE DEF w
    <3>2. Held(w.m) \subseteq Id
      BY <2>1, <3>1 DEF TypeOK, ManagerType
    <3>3. \A i \in Held(w.m) : Line(c, w, i, Alive(c))
      BY <3>1, <3>2 DEF ClientOK
    <3> QED
      BY <3>1, <3>3 DEF ClientOK, Line
  <2>3. ASSUME NEW s \in Server
        PROVE  /\ \A i \in Held(sv[s].m) : sv[s].m.callback[sv[s].m.holdings[i]] = i
               /\ \A l \in With(s) : net[l].end["server"] = "open" =>
                     \E i \in Held(sv[s].m) : sv[s].m.holdings[i] = l
               /\ Held(sv[s].m) = 0..(sv[s].m.next_id - 1)
    <3> DEFINE w == ServerWork(s)
    <3>1. ServerOK(s, w) /\ w.net = net /\ w.m = sv[s].m
      BY DEF ServerWork, IInv, Inv
    <3> HIDE DEF w
    <3>2. \A i \in Held(w.m) : w.m.callback[w.m.holdings[i]] = i
      BY <3>1 DEF ServerOK
    <3>3. \A l \in With(s) : w.net[l].end["server"] = "open" =>
             w.m.callback[l] \in Held(w.m) /\ w.m.holdings[w.m.callback[l]] = l
      BY <3>1 DEF ServerOK
    <3>4. Held(w.m) = 0..(w.m.next_id - 1)
      BY <3>1 DEF ServerOK
    <3> QED
      BY <3>1, <3>2, <3>3, <3>4
  <2> QED
    BY <2>1, <2>2, <2>3 DEF BooksAgree
<1> QED
  BY <1>1, Inductive, PTL

\* No call of an upper layer reaches an id that holdings does not have.
THEOREM NoNull == Spec => []NoNullPointer
<1>1. IInv => NoNullPointer
  BY DEF IInv, Inv, NoNullPointer
<1> QED
  BY <1>1, Inductive, PTL

-----------------------------------------------------------------------------
(***************************************************************************)
(* The refinement.                                                         *)
(***************************************************************************)

LEMMA InitExchange == Init => Exchange!Init
  BY DEF Init, Exchange!Init, asked, answered, NewClient

\* What a client sees is a step of Exchange or a stutter.
LEMMA StepExchange == IInv /\ [Next]_vars => [Exchange!Next]_<<asked, answered>>
<1> SUFFICES ASSUME IInv, [Next]_vars
             PROVE  Exchange!Next \/ UNCHANGED <<asked, answered>>
  OBVIOUS
<1>1. IInv' /\ (UNCHANGED cl \/ \E c \in Client : ClientSees(c))
  BY NextIInv
<1>2. ASSUME UNCHANGED cl
      PROVE  UNCHANGED <<asked, answered>>
  BY <1>2 DEF asked, answered
<1>3. ASSUME NEW c \in Client, ClientSees(c)
      PROVE  Exchange!Next
  <2>1. \A d \in Client : d # c => cl'[d] = cl[d]
    BY <1>3 DEF ClientSees
  <2>2. /\ cl'[c] \in ClientType /\ cl[c] \in ClientType
    BY <1>1 DEF IInv, Types
  <2>3. /\ asked = [d \in Client |-> cl[d].asked]
        /\ asked' = [d \in Client |-> cl'[d].asked]
        /\ answered = [d \in Client |-> cl[d].answered]
        /\ answered' = [d \in Client |-> cl'[d].answered]
    BY DEF asked, answered
  <2>4. Exchange!Asks(c)
    <3>1. asked' = [asked EXCEPT ![c] = asked'[c]]
      BY <2>1, <2>3
    <3>2. ASSUME NEW i \in Id
          PROVE  asked'[c][i] \in Seq(Msg) /\ Exchange!Extends(asked'[c][i], asked[c][i])
      <4>1. cl'[c].asked \in [Id -> Seq(Msg)] /\ Extended(cl'[c].asked[i], cl[c].asked[i])
        BY <1>3, <2>2 DEF ClientType, ClientSees
      <4>2. asked'[c] = cl'[c].asked /\ asked[c] = cl[c].asked
        BY <2>3
      <4> QED
        BY <4>1, <4>2 DEF Exchange!Extends, Extended
    <3> QED
      BY <3>1, <3>2 DEF Exchange!Asks
  <2>5. CASE cl'[c].answered = cl[c].answered
    <3>1. UNCHANGED answered
      BY <2>1, <2>3, <2>5
    <3> QED
      BY <2>4, <3>1 DEF Exchange!Next
  <2>6. ASSUME NEW i \in Id,
               Len(cl[c].answered[i]) + 1 <= Len(cl[c].asked[i]),
               cl'[c].answered =
                  [cl[c].answered EXCEPT ![i] =
                      Append(@, Reply(address_book[i],
                                      cl[c].asked[i][Len(cl[c].answered[i]) + 1]))]
        PROVE  Exchange!GetsAnswer(c, i)
    <3> DEFINE k == Len(cl[c].answered[i]) + 1
               m == cl[c].asked[i][k]
    <3>1. /\ cl[c].asked[i] \in Seq(Msg) /\ cl[c].answered[i] \in Seq(Msg)
      BY <2>2 DEF ClientType
    <3>2. m \in Msg
      <4>1. \A q \in Seq(Msg), n \in Nat : n + 1 <= Len(q) => q[n + 1] \in Msg
        OBVIOUS
      <4>2. Len(cl[c].answered[i]) \in Nat
        BY <3>1
      <4> QED
        BY <2>6, <3>1, <4>1, <4>2
    <3>3. asked[c] = cl[c].asked /\ answered[c] = cl[c].answered
      BY <2>3
    <3> DEFINE line == Append(cl[c].answered[i], Reply(address_book[i], m))
    <3>4. cl'[c].answered = [cl[c].answered EXCEPT ![i] = line]
      BY <2>6
    <3> HIDE DEF k, m
    <3>5. [j \in Id |-> [x \in Msg |-> Reply(address_book[j], x)]][i][m] = Reply(address_book[i], m)
      BY <3>2
    <3> HIDE DEF line
    <3>6. answered' = [answered EXCEPT ![c] = [answered[c] EXCEPT ![i] = line]]
      BY <2>1, <2>3, <3>3, <3>4
    <3>7. line = Append(answered[c][i],
                   [j \in Id |-> [x \in Msg |-> Reply(address_book[j], x)]][i][m])
      BY <3>3, <3>5 DEF line
    <3>8. m = asked[c][i][Len(answered[c][i]) + 1]
      BY <3>3 DEF m, k
    <3> QED
      BY <2>6, <3>3, <3>6, <3>7, <3>8 DEF Exchange!GetsAnswer
  <2>7. cl'[c].answered = cl[c].answered \/ \E i \in Id : Exchange!GetsAnswer(c, i)
    BY <1>3, <2>6 DEF ClientSees
  <2> QED
    BY <2>4, <2>5, <2>7 DEF Exchange!Next
<1> QED
  BY <1>1, <1>2, <1>3

\* What the upper layers of the clients see is an exchange: the n-th answer on an id is
\* that of its server to the n-th request, also when the id has been disconnected, its
\* connection lost or its server gone.
THEOREM Exchanges == Spec => ExchangeSpec
<1>1. Init => Exchange!Init
  BY InitExchange
<1>2. IInv /\ [Next]_vars => [Exchange!Next]_<<asked, answered>>
  BY StepExchange
<1> QED
  BY <1>1, <1>2, Inductive, PTL DEF Spec, ExchangeSpec, Exchange!Spec

-----------------------------------------------------------------------------
(***************************************************************************)
(* The sort: each client asks each server once, one after the other, and   *)
(* goes on when it has the answer.                                         *)
(***************************************************************************)

\* Among the chunks q there is one of client c.
Got(c, q) == \E j \in DOMAIN q : q[j].client = c

\* What holds of id i of client c in a sort, whoever crashes.  q has the chunks that the
\* server under that id has counted.
SortLine(c, w, i, q) ==
    LET k == w.net[First(c, i)]
    IN  /\ Len(w.asked[i]) <= 1
        /\ i >= w.next_dest => i \notin Held(w.m)
        /\ w.net[Second(c, i)] = NoLink
        /\ Len(k.to["server"]) <= 1
        /\ k.to["server"] # <<>> => Head(k.to["server"]).client = c /\ w.asked[i] # <<>>
        /\ Got(c, q) => /\ w.asked[i] # <<>>
                        /\ k.to["server"] = <<>>
                        /\ k.end["server"] \in {"open", "closed"}

SortOK(c, w, servers) ==
    \A i \in Id : SortLine(c, w, i, servers[address_book[i]].numbers)

\* No chunk counts twice.
ChunksOK(w) ==
    /\ \A j, k \in DOMAIN w.numbers : w.numbers[j].client = w.numbers[k].client => j = k
    /\ w.stored => {w.numbers[k].client : k \in DOMAIN w.numbers} = Client

\* As long as nobody crashes the client is the first to close a connection, which it
\* does when it has its answer, and no message meets a socket that is closed.
CleanLink(k) ==
    /\ k.end["server"] = "closed" => k.end["client"] = "closed"
    /\ k.end["client"] = "closed" => k.to["server"] = <<>>
    /\ k.late = NoLink.late /\ k.write = NoLink.write

CleanNet(n) == \A l \in ConnName : CleanLink(n[l])

Clean ==
    /\ \A c \in Client : Alive(c)
    /\ \A s \in Server : sv[s].st = "running" /\ sv[s].listening = ~sv[s].stored
    /\ CleanNet(net)

SortInv ==
    /\ model = "sort" => /\ \A c \in Client : SortOK(c, ClientWork(c), sv)
                         /\ NobodyCrashed => Clean
    /\ \A s \in Server : ChunksOK(sv[s]) /\ (model # "sort" => ~sv[s].stored)

LEMMA CleanNoLink == CleanLink(NoLink)
  BY DEF CleanLink, NoLink, Side

\* A server that has as many chunks as there are clients has one of each.
LEMMA AllChunks ==
    ASSUME "sort" \in Model, NEW q \in Seq(Msg), Len(q) = nreduce,
           \A j, k \in DOMAIN q : q[j].client = q[k].client => j = k
    PROVE  {q[k].client : k \in DOMAIN q} = Client
<1> DEFINE n == Len(q)
           f == [k \in 1..n |-> q[k].client]
<1>1. n \in Nat /\ DOMAIN q = 1..n /\ \A k \in 1..n : q[k] \in Msg
  OBVIOUS
<1>2. \A k \in 1..n : q[k].client \in Client
  BY <1>1 DEF Msg
<1>3. IsFiniteSet(Client) /\ Cardinality(Client) = n
  BY MultiClientAssumption DEF MultiClientAssumption
<1>4. Cardinality(1..n) = n
  <2>1. 1 \in Int /\ n \in Int
    BY <1>1
  <2>2. Cardinality(1..n) = IF 1 > n THEN 0 ELSE n - 1 + 1
    BY <2>1, FS_Interval
  <2> QED
    BY <1>1, <2>2
<1> HIDE DEF n
<1>5. f \in Injection(1..n, Client)
  BY <1>1, <1>2 DEF Injection, IsInjective
<1>6. f \in Surjection(1..n, Client)
  <2> HIDE DEF f
  <2> QED
    BY <1>3, <1>4, <1>5, FS_Injection
<1>7. \A c \in Client : \E k \in 1..n : f[k] = c
  BY <1>6 DEF Surjection
<1> QED
  BY <1>1, <1>2, <1>7

\* What a connection may go through without a chunk being sent or read.
Moved(k, q) ==
    /\ k = NoLink => q = NoLink
    /\ q.to["server"] \in {k.to["server"], <<>>}
    /\ k.end["server"] \in {"open", "closed"} => q.end["server"] \in {"open", "closed"}

LEMMA SortKept ==
    ASSUME NEW c \in Client, NEW w, NEW v, NEW S, NEW T, SortOK(c, w, S),
           v.asked = w.asked, v.next_dest = w.next_dest, v.m = w.m,
           \A s \in Server : T[s].numbers = S[s].numbers,
           \A i \in Id : /\ Moved(w.net[First(c, i)], v.net[First(c, i)])
                         /\ Moved(w.net[Second(c, i)], v.net[Second(c, i)])
    PROVE  SortOK(c, v, T)
<1> SUFFICES ASSUME NEW i \in Id
             PROVE  SortLine(c, v, i, T[address_book[i]].numbers)
  BY DEF SortOK
<1>1. SortLine(c, w, i, S[address_book[i]].numbers)
  BY DEF SortOK
<1>2. T[address_book[i]].numbers = S[address_book[i]].numbers
  BY Names
<1>3. /\ Moved(w.net[First(c, i)], v.net[First(c, i)])
      /\ Moved(w.net[Second(c, i)], v.net[Second(c, i)])
  OBVIOUS
<1> QED
  BY <1>1, <1>2, <1>3 DEF SortLine, Moved

\* A connection that waits to be accepted.
Dialled == [NoLink EXCEPT !.end = [client |-> "open", server |-> "backlog"]]

LEMMA DialledLink ==
    /\ Dialled.end["client"] = "open" /\ Dialled.end["server"] = "backlog"
    /\ Dialled.to = NoLink.to /\ Dialled.late = NoLink.late /\ Dialled.write = NoLink.write
    /\ NoLink.to["server"] = <<>> /\ NoLink.late["client"] = FALSE
    /\ NoLink.end["client"] = "none" /\ NoLink.end["server"] = "none"
  BY DEF Dialled, NoLink, Side

\* The first request that goes onto it.
LEMMA FirstSend ==
    ASSUME NEW n \in [ConnName -> Link(Msg)], NEW l \in ConnName, NEW msg \in Msg,
           n[l] = Dialled
    PROVE  LET q == do_send_message(n, l, "client", msg) IN
           /\ q \in [ConnName -> Link(Msg)]
           /\ \A x \in ConnName : x # l => q[x] = n[x]
           /\ q[l].end = Dialled.end /\ q[l].to["server"] = <<msg>>
           /\ q[l].late = NoLink.late /\ q[l].write = NoLink.write
<1> DEFINE to   == Append(n[l].to["server"], msg)
           late == n[l].late["client"] \/ n[l].end["server"] = "closed"
           k    == [n[l] EXCEPT !.to["server"] = to, !.late["client"] = late]
           q    == do_send_message(n, l, "client", msg)
<1>1. Other("client") = "server" /\ "client" \in Side
  BY DEF Other, Side
<1>2. q = [n EXCEPT ![l] = k]
  BY <1>1, DialledLink DEF do_send_message
<1>3. late = FALSE /\ to = <<msg>>
  BY DialledLink
<1> HIDE DEF late, to
<1>4. /\ k.end = Dialled.end /\ k.to["server"] = <<msg>>
      /\ k.late = NoLink.late /\ k.write = NoLink.write
  <2>1. [NoLink.late EXCEPT !["client"] = FALSE] = NoLink.late
    BY DEF NoLink, Side
  <2>2. [NoLink.to EXCEPT !["server"] = <<msg>>]["server"] = <<msg>>
    BY DEF NoLink, Side
  <2>3. k = [Dialled EXCEPT !.to = [NoLink.to EXCEPT !["server"] = <<msg>>], !.late = NoLink.late]
    BY <1>3, <2>1, DialledLink DEF Dialled, NoLink
  <2> HIDE DEF k
  <2> QED
    BY <2>2, <2>3, DialledLink DEF Dialled, NoLink
<1>5. q \in [ConnName -> Link(Msg)]
  BY <1>1, SendLink
<1> HIDE DEF k
<1> QED
  BY <1>2, <1>4, <1>5

\* A client connects to a server for the first time.
LEMMA FirstConnect ==
    ASSUME NEW c \in Client, NEW d \in Id, NEW w \in ClientWorkType, w.threw = Nothing,
           d \notin Held(w.m), w.net[First(c, d)] = NoLink
    PROVE  LET u == do_connect(w, c, d) IN
           /\ u \in ClientWorkType /\ SameUpper(w, u)
           /\ ~sv[address_book[d]].listening =>
                 u.threw = "refused" /\ u.m = w.m /\ u.net = w.net
           /\ sv[address_book[d]].listening =>
                 /\ u.threw = Nothing
                 /\ u.m.holdings = Put(w.m.holdings, d, First(c, d))
                 /\ \A x \in ConnName : x # First(c, d) => u.net[x] = w.net[x]
                 /\ u.net[First(c, d)] = Dialled
<1> DEFINE l  == First(c, d)
           e  == [client |-> "open", server |-> "backlog"]
           w1 == [w EXCEPT !.net[l].end = e]
           w2 == [w1 EXCEPT !.m.next_id = d + 1]
           w3 == hold(w2, l, "client", d)
           E  == w3.established \cup {d}
           w4 == [w3 EXCEPT !.established = E]
           u  == do_connect(w, c, d)
<1>1. l \in ConnName /\ d \in Nat
  BY Names
<1>2. Attempt(w, c, d) = l
  BY DialledLink DEF Attempt, First
<1>3. CASE ~sv[address_book[d]].listening
  <2> DEFINE v == Throw(w, "refused")
  <2>1. "refused" \in Exception /\ "refused" # Nothing
    BY DEF Exception, Nothing
  <2>2. try_connect(w, c, d, l) = v
    BY <1>3 DEF try_connect
  <2>3. /\ v \in ClientWorkType /\ v.threw = "refused" /\ v.m = w.m /\ v.net = w.net
        /\ SameUpper(w, v)
    BY <2>1, ClientThrow
  <2> HIDE DEF v
  <2>4. new_connection(v, l, "client", d) = v
    BY <2>1, <2>3 DEF new_connection
  <2>5. u = v
    BY <1>2, <2>1, <2>2, <2>3, <2>4 DEF do_connect
  <2> QED
    BY <1>3, <2>3, <2>5
<1>4. CASE sv[address_book[d]].listening
  <2>1. try_connect(w, c, d, l) = w1
    BY <1>4 DEF try_connect
  <2>2. /\ w1 \in ClientWorkType /\ w1.net = [w.net EXCEPT ![l].end = e]
        /\ w1.m = w.m /\ w1.threw = Nothing /\ w1.established = w.established
        /\ SameUpper(w, w1)
    BY <1>1, ClientDial
  <2> HIDE DEF w1, l
  <2>3. /\ w2 \in ClientWorkType /\ w2.net = w1.net
        /\ w2.m.holdings = w.m.holdings /\ w2.threw = Nothing
        /\ SameUpper(w, w2)
    <3>1. d + 1 \in Nat
      BY <1>1
    <3>2. /\ w2 \in ClientWorkType /\ w2.net = w1.net
          /\ w2.m.holdings = w1.m.holdings /\ w2.threw = w1.threw /\ SameUpper(w1, w2)
      BY <2>2, <3>1, ClientNextId
    <3> HIDE DEF w2
    <3> QED
      BY <2>2, <3>2 DEF SameUpper
  <2>4. new_connection(w1, l, "client", d) = w3
    <3>1. assign_id(w1.m, d) = d
      BY <1>1 DEF assign_id
    <3> QED
      BY <2>2, <3>1 DEF new_connection
  <2> HIDE DEF w2
  <2>5. /\ w3 \in ClientWorkType
        /\ w3.m.holdings = Put(w2.m.holdings, d, l)
        /\ w3.net = [w2.net EXCEPT ![l].end["client"] = "open"]
        /\ w3.threw = w2.threw /\ SameUpper(w2, w3)
    BY <1>1, <2>3, ClientHold
  <2> HIDE DEF w3
  <2>6. u = w4
    BY <1>2, <2>1, <2>3, <2>4, <2>5 DEF do_connect, l
  <2>7. /\ w4 \in ClientWorkType /\ w4.m = w3.m /\ w4.net = w3.net /\ w4.threw = w3.threw
        /\ SameUpper(w3, w4)
    <3>1. E \in SUBSET Id
      BY <2>5 DEF ClientWorkType
    <3> HIDE DEF E
    <3> QED
      BY <2>5, <3>1, ClientEstablish
  <2> HIDE DEF w4, u
  <2>8. /\ \A x \in ConnName : x # l => w3.net[x] = w.net[x]
        /\ w3.net[l] = Dialled
    <3>1. w3.net = [[w.net EXCEPT ![l].end = e] EXCEPT ![l].end["client"] = "open"]
      BY <2>2, <2>3, <2>5
    <3>2. w.net \in [ConnName -> Link(Msg)] /\ w.net[l] = NoLink
      BY DEF ClientWorkType, l
    <3>3. [[NoLink EXCEPT !.end = e] EXCEPT !.end["client"] = "open"] = Dialled
      <4>1. [e EXCEPT !["client"] = "open"] = e
        OBVIOUS
      <4> HIDE DEF e
      <4>2. [[NoLink EXCEPT !.end = e] EXCEPT !.end["client"] = "open"]
               = [NoLink EXCEPT !.end = [e EXCEPT !["client"] = "open"]]
        BY DEF NoLink
      <4> QED
        BY <4>1, <4>2 DEF Dialled, e
    <3> HIDE DEF e
    <3> QED
      BY <1>1, <3>1, <3>2, <3>3
  <2> QED
    <3>1. SameUpper(w, u)
      BY <2>3, <2>5, <2>6, <2>7 DEF SameUpper
    <3>2. u \in ClientWorkType /\ u.threw = Nothing /\ u.m = w3.m /\ u.net = w3.net
      BY <2>3, <2>5, <2>6, <2>7
    <3>3. u.m.holdings = Put(w.m.holdings, d, l)
      BY <2>3, <2>5, <3>2
    <3>4. /\ \A x \in ConnName : x # l => u.net[x] = w.net[x]
          /\ u.net[l] = Dialled
      BY <2>8, <3>2
    <3> QED
      BY <1>4, <3>1, <3>2, <3>3, <3>4 DEF l, u
<1> QED
  BY <1>3, <1>4

\* The chunk that a client sends to the next server, unless it is refused.
FirstAsked(c, d, w, u) ==
    /\ u \in ClientWorkType
    /\ u.next_dest = w.next_dest /\ u.finished = w.finished
    /\ ~sv[address_book[d]].listening =>
          u.threw = "refused" /\ u.m = w.m /\ u.net = w.net /\ u.asked = w.asked
    /\ sv[address_book[d]].listening =>
          LET msg == Request(c, d, w.nsent + 1) IN
          /\ u.threw = Nothing
          /\ Held(u.m) = Held(w.m) \cup {d}
          /\ u.asked = [w.asked EXCEPT ![d] = Append(@, msg)]
          /\ \A x \in ConnName : x # First(c, d) => u.net[x] = w.net[x]
          /\ u.net[First(c, d)].end = Dialled.end
          /\ u.net[First(c, d)].to["server"] = <<msg>>
          /\ u.net[First(c, d)].late = NoLink.late
          /\ u.net[First(c, d)].write = NoLink.write

LEMMA FirstAsk ==
    ASSUME NEW c \in Client, NEW d \in Id, NEW w \in ClientWorkType, w.threw = Nothing,
           d \notin Held(w.m), d \notin w.established, w.net[First(c, d)] = NoLink
    PROVE  FirstAsked(c, d, w, Ask(w, c, d))
<1> DEFINE l   == First(c, d)
           msg == Request(c, d, w.nsent + 1)
           v   == do_connect(w, c, d)
           x   == manager_send(v, "client", d, msg)
           q   == do_send_message(v.net, l, "client", msg)
           a   == [w.asked EXCEPT ![d] = Append(@, msg)]
           y   == [x EXCEPT !.nsent = @ + 1, !.asked[d] = Append(@, msg)]
           u   == Ask(w, c, d)
<1>1. /\ v \in ClientWorkType /\ SameUpper(w, v)
      /\ ~sv[address_book[d]].listening => v.threw = "refused" /\ v.m = w.m /\ v.net = w.net
      /\ sv[address_book[d]].listening =>
            /\ v.threw = Nothing
            /\ v.m.holdings = Put(w.m.holdings, d, l)
            /\ \A z \in ConnName : z # l => v.net[z] = w.net[z]
            /\ v.net[l] = Dialled
  BY FirstConnect
<1>2. l \in ConnName /\ msg \in Msg
  <2>1. w.nsent + 1 \in Nat
    BY DEF ClientWorkType
  <2> QED
    BY <2>1, Names, RequestType
<1>3. u = IF x.threw = Nothing THEN y ELSE x
  BY DEF Ask, send
<1> HIDE DEF v, msg, u
<1>4. CASE ~sv[address_book[d]].listening
  <2>1. v.threw = "refused" /\ "refused" # Nothing
    BY <1>1, <1>4 DEF Nothing
  <2>2. x = v
    BY <2>1 DEF manager_send
  <2>3. u = v
    BY <1>3, <2>1, <2>2
  <2> QED
    BY <1>1, <1>4, <2>3 DEF SameUpper, u, FirstAsked
<1>5. CASE sv[address_book[d]].listening
  <2>1. d \in Held(v.m) /\ v.m.holdings[d] = l /\ Held(v.m) = Held(w.m) \cup {d}
    BY <1>1, <1>5 DEF Held, Put
  <2>2. x = [v EXCEPT !.net = q]
    BY <1>1, <1>5, <2>1 DEF manager_send
  <2>3. /\ q \in [ConnName -> Link(Msg)]
        /\ \A z \in ConnName : z # l => q[z] = v.net[z]
        /\ q[l].end = Dialled.end /\ q[l].to["server"] = <<msg>>
        /\ q[l].late = NoLink.late /\ q[l].write = NoLink.write
    <3> SUFFICES ASSUME NEW n \in [ConnName -> Link(Msg)], n = v.net, n[l] = Dialled
                 PROVE  LET r == do_send_message(n, l, "client", msg) IN
                        /\ r \in [ConnName -> Link(Msg)]
                        /\ \A z \in ConnName : z # l => r[z] = n[z]
                        /\ r[l].end = Dialled.end /\ r[l].to["server"] = <<msg>>
                        /\ r[l].late = NoLink.late /\ r[l].write = NoLink.write
      BY <1>1, <1>5 DEF ClientWorkType
    <3> HIDE DEF l
    <3> QED
      BY <1>2, FirstSend
  <2> HIDE DEF q
  <2>4. /\ x \in ClientWorkType /\ x.net = q /\ x.m = v.m /\ x.threw = Nothing
        /\ SameUpper(w, x)
    <3> HIDE DEF x
    <3> QED
      BY <1>1, <1>5, <2>2, <2>3, ClientNet DEF SameUpper
  <2> HIDE DEF x
  <2>5. a \in [Id -> Seq(Msg)] /\ w.nsent + 1 \in Nat
    BY <1>2 DEF ClientWorkType
  <2>6. y = [x EXCEPT !.nsent = w.nsent + 1, !.asked = a]
    BY <2>4 DEF SameUpper
  <2> HIDE DEF a
  <2>7. /\ y \in ClientWorkType /\ y.net = q /\ y.m = v.m /\ y.threw = Nothing
        /\ y.asked = a /\ y.finished = w.finished /\ y.next_dest = w.next_dest
    <3> HIDE DEF y
    <3> QED
      BY <2>4, <2>5, <2>6 DEF ClientWorkType, SameUpper
  <2> HIDE DEF y
  <2>8. u = y
    BY <1>3, <2>4
  <2> QED
    BY <1>1, <1>5, <2>1, <2>3, <2>7, <2>8 DEF u, a, msg, FirstAsked
<1> QED
  BY <1>4, <1>5

\* Who has not asked the server finds it listening, as long as nobody crashes.
LEMMA ServerListens ==
    ASSUME NEW c \in Client, NEW s \in Server, ChunksOK(sv[s]), ~Got(c, sv[s].numbers),
           sv[s].listening = ~sv[s].stored
    PROVE  sv[s].listening
  BY DEF ChunksOK, Got

Listeners == \A s \in Server : ChunksOK(sv[s]) /\ sv[s].listening = ~sv[s].stored

LEMMA SortFetch ==
    ASSUME NEW c \in Client, NEW w \in ClientWorkType, ClientOK(c, w, TRUE),
           w.threw = Nothing, Progress(w), "sort" \in Model, w.finished # nreduce,
           SortOK(c, w, sv)
    PROVE  LET u == fetch_and_send(w, c) IN
           /\ SortOK(c, u, sv)
           /\ CleanNet(w.net) /\ Listeners => u.threw = Nothing /\ CleanNet(u.net)
<1> DEFINE d   == w.next_dest
           l   == First(c, d)
           w1  == [w EXCEPT !.next_dest = d + 1]
           msg == Request(c, d, w1.nsent + 1)
           s   == address_book[d]
           v   == Ask(w1, c, d)
           u   == [v EXCEPT !.finished = @ + 1]
<1>1. d \in Nat /\ d \in Id /\ s \in Server
  <2>1. d \in Nat /\ w.finished = d /\ d < nreduce
    BY SortIds DEF Progress, ClientWorkType
  <2>2. d \in Id
    BY <2>1, SortIds
  <2> QED
    BY <2>1, <2>2, Names
<1>2. /\ w1 \in ClientWorkType
      /\ w1.net = w.net /\ w1.m = w.m /\ w1.threw = Nothing
      /\ w1.established = w.established /\ w1.asked = w.asked /\ w1.next_dest = d + 1
  <2>1. d + 1 \in Nat
    BY <1>1
  <2> HIDE DEF d
  <2> QED
    BY <2>1 DEF ClientWorkType
<1>3. fetch_and_send(w, c) = u
  BY DEF fetch_and_send
<1> HIDE DEF w1
<1>4. SortLine(c, w, d, sv[s].numbers) /\ Line(c, w, d, TRUE)
  BY <1>1 DEF SortOK, ClientOK
<1>5. d \notin Held(w.m) /\ d \notin w.established /\ w.net[l] = NoLink /\ w.asked[d] = <<>>
  <2>1. d >= d
    BY <1>1
  <2>2. d \notin Held(w.m)
    BY <1>4, <2>1 DEF SortLine
  <2> QED
    BY <1>4, <2>2 DEF Line, ClientOK
<1> HIDE DEF d
<1>6. /\ v \in ClientWorkType /\ v.next_dest = d + 1
      /\ ~sv[s].listening => v.threw = "refused" /\ v.m = w.m /\ v.net = w.net /\ v.asked = w.asked
      /\ sv[s].listening =>
            /\ v.threw = Nothing
            /\ Held(v.m) = Held(w.m) \cup {d}
            /\ v.asked = [w.asked EXCEPT ![d] = Append(@, msg)]
            /\ \A x \in ConnName : x # l => v.net[x] = w.net[x]
            /\ v.net[l].end = Dialled.end
            /\ v.net[l].to["server"] = <<msg>>
            /\ v.net[l].late = NoLink.late
            /\ v.net[l].write = NoLink.write
  <2>1. w1.net[First(c, d)] = NoLink /\ d \notin Held(w1.m) /\ d \notin w1.established
    BY <1>2, <1>5
  <2> HIDE DEF v, msg, l, s
  <2>2. FirstAsked(c, d, w1, Ask(w1, c, d))
    BY <1>1, <1>2, <2>1, FirstAsk
  <2> QED
    BY <1>2, <2>2 DEF FirstAsked, v, msg, l, s
<1> HIDE DEF v
<1>7. /\ u.net = v.net /\ u.m = v.m /\ u.asked = v.asked /\ u.threw = v.threw
      /\ u.next_dest = d + 1
  BY <1>6 DEF ClientWorkType
<1> HIDE DEF u
<1>8. ~Got(c, sv[s].numbers)
  BY <1>4, <1>5 DEF SortLine
<1>9. w.asked \in [Id -> Seq(Msg)] /\ msg.client = c /\ l \in ConnName
  BY <1>1, Names DEF ClientWorkType, Request
<1> HIDE DEF msg
<1>10. ASSUME NEW i \in Id
       PROVE  SortLine(c, u, i, sv[address_book[i]].numbers)
  <2>1. SortLine(c, w, i, sv[address_book[i]].numbers)
    BY DEF SortOK
  <2>2. i \in Nat /\ Second(c, i) \in ConnName /\ Second(c, i) # l /\ First(c, i) \in ConnName
    BY <1>1, Names
  <2>3. i >= d + 1 => i >= d /\ i # d
    BY <1>1, <2>2
  <2>4. CASE ~sv[s].listening
    <3>1. u.net = w.net /\ u.m = w.m /\ u.asked = w.asked
      BY <1>6, <1>7, <2>4
    <3> QED
      BY <1>7, <2>1, <2>3, <3>1 DEF SortLine, d
  <2>5. CASE sv[s].listening /\ i = d
    <3>1. u.asked[d] = <<msg>>
      BY <1>1, <1>5, <1>6, <1>7, <1>9, <2>5
    <3>2. Len(<<msg>>) = 1 /\ <<msg>> # <<>> /\ Head(<<msg>>) = msg
      OBVIOUS
    <3>3. ~(d >= d + 1)
      BY <1>1
    <3> QED
      BY <1>6, <1>7, <1>8, <1>9, <2>1, <2>2, <2>5, <3>1, <3>2, <3>3 DEF SortLine, l
  <2>6. CASE sv[s].listening /\ i # d
    <3>1. First(c, i) # l
      BY <1>1, <2>6, Names
    <3>2. u.asked[i] = w.asked[i] /\ u.net[First(c, i)] = w.net[First(c, i)]
          /\ u.net[Second(c, i)] = w.net[Second(c, i)]
      BY <1>6, <1>7, <1>9, <2>2, <2>6, <3>1
    <3>3. i \in Held(u.m) <=> i \in Held(w.m)
      BY <1>6, <1>7, <2>6
    <3> QED
      BY <1>7, <2>1, <2>3, <2>6, <3>2, <3>3 DEF SortLine, d
  <2> QED
    BY <2>4, <2>5, <2>6
<1>11. ASSUME CleanNet(w.net), Listeners
       PROVE  u.threw = Nothing /\ CleanNet(u.net)
  <2>1. sv[s].listening
    BY <1>1, <1>8, <1>11, ServerListens DEF Listeners
  <2>2. u.threw = Nothing /\ \A x \in ConnName : x # l => u.net[x] = w.net[x]
    BY <1>6, <1>7, <2>1
  <2>3. CleanLink(u.net[l])
    BY <1>6, <1>7, <2>1, DialledLink DEF CleanLink
  <2> QED
    BY <1>11, <2>2, <2>3 DEF CleanNet
<1> QED
  BY <1>3, <1>10, <1>11 DEF SortOK

LEMMA MovedTransitive ==
    ASSUME NEW k, NEW q, NEW r, Moved(k, q), Moved(q, r)
    PROVE  Moved(k, r)
  BY DEF Moved

LEMMA ShutMoved ==
    ASSUME NEW k \in Link(Msg), NEW side \in Side
    PROVE  Moved(k, shut(k, side))
<1>1. NoLink.end[side] = "none" /\ NoLink.to["server"] = <<>>
  BY DEF NoLink, Side
<1>2. Other(side) \in Side /\ (side # "server" => Other(side) = "server")
  BY DEF Other, Side
<1>3. LET q == shut(k, side) IN
      /\ q.end[Other(side)] = k.end[Other(side)]
      /\ k.end[side] = "none" => q = k
      /\ k.end[side] # "none" => q.end[side] = "closed"
  BY ShutLink
<1>4. shut(k, side).to["server"] \in {k.to["server"], <<>>}
  BY <1>1 DEF shut, Link
<1> DEFINE q == shut(k, side)
<1> HIDE DEF q
<1>5. k.end["server"] \in {"open", "closed"} => q.end["server"] \in {"open", "closed"}
  BY <1>2, <1>3 DEF q
<1> QED
  BY <1>1, <1>3, <1>4, <1>5 DEF Moved, q

LEMMA CloseAllMoved ==
    ASSUME NEW n \in [ConnName -> Link(Msg)], NEW names, NEW side \in Side,
           NEW l \in ConnName
    PROVE  Moved(n[l], CloseAll(n, names, side)[l])
<1>1. n[l] \in Link(Msg)
  OBVIOUS
<1>2. Moved(n[l], n[l])
  BY DEF Moved
<1>3. Moved(n[l], shut(n[l], side))
  BY <1>1, ShutMoved
<1> QED
  BY <1>2, <1>3 DEF CloseAll

\* A step in which no chunk is sent or read.
LEMMA SortStep ==
    ASSUME IInv, SortInv, model' = model,
           \A s \in Server : sv'[s].numbers = sv[s].numbers /\ sv'[s].stored = sv[s].stored,
           model = "sort" =>
              /\ \A c \in Client : /\ cl'[c].asked = cl[c].asked /\ cl'[c].m = cl[c].m
                                   /\ cl'[c].next_dest = cl[c].next_dest
              /\ \A l \in ConnName : Moved(net[l], net'[l])
              /\ NobodyCrashed' => Clean'
    PROVE  SortInv'
<1>1. ASSUME model' = "sort", NEW c \in Client
      PROVE  SortOK(c, ClientWork(c), sv)'
  <2> DEFINE w == ClientWork(c)
             v == ClientWork(c)'
  <2>1. SortOK(c, w, sv)
    BY <1>1 DEF SortInv
  <2>2. w.net = net /\ v.net = net'
    BY DEF ClientWork
  <2>3. v.asked = w.asked /\ v.next_dest = w.next_dest /\ v.m = w.m
    BY <1>1 DEF ClientWork
  <2> HIDE DEF w, v
  <2>4. ASSUME NEW i \in Id
        PROVE  /\ Moved(w.net[First(c, i)], v.net[First(c, i)])
               /\ Moved(w.net[Second(c, i)], v.net[Second(c, i)])
    BY <1>1, <2>2, Names
  <2>5. SortOK(c, v, sv')
    BY <2>1, <2>3, <2>4, SortKept
  <2> QED
    BY <2>5 DEF v, SortOK
<1>2. ASSUME model' = "sort", NobodyCrashed'
      PROVE  Clean'
  BY <1>2
<1>3. ASSUME NEW s \in Server
      PROVE  ChunksOK(sv[s])' /\ (model' # "sort" => ~sv'[s].stored)
  BY <1>3 DEF SortInv, ChunksOK
<1> QED
  BY <1>1, <1>2, <1>3 DEF SortInv

\* A handler of a client that does not run as long as nobody crashes.
LEMMA ClientMove ==
    ASSUME IInv, SortInv, NEW c \in Client, Alive(c), NEW w \in ClientWorkType,
           ClientReturns(c, w),
           model = "sort" =>
              /\ ~Clean
              /\ w.asked = cl[c].asked /\ w.m = cl[c].m /\ w.next_dest = cl[c].next_dest
              /\ \A l \in ConnName : Moved(net[l], w.net[l])
    PROVE  SortInv'
<1> DEFINE q == CloseAll(w.net, Of(c), "client")
<1>1. cl \in [Client -> ClientType] /\ w.net \in [ConnName -> Link(Msg)] /\ "client" \in Side
  BY DEF IInv, Types, ClientWorkType, Side
<1>2. /\ \A d \in Client : d # c => cl'[d] = cl[d]
      /\ cl'[c].asked = w.asked /\ cl'[c].m = w.m /\ cl'[c].next_dest = w.next_dest
      /\ net' \in {w.net, q}
      /\ model' = model /\ sv' = sv
  BY <1>1 DEF ClientReturns
<1>3. ASSUME model = "sort", NEW l \in ConnName
      PROVE  Moved(net[l], net'[l])
  <2>1. Moved(net[l], w.net[l])
    BY <1>3
  <2>2. Moved(w.net[l], q[l])
    <3> SUFFICES ASSUME NEW n \in [ConnName -> Link(Msg)], n = w.net
                 PROVE  Moved(n[l], CloseAll(n, Of(c), "client")[l])
      BY <1>1
    <3> QED
      BY <1>1, <1>3, CloseAllMoved
  <2> HIDE DEF q
  <2>3. Moved(net[l], q[l])
    BY <2>1, <2>2, MovedTransitive
  <2> QED
    BY <1>2, <2>1, <2>3
<1> HIDE DEF q
<1>4. NobodyCrashed' => NobodyCrashed
  BY <1>2 DEF NobodyCrashed, Alive
<1>5. model = "sort" => ~NobodyCrashed'
  BY <1>4 DEF SortInv
<1>6. model = "sort" =>
         \A d \in Client : /\ cl'[d].asked = cl[d].asked /\ cl'[d].m = cl[d].m
                           /\ cl'[d].next_dest = cl[d].next_dest
  BY <1>2
<1> QED
  BY <1>2, <1>3, <1>5, <1>6, SortStep

LEMMA CrashMove ==
    ASSUME IInv, SortInv, NEW c \in Client, ClientCrash(c)
    PROVE  SortInv'
<1>1. cl \in [Client -> ClientType] /\ net \in [ConnName -> Link(Msg)] /\ "client" \in Side
  BY DEF IInv, Types, Side
<1>2. /\ \A d \in Client : /\ cl'[d].asked = cl[d].asked /\ cl'[d].m = cl[d].m
                           /\ cl'[d].next_dest = cl[d].next_dest
      /\ cl'[c].st = "crashed"
      /\ net' = CloseAll(net, Of(c), "client")
      /\ model' = model /\ sv' = sv
  BY <1>1 DEF ClientCrash, ClientType
<1>3. \A l \in ConnName : Moved(net[l], net'[l])
  BY <1>1, <1>2, CloseAllMoved
<1>4. ~NobodyCrashed'
  BY <1>2 DEF NobodyCrashed
<1> QED
  BY <1>2, <1>3, <1>4, SortStep

\* In a sort no client is told of a connection, as long as nobody crashes.
LEMMA ClientReportsMove ==
    ASSUME IInv, SortInv, NEW c \in Client, Alive(c), NEW w \in ClientWorkType,
           ClientFrame(c, net, w.net), ClientOK(c, w, TRUE), w.threw = Nothing,
           NEW l \in ConnName, w.m.callback[l] \in Id,
           ClientReports(c, w, l),
           model = "sort" =>
              /\ ~Clean
              /\ w.asked = cl[c].asked /\ w.m = cl[c].m /\ w.next_dest = cl[c].next_dest
              /\ \A x \in ConnName : Moved(net[x], w.net[x])
    PROVE  SortInv'
<1>1. CASE model = "sort"
  <2> DEFINE v == Throw(w, "unexpected event")
  <2>1. ClientReturns(c, v)
    BY <1>1 DEF ClientReports, ClientEvent
  <2>2. "unexpected event" \in Exception
    BY DEF Exception
  <2>3. /\ v \in ClientWorkType /\ v.m = w.m /\ v.net = w.net /\ v.asked = w.asked
        /\ v.next_dest = w.next_dest
    BY <2>2, ClientThrow DEF SameUpper
  <2> HIDE DEF v
  <2> QED
    BY <1>1, <2>1, <2>3, ClientMove
<1>2. CASE model # "sort"
  <2> DEFINE t == w.told \cup {w.m.callback[l]}
             v == ClientEvent(w, l)
  <2>1. t \in SUBSET Id
    BY DEF ClientWorkType
  <2>2. v = [w EXCEPT !.told = t]
    BY <1>2 DEF ClientEvent
  <2>3. /\ v \in ClientWorkType /\ v.threw = Nothing /\ v.net = w.net
        /\ v.m = w.m /\ v.established = w.established
        /\ v.asked = w.asked /\ v.answered = w.answered
    <3> HIDE DEF v, t
    <3> QED
      BY <2>1, <2>2 DEF ClientWorkType
  <2>4. PICK u \in Reactions(v, c) : ClientReturns(c, u)
    BY <1>2 DEF ClientReports
  <2> HIDE DEF v
  <2>5. ClientOK(c, v, v.threw = Nothing) /\ v.threw # "null"
    <3>1. (v.threw = Nothing) = TRUE
      BY <2>3
    <3>2. ClientOK(c, v, TRUE)
      BY <2>3, ClientKept
    <3> QED
      BY <2>3, <3>1, <3>2 DEF Nothing
  <2>6. u \in ClientWorkType
    BY <2>3, <2>4, <2>5, ReactionsCalled DEF Called, CallOK
  <2> QED
    BY <1>2, <2>4, <2>6, ClientMove
<1> QED
  BY <1>1, <1>2

\* A connection that is closed on one side.
LEMMA CloseMoved ==
    ASSUME NEW n \in [ConnName -> Link(Msg)], NEW l \in ConnName, NEW side \in Side,
           NEW x \in ConnName
    PROVE  Moved(n[x], connection_close(n, l, side)[x])
<1>1. n[x] \in Link(Msg)
  OBVIOUS
<1>2. Moved(n[x], n[x])
  BY DEF Moved
<1>3. Moved(n[x], shut(n[x], side))
  BY <1>1, ShutMoved
<1> QED
  BY <1>2, <1>3 DEF connection_close

LEMMA ClientClosesMove ==
    ASSUME IInv, NEW c \in Client, NEW l \in ConnName, Alive(c)
    PROVE  LET w == ClientCloses(c, l) IN
           /\ w.m = cl[c].m /\ w.next_dest = cl[c].next_dest
           /\ \A x \in ConnName : Moved(net[x], w.net[x])
<1> DEFINE r == ClientWork(c)
           q == connection_close(net, l, "client")
           w == [r EXCEPT !.net = q]
<1>1. r \in ClientWorkType /\ r.net = net /\ r.m = cl[c].m /\ r.next_dest = cl[c].next_dest
  BY ClientWorkTyped DEF IInv
<1>2. ClientCloses(c, l) = w
  BY <1>1 DEF ClientCloses
<1>3. net \in [ConnName -> Link(Msg)] /\ "client" \in Side
  BY DEF IInv, Types, Side
<1>4. \A x \in ConnName : Moved(net[x], q[x])
  BY <1>3, CloseMoved
<1> HIDE DEF q, r
<1>5. w.m = r.m /\ w.next_dest = r.next_dest /\ w.net = q
  BY <1>1 DEF ClientWorkType
<1> HIDE DEF w
<1> QED
  BY <1>1, <1>2, <1>4, <1>5

LEMMA ClientEofMove ==
    ASSUME IInv, SortInv, NEW c \in Client, NEW l \in ConnName,
           ClientEof(c, l) \/ ClientReset(c, l)
    PROVE  SortInv'
<1>1. l[1] = c /\ Alive(c) /\ net[l] # NoLink
  BY DEF ClientEof, ClientReset, Running, Alive, NoLink, Side
<1>2. ~Clean
  <2>1. net[l].end["client"] = "open" /\ net[l].end["server"] = "closed"
    BY DEF ClientEof, ClientReset, Running, Eof, Reset, Other
  <2> QED
    BY <2>1 DEF Clean, CleanNet, CleanLink
<1> DEFINE w == ClientCloses(c, l)
           t == w.reset \cup {w.m.callback[l]}
           u == [w EXCEPT !.reset = t]
<1>3. ClientReports(c, w, l) \/ ClientReturns(c, u)
  BY DEF ClientEof, ClientReset
<1>4. /\ w \in ClientWorkType
      /\ ClientOK(c, w, TRUE) /\ ClientFrame(c, net, w.net)
      /\ Progress(w) /\ w.threw = Nothing
      /\ w.asked = cl[c].asked /\ w.answered = cl[c].answered
      /\ w.m.callback[l] \in Id
  BY <1>1, ClientClosesCall
<1>5. /\ w.m = cl[c].m /\ w.next_dest = cl[c].next_dest
      /\ \A x \in ConnName : Moved(net[x], w.net[x])
  BY <1>1, ClientClosesMove
<1> HIDE DEF w
<1>6. CASE ClientReports(c, w, l)
  BY <1>1, <1>2, <1>4, <1>5, <1>6, ClientReportsMove
<1>7. CASE ClientReturns(c, u)
  <2>1. t \in SUBSET Id
    BY <1>4 DEF ClientWorkType
  <2> HIDE DEF t
  <2>2. u \in ClientWorkType /\ u.net = w.net /\ u.asked = w.asked /\ u.m = w.m
        /\ u.next_dest = w.next_dest
    BY <1>4, <2>1 DEF ClientWorkType
  <2> HIDE DEF u
  <2> QED
    BY <1>1, <1>2, <1>4, <1>5, <1>7, <2>2, ClientMove
<1> QED
  BY <1>3, <1>6, <1>7

\* A connection that was made is still one when it is closed.
LEMMA ClosedNotNew ==
    ASSUME NEW n \in [ConnName -> Link(Msg)], NEW l \in ConnName, NEW side \in Side,
           n[l] # NoLink
    PROVE  connection_close(n, l, side)[l] # NoLink
<1>1. n[l] \in Link(Msg) /\ connection_close(n, l, side)[l] = shut(n[l], side)
  BY DEF connection_close
<1>2. /\ n[l].end[side] = "none" => shut(n[l], side) = n[l]
      /\ n[l].end[side] # "none" => shut(n[l], side).end[side] = "closed"
  <2> SUFFICES ASSUME NEW k \in Link(Msg), k = n[l]
               PROVE  /\ k.end[side] = "none" => shut(k, side) = k
                      /\ k.end[side] # "none" => shut(k, side).end[side] = "closed"
    BY <1>1
  <2> QED
    BY ShutLink
<1>3. NoLink.end[side] = "none"
  BY DEF NoLink
<1> QED
  BY <1>1, <1>2, <1>3

LEMMA ClientPipeMove ==
    ASSUME IInv, SortInv, NEW c \in Client, NEW l \in ConnName, ClientPipe(c, l)
    PROVE  SortInv'
<1>1. l[1] = c /\ Alive(c) /\ net[l] # NoLink
  BY DEF ClientPipe, WriteFails, Alive, NoLink, Side
<1>2. ~Clean
  <2>1. NoLink.write["client"] = "ok"
    BY DEF NoLink, Side
  <2>2. \/ net[l].write["client"] = "failed"
        \/ net[l].end["client"] = "open" /\ net[l].end["server"] = "closed"
    BY DEF ClientPipe, WriteFails, Other
  <2> QED
    BY <2>1, <2>2 DEF Clean, CleanNet, CleanLink
<1> DEFINE w == ClientCloses(c, l)
           k == [w.net[l] EXCEPT !.write["client"] = "stuck"]
           n == [w.net EXCEPT ![l] = k]
           u == [w EXCEPT !.net = n]
<1>3. ClientReports(c, [w EXCEPT !.net[l].write["client"] = "stuck"], l)
  BY DEF ClientPipe
<1>4. /\ w \in ClientWorkType
      /\ ClientOK(c, w, TRUE) /\ ClientFrame(c, net, w.net)
      /\ Progress(w) /\ w.threw = Nothing
      /\ w.asked = cl[c].asked /\ w.answered = cl[c].answered
      /\ w.m.callback[l] \in Id
      /\ \E i \in Id : l = First(c, i) /\ i \in Held(w.m)
  BY <1>1, ClientClosesCall
<1>5. /\ w.m = cl[c].m /\ w.next_dest = cl[c].next_dest
      /\ \A x \in ConnName : Moved(net[x], w.net[x])
  BY <1>1, ClientClosesMove
<1>6. w.net[l] # NoLink
  <2>1. w.net = connection_close(net, l, "client")
    BY DEF ClientCloses, ClientWork
  <2>2. net \in [ConnName -> Link(Msg)] /\ "client" \in Side
    BY DEF IInv, Types, Side
  <2> HIDE DEF w
  <2> QED
    BY <1>1, <2>1, <2>2, ClosedNotNew
<1> HIDE DEF w
<1>7. [w EXCEPT !.net[l].write["client"] = "stuck"] = u
  BY <1>4 DEF ClientWorkType
<1>8. /\ n \in [ConnName -> Link(Msg)] /\ n[l] = k
      /\ k.end = w.net[l].end /\ k.to = w.net[l].to
      /\ \A x \in ConnName : x # l => n[x] = w.net[x]
  <2> SUFFICES ASSUME NEW r \in [ConnName -> Link(Msg)], r = w.net
               PROVE  LET k2 == [r[l] EXCEPT !.write["client"] = "stuck"]
                          q2 == [r EXCEPT ![l] = k2]
                      IN
                      /\ q2 \in [ConnName -> Link(Msg)] /\ q2[l] = k2
                      /\ k2.end = r[l].end /\ k2.to = r[l].to
                      /\ \A x \in ConnName : x # l => q2[x] = r[x]
    BY <1>4 DEF ClientWorkType
  <2>1. "client" \in Side
    BY DEF Side
  <2> QED
    BY <2>1, Stuck
<1> HIDE DEF n, k
<1>9. /\ u \in ClientWorkType /\ u.net = n /\ u.m = w.m /\ u.threw = Nothing
      /\ u.established = w.established /\ SameUpper(w, u)
  BY <1>4, <1>8, ClientNet
<1> HIDE DEF u
<1>10. ASSUME NEW x \in ConnName
       PROVE  Moved(net[x], u.net[x])
  <2>1. Moved(w.net[x], n[x])
    BY <1>6, <1>8 DEF Moved
  <2> QED
    BY <1>5, <1>9, <2>1, MovedTransitive
<1>11. ClientOK(c, u, TRUE)
  <2>1. ASSUME NEW j \in Id
        PROVE  Line(c, u, j, TRUE)
    <3>1. /\ Line(c, w, j, TRUE)
          /\ First(c, j) \in ConnName /\ Second(c, j) \in ConnName
      BY <1>4, Names DEF ClientOK
    <3>2. n[Second(c, j)] = w.net[Second(c, j)]
      BY <1>6, <1>8, <3>1 DEF Line
    <3>3. n[First(c, j)].end = w.net[First(c, j)].end /\ n[First(c, j)].to = w.net[First(c, j)].to
      BY <1>8, <3>1
    <3>4. w.net[First(c, j)] = NoLink => n[First(c, j)] = NoLink
      BY <1>6, <1>8, <3>1
    <3> QED
      BY <1>9, <3>1, <3>2, <3>3, <3>4 DEF Line, SameUpper
  <2> QED
    BY <1>4, <1>9, <2>1 DEF ClientOK
<1>12. ClientFrame(c, net, u.net)
  <2>1. l \in Of(c)
    BY <1>1 DEF Of
  <2> QED
    BY <1>4, <1>8, <1>9, <2>1 DEF ClientFrame
<1>13. u.asked = cl[c].asked /\ u.m = cl[c].m /\ u.next_dest = cl[c].next_dest
       /\ u.m.callback[l] \in Id
  BY <1>4, <1>5, <1>9 DEF SameUpper
<1>14. ClientReports(c, u, l)
  BY <1>3, <1>7
<1> QED
  BY <1>1, <1>2, <1>9, <1>10, <1>11, <1>12, <1>13, <1>14, ClientReportsMove

\* A handler of a client that may send a chunk.
LEMMA SortReturn ==
    ASSUME IInv, SortInv, model = "sort", NEW c \in Client, Alive(c),
           NEW w \in ClientWorkType, ClientReturns(c, w), ClientFrame(c, net, w.net),
           SortOK(c, w, sv), Clean => w.threw = Nothing /\ CleanNet(w.net)
    PROVE  SortInv'
<1> DEFINE q == CloseAll(w.net, Of(c), "client")
<1>1. cl \in [Client -> ClientType] /\ w.net \in [ConnName -> Link(Msg)] /\ "client" \in Side
  BY DEF IInv, Types, ClientWorkType, Side
<1>2. /\ \A d \in Client : d # c => cl'[d] = cl[d]
      /\ cl'[c].asked = w.asked /\ cl'[c].m = w.m /\ cl'[c].next_dest = w.next_dest
      /\ w.threw = Nothing => cl'[c].st = w.st
      /\ net' = IF w.threw = Nothing THEN w.net ELSE q
      /\ model' = model /\ sv' = sv
  BY <1>1 DEF ClientReturns
<1>3. ASSUME NEW l \in ConnName
      PROVE  Moved(w.net[l], net'[l]) /\ (l \notin Of(c) => net'[l] = net[l])
  <2>1. Moved(w.net[l], q[l]) /\ (l \notin Of(c) => q[l] = w.net[l])
    <3> SUFFICES ASSUME NEW n \in [ConnName -> Link(Msg)], n = w.net
                 PROVE  /\ Moved(n[l], CloseAll(n, Of(c), "client")[l])
                        /\ l \notin Of(c) => CloseAll(n, Of(c), "client")[l] = n[l]
      BY <1>1
    <3>1. Moved(n[l], CloseAll(n, Of(c), "client")[l])
      BY <1>1, CloseAllMoved
    <3> QED
      BY <3>1 DEF CloseAll
  <2>2. Moved(w.net[l], w.net[l])
    BY DEF Moved
  <2>3. l \notin Of(c) => w.net[l] = net[l]
    BY DEF ClientFrame
  <2> HIDE DEF q
  <2> QED
    BY <1>2, <2>1, <2>2, <2>3
<1> HIDE DEF q
<1>4. ASSUME NEW d \in Client
      PROVE  SortOK(d, ClientWork(d), sv)'
  <2> DEFINE x == ClientWork(d)
             v == ClientWork(d)'
  <2>1. SortOK(d, x, sv) /\ x.net = net
    BY DEF SortInv, ClientWork
  <2>2. v.net = net'
    BY DEF ClientWork
  <2>3. /\ d # c => v.asked = x.asked /\ v.next_dest = x.next_dest /\ v.m = x.m
        /\ d = c => v.asked = w.asked /\ v.next_dest = w.next_dest /\ v.m = w.m
    BY <1>2 DEF ClientWork
  <2> HIDE DEF x, v
  <2>4. CASE d = c
    <3>1. ASSUME NEW i \in Id
          PROVE  /\ Moved(w.net[First(d, i)], v.net[First(d, i)])
                 /\ Moved(w.net[Second(d, i)], v.net[Second(d, i)])
      BY <1>3, <2>2, Names
    <3>2. SortOK(d, v, sv')
      BY <1>2, <2>3, <2>4, <3>1, SortKept
    <3> QED
      BY <3>2 DEF v, SortOK
  <2>5. CASE d # c
    <3>1. ASSUME NEW i \in Id
          PROVE  /\ Moved(x.net[First(d, i)], v.net[First(d, i)])
                 /\ Moved(x.net[Second(d, i)], v.net[Second(d, i)])
      <4>1. /\ First(d, i) \in ConnName /\ Second(d, i) \in ConnName
            /\ First(d, i) \notin Of(c) /\ Second(d, i) \notin Of(c)
        BY <2>5, Names DEF Of, First, Second
      <4> QED
        BY <1>3, <2>1, <2>2, <4>1 DEF Moved
    <3>2. SortOK(d, v, sv')
      BY <1>2, <2>1, <2>3, <2>5, <3>1, SortKept
    <3> QED
      BY <3>2 DEF v, SortOK
  <2> QED
    BY <2>4, <2>5
<1>5. ASSUME NobodyCrashed'
      PROVE  Clean'
  <2>1. NobodyCrashed
    BY <1>2, <1>5 DEF NobodyCrashed, Alive
  <2>2. Clean /\ w.threw = Nothing /\ CleanNet(w.net)
    BY <2>1 DEF SortInv
  <2>3. cl'[c].st = "running" /\ net' = w.net
    BY <1>2, <2>2 DEF ClientWorkType
  <2> QED
    BY <1>2, <2>2, <2>3 DEF Clean, Alive, CleanNet
<1>6. \A s \in Server : ChunksOK(sv[s])' /\ (model' # "sort" => ~sv'[s].stored)
  BY <1>2 DEF SortInv, ChunksOK
<1> QED
  BY <1>4, <1>5, <1>6 DEF SortInv

LEMMA StartMove ==
    ASSUME IInv, SortInv, NEW c \in Client, StartEvent(c)
    PROVE  SortInv'
<1> DEFINE w == ClientWork(c)
<1>1. Alive(c) /\ cl[c].finished = 0
  BY DEF StartEvent, Alive, IInv, Inv
<1>2. /\ w \in ClientWorkType
      /\ ClientOK(c, w, TRUE) /\ Progress(w) /\ ClientFrame(c, net, w.net)
      /\ w.net = net /\ w.threw = Nothing /\ w.finished = 0
  BY <1>1, ClientStarts
<1>3. \/ model = "sort" /\ ClientReturns(c, fetch_and_send(w, c))
      \/ model = "chat" /\ \E v \in Reactions(w, c) : ClientReturns(c, v)
  BY DEF StartEvent
<1>4. CASE model = "sort" /\ ClientReturns(c, fetch_and_send(w, c))
  <2>1. SortOK(c, w, sv)
    BY <1>4 DEF SortInv
  <2> HIDE DEF w
  <2> DEFINE u == fetch_and_send(w, c)
  <2>2. "sort" \in Model /\ w.finished # nreduce
    <3>1. "sort" \in Model
      BY <1>4 DEF IInv, Types
    <3> QED
      BY <1>2, <3>1, SortIds
  <2>3. Handled(c, w, u)
    BY <1>2, <1>4, <2>2, FetchAndSend
  <2>4. /\ SortOK(c, u, sv)
        /\ CleanNet(w.net) /\ Listeners => u.threw = Nothing /\ CleanNet(u.net)
    BY <1>2, <2>1, <2>2, SortFetch
  <2> HIDE DEF u
  <2>5. Clean => CleanNet(w.net) /\ Listeners
    BY <1>2 DEF Clean, Listeners, SortInv
  <2>6. u \in ClientWorkType /\ ClientFrame(c, net, u.net)
    BY <1>2, <2>3 DEF Handled, CallOK
  <2>7. ClientReturns(c, u)
    BY <1>4 DEF u
  <2> QED
    BY <1>1, <1>4, <2>4, <2>5, <2>6, <2>7, SortReturn
<1>5. ASSUME model = "chat", NEW v \in Reactions(w, c), ClientReturns(c, v)
      PROVE  SortInv'
  <2> HIDE DEF w
  <2>1. ClientOK(c, w, w.threw = Nothing) /\ w.threw # "null"
    <3>1. (w.threw = Nothing) = TRUE
      BY <1>2
    <3> QED
      BY <1>2, <3>1 DEF Nothing
  <2>2. v \in ClientWorkType
    BY <1>2, <1>5, <2>1, ReactionsCalled DEF Called, CallOK
  <2> QED
    BY <1>1, <1>5, <2>2, ClientMove
<1> QED
  BY <1>3, <1>4, <1>5

\* The client is the first to close a connection, after it has read all that came.
LEMMA ShutClean ==
    ASSUME NEW k \in Link(Msg), CleanLink(k), k.to["server"] = <<>>
    PROVE  CleanLink(shut(k, "client"))
<1> DEFINE q == shut(k, "client")
<1>1. "client" \in Side /\ Other("client") = "server"
  BY DEF Side, Other
<1>2. /\ q \in Link(Msg) /\ q.end["server"] = k.end["server"]
      /\ k.end["client"] = "none" => q = k
      /\ k.end["client"] # "none" => q.end["client"] = "closed"
  BY <1>1, ShutLink
<1>3. q.to["server"] = <<>>
  BY <1>1, DialledLink DEF shut, Link
<1>4. q.late = NoLink.late /\ q.write = NoLink.write
  BY DEF shut, Link, CleanLink
<1> HIDE DEF q
<1> QED
  BY <1>2, <1>3, <1>4 DEF CleanLink, q

LEMMA SortClose ==
    ASSUME NEW c \in Client, NEW i \in Id, NEW w \in ClientWorkType, SortOK(c, w, sv),
           NEW v, v.net = connection_close(w.net, First(c, i), "client"),
           v.asked = w.asked, v.next_dest = w.next_dest, v.m = w.m
    PROVE  /\ SortOK(c, v, sv)
           /\ CleanNet(w.net) /\ w.net[First(c, i)].to["server"] = <<>> => CleanNet(v.net)
<1> DEFINE l == First(c, i)
<1>1. l \in ConnName /\ "client" \in Side /\ w.net \in [ConnName -> Link(Msg)]
  BY Names DEF ClientWorkType, Side
<1> HIDE DEF l
<1>2. ASSUME NEW x \in ConnName
      PROVE  Moved(w.net[x], v.net[x])
  <2> SUFFICES ASSUME NEW n \in [ConnName -> Link(Msg)], n = w.net
               PROVE  Moved(n[x], connection_close(n, l, "client")[x])
    BY <1>1 DEF l
  <2> QED
    BY <1>1, CloseMoved
<1>3. ASSUME NEW j \in Id
      PROVE  /\ Moved(w.net[First(c, j)], v.net[First(c, j)])
             /\ Moved(w.net[Second(c, j)], v.net[Second(c, j)])
  BY <1>2, Names
<1>4. SortOK(c, v, sv)
  BY <1>3, SortKept
<1>5. ASSUME CleanNet(w.net), w.net[l].to["server"] = <<>>, NEW x \in ConnName
      PROVE  CleanLink(v.net[x])
  <2>1. v.net[x] = IF x = l THEN shut(w.net[l], "client") ELSE w.net[x]
    BY <1>1 DEF connection_close, l
  <2>2. CleanLink(w.net[x]) /\ CleanLink(w.net[l]) /\ w.net[l] \in Link(Msg)
    BY <1>1, <1>5 DEF CleanNet
  <2>3. CleanLink(shut(w.net[l], "client"))
    <3> SUFFICES ASSUME NEW k \in Link(Msg), k = w.net[l]
                 PROVE  CleanLink(shut(k, "client"))
      BY <2>2
    <3> QED
      BY <1>5, <2>2, ShutClean
  <2> QED
    BY <2>1, <2>2, <2>3
<1> QED
  BY <1>4, <1>5 DEF CleanNet, l

\* The client has its answer, closes the connection and goes on to the next server.
LEMMA SortLogicMove ==
    ASSUME NEW c \in Client, NEW i \in Id, NEW w \in ClientWorkType,
           ClientOK(c, w, TRUE), w.threw = Nothing, Progress(w),
           "sort" \in Model, i \in Held(w.m), SortOK(c, w, sv),
           w.net[First(c, i)].to["server"] = <<>>
    PROVE  LET u == sort_logic(w, c, i) IN
           /\ SortOK(c, u, sv)
           /\ CleanNet(w.net) /\ Listeners => u.threw = Nothing /\ CleanNet(u.net)
<1> DEFINE v == disconnect(w, i)
<1>1. /\ Called(c, w, v) /\ SameUpper(w, v) /\ v.threw = Nothing /\ v.m = w.m
      /\ v.net = connection_close(w.net, First(c, i), "client")
  BY DisconnectCall
<1>2. sort_logic(w, c, i) = IF v.threw = Nothing /\ v.finished # nreduce
                            THEN fetch_and_send(v, c) ELSE v
  BY DEF sort_logic
<1> HIDE DEF v
<1>3. v.asked = w.asked /\ v.next_dest = w.next_dest
  BY <1>1 DEF SameUpper
<1>4. SortOK(c, v, sv) /\ (CleanNet(w.net) => CleanNet(v.net))
  BY <1>1, <1>3, SortClose
<1>5. CASE v.finished = nreduce
  BY <1>1, <1>2, <1>4, <1>5
<1>6. CASE v.finished # nreduce
  <2>1. v \in ClientWorkType /\ ClientOK(c, v, TRUE) /\ Progress(v)
    BY <1>1 DEF Called, CallOK, SameUpper, Progress
  <2>2. LET u == fetch_and_send(v, c) IN
        /\ SortOK(c, u, sv)
        /\ CleanNet(v.net) /\ Listeners => u.threw = Nothing /\ CleanNet(u.net)
    BY <1>1, <1>4, <1>6, <2>1, SortFetch
  <2> QED
    BY <1>1, <1>2, <1>4, <1>6, <2>2
<1> QED
  BY <1>5, <1>6

LEMMA ReceiveMove ==
    ASSUME IInv, SortInv, NEW c \in Client, NEW l \in ConnName, ClientReceive(c, l)
    PROVE  SortInv'
<1> DEFINE i == cl[c].m.callback[l]
           w == reading(c, l)
<1>1. Running(c, l) /\ net[l].to["client"] # <<>> /\ Alive(c)
  BY DEF ClientReceive, Running, Alive
<1>2. /\ i \in Id /\ l = First(c, i) /\ i \in Held(w.m)
      /\ w \in ClientWorkType /\ w.threw = Nothing /\ w.m = cl[c].m
      /\ ClientOK(c, w, TRUE) /\ ClientFrame(c, net, w.net) /\ Progress(w)
      /\ w.asked = cl[c].asked /\ w.next_dest = cl[c].next_dest
      /\ \A x \in ConnName : x # l => w.net[x] = net[x]
      /\ w.net[l].end = net[l].end /\ w.net[l].to["server"] = net[l].to["server"]
      /\ w.net[l].late = net[l].late /\ w.net[l].write = net[l].write
      /\ Len(net[l].to["server"]) < Len(cl[c].asked[i])
  BY <1>1, ClientReads
<1>3. \/ model = "sort" /\ ClientReturns(c, sort_logic(w, c, i))
      \/ model = "chat" /\ \E v \in Reactions(w, c) : ClientReturns(c, v)
  BY DEF ClientReceive, reading
<1> HIDE DEF w, i
<1>4. CASE model = "sort" /\ ClientReturns(c, sort_logic(w, c, i))
  <2> DEFINE r == ClientWork(c)
             u == sort_logic(w, c, i)
  <2>1. SortOK(c, r, sv) /\ r.net = net /\ r.asked = cl[c].asked
        /\ r.m = cl[c].m /\ r.next_dest = cl[c].next_dest
    BY <1>4 DEF SortInv, ClientWork
  <2> HIDE DEF r
  <2>2. ASSUME NEW x \in ConnName
        PROVE  Moved(r.net[x], w.net[x])
    <3>1. net[l] # NoLink
      BY <1>1 DEF Running, NoLink, Side
    <3> QED
      BY <1>2, <2>1, <3>1 DEF Moved
  <2>3. ASSUME NEW j \in Id
        PROVE  /\ Moved(r.net[First(c, j)], w.net[First(c, j)])
               /\ Moved(r.net[Second(c, j)], w.net[Second(c, j)])
    BY <2>2, Names
  <2>4. SortOK(c, w, sv)
    BY <1>2, <2>1, <2>3, SortKept
  <2>5. w.net[First(c, i)].to["server"] = <<>>
    <3>1. net[l] \in Link(Msg)
      BY DEF IInv, Types
    <3>2. net[l].to["server"] \in Seq(Msg)
      BY <3>1 DEF Link, Side
    <3>3. cl[c].asked[i] \in Seq(Msg)
      BY <1>2 DEF ClientWorkType
    <3>4. Len(cl[c].asked[i]) <= 1
      BY <1>2, <2>1 DEF SortOK, SortLine
    <3>5. Len(net[l].to["server"]) = 0
      BY <1>2, <3>2, <3>3, <3>4
    <3> QED
      BY <1>2, <3>2, <3>5
  <2>6. "sort" \in Model
    BY <1>4 DEF IInv, Types
  <2>7. /\ SortOK(c, u, sv)
        /\ CleanNet(w.net) /\ Listeners => u.threw = Nothing /\ CleanNet(u.net)
    BY <1>2, <2>4, <2>5, <2>6, SortLogicMove
  <2>8. Handled(c, w, u)
    BY <1>2, <1>4, <2>6, SortLogic
  <2> HIDE DEF u
  <2>9. Clean => CleanNet(w.net) /\ Listeners
    BY <1>2 DEF Clean, CleanNet, CleanLink, Listeners, SortInv
  <2>10. u \in ClientWorkType /\ ClientFrame(c, net, u.net)
    <3>1. u \in ClientWorkType /\ ClientFrame(c, w.net, u.net)
      BY <2>8 DEF Handled, CallOK
    <3> QED
      BY <1>2, <3>1, FrameTransitive
  <2>11. ClientReturns(c, u)
    BY <1>4 DEF u
  <2> QED
    BY <1>1, <1>4, <2>7, <2>9, <2>10, <2>11, SortReturn
<1>5. ASSUME model = "chat", NEW v \in Reactions(w, c), ClientReturns(c, v)
      PROVE  SortInv'
  <2>1. ClientOK(c, w, w.threw = Nothing) /\ w.threw # "null"
    <3>1. (w.threw = Nothing) = TRUE
      BY <1>2
    <3> QED
      BY <1>2, <3>1 DEF Nothing
  <2>2. v \in ClientWorkType
    BY <1>2, <1>5, <2>1, ReactionsCalled DEF Called, CallOK
  <2> QED
    BY <1>1, <1>5, <2>2, ClientMove
<1> QED
  BY <1>3, <1>4, <1>5

\* A handler of a server that does not read a chunk.
LEMMA ServerMove ==
    ASSUME IInv, SortInv, NEW s \in Server, sv[s].st = "running", NEW w \in ServerWorkType,
           ServerReturns(s, w), w.numbers = sv[s].numbers, w.stored = sv[s].stored,
           model = "sort" =>
              /\ \A l \in ConnName : Moved(net[l], w.net[l])
              /\ Clean => /\ w.threw = Nothing /\ CleanNet(w.net)
                          /\ w.listening = sv[s].listening
    PROVE  SortInv'
<1> DEFINE q == CloseAll(w.net, With(s), "server")
<1>1. sv \in [Server -> ServerType] /\ w.net \in [ConnName -> Link(Msg)] /\ "server" \in Side
  BY DEF IInv, Types, ServerWorkType, Side
<1>2. /\ \A t \in Server : t # s => sv'[t] = sv[t]
      /\ sv'[s].numbers = w.numbers /\ sv'[s].stored = w.stored
      /\ w.threw = Nothing => sv'[s].st = "running" /\ sv'[s].listening = w.listening
      /\ net' = IF w.threw = Nothing THEN w.net ELSE q
      /\ model' = model /\ cl' = cl
  BY <1>1 DEF ServerReturns, ServerWorkType
<1>3. ASSUME model = "sort", NEW l \in ConnName
      PROVE  Moved(net[l], net'[l])
  <2>1. Moved(net[l], w.net[l])
    BY <1>3
  <2>2. Moved(w.net[l], q[l])
    <3> SUFFICES ASSUME NEW n \in [ConnName -> Link(Msg)], n = w.net
                 PROVE  Moved(n[l], CloseAll(n, With(s), "server")[l])
      BY <1>1
    <3> QED
      BY <1>1, <1>3, CloseAllMoved
  <2> HIDE DEF q
  <2>3. Moved(net[l], q[l])
    BY <2>1, <2>2, MovedTransitive
  <2> QED
    BY <1>2, <2>1, <2>3
<1> HIDE DEF q
<1>4. ASSUME model = "sort", NobodyCrashed'
      PROVE  Clean'
  <2>1. NobodyCrashed
    BY <1>2, <1>4 DEF NobodyCrashed
  <2>2. Clean /\ w.threw = Nothing /\ CleanNet(w.net) /\ w.listening = sv[s].listening
    BY <1>4, <2>1 DEF SortInv
  <2>3. net' = w.net /\ sv'[s].st = "running" /\ sv'[s].listening = sv[s].listening
    BY <1>2, <2>2
  <2> QED
    BY <1>2, <2>2, <2>3 DEF Clean, Alive, CleanNet
<1> QED
  BY <1>2, <1>3, <1>4, SortStep

LEMMA ServerCrashMove ==
    ASSUME IInv, SortInv, NEW s \in Server, ServerCrash(s)
    PROVE  SortInv'
<1>1. sv \in [Server -> ServerType] /\ net \in [ConnName -> Link(Msg)] /\ "server" \in Side
  BY DEF IInv, Types, Side
<1>2. /\ \A t \in Server : sv'[t].numbers = sv[t].numbers /\ sv'[t].stored = sv[t].stored
      /\ sv'[s].st = "crashed"
      /\ net' = CloseAll(net, With(s), "server")
      /\ model' = model /\ cl' = cl
  BY <1>1 DEF ServerCrash, ServerType
<1>3. \A l \in ConnName : Moved(net[l], net'[l])
  BY <1>1, <1>2, CloseAllMoved
<1>4. ~NobodyCrashed'
  BY <1>2 DEF NobodyCrashed
<1> QED
  BY <1>2, <1>3, <1>4, SortStep

\* A connection whose server end is accepted or opened.
opened(n, l, e) == [n EXCEPT ![l].end["server"] = e]

LEMMA OpenedMove ==
    ASSUME NEW n \in [ConnName -> Link(Msg)], NEW l \in ConnName,
           n[l].end["server"] \in {"backlog", "accepted"},
           NEW e \in {"accepted", "open"},
           n[l].end["server"] = "accepted" => e = "open",
           NEW q, q = opened(n, l, e)
    PROVE  /\ \A x \in ConnName : Moved(n[x], q[x])
           /\ CleanNet(n) => CleanNet(q)
<1> DEFINE k == [n[l] EXCEPT !.end["server"] = e]
<1>1. n[l] \in Link(Msg) /\ n[l] # NoLink
  BY DEF NoLink, Side
<1>2. /\ k.end["server"] = e /\ k.end["client"] = n[l].end["client"] /\ k.to = n[l].to
      /\ k.late = n[l].late /\ k.write = n[l].write
  BY <1>1 DEF Link, Side
<1>3. q = [n EXCEPT ![l] = k]
  BY DEF opened
<1> HIDE DEF k
<1>4. ASSUME NEW x \in ConnName
      PROVE  Moved(n[x], q[x]) /\ (CleanLink(n[x]) => CleanLink(q[x]))
  BY <1>1, <1>2, <1>3 DEF Moved, CleanLink
<1> QED
  BY <1>4 DEF CleanNet

LEMMA AcceptMove ==
    ASSUME IInv, SortInv, NEW s \in Server, NEW l \in ConnName, when_accept(s, l)
    PROVE  SortInv'
<1> DEFINE w == ServerWork(s)
           v == do_accept(new_connection(w, l, "server", -1))
<1>1. /\ v \in ServerWorkType
      /\ v.net = [net EXCEPT ![l].end["server"] = "open"]
      /\ v.threw = Nothing
      /\ v.numbers = w.numbers /\ v.stored = w.stored /\ v.listening = w.listening
  BY Accepts
<1>2. /\ w.numbers = sv[s].numbers /\ w.stored = sv[s].stored
      /\ w.listening = sv[s].listening
  BY DEF ServerWork
<1>3. sv[s].st = "running" /\ net[l].end["server"] = "accepted" /\ ServerReturns(s, v)
  BY DEF when_accept
<1> HIDE DEF w, v
<1>4. net \in [ConnName -> Link(Msg)]
  BY DEF IInv, Types
<1>5. /\ \A x \in ConnName : Moved(net[x], v.net[x])
      /\ CleanNet(net) => CleanNet(v.net)
  <2>1. v.net = opened(net, l, "open") /\ "open" \in {"accepted", "open"}
    BY <1>1 DEF opened
  <2> QED
    BY <1>3, <1>4, <2>1, OpenedMove
<1> QED
  BY <1>1, <1>2, <1>3, <1>5, ServerMove DEF Clean

LEMMA AcceptedMove ==
    ASSUME IInv, SortInv, NEW s \in Server, NEW l \in ConnName, Accepted(s, l)
    PROVE  SortInv'
<1>1. sv \in [Server -> ServerType] /\ net \in [ConnName -> Link(Msg)]
  BY DEF IInv, Types
<1>2. /\ \A t \in Server : /\ sv'[t].numbers = sv[t].numbers /\ sv'[t].stored = sv[t].stored
                           /\ sv'[t].st = sv[t].st /\ sv'[t].listening = sv[t].listening
      /\ net[l].end["server"] = "backlog"
      /\ net' = [net EXCEPT ![l].end["server"] = "accepted"]
      /\ model' = model /\ cl' = cl
  BY <1>1 DEF Accepted, ServerType
<1>3. /\ \A x \in ConnName : Moved(net[x], net'[x])
      /\ CleanNet(net) => CleanNet(net')
  <2>1. net' = opened(net, l, "accepted") /\ "accepted" \in {"accepted", "open"}
    BY <1>2 DEF opened
  <2> QED
    BY <1>1, <1>2, <2>1, OpenedMove
<1>4. ASSUME model = "sort", NobodyCrashed'
      PROVE  Clean'
  <2>1. NobodyCrashed
    BY <1>2, <1>4 DEF NobodyCrashed
  <2>2. Clean
    BY <1>4, <2>1 DEF SortInv
  <2> QED
    BY <1>2, <1>3, <2>2 DEF Clean, Alive, CleanNet
<1> QED
  BY <1>2, <1>3, <1>4, SortStep

\* The server closes a connection after the client.
LEMMA ShutAfter ==
    ASSUME NEW k \in Link(Msg), CleanLink(k), k.end["client"] = "closed"
    PROVE  CleanLink(shut(k, "server"))
<1> DEFINE q == shut(k, "server")
<1>1. "server" \in Side /\ Other("server") = "client"
  BY DEF Side, Other
<1>2. q.end["client"] = "closed"
  BY <1>1, ShutLink
<1>3. q.to["server"] = <<>>
  BY DialledLink DEF shut, Link, CleanLink
<1>4. q.late = NoLink.late /\ q.write = NoLink.write
  BY DEF shut, Link, CleanLink
<1> HIDE DEF q
<1> QED
  BY <1>2, <1>3, <1>4 DEF CleanLink, q

LEMMA ServerClosesMove ==
    ASSUME IInv, NEW s \in Server, NEW l \in ConnName
    PROVE  LET w == ServerCloses(s, l) IN
           /\ w.numbers = sv[s].numbers /\ w.stored = sv[s].stored
           /\ w.listening = sv[s].listening
           /\ w.net = connection_close(net, l, "server")
           /\ \A x \in ConnName : Moved(net[x], w.net[x])
<1> DEFINE r == ServerWork(s)
           q == connection_close(net, l, "server")
           w == [r EXCEPT !.net = q]
<1>1. /\ r \in ServerWorkType /\ r.net = net
      /\ r.numbers = sv[s].numbers /\ r.stored = sv[s].stored
      /\ r.listening = sv[s].listening
  BY ServerWorkTyped DEF IInv
<1>2. ServerCloses(s, l) = w
  BY <1>1 DEF ServerCloses
<1>3. net \in [ConnName -> Link(Msg)] /\ "server" \in Side
  BY DEF IInv, Types, Side
<1>4. \A x \in ConnName : Moved(net[x], q[x])
  BY <1>3, CloseMoved
<1> HIDE DEF q, r
<1>5. /\ w.numbers = r.numbers /\ w.stored = r.stored /\ w.listening = r.listening
      /\ w.net = q
  BY <1>1 DEF ServerWorkType
<1> HIDE DEF w
<1> QED
  BY <1>1, <1>2, <1>4, <1>5 DEF q

LEMMA ServerEofMove ==
    ASSUME IInv, SortInv, NEW s \in Server, NEW l \in ConnName,
           ServerEof(s, l) \/ ServerReset(s, l)
    PROVE  SortInv'
<1> DEFINE w == ServerCloses(s, l)
<1>1. /\ l \in With(s) /\ sv[s].st = "running" /\ net[l].end["client"] = "closed"
      /\ ServerReturns(s, w)
  BY DEF ServerEof, ServerReset, ServerOpen, Eof, Reset, Other
<1>2. w \in ServerWorkType /\ w.threw = Nothing
  BY <1>1, ServerClosesCall
<1>3. /\ w.numbers = sv[s].numbers /\ w.stored = sv[s].stored
      /\ w.listening = sv[s].listening
      /\ w.net = connection_close(net, l, "server")
      /\ \A x \in ConnName : Moved(net[x], w.net[x])
  BY ServerClosesMove
<1> HIDE DEF w
<1>4. ASSUME Clean, NEW x \in ConnName
      PROVE  CleanLink(w.net[x])
  <2>1. w.net[x] = IF x = l THEN shut(net[l], "server") ELSE net[x]
    BY <1>3 DEF connection_close, IInv, Types
  <2>2. CleanLink(net[x]) /\ CleanLink(net[l]) /\ net[l] \in Link(Msg)
    BY <1>4 DEF Clean, CleanNet, IInv, Types
  <2>3. CleanLink(shut(net[l], "server"))
    BY <1>1, <2>2, ShutAfter
  <2> QED
    BY <2>1, <2>2, <2>3
<1>5. Clean => CleanNet(w.net)
  BY <1>4 DEF CleanNet
<1> QED
  BY <1>1, <1>2, <1>3, <1>5, ServerMove

LEMMA ServerPipeMove ==
    ASSUME IInv, SortInv, NEW s \in Server, NEW l \in ConnName, ServerPipe(s, l)
    PROVE  SortInv'
<1> DEFINE w == ServerCloses(s, l)
           k == [w.net[l] EXCEPT !.write["server"] = "stuck"]
           n == [w.net EXCEPT ![l] = k]
           u == [w EXCEPT !.net = n]
           v == [u EXCEPT !.threw = "unexpected event"]
<1>1. l \in With(s) /\ net[l] # NoLink /\ sv[s].st = "running"
  <2>1. NoLink.end["server"] = "none" /\ NoLink.write["server"] = "ok"
    BY DEF NoLink, Side
  <2> QED
    BY <2>1 DEF ServerPipe, WriteFails
<1>2. LET y == [w EXCEPT !.net[l].write["server"] = "stuck"] IN
      ServerReturns(s, y) \/ ServerReturns(s, Throw(y, "unexpected event"))
  BY DEF ServerPipe
<1>3. ~Clean
  <2>1. NoLink.write["server"] = "ok" /\ NoLink.late["server"] = FALSE
    BY DEF NoLink, Side
  <2>2. net[l].write["server"] = "failed" \/ net[l].late["server"]
    BY DEF ServerPipe, WriteFails
  <2> QED
    BY <2>1, <2>2 DEF Clean, CleanNet, CleanLink
<1>4. w \in ServerWorkType /\ w.threw = Nothing
  BY <1>1, ServerClosesCall
<1>5. /\ w.numbers = sv[s].numbers /\ w.stored = sv[s].stored
      /\ w.net = connection_close(net, l, "server")
      /\ \A x \in ConnName : Moved(net[x], w.net[x])
  BY ServerClosesMove
<1>6. w.net[l] # NoLink
  <2>1. net \in [ConnName -> Link(Msg)] /\ "server" \in Side
    BY DEF IInv, Types, Side
  <2> HIDE DEF w
  <2> QED
    BY <1>1, <1>5, <2>1, ClosedNotNew
<1> HIDE DEF w
<1>7. [w EXCEPT !.net[l].write["server"] = "stuck"] = u
  BY <1>4 DEF ServerWorkType
<1>8. /\ n \in [ConnName -> Link(Msg)] /\ n[l] = k
      /\ k.end = w.net[l].end /\ k.to = w.net[l].to
      /\ \A x \in ConnName : x # l => n[x] = w.net[x]
  <2> SUFFICES ASSUME NEW r \in [ConnName -> Link(Msg)], r = w.net
               PROVE  LET k2 == [r[l] EXCEPT !.write["server"] = "stuck"]
                          q2 == [r EXCEPT ![l] = k2]
                      IN
                      /\ q2 \in [ConnName -> Link(Msg)] /\ q2[l] = k2
                      /\ k2.end = r[l].end /\ k2.to = r[l].to
                      /\ \A x \in ConnName : x # l => q2[x] = r[x]
    BY <1>4 DEF ServerWorkType
  <2>1. "server" \in Side
    BY DEF Side
  <2> QED
    BY <2>1, Stuck
<1>9. ASSUME NEW x \in ConnName
      PROVE  Moved(net[x], n[x])
  <2> HIDE DEF k, n
  <2>1. Moved(w.net[x], n[x])
    BY <1>6, <1>8 DEF Moved
  <2> QED
    BY <1>5, <2>1, MovedTransitive
<1> HIDE DEF k, n
<1>10. /\ u \in ServerWorkType /\ u.net = n /\ u.threw = Nothing
       /\ u.numbers = w.numbers /\ u.stored = w.stored
  BY <1>4, <1>8 DEF ServerWorkType
<1>11. /\ v \in ServerWorkType /\ v.net = n
       /\ v.numbers = w.numbers /\ v.stored = w.stored
  <2> HIDE DEF u
  <2> QED
    BY <1>10 DEF ServerWorkType, Exception
<1>12. Throw(u, "unexpected event") = v
  BY <1>10 DEF Throw
<1> HIDE DEF u, v
<1>13. CASE ServerReturns(s, u)
  BY <1>1, <1>3, <1>5, <1>9, <1>10, <1>13, ServerMove
<1>14. CASE ServerReturns(s, v)
  BY <1>1, <1>3, <1>5, <1>9, <1>11, <1>14, ServerMove
<1> QED
  BY <1>2, <1>7, <1>12, <1>13, <1>14

LEMMA GotAppend ==
    ASSUME NEW q \in Seq(Msg), NEW msg \in Msg
    PROVE  /\ \A c : Got(c, Append(q, msg)) <=> Got(c, q) \/ msg.client = c
           /\ (\A j, k \in DOMAIN q : q[j].client = q[k].client => j = k) /\ ~Got(msg.client, q)
              => LET r == Append(q, msg) IN
                 \A j, k \in DOMAIN r : r[j].client = r[k].client => j = k
<1> DEFINE n == Len(q)
           r == Append(q, msg)
<1>1. n \in Nat /\ DOMAIN q = 1..n /\ DOMAIN r = 1..(n + 1)
  OBVIOUS
<1>2. (\A j \in 1..n : r[j] = q[j]) /\ r[n + 1] = msg
  OBVIOUS
<1> HIDE DEF n, r
<1>3. \A j \in 1..(n + 1) : j \in 1..n \/ j = n + 1
  BY <1>1
<1>4. 1..n \subseteq 1..(n + 1) /\ n + 1 \in 1..(n + 1)
  BY <1>1
<1>5. ASSUME NEW c
      PROVE  Got(c, r) <=> Got(c, q) \/ msg.client = c
  BY <1>1, <1>2, <1>3, <1>4 DEF Got
<1>6. ASSUME \A j, k \in DOMAIN q : q[j].client = q[k].client => j = k,
             ~Got(msg.client, q), NEW j \in DOMAIN r, NEW k \in DOMAIN r,
             r[j].client = r[k].client
      PROVE  j = k
  BY <1>1, <1>2, <1>3, <1>6 DEF Got
<1> QED
  BY <1>5, <1>6 DEF r

\* Whose chunk a server reads in a sort, which is the only one on its connection and the
\* first that the server has of that client.
LEMMA ChunkFrom ==
    ASSUME IInv, SortInv, model = "sort", NEW s \in Server, NEW l \in With(s),
           net[l].to["server"] # <<>>
    PROVE  LET msg == Head(net[l].to["server"]) IN
           \E c \in Client : \E i \in Id :
              /\ l = First(c, i) /\ address_book[i] = s
              /\ msg \in Msg /\ msg.client = c /\ Tail(net[l].to["server"]) = <<>>
              /\ ~Got(c, sv[s].numbers) /\ cl[c].asked[i] # <<>>
<1>1. l \in ConnName /\ net[l] \in Link(Msg) /\ address_book[l[2]] = s
  BY DEF With, IInv, Types
<1>2. PICK c \in Client, i \in Id : l = First(c, i) \/ l = Second(c, i)
  BY <1>1 DEF ConnName, First, Second
<1>3. SortLine(c, ClientWork(c), i, sv[address_book[i]].numbers)
  BY DEF SortInv, SortOK
<1>4. ClientWork(c).net = net /\ ClientWork(c).asked = cl[c].asked
  BY DEF ClientWork
<1>5. l = First(c, i) /\ address_book[i] = s
  <2>1. net[Second(c, i)].to["server"] = <<>>
    BY <1>3, <1>4, DialledLink DEF SortLine
  <2> QED
    BY <1>1, <1>2, <2>1 DEF First
<1> DEFINE q == net[l].to["server"]
<1>6. q \in Seq(Msg)
  BY <1>1 DEF Link, Side
<1>7. /\ Len(q) <= 1 /\ Head(q).client = c /\ cl[c].asked[i] # <<>>
      /\ ~Got(c, sv[s].numbers)
  BY <1>3, <1>4, <1>5 DEF SortLine
<1> HIDE DEF q
<1>8. q # <<>>
  BY DEF q
<1>9. Head(q) \in Msg /\ Tail(q) = <<>>
  BY <1>6, <1>7, <1>8
<1> QED
  BY <1>5, <1>7, <1>9 DEF q

\* The server has read it.
LEMMA ChunkRead ==
    ASSUME IInv, SortInv, model = "sort", NEW s \in Server, NEW l \in With(s),
           net[l].to["server"] # <<>>, net[l].end["server"] = "open",
           NEW k, \A x \in ConnName : x # l => k[x] = net[x],
           k[l].end = net[l].end, k[l].to["server"] = Tail(net[l].to["server"]),
           NEW S, \A t \in Server : t # s => S[t].numbers = sv[t].numbers,
           S[s].numbers = Append(sv[s].numbers, Head(net[l].to["server"])),
           NEW c \in Client, NEW v, v.net = k, v.asked = cl[c].asked,
           v.next_dest = cl[c].next_dest, v.m = cl[c].m
    PROVE  SortOK(c, v, S)
<1> DEFINE msg == Head(net[l].to["server"])
           w   == ClientWork(c)
<1>1. PICK d \in Client, j \in Id :
         /\ l = First(d, j) /\ address_book[j] = s
         /\ msg \in Msg /\ msg.client = d /\ Tail(net[l].to["server"]) = <<>>
         /\ ~Got(d, sv[s].numbers) /\ cl[d].asked[j] # <<>>
  BY ChunkFrom
<1>2. sv[s].numbers \in Seq(Msg)
  BY DEF IInv, Types, ServerType
<1>3. \A x : Got(x, S[s].numbers) <=> Got(x, sv[s].numbers) \/ msg.client = x
  <2> HIDE DEF msg
  <2>1. S[s].numbers = Append(sv[s].numbers, msg)
    BY DEF msg
  <2> QED
    BY <1>1, <1>2, <2>1, GotAppend
<1> HIDE DEF msg
<1>4. w.net = net /\ w.asked = cl[c].asked /\ w.m = cl[c].m /\ w.next_dest = cl[c].next_dest
  BY DEF ClientWork
<1>5. SortOK(c, w, sv)
  BY DEF SortInv
<1> HIDE DEF w
<1> SUFFICES ASSUME NEW i \in Id
             PROVE  SortLine(c, v, i, S[address_book[i]].numbers)
  BY DEF SortOK
<1>6. SortLine(c, w, i, sv[address_book[i]].numbers)
  BY <1>5 DEF SortOK
<1>7. /\ First(c, i) \in ConnName /\ Second(c, i) \in ConnName /\ Second(c, i) # l
      /\ address_book[i] \in Server
  <2>1. Second(c, i) # First(d, j)
    BY DEF First, Second
  <2> QED
    BY <1>1, <2>1, Names
<1>8. CASE c = d /\ i = j
  <2>1. k[l].to["server"] = <<>> /\ k[l].end["server"] = "open" /\ w.asked[i] # <<>>
    BY <1>1, <1>4, <1>8
  <2>2. Len(<<>>) = 0
    OBVIOUS
  <2> QED
    BY <1>1, <1>4, <1>6, <1>7, <1>8, <2>1, <2>2 DEF SortLine
<1>9. CASE ~(c = d /\ i = j)
  <2>1. First(c, i) # l
    BY <1>1, <1>9 DEF First
  <2>2. k[First(c, i)] = net[First(c, i)] /\ k[Second(c, i)] = net[Second(c, i)]
    BY <1>7, <2>1
  <2>3. Got(c, S[address_book[i]].numbers) <=> Got(c, sv[address_book[i]].numbers)
    <3>1. CASE address_book[i] # s
      BY <1>7, <3>1
    <3>2. CASE address_book[i] = s
      <4>1. "sort" \in Model
        BY DEF IInv, Types
      <4>2. i = j
        BY <1>1, <3>2, <4>1, MultiClientAssumption DEF MultiClientAssumption
      <4> QED
        BY <1>1, <1>3, <1>9, <3>2, <4>2
    <3> QED
      BY <3>1, <3>2
  <2> QED
    BY <1>4, <1>6, <2>2, <2>3 DEF SortLine
<1> QED
  BY <1>8, <1>9

\* A server reads a chunk and goes on, or has its result and stops to listen.  k is the
\* network after the answer.
Counts(s, l, k) ==
    /\ UNCHANGED <<model, cl>>
    /\ k \in [ConnName -> Link(Msg)]
    /\ \A x \in ConnName : x # l => k[x] = net[x]
    /\ k[l].end = net[l].end
    /\ k[l].to["server"] = Tail(net[l].to["server"])
    /\ net[l].end["client"] # "closed" =>
          k[l].late = net[l].late /\ k[l].write = net[l].write
    /\ \A t \in Server : t # s => sv'[t] = sv[t]
    /\ sv'[s].numbers = Append(sv[s].numbers, Head(net[l].to["server"]))
    /\ sv'[s].st = "running"
    /\ \/ /\ sv'[s].stored = sv[s].stored /\ sv'[s].listening = sv[s].listening
          /\ net' = k
       \/ /\ sv'[s].stored = TRUE /\ sv'[s].listening = FALSE
          /\ Len(sv'[s].numbers) = nreduce
          /\ net' = [x \in ConnName |-> IF x \in With(s) /\ k[x].end["server"] = "backlog"
                                        THEN shut(k[x], "server") ELSE k[x]]

LEMMA ChunkMove ==
    ASSUME IInv, SortInv, model = "sort", NEW s \in Server, NEW l \in With(s),
           net[l].to["server"] # <<>>, net[l].end["server"] = "open", sv[s].st = "running",
           NEW k, Counts(s, l, k)
    PROVE  SortInv'
<1> USE DEF Counts
<1> DEFINE msg == Head(net[l].to["server"])
           q   == sv'[s].numbers
<1>1. PICK d \in Client, j \in Id :
         /\ l = First(d, j) /\ address_book[j] = s
         /\ msg \in Msg /\ msg.client = d /\ Tail(net[l].to["server"]) = <<>>
         /\ ~Got(d, sv[s].numbers) /\ cl[d].asked[j] # <<>>
  BY ChunkFrom
<1>2. sv[s].numbers \in Seq(Msg) /\ net \in [ConnName -> Link(Msg)] /\ "sort" \in Model
  BY DEF IInv, Types, ServerType
<1>3. ChunksOK(sv[s]) /\ ~sv[s].stored
  BY <1>1 DEF SortInv, ChunksOK, Got
<1>4. /\ q \in Seq(Msg)
      /\ \A x, y \in DOMAIN q : q[x].client = q[y].client => x = y
  <2>1. q = Append(sv[s].numbers, msg)
    OBVIOUS
  <2>2. /\ \A x, y \in DOMAIN sv[s].numbers :
              sv[s].numbers[x].client = sv[s].numbers[y].client => x = y
        /\ ~Got(msg.client, sv[s].numbers)
    BY <1>1, <1>3 DEF ChunksOK
  <2>3. Append(sv[s].numbers, msg) \in Seq(Msg)
    BY <1>1, <1>2
  <2> HIDE DEF q, msg, Counts
  <2>4. \A x, y \in DOMAIN Append(sv[s].numbers, msg) :
           Append(sv[s].numbers, msg)[x].client = Append(sv[s].numbers, msg)[y].client => x = y
    BY <1>1, <1>2, <2>2, GotAppend
  <2> QED
    BY <2>1, <2>3, <2>4
<1> HIDE DEF msg, q
<1>5. Len(q) = nreduce => {q[x].client : x \in DOMAIN q} = Client
  BY <1>2, <1>4, AllChunks
<1>6. ChunksOK(sv'[s])
  BY <1>3, <1>4, <1>5 DEF ChunksOK, q
<1>7. ASSUME NEW c \in Client
      PROVE  /\ \A v : /\ v.net = k /\ v.asked = cl[c].asked
                       /\ v.next_dest = cl[c].next_dest /\ v.m = cl[c].m
                       => SortOK(c, v, sv')
             /\ SortOK(c, ClientWork(c), sv)'
  <2> DEFINE w == ClientWork(c)'
             v == [ClientWork(c) EXCEPT !.net = k]
  <2>1. ASSUME NEW u, u.net = k, u.asked = cl[c].asked,
               u.next_dest = cl[c].next_dest, u.m = cl[c].m
        PROVE  SortOK(c, u, sv')
    <3>1. \A t \in Server : t # s => sv'[t].numbers = sv[t].numbers
      OBVIOUS
    <3> QED
      BY <2>1, <3>1, ChunkRead
  <2>2. /\ v.net = k /\ v.asked = cl[c].asked
        /\ v.next_dest = cl[c].next_dest /\ v.m = cl[c].m
    BY DEF ClientWork
  <2>3. /\ w.net = net' /\ w.asked = cl[c].asked
        /\ w.next_dest = cl[c].next_dest /\ w.m = cl[c].m
    BY DEF ClientWork
  <2> HIDE DEF w, v
  <2>4. SortOK(c, v, sv')
    BY <2>1, <2>2
  <2>5. ASSUME NEW x \in ConnName
        PROVE  Moved(k[x], net'[x])
    <3>1. Moved(k[x], k[x])
      BY DEF Moved
    <3>2. Moved(k[x], shut(k[x], "server"))
      <4>1. k[x] \in Link(Msg) /\ "server" \in Side
        BY DEF Side
      <4> QED
        BY <4>1, ShutMoved
    <3> QED
      BY <3>1, <3>2
  <2>6. ASSUME NEW i \in Id
        PROVE  /\ Moved(v.net[First(c, i)], w.net[First(c, i)])
               /\ Moved(v.net[Second(c, i)], w.net[Second(c, i)])
    BY <2>2, <2>3, <2>5, Names
  <2>7. SortOK(c, w, sv')
    <3>1. v.asked = w.asked /\ w.next_dest = v.next_dest /\ w.m = v.m
      BY <2>2, <2>3
    <3> HIDE DEF Counts
    <3> QED
      BY <2>4, <2>6, <3>1, SortKept
  <2> QED
    BY <2>1, <2>7 DEF w, SortOK
<1>8. /\ UNCHANGED <<model, cl>> /\ \A t \in Server : t # s => sv'[t] = sv[t]
      /\ sv'[s].st = "running"
  OBVIOUS
<1>9. ASSUME NobodyCrashed'
      PROVE  Clean'
  <2>1. NobodyCrashed
    <3> HIDE DEF Counts
    <3> QED
      BY <1>8, <1>9 DEF NobodyCrashed
  <2>2. Clean
    BY <2>1 DEF SortInv
  <2>3. CleanNet(k)
    <3>1. net[l].end["client"] # "closed" /\ CleanLink(net[l])
      <4> HIDE DEF Counts
      <4>1. CleanLink(net[l])
        BY <2>2 DEF Clean, CleanNet, With
      <4> QED
        BY <4>1 DEF CleanLink
    <3>2. CleanLink(k[l])
      BY <3>1 DEF CleanLink
    <3> QED
      BY <2>2, <3>2 DEF Clean, CleanNet
  <2>4. net' = k
    <3>1. CASE Len(q) = nreduce
      <4>1. ASSUME NEW x \in With(s)
            PROVE  k[x].end["server"] # "backlog"
        <5>1. x \in ConnName /\ address_book[x[2]] = s
          BY DEF With
        <5>2. PICK c \in Client, i \in Id : x = First(c, i) \/ x = Second(c, i)
          BY <5>1 DEF ConnName, First, Second
        <5> DEFINE v == [ClientWork(c) EXCEPT !.net = k]
        <5>3. /\ v.net = k /\ v.asked = cl[c].asked
              /\ v.next_dest = cl[c].next_dest /\ v.m = cl[c].m
          BY DEF ClientWork
        <5> HIDE DEF v
        <5>4. SortLine(c, v, i, sv'[address_book[i]].numbers)
          BY <1>7, <5>3 DEF SortOK
        <5>5. CASE x = First(c, i)
          <6>1. address_book[i] = s
            BY <5>1, <5>5 DEF First
          <6>2. Got(c, q)
            BY <1>5, <3>1 DEF Got
          <6> QED
            BY <5>3, <5>4, <5>5, <6>1, <6>2 DEF SortLine, q
        <5>6. CASE x = Second(c, i)
          <6>1. k[x] = NoLink
            BY <5>3, <5>4, <5>6 DEF SortLine
          <6> QED
            BY <6>1, DialledLink
        <5> QED
          BY <5>2, <5>5, <5>6
      <4> QED
        BY <4>1
    <3> QED
      BY <3>1 DEF q
  <2>5. sv'[s].listening = ~sv'[s].stored
    BY <2>2 DEF Clean
  <2> HIDE DEF Counts
  <2> QED
    BY <1>8, <2>2, <2>3, <2>4, <2>5 DEF Clean, Alive
<1> HIDE DEF Counts
<1>10. \A t \in Server : ChunksOK(sv[t])' /\ (model' # "sort" => ~sv'[t].stored)
  BY <1>6, <1>8 DEF SortInv, ChunksOK
<1> QED
  BY <1>7, <1>9, <1>10 DEF SortInv

LEMMA ServerReceiveMove ==
    ASSUME IInv, SortInv, NEW s \in Server, NEW l \in ConnName, ServerReceive(s, l)
    PROVE  SortInv'
<1> DEFINE i   == sv[s].m.callback[l]
           msg == Head(net[l].to["server"])
           r   == ServerWork(s)
           n   == taken(net, l)
           w   == [r EXCEPT !.net = n]
           u   == given(w, s, l)
<1>1. /\ r \in ServerWorkType
      /\ r.net = net /\ r.threw = Nothing /\ r.m = sv[s].m
      /\ r.numbers = sv[s].numbers /\ r.stored = sv[s].stored
      /\ r.listening = sv[s].listening
      /\ net \in [ConnName -> Link(Msg)]
  <2>1. /\ r.numbers = sv[s].numbers /\ r.stored = sv[s].stored
        /\ r.listening = sv[s].listening
    BY DEF ServerWork
  <2> HIDE DEF r
  <2> QED
    BY <2>1, ServerStarts DEF r
<1>2. /\ ServerOpen(s, l) /\ net[l].to["server"] # <<>> /\ l \in With(s)
      /\ sv[s].st = "running" /\ net[l].end["server"] = "open"
  BY DEF ServerReceive, ServerOpen
<1>3. [r EXCEPT !.net[l].to["server"] = Tail(@)] = w
  BY <1>1 DEF ServerWorkType, taken
<1>4. \/ model = "sort" /\ ServerReturns(s, sort_server_logic(w, s, i, msg))
      \/ model # "sort" /\ ServerReturns(s, u)
      \/ model # "sort" /\ ServerReturns(s, manager_disconnect(u, "server", i))
  BY <1>3 DEF ServerReceive, given
<1> HIDE DEF r
<1>5. n \in [ConnName -> Link(Msg)] /\ msg \in Msg
  BY <1>1, <1>2, ServerTakes
<1> HIDE DEF n
<1>6. /\ w \in ServerWorkType /\ w.m = sv[s].m /\ w.threw = Nothing /\ w.net = n
      /\ w.numbers = sv[s].numbers /\ w.stored = sv[s].stored
      /\ w.listening = sv[s].listening
  BY <1>1, <1>5 DEF ServerWorkType
<1> HIDE DEF w
<1>7. /\ u \in ServerWorkType /\ u.threw = Nothing
      /\ i \in Held(u.m) /\ u.m.holdings[i] = l
      /\ u.numbers = sv[s].numbers /\ u.stored = sv[s].stored
  BY <1>2, <1>6, ServerAnswers DEF n
<1>8. ASSUME model = "sort", ServerReturns(s, sort_server_logic(w, s, i, msg))
      PROVE  SortInv'
  <2> DEFINE m == Append(w.numbers, msg)
             x == [w EXCEPT !.numbers = m]
             y == given(x, s, l)
             z == [stop(y, s) EXCEPT !.stored = TRUE]
  <2>1. /\ x \in ServerWorkType /\ x.m = sv[s].m /\ x.threw = Nothing /\ x.net = n
        /\ x.numbers = m /\ x.stored = sv[s].stored /\ x.listening = sv[s].listening
    <3>1. m \in Seq(Msg)
      BY <1>5, <1>6 DEF ServerWorkType
    <3> HIDE DEF m
    <3> QED
      BY <1>6, <3>1 DEF ServerWorkType
  <2>2. \/ sort_server_logic(w, s, i, msg) = y
        \/ sort_server_logic(w, s, i, msg) = z /\ Len(y.numbers) = nreduce
    BY DEF sort_server_logic, given
  <2> HIDE DEF x
  <2>3. /\ y \in ServerWorkType /\ y.threw = Nothing
        /\ y.numbers = m /\ y.stored = sv[s].stored /\ y.listening = sv[s].listening
        /\ \A k \in ConnName : k # l => y.net[k] = net[k]
        /\ y.net[l].end = net[l].end
        /\ y.net[l].to["server"] = Tail(net[l].to["server"])
        /\ net[l].end["client"] # "closed" =>
              y.net[l].late = net[l].late /\ y.net[l].write = net[l].write
    BY <1>2, <2>1, ServerAnswers DEF n
  <2>4. m = Append(sv[s].numbers, msg)
    BY <1>6
  <2> HIDE DEF y, m, msg
  <2> DEFINE q == [k \in ConnName |-> IF k \in With(s) /\ y.net[k].end["server"] = "backlog"
                                      THEN shut(y.net[k], "server") ELSE y.net[k]]
  <2>5. z = [y EXCEPT !.listening = FALSE, !.accepting = FALSE, !.net = q, !.stored = TRUE]
    <3> HIDE DEF q
    <3> QED
      BY <2>3 DEF stop, ServerWorkType, q
  <2> HIDE DEF q, z
  <2>6. /\ z.threw = Nothing /\ z.net = q /\ z.numbers = m
        /\ z.stored = TRUE /\ z.listening = FALSE
    BY <2>3, <2>5 DEF ServerWorkType
  <2>7. sv \in [Server -> ServerType] /\ y.net \in [ConnName -> Link(Msg)]
    BY <2>3 DEF IInv, Types, ServerWorkType
  <2> DEFINE k == y.net
  <2>8. /\ k \in [ConnName -> Link(Msg)]
        /\ \A p \in ConnName : p # l => k[p] = net[p]
        /\ k[l].end = net[l].end
        /\ k[l].to["server"] = Tail(net[l].to["server"])
        /\ net[l].end["client"] # "closed" =>
              k[l].late = net[l].late /\ k[l].write = net[l].write
    BY <2>3, <2>7
  <2>9. m = Append(sv[s].numbers, Head(net[l].to["server"]))
    BY <2>4 DEF msg
  <2>10. CASE ServerReturns(s, y)
    <3>1. /\ UNCHANGED <<model, cl>> /\ net' = y.net
          /\ \A t \in Server : t # s => sv'[t] = sv[t]
          /\ sv'[s].numbers = m /\ sv'[s].st = "running"
          /\ sv'[s].stored = sv[s].stored /\ sv'[s].listening = (y.listening /\ y.threw = Nothing)
      BY <2>3, <2>7, <2>10 DEF ServerReturns
    <3>2. sv'[s].listening = sv[s].listening
      BY <2>3, <2>7, <3>1 DEF ServerType
    <3>3. net' = k
      BY <3>1
    <3> HIDE DEF k
    <3>4. Counts(s, l, k)
      BY <2>8, <2>9, <3>1, <3>2, <3>3 DEF Counts
    <3> QED
      BY <1>2, <1>8, <3>4, ChunkMove
  <2>11. CASE ServerReturns(s, z) /\ Len(y.numbers) = nreduce
    <3>1. /\ UNCHANGED <<model, cl>> /\ net' = q
          /\ \A t \in Server : t # s => sv'[t] = sv[t]
          /\ sv'[s].numbers = m /\ sv'[s].st = "running"
          /\ sv'[s].stored = TRUE /\ sv'[s].listening = (z.listening /\ z.threw = Nothing)
      BY <2>6, <2>7, <2>11 DEF ServerReturns
    <3>2. sv'[s].listening = FALSE
      BY <2>6, <3>1
    <3>3. net' = [p \in ConnName |-> IF p \in With(s) /\ k[p].end["server"] = "backlog"
                                     THEN shut(k[p], "server") ELSE k[p]]
      BY <3>1 DEF q
    <3>4. Len(sv'[s].numbers) = nreduce
      BY <2>3, <2>11, <3>1
    <3> HIDE DEF k
    <3>5. Counts(s, l, k)
      BY <2>8, <2>9, <3>1, <3>2, <3>3, <3>4 DEF Counts
    <3> QED
      BY <1>2, <1>8, <3>5, ChunkMove
  <2> QED
    BY <1>8, <2>2, <2>10, <2>11
<1> HIDE DEF u
<1>9. ASSUME model # "sort", ServerReturns(s, manager_disconnect(u, "server", i))
      PROVE  SortInv'
  <2> DEFINE q == connection_close(u.net, l, "server")
             v == [u EXCEPT !.net = q]
  <2>1. manager_disconnect(u, "server", i) = v
    BY <1>7 DEF manager_disconnect
  <2>2. q \in [ConnName -> Link(Msg)]
    <3>1. u.net[l] \in Link(Msg) /\ u.net \in [ConnName -> Link(Msg)] /\ "server" \in Side
      BY <1>7 DEF ServerWorkType, Side
    <3>2. shut(u.net[l], "server") \in Link(Msg)
      BY <3>1, ShutLink
    <3> QED
      BY <3>1, <3>2 DEF connection_close
  <2> HIDE DEF q
  <2>3. /\ v \in ServerWorkType /\ v.numbers = u.numbers /\ v.stored = u.stored
    BY <1>7, <2>2 DEF ServerWorkType
  <2> HIDE DEF v
  <2> QED
    BY <1>2, <1>7, <1>9, <2>1, <2>3, ServerMove
<1>10. ASSUME model # "sort", ServerReturns(s, u)
       PROVE  SortInv'
  BY <1>2, <1>7, <1>10, ServerMove
<1> QED
  BY <1>4, <1>8, <1>9, <1>10

LEMMA InitSortInv == Init => SortInv
<1> SUFFICES ASSUME Init
             PROVE  SortInv
  OBVIOUS
<1>1. /\ cl = [c \in Client |-> NewClient] /\ sv = [s \in Server |-> NewServer]
      /\ net = [l \in ConnName |-> NoLink]
  BY DEF Init
<1>2. /\ NewClient.asked = [i \in Id |-> <<>>] /\ NewClient.st = "posted"
      /\ NewClient.m = NewManager
      /\ NewServer.numbers = <<>> /\ NewServer.stored = FALSE
      /\ NewServer.listening = TRUE /\ NewServer.st = "running"
      /\ Held(NewManager) = {}
  BY DEF NewClient, NewServer, NewManager, Held
<1>3. ASSUME NEW c \in Client, NEW i \in Id
      PROVE  SortLine(c, ClientWork(c), i, sv[address_book[i]].numbers)
  <2> DEFINE w == ClientWork(c)
  <2>1. w.asked = NewClient.asked /\ w.m = NewManager /\ w.net = net
    BY <1>1, <1>2 DEF ClientWork
  <2> HIDE DEF w
  <2>2. sv[address_book[i]].numbers = <<>>
    BY <1>1, <1>2, Names
  <2>3. w.net[First(c, i)] = NoLink /\ w.net[Second(c, i)] = NoLink /\ w.asked[i] = <<>>
    BY <1>1, <1>2, <2>1, Names
  <2>4. ~Got(c, <<>>) /\ Len(<<>>) <= 1
    BY DEF Got
  <2> QED
    BY <1>2, <2>1, <2>2, <2>3, <2>4, DialledLink DEF SortLine, w
<1>4. Clean
  BY <1>1, <1>2, CleanNoLink DEF Clean, CleanNet, Alive
<1>5. \A s \in Server : ChunksOK(sv[s]) /\ ~sv[s].stored
  BY <1>1, <1>2 DEF ChunksOK
<1> QED
  BY <1>3, <1>4, <1>5 DEF SortInv, SortOK

LEMMA NextSortInv == IInv /\ SortInv /\ [Next]_vars => SortInv'
<1> SUFFICES ASSUME IInv, SortInv, [Next]_vars
             PROVE  SortInv'
  OBVIOUS
<1>1. ASSUME NEW c \in Client, StartEvent(c)
      PROVE  SortInv'
  BY <1>1, StartMove
<1>2. ASSUME NEW c \in Client, NEW l \in ConnName, ClientReceive(c, l)
      PROVE  SortInv'
  BY <1>2, ReceiveMove
<1>3. ASSUME NEW c \in Client, NEW l \in ConnName, ClientEof(c, l) \/ ClientReset(c, l)
      PROVE  SortInv'
  BY <1>3, ClientEofMove
<1>4. ASSUME NEW c \in Client, NEW l \in ConnName, ClientPipe(c, l)
      PROVE  SortInv'
  BY <1>4, ClientPipeMove
<1>5. ASSUME NEW c \in Client, ClientCrash(c)
      PROVE  SortInv'
  BY <1>5, CrashMove
<1>6. ASSUME NEW s \in Server, NEW l \in ConnName, when_accept(s, l)
      PROVE  SortInv'
  BY <1>6, AcceptMove
<1>7. ASSUME NEW s \in Server, NEW l \in ConnName, ServerReceive(s, l)
      PROVE  SortInv'
  BY <1>7, ServerReceiveMove
<1>8. ASSUME NEW s \in Server, NEW l \in ConnName, ServerEof(s, l) \/ ServerReset(s, l)
      PROVE  SortInv'
  BY <1>8, ServerEofMove
<1>9. ASSUME NEW s \in Server, NEW l \in ConnName, ServerPipe(s, l)
      PROVE  SortInv'
  BY <1>9, ServerPipeMove
<1>10. ASSUME NEW s \in Server, NEW l \in ConnName, Accepted(s, l)
       PROVE  SortInv'
  BY <1>10, AcceptedMove
<1>11. ASSUME NEW s \in Server, ServerCrash(s)
       PROVE  SortInv'
  BY <1>11, ServerCrashMove
<1>12. CASE UNCHANGED vars
  <2>1. UNCHANGED <<model, cl, sv, net>>
    BY <1>12 DEF vars
  <2>2. ASSUME NEW c \in Client
        PROVE  (SortOK(c, ClientWork(c), sv) <=> SortOK(c, ClientWork(c), sv)')
    BY <2>1 DEF SortOK, SortLine, ClientWork
  <2>3. (NobodyCrashed <=> NobodyCrashed') /\ (Clean <=> Clean')
    BY <2>1 DEF NobodyCrashed, Clean, Alive, CleanNet
  <2>4. \A s \in Server : ChunksOK(sv[s]) <=> ChunksOK(sv[s])'
    BY <2>1 DEF ChunksOK
  <2> QED
    BY <2>1, <2>2, <2>3, <2>4 DEF SortInv
<1>13. ASSUME NEW c \in Client, ClientLoop(c) \/ ClientCrash(c)
       PROVE  SortInv'
  BY <1>1, <1>2, <1>3, <1>4, <1>5, <1>13 DEF ClientLoop
<1>14. ASSUME NEW s \in Server,
              ServerLoop(s) \/ (\E l \in ConnName : Accepted(s, l)) \/ ServerCrash(s)
       PROVE  SortInv'
  BY <1>6, <1>7, <1>8, <1>9, <1>10, <1>11, <1>14 DEF ServerLoop
<1> QED
  BY <1>12, <1>13, <1>14 DEF Next

\* In a sort in which nobody crashes no process ends: no event reaches an upper layer
\* that throws on it, no connection is refused and no id is taken twice.  And whoever
\* crashes, a server that has stored its result has the chunk of every client.
THEOREM SortClean == Spec => []SortRunsClean
<1>1. Init => IInv /\ SortInv
  BY InitIInv, InitSortInv
<1>2. IInv /\ SortInv /\ [Next]_vars => (IInv /\ SortInv)'
  BY NextIInv, NextSortInv
<1>3. IInv /\ SortInv => SortRunsClean
  BY DEF SortInv, Clean, Alive, ChunksOK, SortRunsClean
<1> QED
  BY <1>1, <1>2, <1>3, PTL DEF Spec

-----------------------------------------------------------------------------
(***************************************************************************)
(* The bound that makes a connection a pair of FIFO streams.               *)
(***************************************************************************)

\* An id has at most QueueBound requests, and its open connection that many messages.
ShortLines ==
    \A c \in Client : \A i \in Id :
        /\ Len(cl[c].asked[i]) <= QueueBound
        /\ LET k == net[First(c, i)]
           IN  k.end["client"] = "open" =>
                  Len(k.to["client"]) + Len(k.to["server"]) <= QueueBound

ChatShort == model # "sort" => \A c \in Client : Short(cl[c])

LEMMA ModelKept == [Next]_vars => model' = model
<1> SUFFICES ASSUME [Next]_vars
             PROVE  model' = model
  OBVIOUS
<1>1. ASSUME NEW c \in Client, NEW w, ClientReturns(c, w)
      PROVE  model' = model
  BY <1>1 DEF ClientReturns
<1>2. ASSUME NEW s \in Server, NEW w, ServerReturns(s, w)
      PROVE  model' = model
  BY <1>2 DEF ServerReturns
<1>3. ASSUME NEW c \in Client, ClientLoop(c)
      PROVE  \E w : ClientReturns(c, w)
  <2>1. ASSUME StartEvent(c)
        PROVE  \E w : ClientReturns(c, w)
    BY <2>1 DEF StartEvent
  <2>2. ASSUME NEW l \in ConnName, ClientReceive(c, l)
        PROVE  \E w : ClientReturns(c, w)
    BY <2>2 DEF ClientReceive
  <2>3. ASSUME NEW l \in ConnName, ClientEof(c, l) \/ ClientPipe(c, l)
        PROVE  \E w : ClientReturns(c, w)
    BY <2>3 DEF ClientEof, ClientPipe, ClientReports
  <2>4. ASSUME NEW l \in ConnName, ClientReset(c, l)
        PROVE  \E w : ClientReturns(c, w)
    BY <2>4 DEF ClientReset
  <2> QED
    BY <1>3, <2>1, <2>2, <2>3, <2>4 DEF ClientLoop
<1>4. ASSUME NEW s \in Server, ServerLoop(s)
      PROVE  \E w : ServerReturns(s, w)
  BY <1>4, ZenonT(30) DEF ServerLoop, when_accept, ServerReceive, ServerEof, ServerReset, ServerPipe
<1>5. ASSUME NEW s \in Server, NEW l \in ConnName, Accepted(s, l)
      PROVE  model' = model
  BY <1>5 DEF Accepted
<1>6. ASSUME NEW s \in Server, ServerCrash(s)
      PROVE  model' = model
  BY <1>6 DEF ServerCrash
<1>7. ASSUME NEW c \in Client, ClientCrash(c)
      PROVE  model' = model
  BY <1>7 DEF ClientCrash
<1> QED
  BY <1>1, <1>2, <1>3, <1>4, <1>5, <1>6, <1>7 DEF Next, vars

LEMMA NextChatShort == IInv /\ ChatShort /\ [Next]_vars => ChatShort'
<1> SUFFICES ASSUME IInv, ChatShort, [Next]_vars, model # "sort", NEW c \in Client
             PROVE  Short(cl[c])'
  BY ModelKept DEF ChatShort
<1>1. Short(cl[c])
  BY DEF ChatShort
<1>2. CASE UNCHANGED cl
  BY <1>1, <1>2 DEF Short
<1>3. ASSUME NEW d \in Client, ClientSees(d)
      PROVE  Short(cl[c])'
  <2>1. CASE c = d
    <3>1. Short(cl'[c])
      BY <1>1, <1>3, <2>1 DEF ClientSees
    <3> QED
      BY <3>1 DEF Short
  <2>2. CASE c # d
    <3>1. cl'[c] = cl[c]
      BY <1>3, <2>2 DEF ClientSees
    <3> QED
      BY <1>1, <3>1 DEF Short
  <2> QED
    BY <2>1, <2>2
<1> QED
  BY <1>2, <1>3, NextIInv

LEMMA StreamShort ==
    ASSUME NEW i \in Id, NEW asks \in Seq(Msg), NEW answers \in Seq(Msg),
           NEW down \in Seq(Msg), NEW up \in Seq(Msg),
           Stream(i, asks, answers, down, up), Len(asks) <= QueueBound
    PROVE  Len(down) + Len(up) <= QueueBound
<1>1. Len(answers) + Len(down) + Len(up) = Len(asks)
  BY DEF Stream
<1> QED
  BY <1>1 DEF QueueBound

\* No client ever makes more than QueueBound requests on one id, and no more messages than
\* that are on its connection, in both directions together, whichever upper layers it has:
\* chat clients keep to the bound, and a sort client asks each server once.  So no queue
\* of a connection gets to the three messages of which connection.cpp:149 writes the wrong
\* one, and the FIFO streams that the other theorems stand on are what it does.
THEOREM Shorts == Spec => []ShortLines
<1>1. Init => IInv /\ SortInv /\ ChatShort
  <2> SUFFICES ASSUME Init
               PROVE  ChatShort
    BY InitIInv, InitSortInv
  <2>1. \A c \in Client : cl[c].asked = [i \in Id |-> <<>>]
    BY DEF Init, NewClient
  <2>2. Len(<<>>) <= QueueBound
    BY DEF QueueBound
  <2> QED
    BY <2>1, <2>2 DEF ChatShort, Short
<1>2. IInv /\ SortInv /\ ChatShort /\ [Next]_vars => (IInv /\ SortInv /\ ChatShort)'
  BY NextIInv, NextSortInv, NextChatShort
<1>3. IInv /\ SortInv /\ ChatShort => ShortLines
  <2> SUFFICES ASSUME IInv, SortInv, ChatShort, NEW c \in Client, NEW i \in Id
               PROVE  /\ Len(cl[c].asked[i]) <= QueueBound
                      /\ LET k == net[First(c, i)]
                         IN  k.end["client"] = "open" =>
                                Len(k.to["client"]) + Len(k.to["server"]) <= QueueBound
    BY DEF ShortLines
  <2> DEFINE w == ClientWork(c)
             k == net[First(c, i)]
  <2>1. /\ w.asked = cl[c].asked /\ w.answered = cl[c].answered /\ w.net = net
    BY DEF ClientWork
  <2>2. Line(c, w, i, Alive(c))
    BY DEF IInv, Inv, ClientOK
  <2> HIDE DEF w
  <2>4. cl[c].asked[i] \in Seq(Msg) /\ cl[c].answered[i] \in Seq(Msg)
    BY DEF IInv, Types, ClientType
  <2>5. Len(cl[c].asked[i]) <= QueueBound
    <3>1. CASE model = "sort"
      <4>1. SortLine(c, w, i, sv[address_book[i]].numbers)
        BY <3>1 DEF SortInv, SortOK, w
      <4>2. Len(cl[c].asked[i]) <= 1
        BY <2>1, <4>1 DEF SortLine
      <4> QED
        BY <2>4, <4>2 DEF QueueBound
    <3>2. CASE model # "sort"
      BY <3>2 DEF ChatShort, Short
    <3> QED
      BY <3>1, <3>2
  <2>6. ASSUME k.end["client"] = "open"
        PROVE  Len(k.to["client"]) + Len(k.to["server"]) <= QueueBound
    <3>1. /\ k.to["client"] \in Seq(Msg) /\ k.to["server"] \in Seq(Msg)
      <4>1. First(c, i) \in ConnName
        BY Names
      <4> QED
        BY <4>1 DEF IInv, Types, Link, Side
    <3>2. Stream(i, cl[c].asked[i], cl[c].answered[i], k.to["client"], k.to["server"])
      BY <2>1, <2>2, <2>6 DEF Line
    <3> QED
      BY <2>4, <2>5, <3>1, <3>2, StreamShort
  <2> QED
    BY <2>5, <2>6
<1> QED
  BY <1>1, <1>2, <1>3, PTL DEF Spec

=============================================================================
