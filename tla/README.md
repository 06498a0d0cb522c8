# Verification of thallium

thallium starts a computation on several hosts: a coordinator process listens on
a port, worker processes are started with cookies, connect, are registered, and
learn of each other.  Underneath lie an asynchronous networking layer on
boost.asio, a logger with a thread of its own, three thread-safe queues, a
serializer and a registry of remote functions.  This directory holds TLA+
specifications of that code, configurations that check them with TLC, and
proofs that tlapm checks.  Paths below are relative to the repository; a number
after a path is a line.

## The system

### Components, their state and their operations

| component | source | state | operations |
|---|---|---|---|
| Connection | `src/network/connection.{hpp,cpp}` | socket, header and receive buffer, queue of outgoing messages; asio: the outstanding read, write and wait | read a header, read a body, send a message or a heartbeat, handle each completion, close |
| Heartbeat | `src/network/heartbeat.{hpp,cpp}` | one timer: the server's runs out without heartbeats, the client's sends them | start, restart, stop, expire |
| IO loop | `src/network/io_loop.cpp` | the queue of completions, the signal set | run one handler after the other |
| Connection manager | `src/network/connection.hpp:132-185` | connections by id, the next id | new connection, send, disconnect, pass a callback on |
| AsyncServer | `src/network/server.cpp` | acceptor | accept again and again, stop |
| AsyncClient, MultiClient | `src/network/client.cpp` | one connection; connections by id and which are established | resolve, connect, send, disconnect |
| Behaviour of models | `src/network/behavior.{hpp,cpp}` | the handler for the next message (a state machine) | start, receive, event, move to the next state |
| Runtime protocol | `src/runtime_protocol.{hpp,cpp}` | none | messages to buffers and back, cookies |
| Coordinator | `src/coordinator.cpp:75-130` | cookies left, registered workers, their addresses, state machine | register a worker, broadcast, stop |
| Worker daemon | `src/coordinator.cpp:132-162` | state machine, addresses received | first message, answer, addresses, disconnect |
| Host file | `src/coordinator.cpp:18-73` | none | parse entries |
| Queues | `include/concurrent.hpp` | `BasicLockQueue`: a queue, a mutex, a condition variable; `SenderSideLockQueue`: two queues of which one is shared; `LockFreeChannel`: a ring, two positions | send, receive, try_receive, receive_for, try_send |
| Logging | `src/logging.{hpp,cpp}` | record queue, level filter, `done`, daemon thread | log, write, write what is left, stop, join |
| Executions | `src/thallium.cpp`, `include/thallium.hpp` | ids, table of executions, stack of finish monitors | submit, wait, start and end a finish |
| Function objects | `src/function_object.cpp`, `include/function_object.hpp` | ids by mangled name, table of functions | draw an id, register, look up, call with serialized arguments |
| Serialization | `src/serialize.cpp`, `include/serialize.hpp` | a buffer and a cursor | save, load |
| Buffers and headers | `src/network/protocol.{hpp,cpp}` | byte containers | build and take apart a message |
| Helpers | `src/common.cpp`, `include/common.hpp`, `src/network/network_utils.cpp` | none | format, split, trim, check host names and ports |

### How they interact

The io loop of a process is one thread.  asio completes an operation and queues
its handler; a handler of a Connection may call up into the manager or client,
from there into the state machine of the coordinator or worker, which may send
on this or any other connection, or close it, before the handler goes on.  The
two processes of a connection share only the streams of TCP.  Loggers run in
any thread and share a queue with the daemon, which the destructor of the
manager stops and joins.

A server, and a client of many servers, hold their connections in a connection
manager by id, and callbacks come up with the id they were bound to.  A program
over the runtime is one thread: a submission draws the id of the function,
serializes the arguments, records an execution and, unless it blocks, adds it to
the innermost finish, whose end waits for it.  In this commit no execution is ever
run: the path from a coordinator's connections to `get_function_object` is not
written yet, so the network and the executions do not meet.

### What is hard about it

* A handler is queued when its operation completes and runs later: the
  connection may be closed by then, by the other handler or by the upper layer.
* The upper layer is called in the middle of a handler and calls back.
* One write at a time has to be kept going from a queue, from any handler.
* Three handlers can find one connection broken; timers expire while what would
  have restarted or stopped them is waiting in the queue.
* Registration, rejection, broadcast and stop interleave with workers that
  connect, die or come twice; answers are delayed; the acceptor closes with a
  handler queued.
* Notifications come after the unlock, condition variables wake up on their
  own, time runs out meanwhile; the lock-free ring depends on memory orders.
* The daemon of the logger is stopped with records in two queues.
* Connections are used, closed by the peer and used again by their ids, which a
  manager never forgets; handlers of many connections call into one upper layer.
* Exceptions unwind finishes whose destructors wait, and may raise themselves.
* Buffers grow and are read back into objects that have values; messages are
  taken apart before their type is known.

### What makes each component correct

* Connection: one reader, one writer whose buffers live long enough and who is
  never forgotten; frames are not interleaved; messages arrive once and in
  order; nothing is delivered on a closed connection; each kind of failure is
  reported once; a vanished peer is noticed; a closed connection lets go of the loop.
* Coordinator and workers: a cookie lets one process in, once; the two state
  machines stay in step; all that finish know the same complete set of peers;
  the rendezvous takes place; the server lets go of its connections.
* Queues: a FIFO queue; no lost wakeup; blocked calls return.
* Logging: nothing lost, repeated or reordered; the destructor returns when
  what was logged before it is written.
* Connection manager: an id names the connection its callbacks are bound to; no
  call reaches a connection that is not there; the answers on an id are those to the
  requests on it; every request is answered or its sender has a reason.
* Executions: a finish ends when what was submitted in it was waited for, however it
  ends; no execution is lost or waited for in two places.
* Function objects: an execution's id leads to a function of its type, with the
  arguments it was submitted with.
* Serialization and helpers: what is read back is what was written; the functions
  on strings do what they promise for every bounded input.

## The modules

| module | models | is |
|---|---|---|
| `Connection` | the two ends of one connection, their io loops, the kernel and the network | detailed |
| `ConnectionManager` | `RealConnectionManager` over connections reduced to two streams | operators |
| `MultiClient` | processes with a `MultiClient` or an `AsyncServer` and their upper layers, EXTENDS `ConnectionManager` | detailed |
| `Exchange` | requests and their answers on numbered lines | abstract, implemented by `MultiClient` |
| `Coordinator` | coordinator, acceptor, workers and the client end of their connections | detailed |
| `Rendezvous` | a group whose members join and then learn of each other | abstract, implemented by `Coordinator` |
| `Fifo` | a queue with receivers that may be turned away | abstract, implemented by the three queues |
| `SenderSideLockQueue`, `BasicLockQueue`, `LockFreeChannel` | the queues of `concurrent.hpp` | detailed |
| `Channel`, `Channels` | what the channels carry; a `BasicLockQueue` or a `LockFreeChannel`, EXTENDS both | composition |
| `Logging` | logging threads, daemon and destructor, over the actions of `SenderSideLockQueue` (EXTENDS) | detailed |
| `Execution` | executions, the stack of finishes, blocks and exceptions of one thread | detailed |
| `Finish` | nested finishes that wait for their tasks | abstract, implemented by `Execution` |
| `Text` | functions on strings, host files, addresses, cookies | operators |
| `Archive` | archives and messages: values to bytes and back | operators |
| `FunctionTable` | ids of functions, their table, calls with serialized arguments | operators and actions |
| `Runtime` | a thread that calls these, EXTENDS `Text`, `FunctionTable`, `Execution` | composition |
| `Program` | the same with the archives, and the message functions, EXTENDS `Runtime`, `Archive` | composition |
| `MC...` | constants for TLC | instances |
| `ConnectionProofs`, `CoordinatorProofs`, `MultiClientProofs`, `BasicLockQueueProofs`, `LockFreeChannelProofs`, `LoggingProofs` (with those of `SenderSideLockQueue`), `RuntimeProofs` (with those of `Execution`), `TextProofs` | | proofs |

A definition with a suffix after the name of a function (`push_unguarded` beside
`push`) is a slip that the code does not make.  No action uses it: it replaces
the original when a property is tested for being able to fail, and
`PROJECT.json` lists which property each of them breaks.

### Connection

An endpoint is a record; each member function is an operator from records to
records with the name of the function, so that a handler reads as the
composition of the calls it makes, the callback into the upper layer included.
An action pops the oldest completion and runs its handler to the end.

asio is modelled from the guarantees the code relies on: completions are queued
in FIFO order; cancelling an outstanding operation queues it as aborted,
cancelling one that has completed does nothing; an `async_write` is a loop of
`async_write_some` whose continuation goes through the queue; closing the
socket aborts the read first and then the write.  `batch` counts the
completions that precede the next turn of the reactor: expired timers are found
only then, and are queued last.

A message is a header segment and, unless it is a heartbeat, a body segment.
A number names it; that of its bytes matters in one respect only, whether the
body exceeds the receive buffer (`BigMsgs`).  The kernel holds `WireCap`
segments in one direction and takes a write in part, wholly, not yet, or fails
it.  The upper layer sends at most `MaxSend` messages and pauses while
`QueueBound` are queued; `TimerBound` limits the heartbeats queued.  Timers
have no length: an outstanding wait may expire at any turn of the reactor.

The upper layer's callback is one of the reactions that the coordinator, the
worker and the echo models have: nothing, one message or two, a disconnect, a
message and a disconnect.  It also sends and disconnects between handlers of
this connection, in those of another.

### Coordinator and Rendezvous

A connection is named by the worker at its other end, and is a pair of FIFO
streams.  That is what `Connection` shows of a connection (`InOrder`,
`Framed`) on which no end has more than two messages queued; here the coordinator
sends two messages on a connection and the worker one.  Neither uses
heartbeats.

`conn[w]` goes from the backlog of the acceptor over an accept handler that is
queued to an open connection; `stop` closes the acceptor, which resets the
backlog but cannot take back a queued handler.  The address of a worker is
represented by the worker, and the WorkerInfo that nobody filled in by
`Default`.  `from_buffer` keeps what a message serializes.  Processes of either
kind may crash (`MayCrash`); streams then deliver what is in them, or are reset.

`Rendezvous` has two variables: who joined, and whom each member has learned
of.  The mapping takes the registered workers and the domains of the maps the
workers received.

### ConnectionManager, MultiClient and Exchange

A process is one thread, so a handler is one action; it is written as a chain of
operators on a record of what the handler works on, each named for the member
function it models: `send` calls `do_connect` when the id is not established, which
calls `try_connect` and `new_connection`, and so on.  An exception (`Throw`) skips
the rest of the chain and ends the process when it leaves the io loop, as it does
in the code.

A connection is two FIFO streams, its two ends, and whether a write on it has
failed.  As in `Coordinator` that is what `Connection` shows of one on which no end
queues more than two messages, and no longer true with three (`MCConnectionOrder`).
So an upper layer makes at most `QueueBound`, two, requests on an id: a chat client by
the guard of `MayCall`, whatever `MaxSend` is, a sort client because it asks each server
once.  A connection then has at most two messages in either direction in all its life,
whichever end is slow.  `Shorts` proves the bound.  A write to a socket that was closed fails; so
does one that comes after a write to a peer that has closed.  The handler of a write
that failed closes the connection and passes `pipe` up.  An end of file is read
after everything before it; a peer that closed with something unread may make a
reset of it, a read error, of which `Connection::when_header_received` tells
nobody (`src/network/connection.cpp:56`).

A client connects to an id once and, after a disconnect, tries once more: the
manager still holds the first connection and throws "The conn id exist!", after
which there is no third attempt because the process has ended.  `ConnName` has the
two attempts.

The upper layers are the sort of `src/test/unit_test/network_test.cpp`, whose
classes throw on any event they do not expect, and "chat": a client that does up to
three calls in a handler, in any order, of the sends and disconnects it may do (it
uses an id for a disconnect only after a send, as the layers in the repository do:
`disconnect` of an id that nobody sent to would use a null pointer,
`src/network/client.cpp:148`), and a server that answers and may
then disconnect.  The first layer makes the strict demands, the second makes the
many behaviours.

`Exchange` has the requests and the answers of each client by id.  An answer
is the one to the next request of that id; a client may ask whenever it likes.  The
mapping takes what the upper layers sent and received.

### Queues

A step is what a thread does while it holds the mutex, or what it does to data
no other thread uses; `send` is therefore two steps, the push and the
notification after the unlock.  A wait is asleep until it is notified, wakes up
on its own or, in `receive_for`, expires; whoever wakes looks again.
`notify_one` picks any sleeping thread.

For `SenderSideLockQueue` the abstract queue is `out_queue \o in_queue`.  For
`LockFreeChannel` each access to a shared variable is a step, and the abstract
queue is the ring from the tail to the head.  With `Reorders` the load of the
cell may overtake the relaxed load of the head before it, which the C++ memory
model and machines other than x86 allow; without, loads keep their order.

The repository uses neither `BasicLockQueue` nor `LockFreeChannel` outside its tests.
`Channels` puts one or the other into a behaviour, as `concurrent_test.cpp` runs one
test over each; the variables of the other stay as they were.

### Logging

`Logging` is also where `SenderSideLockQueue` is run: its senders are the logging
threads and the owner, its receiver is the daemon, which uses `receive` and
`try_receive`.  No code of the repository calls `receive_for`; its actions are part of
`QueueNext`, about which the first part of `LoggingProofs` is, and of no run.

The queue's actions with those of the daemon (`loop_body`, `flush_one`,
`flush_all`), of the threads (`_log` up to the push, then the notification) and
of the destructor (`done`, the marker, the join).  A record is its level, the
empty string `Marker`.  Callers must not log through a manager that is being
destroyed once the daemon has returned; the code does not check it and the
model assumes it (`join` waits for calls under way).

### Execution and Finish

The stack of `FinishMonitor`s is a sequence of sequences of ids.  The blocks of the
program are two sequences: `sugars` has the tasks submitted in each open block with
a `FinishSugar`, and `tries` the position of each block that catches.  An exception
is a flag; while it is up the innermost block ends at each step, which runs
`~FinishSugar` as the code does, until one catches or `main` gets it.  A
destructor that raises, because calls of `endFinish` have emptied the stack, ends
the process by `std::terminate`.  The exceptions of the program are
`std::exception`s, the only ones that `TI_MAIN` catches
(`include/thallium.hpp:220`).  The program may also call `newFinish` and
`endFinish` itself (`raw`), at most `MaxRaw` times.

`ExecutionHub::wait` is a stub in this commit: it returns an empty buffer at once
and leaves a null pointer in the table for an id it does not know.  The models have
it so; a monitor "has waited" for the ids it has called `wait` for.

`Finish` has open blocks with their tasks and the set of tasks that were waited for;
a task is waited for by the block it was spawned in, once.  The refinement holds
until the program's first own call of `newFinish` or `endFinish`.

### Text, Archive and FunctionTable

The pure functions are operators.  A string is a sequence of characters, and an
exception the value `Raised` or an empty set of results.  `Archive` describes the
types that the templates of `serialize.hpp` accept (`Num`, `List`, `Array`, `Map`,
`Struct`) and follows the overloads: what is copied in one piece takes one call of a
cursor, the rest goes element by element.  Numbers are little-endian in `Byte`
values a byte; the runs take 16, so that lengths need both bytes of a `size_t`.
`StringSaveArchive` drops what is written past its capacity, so that a growth which
is too small would lose bytes.  Loading takes the object's old value, because
`std::vector::resize` and `map[k] = v` keep what was there.

`FunctionTable` keys ids by the mangled name of the type, as
`typeid(t).name()` does: functions of one type have one id, and the second cannot be
registered, so that a call for it runs the first.  The bytes of an argument are its constants `saved` and `loaded`, of which
nothing but their types is known: `Program` gives them the archives of `Archive`.

### Runtime and Program

`Runtime` is one thread that makes the calls; `uses` keeps apart what does not
interact, so that the instances stay small.  With "strings" it makes one call of a
pure function, whose result the properties compare to a definition of their own.
With "finishes" it has every step of `Execution`; with "functions" it
registers, looks up and calls functions and submits executions of them, whose ids
come from `FunctionTable`: the two modules meet in `RemoteSubmit`.  `Program` adds the
archives and, to what "strings" may call, the functions on messages; it is apart from
`Runtime` because `Archive` needs RECURSIVE operators, of which a module with proofs
must be free.

## The runs

`MCConnectionPlain`, `MCConnectionHeartbeat` and `MCMultiClient` take about two
minutes each, the others under one.

| run | instance | shows |
|---|---|---|
| `MCConnectionPlain` | no heartbeats; 2 messages one way and 1 the other, 2 queued; wire of 2; fair | `OneReader`, `Framed`, `InOrder`, `QuietAfterClose`, `Delivered`, `CloseSpreads` |
| `MCConnectionHeartbeat` | heartbeats on both ends, 1 message of the client; 1 message and 2 heartbeats queued; wire of 1; the network may go down; fair | `WriteHeld`, `WriterAlive`, `ClosedIsQuiet`, `EventsOnce`, `LostPeerDetected` |
| `MCCoordinator` | 2 places, 3 processes of which two share a cookie, crashes, fair | `CookiesOnce`, `NoUnexpectedMessage`, `RendezvousSpec`, `Meeting`, `StopLetsGo`, `WorkersLetGo` |
| `MCChannels` | a `BasicLockQueue` with 2 senders, 2 receivers, 2 messages, 3 queued, or a `LockFreeChannel` of 3 cells with 2 messages and loads in order, fair | `NoLostWakeup`, `FifoSpec`, `NobodySleepsOn` of the first, `RingFifoSpec`, `CallsReturn` of the second |
| `MCLogging` | 2 threads, 3 records at levels around the minimum, fair | `NoLostWakeup`, `NothingLost`, `StopDrains`, `FifoSpec`, `StopReturns`, `Written` |
| `MCMultiClient` | 2 clients, 2 servers, the sort or 2 and 1 chat requests, one of each may die, fair | `BooksAgree`, `NoNullPointer`, `SortRunsClean`, `ExchangeSpec`, `Answered`, `SortDone` |
| `MCProgram` | one call on bounded strings, files, messages and values; or 3 executions, 3 blocks, 2 own calls; or 4 functions of 3 types | `ExecutionsKept`, `FinishesKept`, `FinishSpec`, `CallsRight`, `StringsRight`, `BytesRight` |

Runs that are expected to find a violation, and the disagreement each shows:

| run | property | the code |
|---|---|---|
| `MCConnectionOrder` | `InOrder` | with three messages queued, `do_write` writes the back of the queue and the handler pops the front (`src/network/connection.cpp:149`) |
| `MCConnectionTimer` | `HeartbeatStops` | an expired heartbeat restarts its timer on a closed connection (`src/network/connection.cpp:325`) |
| `MCCoordinatorStraggler` | `StopsClean` | a process whose first message comes after the last registration is never disconnected (`src/coordinator.cpp:130`) |
| `MCLockFreeChannelWeak` | `RingFifoSpec` | the head is loaded relaxed (`include/concurrent.hpp:119`) |
| `MCProgramStart` | `StartChecked` | `thallium_init` parses the port from the variable of the host (`src/thallium.cpp:130`) and reports a failure with the name and value of the other |

`StopsClean` (after `stop()` every connection of the server closes) is what a
straggler violates; `StopLetsGo` is the part of it that does hold, for the workers
that were registered.

What the runs of `MultiClient`, `Runtime` and `Program` say where a property is not plain from its
name:

* `Answered`: in the end every request is answered unless its client disconnects,
  dies, or its connection is lost, of which an event tells it or, for a read error,
  nothing does.
  The last case is in `Excused` as `reset`; without it the property fails.  Requests
  sent on a connection that the peer has closed are lost (`src/network/client.cpp:143`)
  and excused as well: the property says that nothing else goes unanswered.
* `EventsOnce`: no kind of event is reported twice.  Two kinds may be, as a close and then
  a timeout.
* `SortRunsClean`, `SortDone`: as long as no process dies, the sort never meets an
  event, a refused connection or a used id, however it is scheduled, and ends with
  every connection closed; whoever dies, no server stores a result without the chunk
  of each client.
* `BooksAgree`: the ids of a server have no gap, callbacks come up with the id their
  connection is held under, and a client never loses an open connection.  It
  includes `TypeOK` of its module.
* `ExecutionsKept`: an execution is in one open monitor or was waited for
  (`EachInOnePlace`), and the hub never loses one to a wait for an id that is yet to
  be given (`NoneMissing`).
* `FinishesKept`: with `FinishSugar` alone the stack follows the blocks
  (`SugarBalanced`) and everything submitted was waited for when `main` is left, by an
  exception too (`AllAwaited`).
* `CallsRight`: an execution of a type that is registered, before or after the
  submission and whatever was looked up meanwhile, finds a function of its type and
  its own arguments (`SubmittedCallable`); and a function that runs with the buffers of
  executions, whole, cut short or doubled, is of the type that was submitted and has the
  arguments that were, all of them (`RunsAsSubmitted`).  It is a function of the type and
  not always the one submitted: functions of one type share an id.  It includes `TypeOK`
  of `Runtime`.
* `StringsRight`: what split and join, `format`, the host file and the cookies return,
  each by a definition of its own, which counts and compares places where the code
  scans.  `thallium_init` is not part of it: what it should do is `StartChecked`,
  which fails.
* `BytesRight`: a message is received as what was sent and never as one of another type
  (`MessageRight`); `real_size` is what is written, all of it is read again, and the
  value arrives whatever was in the object before, unless that has a map, which is
  merged (`CastRight`).

The type invariants of the modules with proofs, and `PeersAgree` of `Coordinator`, are
theorems and in no run: `RendezvousSpec` fails wherever `PeersAgree` would.

Five more disagreements were met and have no run.  A worker passes its
`WorkerInfo` to the first message "to send data server info to master"
(`src/coordinator.cpp:138`), which serializes the cookie only
(`src/runtime_protocol.hpp:77`): the coordinator stores and broadcasts the
address of a default constructed one, with a port that nobody set (`Default` in
`Coordinator`).  `addFunc` raises "The function: {} has been registered!"
(`src/function_object.cpp:25`) for functions that never were: for one whose id was
looked up before, which left a null pointer under it, and for a second function of the
type of the first; a submission of the second then runs the first (`registrable` and
`Lookup` show both).  A comment says
that `newExecution` "can be called from different thread"
(`src/thallium.cpp:24`), where neither the next id nor the table is protected.
`Connection` resizes the
receive buffer to the capacity it already has (`src/network/connection.cpp:100`),
so of a body that exceeds it only a part is read, and the connection closes:
`BigMsgs` names such messages, and every run takes `BigMsgs` empty.
And `src/network/protocol.hpp:35` announces an event for a close of one's own
that `src/network/connection.cpp:197` never passes on.

### Why the bounds are enough

* Two messages one way are the fewest that queue behind each other, and three
  the fewest with which back and front of the queue differ after a pop:
  `MCConnectionPlain` holds because it stays below, `MCConnectionOrder` fails
  because it does not.  One message the other way makes both ends read and
  write at once.  A wire of one or two segments splits every message at every
  place and fills up.
* Two places and three processes are the fewest with which a registration is
  followed by another, a rejection comes before, between and after, and a broadcast
  meets a worker that has not read its answer.
* Two senders and two receivers suffice for a notification that meets the
  wrong thread; three queued messages for two that are swapped and one that
  follows.
* With heartbeats (`MCConnectionHeartbeat`) one message and two heartbeats make
  every pair of what an end writes queue behind each other, and a wire of one
  segment blocks the writer after every step.
* Three cells hold two messages and make the positions wrap around.
* Two clients and two servers make every order of connecting, chunks from the second
  client before the first, and answers on two connections of one client.  With two
  requests a client asks again on an id it has disconnected, or on one its server has
  closed.
* Three executions and three blocks put a finish between two others and a submission
  before, in and after it; two own calls unbalance the stack both ways.
* Strings of three characters over a separator, a blank, a NUL, a letter and a digit,
  with separators of up to three; formats of four pieces with three arguments; host files
  of two lines, every line of three characters and those that need more; values of which
  one is longer than the initial and the doubled capacity of the save buffer.

The proofs, where there are any, do not depend on these numbers.

### Fairness

Weak fairness of the io loop of each end, of the reactor's turns and of the
kernel's progress: the loop is a thread that runs whatever is queued, TCP goes
on while both hosts live.  An expiry is fair apart from the other turns,
because a wait that is not restarted ends.  The upper layers, crashes and cuts
of the network owe nothing.  For the queues, every thread that can run runs;
the expiry of `receive_for` is strongly fair, because its limit is a point in
time that no number of wakeups puts off.  Spurious wakeups are never relied on.
In `MultiClient` the kernel completes accepts, and the io loops taken together do not
rest for ever while one has a handler queued: `[]<>~Ready \/ []<><<TRUE>>_vars` is weak
fairness of the loops with ENABLED spelled out.  It is weaker than a loop of each
process, and enough because what the processes can do is bounded; a crash happens
once.

`CHECK_DEADLOCK FALSE` is set where the system may stop: when all workers are
done or refused, when the logger is destroyed, when clients have nothing more to ask,
and when a program has made its call or ended.

## The proofs

tlapm proves the following for all values of the constants that satisfy the
named assumptions (`ConnectionAssumption`, `CoordinatorAssumption`,
`QueueAssumption`, `BasicAssumption`, `ChannelAssumption`, `LoggingAssumption`,
`ExecutionAssumption`, `MultiClientAssumption`, `FunctionAssumption`,
`RuntimeAssumption`, `TextAssumption`, `TokenAssumption`: types, finite sets of cookies,
threads and servers, a ring of two cells or more, and for a sort what its test sets up: as
many clients as servers, and an id for each of them; that functions with one mangled name
have the same argument types, that `loaded` returns what was `saved`, bytes are below 256, and format strings are made of doubled
braces, positions and other characters).

* `ConnectionProofs`: `TypeOK`, `OneReader`, `WriteHeld`, `WriterAlive`,
  `ClosedIsQuiet`, `EventsOnce`, `Framed` are invariants and `QuietAfterClose` holds of
  every step.  The invariant `IInv` says of each endpoint how its socket, its
  outstanding operations, the queued completions and the timer fit together
  (`Core`), and that an open connection reads (`Reading`) and does not forget
  its writer (`Writing`).  None of the properties is inductive alone: whether a
  second read can start depends on which completions are queued; whether a pop
  finds a message, on which of them are writes; whether an event can repeat, on
  whether the socket is closed and its operations aborted.  `Core` holds even in
  the middle of a handler, so it is proved once for each operation of
  asio and each member function; `Reading` and `Writing` hold between
  handlers only and are proved for whole handlers.
  `Framed` relates the two ends.  `StreamInv` adds to `IInv` that some x is both what one
  end awaits (`Awaits`: 0 for a header, else the number of the message whose body is due)
  and where the stream of the other begins (`Carries`): each segment on the wire fits what
  the one before it announced (`Chain`), and the write operation, idle or stopped after n
  segments, goes on where the last of them ends (`Offers`).  After a write error the rest
  never comes, so nothing is asked of a writer whose failed write is not handled yet.  Each
  handler changes one end and keeps x (`Keeps`); only a read moves it, past the segment
  that it takes (`ReadSegmentStream`).
  `InOrder` is false of the code in general (`MCConnectionOrder`), and is proved for the
  configurations that `ShortQueue` names: no more than two messages queued, and a client
  without heartbeats, for any number of messages sent, any wire, heartbeat of the server,
  and failures.  `OrderInv` adds that `_write_queue` holds the messages sent last, with the
  one that is written at the front (`QueueOrder`), that the header buffer holds the number
  of the message delivered last or of the next one, as the reads and their completions tell
  (`ReadOrder`), that the messages on the wire follow one another from there
  (`Numbered`), and that the writer goes on with the next number (`Writes`).  The bound is
  used at one place: after a pop at most one message is left, so that the back that
  `do_write` takes is the front (`SentOrder`).  The client's heartbeat is
  excluded because its header is queued however many messages are there, and comes third:
  TLC then finds the second message lost with `QueueBound = 2` too.
* `CoordinatorProofs`: `TypeOK`, `CookiesOnce`, `NoUnexpectedMessage`,
  `PeersAgree`, and `Implements`: `Spec => RendezvousSpec`.  The invariant adds
  to the books of the coordinator (`Books`) what the streams can hold given who
  is registered (`FromWorker`, `ToWorker`) and what each worker has learned
  (`Told`): which message a worker reads next is decided long before it reads
  it.
* `MultiClientProofs`: `TypeOK`, `BooksAgree`, `NoNullPointer`, `SortRunsClean`,
  `Exchanges`: `Spec => ExchangeSpec`, and `Shorts`: no id has more than `QueueBound`
  requests, nor its open connection more messages, in any behaviour.  The last is what
  makes the others theorems about the code, whose connections are FIFO streams up to
  two queued messages only.  It follows from the guard of each call of a chat client
  (`Short`), carried through the three calls of a handler, from `SortInv` for a sort, and
  from `Stream` for the messages under way.  `IInv` relates, for each id of a client, its books
  to the connection (`Line`): while that is open, the requests asked are those answered,
  those whose answers are under way and those that the server has not read, in this order
  (`Stream`), so that the answer read next is that to the oldest request without one.
  A second connection under an id never survives the handler that made it
  (`new_connection` throws, and the process ends), which is why an id stands for
  one connection.  Every operation of a client keeps this in the middle of a handler
  (`CallOK`), so three calls of a chat client need no proof of their own.  `SortInv` adds
  for the sort that each id is asked once at most, that the chunk on a connection or in
  the books of a server is the one asked, so no server counts a client twice, and that
  while nobody crashes every connection is closed by the client first and with nothing
  under way (`Clean`): this is why no event or error reaches an upper layer that throws.
  It holds for any number of clients and servers; `SortRunsClean` alone is far from
  inductive.
* `BasicLockQueueProofs`: `TypeOK`, `NoLostWakeup`, and `Implements`.  The
  argument counts: every message comes with a notification, which becomes a
  receiver that looks, which takes a message or finds none left.
* `LockFreeChannelProofs`: `RingTypeOK` on any machine, and `Implements`: where loads keep
  their order (`~Reorders`), `RingSpec => RingFifoSpec` for a ring of any size.  The positions
  are compared by how many cells lie from the tail to the head, modulo the size
  (`CountIs`), which one step of either thread changes by one; the head that the
  consumer has loaded is behind the real one, and the cells between tail and head are
  those that the abstract queue holds.
* `LoggingProofs`, first about `SenderSideLockQueue` alone: `QueueTypeOK`,
  `NoLostWakeup`, and `Implements`: `QueueSpec => FifoSpec`.  The invariant adds that a
  receiver in the wait has emptied `out_queue`, without which a pop could leave it asleep.
  Then about `Logging`: `LogsThroughQueue` (`Spec => QueueSpec`: each step of a logger,
  of the daemon and of the destructor is one of the queue or leaves it alone) carries both
  over, and `LogsInOrder` states them of the composition; `TypeOK`, `StopDrains` (what was
  logged before `stop()`, and no more) and `NothingLost` are its own.  The invariant tells where
  the marker of the destructor is in each phase (`Markers`), that every record accounted
  for is in a queue, in the file or filtered (`Accounts`), and what daemon and destructor
  know of each other (`Phases`).  `NothingLost` follows with `Complete`: what is written
  followed by what is queued, the marker taken out (`kept`), has the n-th record that is
  not filtered out in place n.  A call of `_log` adds the place it is owed at the end; every
  other step leaves `kept` as it is (`NextKeptStep`), because taking the one marker out
  commutes with pushing and popping (`RecordsPushed`, `RecordsPopped`), for which
  `Markers` has to say that there is only one.
* `RuntimeProofs`, first about `ExeSpec`, every property of `Execution`:
  `ExecutionsKept`, `FinishesKept` with their parts, and `IsFinish`:
  `ExeSpec => FinishSpec`.  The invariant adds that blocks that catch nest with the
  others, that ids in use are below the next, and that the open monitors hold exactly
  what was accepted and not waited for, each id once; without the first, leaving a
  block could close the wrong finish.  Then about `Runtime`: `RunsExecutions`
  (`Spec => ExeSpec`) and, with it, the same of the composition (`ProgramKeeps`);
  `CallsArrive`: `CallsRight`.  `SubmittedCallable` is not inductive: that a function is
  found under an id depends on what earlier look-ups left there.  `FuncInv` adds that no two
  names have one id and every id is below the next, that a function in the table is under
  the id of its own name, that the entry of a function whose registration returned is no
  null pointer (a look-up leaves one only where there was nothing, and a registration over
  one raises), and that the hub has each submission with the id of its function's name and
  the bytes of its arguments, and that what has run is as it was submitted (`RanInv`): a
  buffer cut short or doubled loads as no list of arguments of the right number
  (`WholeOrNone`).  An id once given to a name stays with it, so a function
  may be submitted before it is registered.
* `TextProofs`: `StringsKept`, `StringsRight` for strings, lines, pieces and
  bytes without a bound, from what the functions return for arguments of any length:
  `SplitIsJoined`, `FormatTakes`, `EntryNames`, `FileIsRead`, `PrintedIsRead`.
  A function that scans is a recursive function over positions, and so is a fold: its
  definition chooses some function that satisfies the equation, of which nothing is known
  until there is one.  `RecursiveDefinition` shows that there is, for any recursion whose
  value at a place needs those at smaller places only; it and the inductions
  (`NatByInduction`) take sets where the library's theorems take an operator, and rest on
  the least member of a set of numbers.  Then `Splitting`, `Joining`, `Formatting`,
  `Flattening`, `Reading` give each function its equation, and the rest is induction over
  places.  `format` is shown to take one documented piece after the other (`OnePiece`), from
  the last place to the first, so that an error further on makes all of it one
  (`RaisedAfter`).  A line of a host file is cut at its colons (`SplitByOne`), what is left
  of each part is between its blanks (`Trimming`), and a number is read of the digits in
  front, after a plus at most (`PositiveNumber`).

The theorems about `Runtime` are about its `Spec`; the two calls that `Program` adds
change `call` only, to results of their own names, of which no property of `Runtime` speaks.

Only model-checked:

* `BytesRight`: the archives are RECURSIVE operators over types, which the prover cannot
  use in any module; so that `loaded` returns what was `saved`, which `RuntimeAssumption`
  states, is checked for the arguments of the runs when TLC evaluates the assumption with
  the archives, and more widely by `BytesRight`.
* All liveness: `Delivered`, `CloseSpreads`, `LostPeerDetected`, `Meeting`, `StopLetsGo`,
  `WorkersLetGo`, `NobodySleepsOn`, `CallsReturn`, `StopReturns`, `Written`, `Answered`,
  `SortDone`.

## What is not modelled

`PROJECT.json` lists every component with the reason.

* Two threads that call `newExecution` at once, which a comment allows: a data race on
  `current_id` and the table.
* The hub runs no execution in this commit, so there is nothing of a remote call
  beyond its submission; what a worker does with the addresses it receives neither.
* Name resolution (it always finds the host), signal handling, the lengths of timer
  intervals, the drawing of cookies.
* The text of log records, the choice between file and `cout`, backtraces, the
  singleton of the context, moving and copying of buffers, wide strings, and the
  vendored `span`.

## Plan

1. Done: `Connection`, `Coordinator` with `Rendezvous`, the three queues with
   `Fifo`, `Logging`, `ConnectionManager` and `MultiClient` with `Exchange`, `Text`,
   `Archive`, `FunctionTable`, `Execution` with `Finish`, `Runtime` and `Program`; every
   invariant, action property and refinement that a passing run checks is a theorem
   (`InOrder` under `ShortQueue`), `BytesRight` excepted.
2. The archives as recursive functions over a bounded depth of types, with
   `RecursiveDefinition`, so that `RuntimeAssumption` is proved of them.
3. Executions that run, when the code gets there: the path from a submission through
   a connection to a function object.
