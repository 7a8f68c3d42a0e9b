# Specifications of the DPS912 programs

TLA+ models of the programs in this repository with real concurrency: a UDP
logging library with its server (A2), a network monitor with its per-interface
client processes (A1), a system monitor that drives its children by signals
(Lab 5), and two servers with a receive thread, on a message queue (Lab 8) and
on TCP (Lab 9). The other labs are surveyed. Paths are relative to `src/`.

## The system

| part | source | state | operations | talks to |
|---|---|---|---|---|
| A2 logging library | `Assignments/A2/Logger.cpp`, `Logger.h` | globals `buf`, `level_log`, `isWorking`, `fd`, a mutex | `InitializeLog`, `SetLogLevel`, `Log`, `ExitLog`, receive thread | program threads (calls), server (UDP) |
| A2 logging server | `Assignments/A2/LogServer.cpp` | globals `buf`, `client_address`, two flags, the log file | menu, set level, dump, shutdown, SIGINT, receive thread | operator (cin), library (UDP) |
| A1 network monitor | `Assignments/A1/netMonitor.cpp` | list of connections, `isWorking` | fork, bind, accept and handshake, serve, shutdown, SIGINT | clients (local stream socket) |
| A1 interface monitor | `Assignments/A1/intfMonitor.cpp` | what it read of the interface | connect, handshake, read statistics, display, repair, quit | monitor (stream), kernel (ioctl, /sys) |
| Lab 9 chat relay | `Labs/Lab 9/server.cpp` | queue of texts, array of clients, a flag | one receive thread with a select loop, main loop, shutdown | clients (TCP), not in the repository |
| Lab 8 queue relay | `Labs/Lab 8/server.cpp` | queue of messages, a flag | receive thread, relay loop, SIGINT, shutdown | clients (System V message queue), not in the repository |
| Lab 5 system monitor | `Labs/Lab 5/*.cpp` | a flag per child, its handlers and pending signals | fork, start, stop, wait; pause, loop, handler | parent and children (signals), terminal |
| Lab 6 server, client | `Labs/Lab 6/*.cpp` | counters of the dialogue | Pid, Sleep, Quit | each other (local stream) |
| Lab 4 device driver | `Labs/Lab 4/hardwareDevice.c` | buffer, thread, registration | read, ioctl, simulation thread | user programs |
| Labs 1, 2, 3, 7 | `Labs/Lab 1,2,3,7` | none that outlives a call | /proc reader, pid menu, ioctl menu, command runner | kernel |

What is hard in them: in A2 three kinds of threads share a buffer that one mutex
does not really protect, one path leaves that mutex locked, and shutdown is a
flag; in A1 processes start in an order nobody enforces, messages have no
boundaries, either side may be gone when the other writes, and SIGINT can land
anywhere; in Labs 8 and 9 a queue's size is read without its mutex, system calls
fail when ctrl-C interrupts them, and main joins a thread that may be waiting;
in Lab 5 a signal means something else before each step of a child's start-up.
`PROJECT.json` lists these hazards line by line, with the properties
that cover them.

What makes each part correct:

* library: the mutex excludes; `levelStr` is never indexed outside; the filter
  is what the program or a command made it; a deaf library stays deaf; leaving
  is final and ends the threads; commands are taken from the socket.
* server: the file holds what was received, in order, each once; records get
  there; a shutdown ends the server.
* A1: no message is split, and no command of the server's is lost behind another
  one while the monitor works (a client's message may be: a "Link down" that
  arrives behind "Monitoring" is dropped); a repair is ordered only of a client
  that waits for it; the socket's path is there while clients are awaited, unless
  one of them gave up; start, repair and shutdown complete but for named exceptions.
* Labs 8 and 9: an empty queue is never popped; what was received goes on in
  order, each once, but for what one recv or msgrcv loses; every client is told to
  quit; the shutdown ends.
* Lab 5: a stopped monitor stops; none ends or is killed without a reason; the
  parent's wait ends.

## Modules

| module | what it is |
|---|---|
| `LogTypes` | severities, contents of a buffer, the bounded UDP queue |
| `LogFilter` | abstract: the filter severity, and the library growing deaf |
| `Logger` | the library: callers, receive threads, descriptors, sockets |
| `LogServer` | the server: main thread and receive thread |
| `LogService` | `LogServer` with arbitrary clients, and a history of what was received |
| `LogSystem` | `Logger` with `LogServer` (an instance) as its network |
| `IntfMonitor` | the A1 clients and the streams |
| `NetMonitor` | the A1 server composed with its clients |
| `RelayQueue` | the queue of Labs 8 and 9, with the size read outside the mutex |
| `SelectServer` | Lab 9: receive thread, main, clients |
| `QueueServer` | Lab 8: receive thread, main, ctrl-C, the kernel's queue, clients |
| `SysMonitor` | Lab 5: parent, children, signals |
| `LoggerProofs`, `LogServiceProofs`, `LogSystemProofs`, `NetMonitorProofs`, `SelectServerProofs`, `QueueServerProofs`, `SysMonitorProofs` | theorems and proofs about the module of that name |
| `QueueOrderProofs` | the order of Lab 8's messages, on top of `QueueServerProofs` |
| `MCLogger`, `MCLogService`, `MCLogSystem`, `MCNetMonitor`, `MCSelectServer`, `MCQueueServer`, `MCSysMonitor` | model-checking instances |

### A2

One action is one access to what threads share: a memset, a sprintf, a
recvfrom, the copy of the buffer, a sendto, a lock. Interleaving inside one such
call is left out, so a buffer holds one of: nothing, a command, the n-th record.
That is enough to tell an intact text from another's; torn mixtures of two texts
are not represented. `Log`'s program counter runs `idle, memset, sprintf,
sendto`; the receive thread's `setup` (its `setsockopt`), then `top, lock, recv,
copy, act, unlock`, in the order of `Logger.cpp:131-180`. Details that matter and are kept:

* the filter is a strict `>` (line 102), tested once, before the buffer is touched;
* the memset of line 138 is before the lock;
* a command is compared by `>=` on strings (147-162). Only the place of the text
  among the four names in dictionary order matters (`Place`); text after an `=`
  inside a record is the program's own and may fall anywhere (`Stats`);
* the `continue` of line 169 skips the unlock;
* `ExitLog` closes the descriptor of the last `InitializeLog` only, and
  `InitializeLog` reuses the lowest closed one, while old threads keep theirs;
* a socket has no receive timeout until its own new thread has set it (line 134).
  An old thread whose descriptor was reused may call recvfrom before that: it is
  then `blocked`, with the mutex, until a datagram comes (`Block`, `ReceiveLate`);
* `isWorking` is never set again.

In the server, `Extraction` is the relation `cin >> user_choice` implements: a
number; 0 with cin failed; nothing, so any value, once cin has failed.
`SigInt` may or may not interrupt the read that waits. `fopen` may fail
(`OpenFile`): the thread receives all the same, and the `fprintf` or `fclose` of
a null pointer ends the process (`WriteToNull`). The server's own mutex is
left out, since one thread alone takes it.

### A1

A stream is a sequence of messages; a read takes all of it and keeps the first,
as `receiveMessage` does (`netMonitor.cpp:72-77`, `intfMonitor.cpp:67-72`).
`StreamsFit` justifies that a read takes all: nothing ever exceeds its 255 bytes.
The client's `do` loop is `stats, wait`, then by message `display`, repair or
quit. The statistics are read before the command is waited for, as in the code,
so `operstate` may be stale. The display loop has no action of its own: its body
only prints, so a client whose interface was up stays in `display` for ever, and
one whose interface was down leaves it by `ReportDown`. `SigInt` is sent to the
server alone or to the whole group; it wakes a blocked call, once, or misses it.
A write to a peer that has gone ends the writer (SIGPIPE). A client whose
`socket()` fails removes the server's path and exits (`intfMonitor.cpp:79-83,
122-125`), whatever the server is doing: `PathWhileAccepting` says that only a
client that gave up before it had a connection can have done that while others
are awaited. `Bind` may fail too, which ends the server.

### Labs 8 and 9

`RelayQueue` is the `std::queue` between the two threads. A push takes two
steps, lock and push, and while it lasts `SizeTest` may answer anything, which is
how the data race on `size()` shows; pop is one step under the mutex. That
`PopSafe` holds all the same rests on main being the only one that pops, and on
the pop waiting for the push that confused it.

In `SelectServer` one `Receive` is select, recv and the making of the text
(lines 60-104). A stream leaves nothing of message boundaries, so a recv returns
an interval of the messages its client sent; the string made of the buffer ends
at the first 0, so of that interval a text keeps any prefix, which depends on
where the client sends its zeros. `RelayFaithful` says that between the threads
nothing else is lost: the intervals follow each other, in what was printed, what
is queued and what is in hand, and what is missing is missing behind a text of
the same recv. A connection goes first, a single ready client next, and *nothing
or several* stops the server (line 115). An accept may fail, when the connection
was aborted meanwhile. Nothing keeps out a client for whom `fd_client` has no room:
it is written past the end, which either hits nothing that is used, or else there is no
telling what the process does next, and the model ends there (`undefined`).
`close_time` is set once and Linux counts it down over all calls (52-60), so the
model lets select give up whenever nothing is ready. A client that closed is
ready for ever. Texts still queued when the flag is cleared are dropped (line
182): no property promises them.

In `QueueServer` the kernel's queue is a sequence of typed messages of bounded
length. `mess` keeps its value from one iteration to the next, as the same stack
slot does, and is anything at first. `SigInt` clears the flag in either thread
and makes the call that thread waits in fail: `msgrcv` in the receive thread,
whose stale `mess` is then pushed, or `msgsnd` in main, which loses the message.
A destination of 4 goes round once more through the server.

### Lab 5

A child goes through `forked`, `register` (four `sigaction` calls, in order),
`pausing` (about to call `pause`), `paused`, and the loop of `loop` (the test)
and `gather` (up to the `write`). A signal is pending until it is handled; several
that are pending are handled in any order. Without a handler it kills, or stops
the process for a while; with one, `signalHandler` changes the flag and ends the
pause if the child is in it; `woken` remembers which signal that was. ctrl-C goes
to the whole group and ends the parent. Each `wait` of the parent's last loop
takes one child that has ended, and the one that finds none left ends the loop.
The parent's `sleep(10)` and `sleep(30)` make most of this unlikely but
order nothing, so they are left out.

## Runs

| run | expects | shows |
|---|---|---|
| `logger` | pass | library invariants, refinement of `LogFilter`, exit, consumption of commands |
| `logger_obey` | violation of `CommandObeyed` | WARNING and ERROR commands install DEBUG (`Logger.cpp:127` against 147) |
| `logger_intact` | violation of `RecordSentIntact` | `Log` sends what another thread left in the buffer (97-98 against 111) |
| `service` | pass | the log file is faithful, records arrive, shutdown ends |
| `service_sigint` | violation of `SigIntShutsDown` | ctrl-C just before the read is not enough (143 against 122) |
| `system` | pass | the server is a network `Logger` assumes; only a race makes the library deaf |
| `netmonitor` | pass | A1 safety, and completion of start, repair and shutdown |
| `selectserver` | pass | Lab 9: safety of the queue, the texts' path, quitting, a client too many, and that the server ends |
| `queueserver` | pass | Lab 8: safety of the queue, order and multiplicity of what is relayed, and how far the shutdown gets |
| `sysmonitor` | pass | Lab 5: what signals do at every point of a child's life; the parent's wait |
| `sysmonitor_keys` | violation of `DiscardsKeys` | a ctrl-C in the pause ends the monitor (`intfMonitor_solution.cpp:109` against 62) |
| `netmonitor_obey` | violation of `ShutDownObeyed` | a displaying client never quits (`intfMonitor.cpp:276` against 256) |

### Bounds, and why they are enough

* `MaxInits = 2` in `logger`: two receive threads, two sockets, a reused
  descriptor. One caller suffices there, since the second receive thread and the
  network already rewrite the buffer; `logger_intact` has two callers and one
  thread. `service` and `system` have one client socket.
* `MaxCalls` is the number of records: 1 where only the presence of a record
  matters, 2 where order does (`service`).
* `QCap = 1`: a full queue, hence a lost datagram, is reached with the second send.
  No queue is longer in the runs; the proofs hold for every `QCap`.
* `Levels`, what the program passes to `SetLogLevel` and `Log`, is DEBUG with
  WARNING in `logger`: DEBUG is below every filter, WARNING passes once the
  filter is lowered. In `system` it is CRITICAL, which passes the filter from the
  start. Commands range over all four severities except in `system`, where
  the operator's answers are 0, 1 (which names DEBUG) and 4 (CRITICAL).
* `Choices` in `service`: 0 shuts down, 1 and 2 are menu entries, 4 is invalid in
  the menu and CRITICAL in the submenu.
* `N = 2` is the number of interfaces `netMonitor.cpp:119` has room for.
* `selectserver`: two places in `fd_client` (`C_MAX`, 3 in the code) and three
  clients, so that one too many is accepted; two that send suffice for *several
  ready at once* and for interleaved texts; with two messages of one of them a recv
  takes one or both, and keeps both or loses one; a queue of two texts holds back
  the third (`MaxQueue` bounds the state only: main empties the queue, so the
  receive thread is delayed, not stopped).
* `queueserver`: the three clients of the code; `Cap = 2`, so that the three
  "Quit" do not fit without a client that reads; `MaxMsgs = 2`, since order and
  repetition are about pairs.
* `sysmonitor`: `NUM = 2` as in the code.

`CHECK_DEADLOCK FALSE` is only in the configurations of the service and of the
three labs: those programs return from main, and with all messages sent nothing
can happen any more.

### Fairness

A running thread or process is scheduled (weak fairness for each thread, caller,
server and client). Nothing is assumed of who acts of his own accord: the
program that calls the library, the operator while cin works, SIGINT, a cable,
the network. The lock gets no strong fairness: a thread sleeps one second with
the mutex held, so it may win it again every time, and `CommandsConsumed` is
stated for one receive thread for that reason.

Liveness properties name their exceptions in their conclusions, each of them a
behaviour of the code: the mutex left locked (`ExitStopsThreads`,
`CommandsConsumed`), a thread blocked with the mutex in a receive without timeout
(`ExitStopsThreads`), the operator awaited (`ShutdownCompletes` of the service), a
text overwritten or the server gone (`RecordsReachFile`), a client that gave up
(`StartCompletes`) or displays for ever (`ShutdownCompletes` of the monitor), a
report that arrived behind another message (`RepairCompletes`), a SIGINT that came
before the call it should have interrupted (`ShutdownCompletes` of the monitor), a
client that closed or one too many (`IdleStops`), a full kernel queue (`Relayed`,
`ShutdownProceeds`), a receive nobody wakes (`JoinEnds`), a child that missed its
signals or had them in the wrong order (`WaitEnds`).

In Labs 8 and 9 the two threads are weakly fair and clients and ctrl-C are not;
in Lab 5 parent and children are, and so is the delivery of each pending signal.

## Proofs

Every invariant that a passing run checks is a theorem, and so are the step
properties `ExitIsFinal`, `FilterRefined` and `ClientRefined`. The proofs hold
for every value of the constants that satisfies the named assumptions. Those of
A2 are `BoundsAssumption` (the three bounds are positive), `LevelsAssumption` and
`ChoicesAssumption`: any callers, any number of receive threads and sockets, any
queue length.

`LoggerProofs`. The inductive invariant is

    IInv == TypeOK /\ LockInv /\ CallInv

`LockInv` says that a thread in the critical section owns the mutex, that the
threads beyond `inits` are unborn, and that the owner is not one of them nor still
at its `setsockopt`; the last part keeps `InitializeLog` from starting a thread that owns the mutex
already, so that no call of the program changes `Leaked`. A thread that is blocked
in recvfrom is in the critical section as well, and owns it.
`CallInv` says that a record under way has a number, a severity that is an index
of `levelStr`, and an initialised library, whose descriptor is one of those
there are: `LogSprintf` and `LogSendto` keep the types only with it. That the
severity is an index follows, when the filter is passed, from the strict
comparison and from the filter being at least DEBUG by `TypeOK`; afterwards the
filter may be lowered without harm. From `Invariance` follow `TypeCorrect`, `MutualExclusion` and
`LabelsInRange`. `ExitFinal` and `Refinement` are step arguments on top of it:
`Refinement` maps `level_log` to the level and `Leaked` to deafness, and the main
case is that once the mutex is left by a thread at `top`, `lock` or `done` nobody
can be in the critical section, so no action but `SetLogLevel` changes the filter.

`LogServiceProofs`. The inductive invariant is `SvcTypeOK /\ FileFaithful`: the
file, followed by the text in hand, is the history of what was received, unless
that text was overwritten before it was copied. The proof needs the definition of
`Pending` case by case for the receive thread, and that the main thread's writes
to the buffer either miss the interval or set `spoiled`.

`LogSystemProofs`. The invariant of the two processes is

    SysInv == IInv /\ Server!TypeOK /\ raced \in BOOLEAN /\ Known /\ Clean

`Known` says what goes round: buffers and queues hold blanks, commands and
records that `Log` has built, and the server knows no socket but those that
sent. It makes every datagram of the server one that `Logger` lets its arbitrary
network send, which is the one step `ClientRefinement` needs beside the library's
own (`SysStepRefines`). `Clean` says that, before two threads wrote a buffer at
a time, everything on the way to the library is a command; a command is always
recognised, so the `continue` of line 169 is never reached and the mutex never
left: `DeafnessIsARace`. With the refinement, the library's theorems hold beside this server
too (`LibrarySafeBesideServer`, `FilterBesideServer`).

`NetMonitorProofs`, from `NAssumption`: any number of interfaces. None of the
safety properties is inductive. The invariant adds where the server is in its
start (`Flags`, `Forking`), that a client has one connection, which is waiting or
was accepted (`Arrivals`), that a client not yet asked to monitor has said nothing
but that it is ready (`Fresh`), and the dialogue itself (`Alternation`,
`ReportWaits`, `NoRepairYet`): while the monitor works, each client is in one of
the states of the exchange, and that fixes what its two streams hold.
`Loads` bounds the streams: a client's load, two for each command under way
to it, one for each message in its other stream and one for each it still owes, grows
only when the server writes, and the server writes only after it took something
out, or once at the start and once at the end. So a stream never has more than
nine messages, of at most twelve bytes, and `ReadsAreWhole` follows. The path
(`PathStays`) needs that a client which ended without a connection never gets one
(`GaveUpStays`), and that only such a one is at its `socket()` call or refused.

`SelectServerProofs`, from `SelectBounds`: any number of clients, those beyond
`C_MAX` with their overrun included, of messages and of texts in the queue. `Stopping` says that a
receive thread whose flag is cleared is at its test or at its end; since only that
thread clears the flag, main finds `fd_client` at rest in its last loop, and
`ToldSoFar` counts the clients told against the loop's index: `AllAreTold`. `InHand`
keeps the text of a receive thread apart from those it pushed, so that what was
printed, what is queued and what is in hand stay consecutive intervals of what recv
returned; that a text is a prefix of its interval comes from `Receive` alone and is
carried along (`RelayIsFaithful`).

`QueueServerProofs`, from `QueueBounds`: any capacity and any number of messages.
The invariant is `TypeOK /\ PopSafe`. That what `msgrcv` takes is mail needs that a
non-empty set of places in the kernel's queue has a least one
(`FirstIsWaiting`, from the well-foundedness of the natural numbers).

`QueueOrderProofs` adds `Numbered /\ Sorted`. A message on its way to a client has a
place: a stage between the kernel's queue and the client, and an index. `Sorted`
says that the numbers at two places are in the order of the places; equal numbers
need a receive that failed. Unlike `InOrder` it speaks of the receive thread's
`mess` also after the push, since a failed receive pushes that again. `Numbered`
says that no number is above what was sent, except that "Quit" has gone to the
clients before main's index; so what is new, and "Quit", goes behind everything.
There is one lemma per action that moves a message, each of which finds for every
place the one before the step (`Taken`, `PlaceAfterPut`); the places, and not the
subsequences of a client, are compared because facts about `SelectSeq` would need
induction. `MessagesInOrder` follows.

`SysMonitorProofs`, from `NUMAssumption`: any number of children. The invariant
adds to the checked properties what makes them inductive: the parent forks in
turn (`ForkedInTurn`) and starts all before it stops any (`StartFirst`), a child
that was started and not stopped has its flag set (`Started`), one in its loop runs
or has been given a reason not to (`LoopsForReason`), and a child that saw SIGUSR2
last has no SIGUSR1 pending, its flag cleared and at most the line in hand to write
(`StopSettles`). All safety properties of the run are proved.

Only model-checked: all liveness (it needs fairness and ENABLED, which are
outside the prover's reach), and the violations of the runs that expect one.

## Where the code differs from its comments

Five runs expect a violation, and show each a comment that the code does not keep.
The passing runs name further such behaviours as exceptions; they are in the models:

* `Logger.cpp:126` wants recvfrom not to block. It does, in an old thread on a reused
  descriptor whose new thread has not set the timeout yet (line 134), with the mutex
  locked: `Stuck` in `ExitStopsThreads`.
* `LogServer.cpp:248` wants the receive thread joined. It is detached (line 109), and
  main may return while the thread holds a text received and not yet written, which
  `FileFaithful` counts as `Pending` and nobody writes any more.
* `netMonitor.cpp:180` wants a "Link down" handled. Behind another message, such as
  the "Monitoring" of `intfMonitor.cpp:239`, the read of line 74 drops it,
  and server and client wait for each other: `Behind` in `RepairCompletes`.
* `netMonitor.cpp:189` wants SIGINT to end the loop. The handler only clears a flag,
  and a read that begins afterwards waits: `Missed` in `ShutdownCompletes`.

## What is left out

* Library: timestamps and texts (records are numbers), the overflow of the
  256-byte buffer (line 108), calls before `InitializeLog` (they use descriptor
  0), failing `socket()`.
* Server: a failing `bind`, the file's contents before the server started, cout.
  Its receive timeout is taken to be in force when its one thread, which sets it,
  first receives.
* A1: the prompt and its two-element array (line 119), a failing `execlp` (the
  child would become a second server), `FD_SET` of a failed accept's -1, the other
  ten statistics files. No property looks at the other clients' reports: only the
  client accepted last is served (line 182).
* Lab 9: select and recv that fail, an accept that fails and leaves the connection
  waiting, what else a write past `fd_client` does, the SIGPIPE of a "Quit" sent
  to a client that has reset its connection (line 188), the bytes of a text (one
  of 256 bytes has no terminator, line 104). A client connects once in the model;
  one that comes back is another client, in the code too.
* Lab 8: messages left in the kernel's queue by an earlier run, the message used
  as a format (line 90), `sizeof(mess)` as the length (131), failing calls at
  the start.
* Lab 5: a failing fork (`kill(-1)` would then signal every process), the
  statistics. Signals sent by others than parent and terminal.
* Lab 4, the driver: its control state is two flags. `unregister_device` clears
  `is_halt`, and the inner loop of the simulation (line 90) tests nothing else,
  so the thread never ends; what else can go wrong is in the bytes of
  the buffer and in `copy_to_user`'s swapped arguments (163).
* Lab 6: a dialogue in which each side waits for the other's one message; no
  two steps can interleave, and every error ends the process.
* Lab 7: set-up of two processes and a pipe, without later state; the parent's
  wait loop never runs, since `pid` is 0 (line 178).
* Labs 1, 2, 3: sequential programs without state that outlives a call. Labs 1
  and 3 have plain defects (a value kept from the process before,
  `LabOne_Watler.cpp:95`; `ret > 0` for a failing ioctl, `etherCtrl.cpp:80`).

The Makefiles compile without optimisation, and the labs modelled have none;
the plain `bool` flags shared by threads and handlers are taken to be
re-read at each test, as such a build does.

## Plan

1. Done: `LogTypes`, `LogFilter`, `Logger`; `LogServer`, `LogService`,
   `LogSystem`; `IntfMonitor`, `NetMonitor`; `RelayQueue`, `SelectServer`,
   `QueueServer`, `SysMonitor`; the theorems above.
2. Done: a theorem for every invariant the runs check, and for the refinements.
3. Left: the safety half of the liveness properties, that nobody is stuck. As long
   as the goal of a shutdown is not reached and none of its named exceptions
   holds, the guard of some fair thread does (a predicate of the state, without
   ENABLED), as a theorem for Labs 8, 9 and 5.
