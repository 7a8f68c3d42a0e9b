----------------------------- MODULE Logger -----------------------------
(***************************************************************************)
(* The logging library of Assignments/A2 (Logger.cpp, Logger.h), linked    *)
(* into a program whose threads call it, with the receive threads its      *)
(* InitializeLog starts.  The threads share, without protection but for a  *)
(* mutex that only receive threads take, one 256-byte buffer, the filter   *)
(* severity, a running flag and the descriptor of the UDP socket.          *)
(*                                                                         *)
(* One action is one access to that shared state: a memset, a sprintf, a   *)
(* recvfrom, a sendto, the copy of the buffer into a string, a lock.       *)
(* Interleaving inside one such call is not modelled.  The server is the   *)
(* environment here; LogSystem puts LogServer in its place.                *)
(***************************************************************************)
EXTENDS LogTypes

CONSTANTS
    Callers,   \* threads of the program that call Log
    Levels     \* severities the program passes to SetLogLevel and Log

ASSUME LevelsAssumption == Levels \subseteq LOG_LEVEL

VARIABLES
    isWorking, level_log, buf, mutex,   \* Logger.cpp:51-60, the globals
    chosen,    \* history: what the program last passed to SetLogLevel
    fd,        \* descriptor in use; 0 before InitializeLog
    sock,      \* descriptor -> the socket it refers to; 0 when closed
    bound,     \* sockets the kernel has given a port: only these can receive
    timed,     \* sockets whose receives time out
    inbox,     \* socket -> its receive queue
    toServer,  \* the receive queue of the server's socket
    inits,     \* calls of InitializeLog so far
    calls,     \* calls of Log that passed the filter so far
    rpc,       \* receive thread -> where it is in its loop
    rfd,       \* receive thread -> the descriptor it was started with
    waits,     \* receive thread -> the socket it is blocked on; 0 for none
    message,   \* receive thread -> its copy of buf, until it has acted on it
    cpc,       \* caller -> where it is in Log
    call       \* caller -> severity and number of the record it is logging

filterVars == <<level_log, chosen>>
appVars    == <<cpc, call, calls>>
threadVars == <<rpc, rfd, waits, message>>
kernelVars == <<sock, bound, timed, inbox, toServer>>
vars == <<isWorking, filterVars, buf, mutex, fd, kernelVars, inits, appVars, threadVars>>

Descriptors == 1..MaxInits
Closed == 0
NoThread == 0

Critical == {"recv", "blocked", "copy", "act", "unlock"}   \* between lock() and unlock()

TypeOK ==
    /\ isWorking \in BOOLEAN
    /\ level_log \in LOG_LEVEL
    /\ chosen \in LOG_LEVEL
    /\ buf \in Contents
    /\ mutex \in Threads \cup {NoThread}
    /\ fd \in Descriptors \cup {0}
    /\ sock \in [Descriptors -> Sockets \cup {Closed}]
    /\ bound \in SUBSET Sockets
    /\ timed \in SUBSET Sockets
    /\ inbox \in [Sockets -> Seq(Contents)]
    /\ toServer \in Seq([from : Sockets, data : Contents])
    /\ inits \in 0..MaxInits
    /\ calls \in 0..MaxCalls
    /\ rpc \in [Threads -> {"unborn", "setup", "top", "lock", "done"} \cup Critical]
    /\ rfd \in [Threads -> Descriptors \cup {0}]
    /\ waits \in [Threads -> Sockets \cup {0}]
    /\ message \in [Threads -> Contents]
    /\ cpc \in [Callers -> {"idle", "memset", "sprintf", "sendto"}]
    /\ call \in [Callers -> [level : LOG_LEVEL, id : 0..MaxCalls]]

Init ==
    /\ isWorking = TRUE
    /\ level_log = ERROR
    /\ chosen = ERROR
    /\ buf = Blank
    /\ mutex = NoThread
    /\ fd = 0
    /\ sock = [d \in Descriptors |-> Closed]
    /\ bound = {}
    /\ timed = {}
    /\ inbox = [s \in Sockets |-> <<>>]
    /\ toServer = <<>>
    /\ inits = 0
    /\ calls = 0
    /\ rpc = [t \in Threads |-> "unborn"]
    /\ rfd = [t \in Threads |-> 0]
    /\ waits = [t \in Threads |-> 0]
    /\ message = [t \in Threads |-> Blank]
    /\ cpc = [c \in Callers |-> "idle"]
    /\ call = [c \in Callers |-> [level |-> DEBUG, id |-> 0]]

-----------------------------------------------------------------------------
(* The library's functions, called by the program.                         *)

\* Mutant: the flag is set again.
InitializeLogAndRun ==
    /\ inits < MaxInits
    /\ inits' = inits + 1
    /\ isWorking' = TRUE
    /\ \E d \in Descriptors :
          /\ sock[d] = Closed
          /\ \A e \in Descriptors : sock[e] = Closed => d <= e
          /\ fd' = d
          /\ sock' = [sock EXCEPT ![d] = inits']
          /\ rfd' = [rfd EXCEPT ![inits'] = d]
    /\ rpc' = [rpc EXCEPT ![inits'] = "setup"]
    /\ UNCHANGED <<filterVars, buf, mutex, bound, timed, inbox, toServer, appVars, waits, message>>

\* socket() takes the lowest free descriptor, and a detached thread starts
\* on it, which has yet to set the socket's timeout.  The flag isWorking is
\* not set: ExitLog may have cleared it.
InitializeLog ==
    /\ inits < MaxInits
    /\ inits' = inits + 1
    /\ \E d \in Descriptors :
          /\ sock[d] = Closed
          /\ \A e \in Descriptors : sock[e] = Closed => d <= e
          /\ fd' = d
          /\ sock' = [sock EXCEPT ![d] = inits']
          /\ rfd' = [rfd EXCEPT ![inits'] = d]
    /\ rpc' = [rpc EXCEPT ![inits'] = "setup"]
    /\ UNCHANGED <<isWorking, filterVars, buf, mutex, bound, timed, inbox, toServer, appVars, waits,
                   message>>

SetLogLevel(level) ==
    /\ level_log' = level
    /\ chosen' = level
    /\ UNCHANGED <<isWorking, buf, mutex, fd, kernelVars, inits, appVars, threadVars>>

\* Mutant: the comparison lets a record of the filter's own severity pass.
PassesInclusive(level) == level >= level_log

\* The filter of Log.  A call that does not pass it returns and changes nothing.
Passes(level) == level > level_log

Log(c, level) ==
    /\ inits > 0
    /\ cpc[c] = "idle"
    /\ Passes(level)
    /\ calls < MaxCalls
    /\ calls' = calls + 1
    /\ call' = [call EXCEPT ![c] = [level |-> level, id |-> calls']]
    /\ cpc' = [cpc EXCEPT ![c] = "memset"]
    /\ UNCHANGED <<isWorking, filterVars, buf, mutex, fd, kernelVars, inits, threadVars>>

LogMemset(c) ==
    /\ cpc[c] = "memset"
    /\ buf' = Blank
    /\ cpc' = [cpc EXCEPT ![c] = "sprintf"]
    /\ UNCHANGED <<isWorking, filterVars, mutex, fd, kernelVars, inits, call, calls, threadVars>>

LogSprintf(c) ==
    /\ cpc[c] = "sprintf"
    /\ buf' = Record(call[c].id)
    /\ cpc' = [cpc EXCEPT ![c] = "sendto"]
    /\ UNCHANGED <<isWorking, filterVars, mutex, fd, kernelVars, inits, call, calls, threadVars>>

\* What is sent is whatever the buffer now holds.  On a closed descriptor
\* sendto fails, and nobody looks at its result.
LogSendto(c) ==
    /\ cpc[c] = "sendto"
    /\ cpc' = [cpc EXCEPT ![c] = "idle"]
    /\ \/ /\ sock[fd] # Closed
          /\ bound' = bound \cup {sock[fd]}
          /\ toServer' = Enqueue(toServer, [from |-> sock[fd], data |-> buf])
       \/ /\ sock[fd] = Closed
          /\ UNCHANGED <<bound, toServer>>
    /\ UNCHANGED <<isWorking, filterVars, buf, mutex, fd, sock, timed, inbox, inits, call, calls, threadVars>>

ExitLog ==
    /\ inits > 0
    /\ isWorking' = FALSE
    /\ sock' = [sock EXCEPT ![fd] = Closed]
    /\ UNCHANGED <<filterVars, buf, mutex, fd, bound, timed, inbox, toServer, inits, appVars, threadVars>>

-----------------------------------------------------------------------------
(* The receive thread.                                                     *)

Goto(t, place) == rpc' = [rpc EXCEPT ![t] = place]

\* The socket that the thread's descriptor refers to now, which need not be
\* the one it was started for.
Socket(t) == IF rfd[t] \in Descriptors THEN sock[rfd[t]] ELSE Closed

\* The thread's first act: a timeout of 1 us for the socket's receives.  On a
\* closed descriptor setsockopt fails, and nobody looks at its result.
SetTimeout(t) ==
    /\ rpc[t] = "setup"
    /\ timed' = timed \cup ({Socket(t)} \ {Closed})
    /\ Goto(t, "top")
    /\ UNCHANGED <<isWorking, filterVars, buf, mutex, fd, sock, bound, inbox, toServer, inits,
                   appVars, rfd, waits, message>>

\* Mutant: an endless loop, as a comment of the source calls it.
PollForever(t) ==
    /\ rpc[t] = "top"
    /\ buf' = Blank
    /\ Goto(t, "lock")
    /\ UNCHANGED <<isWorking, filterVars, mutex, fd, kernelVars, inits, appVars, rfd, waits, message>>

\* The loop condition, then the memset, which is outside the mutex.
Poll(t) ==
    /\ rpc[t] = "top"
    /\ \/ /\ isWorking
          /\ buf' = Blank
          /\ Goto(t, "lock")
       \/ /\ ~isWorking
          /\ Goto(t, "done")
          /\ UNCHANGED buf
    /\ UNCHANGED <<isWorking, filterVars, mutex, fd, kernelVars, inits, appVars, rfd, waits, message>>

\* Mutant: no mutual exclusion.
LockAlways(t) ==
    /\ rpc[t] = "lock"
    /\ mutex' = t
    /\ Goto(t, "recv")
    /\ UNCHANGED <<isWorking, filterVars, buf, fd, kernelVars, inits, appVars, rfd, waits, message>>

\* Mutant: the mutex is a recursive one.
LockAgain(t) ==
    /\ rpc[t] = "lock"
    /\ mutex \in {NoThread, t}
    /\ mutex' = t
    /\ Goto(t, "recv")
    /\ UNCHANGED <<isWorking, filterVars, buf, fd, kernelVars, inits, appVars, rfd, waits, message>>

\* A std::mutex is not recursive: a thread that locks it twice waits for ever.
Lock(t) ==
    /\ rpc[t] = "lock"
    /\ mutex = NoThread
    /\ mutex' = t
    /\ Goto(t, "recv")
    /\ UNCHANGED <<isWorking, filterVars, buf, fd, kernelVars, inits, appVars, rfd, waits, message>>

HasDatagram(t) == Socket(t) # Closed /\ inbox[Socket(t)] # <<>>

\* Mutant: the datagram is peeked at and stays in the queue.
ReceivePeek(t) ==
    /\ rpc[t] = "recv"
    /\ HasDatagram(t)
    /\ buf' = Head(inbox[Socket(t)])
    /\ Goto(t, "copy")
    /\ UNCHANGED <<isWorking, filterVars, mutex, fd, kernelVars, inits, appVars, rfd, waits, message>>

Receive(t) ==
    /\ rpc[t] = "recv"
    /\ HasDatagram(t)
    /\ buf' = Head(inbox[Socket(t)])
    /\ inbox' = [inbox EXCEPT ![Socket(t)] = Tail(@)]
    /\ Goto(t, "copy")
    /\ UNCHANGED <<isWorking, filterVars, mutex, fd, sock, bound, timed, toServer, inits, appVars, rfd, waits, message>>

\* The timeout expires, or the descriptor is closed: sleep(1).
ReceiveNothing(t) ==
    /\ rpc[t] = "recv"
    /\ ~HasDatagram(t)
    /\ Socket(t) \in timed \cup {Closed}
    /\ Goto(t, "unlock")
    /\ UNCHANGED <<isWorking, filterVars, buf, mutex, fd, kernelVars, inits, appVars, rfd, waits, message>>

\* The socket is one whose own thread has not set the timeout yet: recvfrom
\* waits with none, whatever becomes of the option and of the descriptor.
Block(t) ==
    /\ rpc[t] = "recv"
    /\ ~HasDatagram(t)
    /\ Socket(t) \notin timed \cup {Closed}
    /\ waits' = [waits EXCEPT ![t] = Socket(t)]
    /\ Goto(t, "blocked")
    /\ UNCHANGED <<isWorking, filterVars, buf, mutex, fd, kernelVars, inits, appVars, rfd, message>>

\* Only a datagram ends that wait.
ReceiveLate(t) ==
    /\ rpc[t] = "blocked"
    /\ inbox[waits[t]] # <<>>
    /\ buf' = Head(inbox[waits[t]])
    /\ inbox' = [inbox EXCEPT ![waits[t]] = Tail(@)]
    /\ waits' = [waits EXCEPT ![t] = 0]
    /\ Goto(t, "copy")
    /\ UNCHANGED <<isWorking, filterVars, mutex, fd, sock, bound, timed, toServer, inits, appVars, rfd,
                   message>>

Copy(t) ==
    /\ rpc[t] = "copy"
    /\ message' = [message EXCEPT ![t] = buf]
    /\ Goto(t, "act")
    /\ UNCHANGED <<isWorking, filterVars, buf, mutex, fd, kernelVars, inits, appVars, rfd, waits>>

(***************************************************************************)
(* The command is what follows the first '=' of the text, or all of it.    *)
(* It is compared with the four names as strings, so only its place among  *)
(* them, in dictionary order, matters: 0 is before all of them.  What      *)
(* follows an '=' in a record's text is the program's own.                 *)
(***************************************************************************)
Place == [l \in LOG_LEVEL |-> CASE l = CRITICAL -> 1
                                [] l = DEBUG    -> 2
                                [] l = ERROR    -> 3
                                [] l = WARNING  -> 4]

Stats(content) ==
    CASE content.kind = "blank"   -> {0}
      [] content.kind = "command" -> {Place[content.arg]}
      [] content.kind = "record"  -> 0..4

\* Mutant: the first of the names in dictionary order is not recognised.
RecognisedStrictly(stat) == \E l \in LOG_LEVEL : stat > Place[l]

Recognised(stat) == \E l \in LOG_LEVEL : stat >= Place[l]

\* Mutant: the name's position is stored instead of the severity.
StoresPlace(stat) == stat - 1

\* The tests in the order of the code: the first that holds decides.
ServerLevel(stat) ==
    IF stat >= Place[DEBUG] THEN DEBUG
    ELSE IF stat >= Place[WARNING] THEN WARNING
    ELSE IF stat >= Place[ERROR] THEN ERROR
    ELSE CRITICAL

\* An unrecognised command continues the loop without unlocking the mutex.
Act(t) ==
    /\ rpc[t] = "act"
    /\ \E stat \in Stats(message[t]) :
          \/ /\ Recognised(stat)
             /\ level_log' = ServerLevel(stat)
             /\ Goto(t, "unlock")
          \/ /\ ~Recognised(stat)
             /\ Goto(t, "top")
             /\ UNCHANGED level_log
    /\ message' = [message EXCEPT ![t] = Blank]
    /\ UNCHANGED <<isWorking, chosen, buf, mutex, fd, kernelVars, inits, appVars, rfd, waits>>

Unlock(t) ==
    /\ rpc[t] = "unlock"
    /\ mutex' = NoThread
    /\ Goto(t, "top")
    /\ UNCHANGED <<isWorking, filterVars, buf, fd, kernelVars, inits, appVars, rfd, waits, message>>

-----------------------------------------------------------------------------
(* The other end of the sockets, as LogServer behaves.                     *)

\* The server knows the address of a socket from a datagram sent on it.  The
\* queue of a closed socket is read only by a thread that is blocked on it.
ServerSends(s, content) ==
    /\ s \in bound
    /\ inbox' = [inbox EXCEPT ![s] = Enqueue(@, content)]
    /\ UNCHANGED <<isWorking, filterVars, buf, mutex, fd, sock, bound, timed, toServer, inits, appVars, threadVars>>

ServerReceives ==
    /\ toServer # <<>>
    /\ toServer' = Tail(toServer)
    /\ UNCHANGED <<isWorking, filterVars, buf, mutex, fd, sock, bound, timed, inbox, inits, appVars, threadVars>>

Built == {Blank} \cup {Command(l) : l \in LOG_LEVEL} \cup {Record(n) : n \in 1..calls}

-----------------------------------------------------------------------------
ProgramStep ==
    \/ InitializeLog
    \/ \E level \in Levels : SetLogLevel(level)
    \/ \E c \in Callers, level \in Levels : Log(c, level)
    \/ ExitLog

LogStep(c) == LogMemset(c) \/ LogSprintf(c) \/ LogSendto(c)

ThreadStep(t) ==
    \/ SetTimeout(t)
    \/ Poll(t)
    \/ Lock(t)
    \/ Receive(t)
    \/ ReceiveNothing(t)
    \/ Block(t)
    \/ ReceiveLate(t)
    \/ Copy(t)
    \/ Act(t)
    \/ Unlock(t)

LibraryStep ==
    \/ ProgramStep
    \/ \E c \in Callers : LogStep(c)
    \/ \E t \in Threads : ThreadStep(t)

NetworkStep ==
    \/ \E s \in Sockets, content \in Built : ServerSends(s, content)
    \/ ServerReceives

Next == LibraryStep \/ NetworkStep

\* A running thread is scheduled; nothing makes the program or the network act.
Fairness ==
    /\ \A t \in Threads : WF_vars(ThreadStep(t))
    /\ \A c \in Callers : WF_vars(LogStep(c))

SafetySpec == Init /\ [][Next]_vars
Spec == SafetySpec /\ Fairness

-----------------------------------------------------------------------------
(* Properties.                                                             *)

\* A receive thread is between lock and unlock only while it owns the mutex,
\* and only a thread that has begun its loop owns it (Logger.cpp:136-179).
LockInv ==
    /\ \A t \in Threads : rpc[t] \in Critical => mutex = t
    /\ \A t \in Threads : rpc[t] = "unborn" <=> t > inits
    /\ mutex # NoThread => rpc[mutex] \notin {"unborn", "setup"}

\* The mutex is held by a thread that is past the code that unlocks it: the
\* `continue` of Logger.cpp:167-170 was taken.
Leaked == mutex # NoThread /\ rpc[mutex] \in {"top", "lock", "done"}

\* A record on its way to levelStr[level] has an index of that array
\* (Logger.cpp:107-108) although DEBUG is -1: it is the strict comparison
\* of the filter, at whatever severity other threads had set it, that keeps
\* DEBUG out, and lowering the filter afterwards does not let it in.
LabelInRange ==
    \A c \in Callers : cpc[c] # "idle" => call[c].level \in DOMAIN levelStr

\* The severity in force is the one the program chose last or one of the two
\* a command can set, and once a command was not recognised no command has
\* an effect any more, whatever is called afterwards (Logger.cpp:145-170).
Filter == INSTANCE LogFilter WITH level <- level_log, deaf <- Leaked
FilterRefined == Filter!Spec

\* After ExitLog no receive thread begins another iteration, one started by a
\* later InitializeLog included, since nothing sets the flag again
\* (Logger.cpp:54, 70-86, 118, 136).
OutOfLoop == {"unborn", "setup", "top", "done"}

ExitIsFinal ==
    [][\A t \in Threads :
          /\ ~isWorking => ~isWorking'
          /\ ~isWorking /\ rpc[t] \in OutOfLoop => rpc'[t] \in OutOfLoop]_vars

\* What can keep a thread from ending: the mutex was left locked, or a thread
\* is blocked in a receive without timeout and holds it.
Stuck(t) ==
    \/ Leaked /\ rpc[t] = "lock"
    \/ rpc[t] \in {"lock", "blocked"} /\ \E u \in Threads : rpc[u] = "blocked"

\* After ExitLog every receive thread ends, unless it is stuck for ever
\* (Logger.cpp:115-120, 134-180).
ExitStopsThreads ==
    \A t \in Threads : ~isWorking /\ rpc[t] # "unborn" ~> rpc[t] = "done" \/ []Stuck(t)

\* The only receive thread takes the datagram that waits for it, unless the
\* mutex was left locked or the library is left (Logger.cpp:136-180).  With
\* a second thread it may not: each sleeps with the mutex locked.
CommandsConsumed ==
    \A t \in Threads :
        HasDatagram(t) /\ inits = 1 ~> ~HasDatagram(t) \/ ~isWorking \/ Leaked \/ inits > 1

\* Said of the receive thread at Logger.cpp:127: a command sets the filter
\* to the severity it names.
CommandObeyed ==
    [][\A t \in Threads :
          rpc[t] = "act" /\ rpc'[t] # "act" /\ message[t].kind = "command"
              => level_log' = message[t].arg]_vars

\* Said of Log at Logger.cpp:97-98: what a call sends is the record it built.
RecordSentIntact ==
    [][\A c \in Callers :
          cpc[c] = "sendto" /\ cpc'[c] = "idle" => buf = Record(call[c].id)]_vars
=============================================================================
