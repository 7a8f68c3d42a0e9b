------------------------ MODULE LogSystemProofs ------------------------
(***************************************************************************)
(* What holds of the library and the server together, for any number of    *)
(* threads, initialisations and records: the server is a network such as   *)
(* the library's proofs assume, and no command that arrives as it was      *)
(* built deafens the library.                                              *)
(***************************************************************************)
EXTENDS LogSystem, LoggerProofs, SequenceTheorems

Commands == {Command(l) : l \in LOG_LEVEL}

\* Nothing but blanks, commands and the records built so far goes round, and
\* the server knows no socket but those that sent.
Known ==
    /\ buf \in Built /\ sBuf \in Built
    /\ client_address \in bound \cup {0}
    /\ toServer \in Seq([from : bound, data : Built])
    /\ inbox \in [Sockets -> Seq(Built)]
    /\ \A c \in Callers : cpc[c] # "idle" => call[c].id \in 1..calls

\* Without a race the library hears commands only, all of which it recognises.
Clean ==
    ~raced =>
        /\ ~Leaked
        /\ inbox \in [Sockets -> Seq(Commands)]
        /\ \A t \in Threads : rpc[t] = "copy" => buf \in Commands
        /\ \A t \in Threads : rpc[t] = "act" => message[t] \in Commands

\* Inductive.
SysInv == IInv /\ Server!TypeOK /\ raced \in BOOLEAN /\ Known /\ Clean

USE DEF DEBUG, WARNING, ERROR, CRITICAL, LOG_LEVEL, NoThread, Closed, Critical,
        Threads, Sockets, Descriptors, Server!DEBUG, Server!WARNING, Server!ERROR,
        Server!CRITICAL, Server!LOG_LEVEL, Server!Sockets

-----------------------------------------------------------------------------
(* What goes round.                                                        *)

\* The two processes speak of the same things (the texts and queues of
\* Logger.cpp:104-113 and LogServer.cpp:213-219).
LEMMA SameTerms ==
    /\ Server!Blank = Blank
    /\ \A l \in LOG_LEVEL : Server!Command(l) = Command(l)
    /\ Server!Contents = Contents
    /\ \A q, x : Server!Enqueue(q, x) = Enqueue(q, x)
<1>1. Server!Blank = Blank /\ \A l \in LOG_LEVEL : Server!Command(l) = Command(l)
  BY DEF Server!Blank, Blank, Server!Command, Command
<1>2. \A n \in 1..MaxCalls : Server!Record(n) = Record(n)
  BY DEF Server!Record, Record
<1>3. Server!Contents = Contents
  BY DEF Server!Contents, Contents, Server!Blank, Blank, Server!Command, Command,
         Server!Record, Record
<1>4. \A q, x : Server!Enqueue(q, x) = Enqueue(q, x)
  BY DEF Server!Enqueue, Enqueue
<1> QED BY <1>1, <1>3, <1>4

\* A queue of some things is a queue of more.
LEMMA SeqWider ==
    ASSUME NEW S, NEW T, S \subseteq T, NEW q \in Seq(S)
    PROVE  q \in Seq(T)
<1>1. \A k \in 1..Len(q) : q[k] \in T
  BY ElementOfSeq
<1> QED BY <1>1, SeqDef

\* A command was always there to be sent, and what was built stays built.
LEMMA BuiltGrows ==
    ASSUME calls \in Nat, calls' \in {calls, calls + 1}
    PROVE  /\ Built \subseteq Built' /\ Blank \in Built' /\ Commands \subseteq Built'
           /\ \A n \in 1..(calls') : Record(n) \in Built'
<1>1. 1..calls \subseteq 1..(calls')
  OBVIOUS
<1> QED BY <1>1 DEF Built, Commands

\* What can go round fits in a buffer.
LEMMA BuiltFits == IInv => Built \subseteq Contents
<1> SUFFICES ASSUME IInv PROVE Built \subseteq Contents
    OBVIOUS
<1>1. 1..calls \subseteq 1..MaxCalls
  BY BoundsAssumption DEF IInv, TypeOK, BoundsAssumption
<1> QED BY <1>1 DEF Built, Contents

\* What was sent before may still be sent when a socket or a record is new.
LEMMA KnownWider ==
    ASSUME Known, IInv, calls' \in {calls, calls + 1}, bound \subseteq bound',
           UNCHANGED <<sBuf, client_address>>
    PROVE  /\ buf \in Built' /\ sBuf' \in Built'
           /\ client_address' \in bound' \cup {0}
           /\ toServer \in Seq([from : bound', data : Built'])
           /\ inbox \in [Sockets -> Seq(Built')]
<1>1. Built \subseteq Built'
  BY BoundsAssumption, BuiltGrows DEF IInv, TypeOK, BoundsAssumption
<1>2. [from : bound, data : Built] \subseteq [from : bound', data : Built']
  BY <1>1
<1>3. toServer \in Seq([from : bound', data : Built'])
  BY <1>2, SeqWider DEF Known
<1>4. \A s \in Sockets : inbox[s] \in Seq(Built')
  BY <1>1, SeqWider DEF Known
<1> QED BY <1>1, <1>3, <1>4 DEF Known

-----------------------------------------------------------------------------
(* The library's steps.                                                    *)

\* The first datagram in the queue of socket k goes into the buffer.
Takes(k) ==
    /\ inbox[k] # <<>>
    /\ buf' = Head(inbox[k])
    /\ inbox' = [inbox EXCEPT ![k] = Tail(inbox[k])]

\* A receive, one that blocked included, takes from the queue of one socket
\* (Logger.cpp:140).
LEMMA ReceiveTakes ==
    ASSUME IInv, NEW t \in Threads, Receive(t) \/ ReceiveLate(t)
    PROVE  \E k \in Sockets : Takes(k)
<1>1. CASE Receive(t)
  <2>1. Socket(t) \in Sockets
    BY <1>1, SocketType DEF Receive, HasDatagram
  <2>2. Takes(Socket(t))
    BY <1>1 DEF Receive, HasDatagram, Takes
  <2> QED BY <2>1, <2>2
<1>2. CASE ReceiveLate(t)
  <2>1. waits[t] \in Sockets
    BY <1>2 DEF ReceiveLate, IInv, CallInv
  <2>2. Takes(waits[t])
    BY <1>2 DEF ReceiveLate, Takes
  <2> QED BY <2>1, <2>2
<1> QED BY <1>1, <1>2

\* The library sends what it built or what it received, from the socket it
\* sends on (Logger.cpp:104-113).
LEMMA LibraryKeepsKnown ==
    ASSUME SysInv, LibraryStep, UNCHANGED serverVars
    PROVE  Known'
<1> USE DEF SysInv, serverVars, filterVars, appVars, threadVars, kernelVars, Goto
<1>1. calls \in Nat
  BY BoundsAssumption DEF IInv, TypeOK, BoundsAssumption
<1>2. ASSUME UNCHANGED <<buf, bound, toServer, inbox, calls, cpc, call>> PROVE Known'
  BY <1>2 DEF Known, Built
<1>3. ASSUME buf' \in Built, UNCHANGED <<bound, toServer, inbox, calls>>,
             \A c \in Callers : cpc'[c] # "idle" => call'[c].id \in 1..calls
      PROVE  Known'
  BY <1>3 DEF Known, Built
<1>4. CASE InitializeLog \/ ExitLog \/ \E level \in Levels : SetLogLevel(level)
  BY <1>2, <1>4 DEF InitializeLog, ExitLog, SetLogLevel
<1>5. ASSUME NEW c \in Callers, NEW level \in Levels, Log(c, level) PROVE Known'
  <2>1. /\ calls' = calls + 1 /\ call' = [call EXCEPT ![c] = [level |-> level, id |-> calls']]
        /\ cpc' = [cpc EXCEPT ![c] = "memset"]
        /\ UNCHANGED <<buf, bound, toServer, inbox>>
    BY <1>5 DEF Log
  <2>2. \A d \in Callers : cpc'[d] # "idle" => call'[d].id \in 1..(calls')
    BY <1>1, <2>1 DEF IInv, TypeOK, Known
  <2>3. /\ buf \in Built' /\ sBuf' \in Built'
        /\ client_address' \in bound' \cup {0}
        /\ toServer \in Seq([from : bound', data : Built'])
        /\ inbox \in [Sockets -> Seq(Built')]
    BY <2>1, KnownWider
  <2> QED BY <2>1, <2>2, <2>3 DEF Known
<1>6. ASSUME NEW c \in Callers, LogMemset(c) \/ LogSprintf(c) PROVE Known'
  <2>1. UNCHANGED <<bound, toServer, inbox, calls, call>>
    BY <1>6 DEF LogMemset, LogSprintf
  <2>2. cpc[c] # "idle" /\ \A d \in Callers : d # c => cpc'[d] = cpc[d]
    BY <1>6 DEF LogMemset, LogSprintf, IInv, TypeOK
  <2>3. \A d \in Callers : cpc'[d] # "idle" => call'[d].id \in 1..calls
    BY <2>1, <2>2 DEF Known
  <2>4. buf' = Blank \/ buf' = Record(call[c].id)
    BY <1>6 DEF LogMemset, LogSprintf
  <2>5. call[c].id \in 1..calls
    BY <2>2 DEF Known
  <2>6. buf' \in Built
    BY <2>4, <2>5 DEF Built
  <2> QED BY <1>3, <2>1, <2>3, <2>6
<1>7. ASSUME NEW c \in Callers, LogSendto(c) PROVE Known'
  <2>1. UNCHANGED <<buf, inbox, calls, call>> /\ cpc' = [cpc EXCEPT ![c] = "idle"]
    BY <1>7 DEF LogSendto
  <2>2. \A d \in Callers : cpc'[d] # "idle" => call'[d].id \in 1..(calls')
    BY <2>1 DEF IInv, TypeOK, Known
  <2>3. CASE UNCHANGED <<bound, toServer>>
    BY <2>1, <2>2, <2>3 DEF Known, Built
  <2>4. CASE /\ bound' = bound \cup {sock[fd]}
             /\ toServer' = Enqueue(toServer, [from |-> sock[fd], data |-> buf])
    <3>1. /\ buf \in Built' /\ sBuf' \in Built'
          /\ client_address' \in bound' \cup {0}
          /\ toServer \in Seq([from : bound', data : Built'])
          /\ inbox \in [Sockets -> Seq(Built')]
      BY <2>1, <2>4, KnownWider
    <3>2. [from |-> sock[fd], data |-> buf] \in [from : bound', data : Built']
      BY <2>4, <3>1
    <3>3. toServer' \in Seq([from : bound', data : Built'])
      BY <2>4, <3>1, <3>2, EnqueueType
    <3> QED BY <2>1, <2>2, <3>1, <3>3 DEF Known
  <2> QED BY <1>7, <2>3, <2>4 DEF LogSendto
<1>8. ASSUME NEW t \in Threads, ThreadStep(t) PROVE Known'
  <2>1. CASE \/ SetTimeout(t) \/ Lock(t) \/ ReceiveNothing(t) \/ Block(t)
             \/ Copy(t) \/ Act(t) \/ Unlock(t)
    BY <1>2, <2>1 DEF SetTimeout, Lock, ReceiveNothing, Block, Copy, Act, Unlock
  <2>2. CASE Poll(t)
    <3>1. UNCHANGED <<bound, toServer, inbox, calls, cpc, call>>
      BY <2>2 DEF Poll
    <3>2. buf' \in Built
      BY <2>2 DEF Poll, Known, Built
    <3> QED BY <1>3, <3>1, <3>2 DEF Known
  <2>3. CASE Receive(t) \/ ReceiveLate(t)
    <3>1. PICK k \in Sockets : Takes(k)
      BY <2>3, ReceiveTakes
    <3>2. inbox[k] \in Seq(Built) /\ inbox[k] # <<>>
      BY <3>1 DEF Takes, Known
    <3>3. Head(inbox[k]) \in Built /\ Tail(inbox[k]) \in Seq(Built)
      BY <3>2, HeadTailProperties
    <3>4. UNCHANGED <<bound, toServer, calls, cpc, call>>
      BY <2>3 DEF Receive, ReceiveLate
    <3>5. inbox' \in [Sockets -> Seq(Built)]
      BY <3>1, <3>3 DEF Takes, Known
    <3>6. Built' = Built
      BY <3>4 DEF Built
    <3> QED BY <3>1, <3>3, <3>4, <3>5, <3>6 DEF Takes, Known
  <2> QED BY <1>8, <2>1, <2>2, <2>3 DEF ThreadStep
<1> QED BY <1>4, <1>5, <1>6, <1>7, <1>8 DEF LibraryStep, ProgramStep, LogStep

\* Every command names a severity, which is recognised (Logger.cpp:145-170).
LEMMA CommandsRecognised ==
    /\ Commands \subseteq Contents
    /\ \A content \in Commands : \A stat \in Stats(content) : Recognised(stat)
<1>1. Commands \subseteq Contents
  BY DEF Commands, Contents
<1>2. ASSUME NEW l \in LOG_LEVEL, NEW stat \in Stats(Command(l)) PROVE Recognised(stat)
  <2>1. stat = Place[l]
    BY <1>2 DEF Stats, Command
  <2>2. stat >= Place[l]
    BY <2>1 DEF Place
  <2> QED BY <2>2 DEF Recognised
<1> QED BY <1>1, <1>2 DEF Commands

\* The mutex is left locked by nothing but a text that is not recognised
\* (Logger.cpp:167-170).
LEMMA LeakedByAct ==
    ASSUME IInv, LibraryStep, Leaked'
    PROVE  \/ Leaked
           \/ \E t \in Threads : Act(t) /\ \E stat \in Stats(message[t]) : ~Recognised(stat)
<1> USE DEF Goto, filterVars, appVars, threadVars
<1>1. CASE InitializeLog
  BY <1>1, BoundsAssumption DEF InitializeLog, Leaked, IInv, TypeOK, LockInv, BoundsAssumption
<1>2. CASE ProgramStep /\ ~InitializeLog
  <2>1. UNCHANGED <<mutex, rpc>>
    BY <1>2 DEF ProgramStep, SetLogLevel, Log, ExitLog
  <2> QED BY <2>1, LeakedStays
<1>3. ASSUME NEW c \in Callers, LogStep(c) PROVE Leaked
  <2>1. UNCHANGED <<mutex, rpc>>
    BY <1>3 DEF LogStep, LogMemset, LogSprintf, LogSendto
  <2> QED BY <2>1, LeakedStays
<1>4. ASSUME NEW t \in Threads, ThreadStep(t)
      PROVE  Leaked \/ (Act(t) /\ \E stat \in Stats(message[t]) : ~Recognised(stat))
  <2>1. CASE Act(t)
    <3>1. CASE \E stat \in Stats(message[t]) : ~Recognised(stat)
      BY <2>1, <3>1
    <3>2. CASE \A stat \in Stats(message[t]) : Recognised(stat)
      <4>1. rpc' = [rpc EXCEPT ![t] = "unlock"] /\ mutex' = mutex /\ rpc[t] = "act"
        BY <2>1, <3>2 DEF Act
      <4>2. mutex = t
        BY <4>1 DEF IInv, LockInv
      <4> QED BY <4>1, <4>2 DEF Leaked, IInv, TypeOK
    <3> QED BY <3>1, <3>2
  <2>2. CASE Poll(t)
    BY <2>2 DEF Poll, Leaked, IInv, TypeOK
  <2>3. CASE Lock(t)
    BY <2>3 DEF Lock, Leaked, IInv, TypeOK
  <2>4. CASE Receive(t) \/ ReceiveNothing(t) \/ Block(t) \/ ReceiveLate(t) \/ Copy(t)
    <3>1. /\ mutex' = mutex /\ rpc[t] \in Critical
          /\ \E place \in {"copy", "unlock", "blocked", "act"} : rpc' = [rpc EXCEPT ![t] = place]
      BY <2>4 DEF Receive, ReceiveNothing, Block, ReceiveLate, Copy
    <3>2. mutex = t
      BY <3>1 DEF IInv, LockInv
    <3> QED BY <3>1, <3>2 DEF Leaked, IInv, TypeOK
  <2>5. CASE Unlock(t)
    BY <2>5 DEF Unlock, Leaked
  <2>6. CASE SetTimeout(t)
    BY <2>6 DEF SetTimeout, Leaked, IInv, TypeOK, LockInv
  <2> QED BY <1>4, <2>1, <2>2, <2>3, <2>4, <2>5, <2>6 DEF ThreadStep
<1> QED BY <1>1, <1>2, <1>3, <1>4 DEF LibraryStep, Next

\* The thread that received a command copies it and acts on it, unless the
\* buffer is written in between (Logger.cpp:138-145).
LEMMA LibraryKeepsClean ==
    ASSUME SysInv, LibraryActs
    PROVE  Clean'
<1> USE DEF SysInv, filterVars, appVars, threadVars, kernelVars, Goto
<1> SUFFICES ASSUME ~raced'
             PROVE  /\ ~Leaked'
                    /\ inbox' \in [Sockets -> Seq(Commands)]
                    /\ \A t \in Threads : rpc'[t] = "copy" => buf' \in Commands
                    /\ \A t \in Threads : rpc'[t] = "act" => message'[t] \in Commands
    BY DEF Clean
<1>1. ~raced /\ \A t \in Threads : rpc[t] = "copy" => buf' = buf
  BY DEF LibraryActs, Remember
<1>2. /\ ~Leaked
      /\ inbox \in [Sockets -> Seq(Commands)]
      /\ \A t \in Threads : rpc[t] = "copy" => buf' \in Commands
      /\ \A t \in Threads : rpc[t] = "act" => message[t] \in Commands
  BY <1>1 DEF Clean
<1>3. ~Leaked'
  <2> SUFFICES ASSUME Leaked' PROVE FALSE
      OBVIOUS
  <2>1. PICK t \in Threads : Act(t) /\ \E stat \in Stats(message[t]) : ~Recognised(stat)
    BY <1>2, LeakedByAct DEF LibraryActs
  <2>2. message[t] \in Commands
    BY <1>2, <2>1 DEF Act
  <2> QED BY <2>1, <2>2, CommandsRecognised
<1>4. CASE ProgramStep \/ \E c \in Callers : LogStep(c)
  <2>1. CASE InitializeLog
    <3>1. /\ inbox' = inbox /\ message' = message
          /\ rpc' = [rpc EXCEPT ![inits + 1] = "setup"]
      BY <2>1 DEF InitializeLog
    <3> QED BY <1>2, <1>3, <3>1 DEF IInv, TypeOK
  <2>2. CASE ~InitializeLog
    <3>1. UNCHANGED <<inbox, message, rpc>>
      BY <1>4, <2>2 DEF ProgramStep, SetLogLevel, Log, ExitLog, LogStep, LogMemset, LogSprintf, LogSendto
    <3> QED BY <1>2, <1>3, <3>1
  <2> QED BY <2>1, <2>2
<1>5. ASSUME NEW t \in Threads, ThreadStep(t)
      PROVE  /\ inbox' \in [Sockets -> Seq(Commands)]
             /\ \A u \in Threads : rpc'[u] = "copy" => buf' \in Commands
             /\ \A u \in Threads : rpc'[u] = "act" => message'[u] \in Commands
  <2>1. rpc \in [Threads -> {"unborn", "setup", "top", "lock", "done"} \cup Critical]
        /\ message \in [Threads -> Contents]
    BY DEF IInv, TypeOK
  <2>2. CASE SetTimeout(t) \/ Poll(t) \/ Lock(t) \/ ReceiveNothing(t) \/ Block(t) \/ Unlock(t)
    <3>1. /\ inbox' = inbox /\ message' = message
          /\ \E place \in {"lock", "done", "recv", "unlock", "blocked", "top"} :
                rpc' = [rpc EXCEPT ![t] = place]
      BY <2>2 DEF SetTimeout, Poll, Lock, ReceiveNothing, Block, Unlock
    <3> QED BY <1>2, <2>1, <3>1
  <2>3. CASE Receive(t) \/ ReceiveLate(t)
    <3>1. PICK k \in Sockets : Takes(k)
      BY <2>3, ReceiveTakes
    <3>2. inbox[k] \in Seq(Commands) /\ inbox[k] # <<>>
      BY <1>2, <3>1 DEF Takes
    <3>3. Head(inbox[k]) \in Commands /\ Tail(inbox[k]) \in Seq(Commands)
      BY <3>2, HeadTailProperties
    <3>4. message' = message /\ rpc' = [rpc EXCEPT ![t] = "copy"]
      BY <2>3 DEF Receive, ReceiveLate
    <3>5. inbox' \in [Sockets -> Seq(Commands)]
      BY <1>2, <3>1, <3>3 DEF Takes
    <3>6. buf' \in Commands
      BY <3>1, <3>3 DEF Takes
    <3> QED BY <1>2, <2>1, <3>4, <3>5, <3>6
  <2>4. CASE Copy(t)
    <3>1. /\ rpc[t] = "copy" /\ message' = [message EXCEPT ![t] = buf]
          /\ rpc' = [rpc EXCEPT ![t] = "act"] /\ inbox' = inbox /\ buf' = buf
      BY <2>4 DEF Copy
    <3> QED BY <1>2, <2>1, <3>1
  <2>5. CASE Act(t)
    <3>1. /\ inbox' = inbox /\ message' = [message EXCEPT ![t] = Blank]
          /\ \E place \in {"unlock", "top"} : rpc' = [rpc EXCEPT ![t] = place]
      BY <2>5 DEF Act
    <3> QED BY <1>2, <2>1, <3>1
  <2> QED BY <1>5, <2>2, <2>3, <2>4, <2>5 DEF ThreadStep
<1> QED BY <1>3, <1>4, <1>5 DEF LibraryActs, LibraryStep

-----------------------------------------------------------------------------
(* The server's steps.                                                     *)

\* The server does nothing to the library but send on a socket that it knows,
\* and take what comes (LogServer.cpp:213-219, 278).
LEMMA ServerTouches ==
    ASSUME Server!Step
    PROVE  \/ UNCHANGED <<toServer, inbox, client_address>> /\ (mpc = "sendto" => mpc' # "loop")
           \/ /\ mpc = "sendto" /\ mpc' = "loop" /\ UNCHANGED <<toServer, client_address, sBuf>>
              /\ inbox' = [s \in Sockets |->
                              IF s = client_address THEN Enqueue(inbox[s], sBuf) ELSE inbox[s]]
           \/ /\ toServer # <<>> /\ toServer' = Tail(toServer) /\ inbox' = inbox
              /\ sBuf' = Head(toServer).data /\ client_address' = Head(toServer).from
              /\ (mpc = "sendto" => mpc' # "loop")
<1> USE DEF Server!flags, Server!recvVars, Server!fileVars, Server!mainVars, Server!Goto
<1>1. CASE Server!MainStep
  <2>1. CASE Server!SendSendto
    BY <2>1, SameTerms DEF Server!SendSendto
  <2>2. ASSUME NEW choice \in Choices, Server!Select(choice) \/ Server!SetLevel(choice)
        PROVE  UNCHANGED <<toServer, inbox, client_address>> /\ mpc # "sendto"
    BY <2>2 DEF Server!Select, Server!SetLevel
  <2>3. CASE Server!Menu \/ Server!SendMemset \/ Server!SendSprintf \/ Server!Dump
    BY <2>3 DEF Server!Menu, Server!SendMemset, Server!SendSprintf, Server!Dump
  <2> QED BY <1>1, <2>1, <2>2, <2>3 DEF Server!MainStep
<1>2. CASE Server!SigInt
  BY <1>2 DEF Server!SigInt
<1>3. CASE Server!ReceiverStep
  <2>1. CASE Server!Receive
    BY <2>1 DEF Server!Receive
  <2>2. CASE Server!Poll \/ Server!OpenFile \/ Server!ReceiveNothing \/ Server!Copy \/ Server!Write
    BY <2>2 DEF Server!Poll, Server!OpenFile, Server!ReceiveNothing, Server!Copy, Server!Write
  <2>3. CASE Server!WriteToNull
    BY <2>3 DEF Server!WriteToNull
  <2> QED BY <1>3, <2>1, <2>2, <2>3 DEF Server!ReceiverStep
<1> QED BY <1>1, <1>2, <1>3 DEF Server!Step

\* The server writes its buffer empty, with its command, or with what it
\* received (LogServer.cpp:213-219, 271-278).
LEMMA ServerBuffer ==
    ASSUME SysInv, Server!Step
    PROVE  \/ sBuf' \in Built \cup {Blank}
           \/ \E l \in LOG_LEVEL : sBuf' = Command(l)
<1> USE SameTerms
    DEF SysInv, Server!flags, Server!recvVars, Server!fileVars, Server!mainVars, Server!Goto
<1>1. sBuf \in Built /\ sLevel \in LOG_LEVEL
  BY DEF Known, Server!TypeOK
<1>2. CASE Server!MainStep
  <2>1. \/ sBuf' = sBuf \/ sBuf' = Server!Blank \/ sBuf' = Server!Command(sLevel)
    BY <1>2 DEF Server!MainStep, Server!Menu, Server!Select, Server!SetLevel, Server!SendMemset,
                Server!SendSprintf, Server!SendSendto, Server!Dump
  <2> QED BY <1>1, <2>1
<1>3. CASE Server!SigInt
  BY <1>1, <1>3 DEF Server!SigInt
<1>4. CASE Server!ReceiverStep
  <2>1. CASE Server!Receive
    <3>1. toServer # <<>> /\ sBuf' = Head(toServer).data
      BY <2>1 DEF Server!Receive
    <3>2. Head(toServer) \in [from : bound, data : Built]
      BY <3>1, HeadTailProperties DEF Known
    <3> QED BY <3>1, <3>2
  <2>2. CASE Server!Poll \/ Server!OpenFile \/ Server!ReceiveNothing \/ Server!Copy \/ Server!Write
    <3>1. sBuf' = sBuf \/ sBuf' = Server!Blank
      BY <2>2 DEF Server!Poll, Server!OpenFile, Server!ReceiveNothing, Server!Copy, Server!Write
    <3> QED BY <1>1, <3>1
  <2>3. CASE Server!WriteToNull
    BY <1>1, <2>3 DEF Server!WriteToNull
  <2> QED BY <1>4, <2>1, <2>2, <2>3 DEF Server!ReceiverStep
<1> QED BY <1>2, <1>3, <1>4 DEF Server!Step

\* The server sends nothing it did not build or receive, and to nobody it has
\* not heard of (LogServer.cpp:213-219, 278).
LEMMA ServerKeepsKnown == ASSUME SysInv, ServerActs PROVE Known'
<1> USE DEF SysInv, filterVars, appVars
<1>1. UNCHANGED <<buf, bound, cpc, call, calls>> /\ Server!Step
  BY DEF ServerActs
<1>2. Built' = Built
  BY <1>1 DEF Built
<1>3. sBuf' \in Built
  BY <1>1, ServerBuffer DEF Known, Built
<1>4. CASE UNCHANGED <<toServer, inbox, client_address>>
  BY <1>1, <1>2, <1>3, <1>4 DEF Known
<1>5. CASE /\ UNCHANGED <<toServer, client_address>>
           /\ inbox' = [s \in Sockets |->
                           IF s = client_address THEN Enqueue(inbox[s], sBuf) ELSE inbox[s]]
  <2>1. \A s \in Sockets : inbox[s] \in Seq(Built) /\ Enqueue(inbox[s], sBuf) \in Seq(Built)
    BY EnqueueType DEF Known
  <2>2. inbox' \in [Sockets -> Seq(Built)]
    BY <1>5, <2>1
  <2> QED BY <1>1, <1>2, <1>3, <1>5, <2>2 DEF Known
<1>6. CASE /\ toServer # <<>> /\ toServer' = Tail(toServer) /\ inbox' = inbox
           /\ client_address' = Head(toServer).from
  <2>1. /\ Head(toServer) \in [from : bound, data : Built]
        /\ Tail(toServer) \in Seq([from : bound, data : Built])
    BY <1>6, HeadTailProperties DEF Known
  <2> QED BY <1>1, <1>2, <1>3, <1>6, <2>1 DEF Known
<1> QED BY <1>1, <1>4, <1>5, <1>6, ServerTouches

\* A command that the server sends as it built it is one the library
\* recognises (LogServer.cpp:215-218).
LEMMA ServerKeepsClean == ASSUME SysInv, ServerActs PROVE Clean'
<1> USE DEF SysInv, threadVars
<1> SUFFICES ASSUME ~raced'
             PROVE  /\ ~Leaked'
                    /\ inbox' \in [Sockets -> Seq(Commands)]
                    /\ \A t \in Threads : rpc'[t] = "copy" => buf' \in Commands
                    /\ \A t \in Threads : rpc'[t] = "act" => message'[t] \in Commands
    BY DEF Clean
<1>1. UNCHANGED <<buf, mutex, rpc, message>> /\ Server!Step
  BY DEF ServerActs
<1>2. ~raced /\ (mpc = "sendto" /\ mpc' = "loop" => sBuf = Command(sLevel))
  BY DEF ServerActs, Remember
<1>3. /\ ~Leaked'
      /\ inbox \in [Sockets -> Seq(Commands)]
      /\ \A t \in Threads : rpc'[t] = "copy" => buf' \in Commands
      /\ \A t \in Threads : rpc'[t] = "act" => message'[t] \in Commands
  BY <1>1, <1>2, LeakedStays DEF Clean
<1>4. CASE inbox' = inbox
  BY <1>3, <1>4
<1>5. CASE /\ mpc = "sendto" /\ mpc' = "loop"
           /\ inbox' = [s \in Sockets |->
                           IF s = client_address THEN Enqueue(inbox[s], sBuf) ELSE inbox[s]]
  <2>1. sBuf \in Commands
    BY <1>2, <1>5 DEF Commands, Server!TypeOK
  <2>2. \A s \in Sockets : inbox[s] \in Seq(Commands) /\ Enqueue(inbox[s], sBuf) \in Seq(Commands)
    BY <1>3, <2>1, EnqueueType
  <2> QED BY <1>3, <1>5, <2>2
<1> QED BY <1>1, <1>4, <1>5, ServerTouches

\* The server's own variables keep their types, whatever it receives.
LEMMA ServerKeepsTypes ==
    ASSUME SysInv, Server!Step
    PROVE  Server!TypeOK'
<1> USE SameTerms
    DEF SysInv, Server!TypeOK, Server!flags, Server!recvVars, Server!fileVars, Server!mainVars,
        Server!Goto
<1>1. sBuf' \in Contents
  <2>1. \A x \in Built : x \in Contents
    BY BuiltFits
  <2>2. Blank \in Contents /\ \A l \in LOG_LEVEL : Command(l) \in Contents
    BY ContentTypes
  <2> QED BY <2>1, <2>2, ServerBuffer DEF Known
<1>2. client_address' \in Sockets \cup {0}
  <2>1. toServer # <<>> => Head(toServer).from \in Sockets
    <3> SUFFICES ASSUME toServer # <<>> PROVE Head(toServer).from \in Sockets
        OBVIOUS
    <3>1. Head(toServer) \in [from : Sockets, data : Contents]
      BY HeadTailProperties DEF IInv, TypeOK
    <3> QED BY <3>1
  <2> QED BY <2>1, ServerTouches
<1>3. CASE Server!MainStep
  <2>1. UNCHANGED <<sRpc, sMessage, opened, fileExists, logFile>>
    BY <1>3 DEF Server!MainStep, Server!Menu, Server!Select, Server!SetLevel, Server!SendMemset,
                Server!SendSprintf, Server!SendSendto, Server!Dump
  <2>2. ASSUME NEW choice \in Choices, Server!Select(choice) PROVE Server!TypeOK'
    <3>1. /\ cinOk' \in BOOLEAN /\ sIsWorking' \in BOOLEAN /\ sInputWorking' \in BOOLEAN
          /\ mpc' \in {"setlevel", "dump", "loop"} /\ sLevel' = sLevel
      BY <2>2 DEF Server!Select
    <3> QED BY <1>1, <1>2, <2>1, <3>1
  <2>3. ASSUME NEW choice \in Choices, Server!SetLevel(choice) PROVE Server!TypeOK'
    <3>1. /\ cinOk' \in BOOLEAN /\ UNCHANGED <<sIsWorking, sInputWorking>>
          /\ mpc' \in {"memset", "loop"}
      BY <2>3 DEF Server!SetLevel
    <3>2. sLevel' \in LOG_LEVEL
      <4>1. sLevel' = sLevel \/ (choice \in 1..4 /\ sLevel' = Server!Named[choice])
        BY <2>3 DEF Server!SetLevel
      <4>2. \A n \in 1..4 : Server!Named[n] \in LOG_LEVEL
        BY DEF Server!Named
      <4> QED BY <4>1, <4>2
    <3> QED BY <1>1, <1>2, <2>1, <3>1, <3>2
  <2>4. CASE Server!SendSendto
    <3>1. /\ UNCHANGED <<sIsWorking, sInputWorking, cinOk>> /\ mpc' = "loop"
          /\ sLevel' \in LOG_LEVEL
      BY <2>4 DEF Server!SendSendto
    <3> QED BY <1>1, <1>2, <2>1, <3>1
  <2>5. CASE Server!Menu \/ Server!SendMemset \/ Server!SendSprintf \/ Server!Dump
    <3>1. /\ UNCHANGED <<sIsWorking, sInputWorking, cinOk, sLevel>>
          /\ mpc' \in {"menu", "exited", "sprintf", "sendto", "loop", "failed"}
      BY <2>5 DEF Server!Menu, Server!SendMemset, Server!SendSprintf, Server!Dump
    <3> QED BY <1>1, <1>2, <2>1, <3>1
  <2> QED BY <1>3, <2>2, <2>3, <2>4, <2>5 DEF Server!MainStep
<1>4. CASE Server!SigInt
  <2>1. /\ UNCHANGED <<mpc, sLevel, sRpc, sMessage, opened, fileExists, logFile>>
        /\ cinOk' \in BOOLEAN /\ sIsWorking' \in BOOLEAN /\ sInputWorking' \in BOOLEAN
    BY <1>4 DEF Server!SigInt
  <2> QED BY <1>1, <1>2, <2>1
<1>5. CASE Server!ReceiverStep
  <2>1. /\ UNCHANGED <<sIsWorking, sInputWorking, cinOk, sLevel>>
        /\ mpc' \in {mpc, "failed"}
    BY <1>5 DEF Server!ReceiverStep, Server!Poll, Server!OpenFile, Server!Receive,
                Server!ReceiveNothing, Server!Copy, Server!Write, Server!WriteToNull
  <2>2. sRpc' \in {"top", "open", "recv", "copy", "write", "done"}
    BY <1>5 DEF Server!ReceiverStep, Server!Poll, Server!OpenFile, Server!Receive,
                Server!ReceiveNothing, Server!Copy, Server!Write, Server!WriteToNull
  <2>3. sMessage' \in Contents
    BY <1>5, ContentTypes DEF Server!ReceiverStep, Server!Poll, Server!OpenFile, Server!Receive,
                Server!ReceiveNothing, Server!Copy, Server!Write, Server!WriteToNull
  <2>4. fileExists' \in BOOLEAN /\ opened' \in BOOLEAN
    BY <1>5 DEF Server!ReceiverStep, Server!Poll, Server!OpenFile, Server!Receive,
                Server!ReceiveNothing, Server!Copy, Server!Write, Server!WriteToNull
  <2>5. logFile' \in Seq(Contents \ {Blank})
    <3>1. CASE Server!Write
      <4>1. logFile' = IF sMessage = Blank THEN logFile ELSE Append(logFile, sMessage)
        BY <3>1 DEF Server!Write
      <4>2. sMessage # Blank => Append(logFile, sMessage) \in Seq(Contents \ {Blank})
        BY AppendProperties
      <4> QED BY <4>1, <4>2
    <3>2. CASE ~Server!Write
      BY <1>5, <3>2 DEF Server!ReceiverStep, Server!Poll, Server!OpenFile, Server!Receive,
                        Server!ReceiveNothing, Server!Copy, Server!WriteToNull
    <3> QED BY <3>1, <3>2
  <2> QED BY <1>1, <1>2, <2>1, <2>2, <2>3, <2>4, <2>5
<1> QED BY <1>3, <1>4, <1>5 DEF Server!Step

-----------------------------------------------------------------------------
(* Both together.                                                          *)

\* At the start there is nothing to send and nobody to send to.
LEMMA SysInitEstablishes == SysInit => SysInv
<1> SUFFICES ASSUME SysInit PROVE SysInv
    OBVIOUS
<1>1. IInv
  BY InitEstablishes DEF SysInit
<1>2. Server!TypeOK
  <2>1. /\ sBuf \in Server!Contents /\ sMessage \in Server!Contents
        /\ client_address = 0 /\ sLevel \in LOG_LEVEL
    BY SameTerms, ContentTypes DEF SysInit, Server!Init
  <2>2. logFile \in Seq(Server!Contents \ {Server!Blank})
    BY DEF SysInit, Server!Init
  <2>3. /\ sIsWorking \in BOOLEAN /\ sInputWorking \in BOOLEAN /\ cinOk \in BOOLEAN
        /\ opened \in BOOLEAN /\ fileExists \in BOOLEAN /\ mpc = "loop" /\ sRpc = "top"
    BY DEF SysInit, Server!Init
  <2> QED BY <2>1, <2>2, <2>3 DEF Server!TypeOK
<1>3. raced = FALSE
  BY DEF SysInit
<1>4. Known
  <2>1. buf \in Built /\ sBuf \in Built
    BY SameTerms DEF SysInit, Init, Server!Init, Built
  <2>2. client_address = 0
    BY DEF SysInit, Server!Init
  <2>3. toServer = <<>> /\ inbox = [s \in Sockets |-> <<>>] /\ cpc = [c \in Callers |-> "idle"]
    BY DEF SysInit, Init
  <2> QED BY <2>1, <2>2, <2>3 DEF Known
<1>5. Clean
  BY DEF SysInit, Init, Clean, Leaked
<1> QED BY <1>1, <1>2, <1>3, <1>4, <1>5 DEF SysInv

\* What the server does is a step of the network that the library assumes, or
\* none that the library can tell (LogServer.cpp:213-219, 278).
LEMMA ServerIsNetwork == ASSUME SysInv, ServerActs PROVE [NetworkStep]_vars
<1> USE DEF filterVars, appVars, threadVars, kernelVars
<1>1. /\ UNCHANGED <<isWorking, filterVars, buf, mutex, fd, sock, bound, timed, inits, appVars, threadVars>>
      /\ Server!Step
  BY DEF ServerActs
<1>2. CASE UNCHANGED <<toServer, inbox>>
  BY <1>1, <1>2 DEF vars
<1>3. CASE /\ toServer # <<>> /\ toServer' = Tail(toServer) /\ inbox' = inbox
  <2>1. ServerReceives
    BY <1>1, <1>3 DEF ServerReceives
  <2> QED BY <2>1 DEF NetworkStep
<1>4. CASE /\ toServer' = toServer
           /\ inbox' = [s \in Sockets |->
                           IF s = client_address THEN Enqueue(inbox[s], sBuf) ELSE inbox[s]]
  <2>1. inbox \in [Sockets -> Seq(Contents)] /\ bound \subseteq Sockets
    BY DEF SysInv, IInv, TypeOK
  <2>2. sBuf \in Built /\ client_address \in bound \cup {0}
    BY DEF SysInv, Known
  <2>3. CASE client_address = 0
    <3>1. inbox' = inbox
      BY <1>4, <2>1, <2>3
    <3> QED BY <1>1, <1>4, <3>1 DEF vars
  <2>4. CASE client_address \in bound
    <3>1. inbox' = [inbox EXCEPT ![client_address] = Enqueue(inbox[client_address], sBuf)]
      BY <1>4, <2>1, <2>4
    <3>2. ServerSends(client_address, sBuf)
      BY <1>1, <1>4, <2>4, <3>1 DEF ServerSends
    <3> QED BY <2>1, <2>2, <2>4, <3>2 DEF NetworkStep
  <2> QED BY <2>2, <2>3, <2>4
<1> QED BY <1>1, <1>2, <1>3, <1>4, ServerTouches

\* A step of either process is one of the library, of the network, or none.
LEMMA SysStepRefines == SysInv /\ [SysNext]_sysVars => [Next]_vars
<1> SUFFICES ASSUME SysInv, [SysNext]_sysVars PROVE [Next]_vars
    OBVIOUS
<1>1. CASE LibraryActs
  BY <1>1 DEF LibraryActs, Next
<1>2. CASE ServerActs
  BY <1>2, ServerIsNetwork DEF Next
<1>3. CASE UNCHANGED sysVars
  BY <1>3 DEF sysVars
<1> QED BY <1>1, <1>2, <1>3 DEF SysNext

\* Every step of either process keeps the invariant.
LEMMA SysStepKeeps == SysInv /\ [SysNext]_sysVars => SysInv'
<1> SUFFICES ASSUME SysInv, [SysNext]_sysVars PROVE SysInv'
    OBVIOUS
<1>1. IInv'
  BY SysStepRefines, NextPreserves DEF SysInv
<1>2. CASE LibraryActs
  <2>1. LibraryStep /\ UNCHANGED serverVars /\ raced' \in BOOLEAN
    BY <1>2 DEF LibraryActs, Remember, SysInv
  <2>2. Server!TypeOK'
    BY <2>1 DEF SysInv, Server!TypeOK, serverVars
  <2>3. Known' /\ Clean'
    BY <1>2, <2>1, LibraryKeepsKnown, LibraryKeepsClean
  <2> QED BY <1>1, <2>1, <2>2, <2>3 DEF SysInv
<1>3. CASE ServerActs
  <2>1. Server!Step /\ raced' \in BOOLEAN
    BY <1>3 DEF ServerActs, Remember, SysInv
  <2> QED BY <1>1, <1>3, <2>1, ServerKeepsTypes, ServerKeepsKnown, ServerKeepsClean DEF SysInv
<1>4. CASE UNCHANGED sysVars
  <2>1. UNCHANGED serverVars /\ UNCHANGED vars /\ raced' = raced
    BY <1>4 DEF sysVars
  <2>2. Server!TypeOK'
    BY <2>1 DEF SysInv, Server!TypeOK, serverVars
  <2>3. Known' /\ Clean'
    BY <2>1 DEF SysInv, Known, Clean, Built, Leaked, vars, serverVars, appVars, threadVars, kernelVars
  <2> QED BY <1>1, <2>1, <2>2, <2>3 DEF SysInv
<1> QED BY <1>2, <1>3, <1>4 DEF SysNext

\* The invariant holds of every behaviour of the two processes.
THEOREM SysInvariance == SysSpec => []SysInv
<1> QED BY SysInitEstablishes, SysStepKeeps, PTL DEF SysSpec

\* The server is a network such as the library's module assumes: every
\* behaviour of the two processes is one of the library (LogServer.cpp:213-219,
\* 278), and what is proved of the library holds beside this server.
THEOREM ClientRefinement == SysSpec => ClientRefined
<1>1. SysInit => Init
  BY DEF SysInit
<1> QED BY <1>1, SysStepRefines, SysInvariance, PTL DEF SysSpec, ClientRefined, SafetySpec

\* Every variable of both processes keeps its type.
THEOREM SysTypeCorrect == SysSpec => []SysTypeOK
<1>1. SysInv => SysTypeOK
  BY DEF SysInv, IInv, SysTypeOK
<1> QED BY <1>1, SysInvariance, PTL

\* Only a buffer that two threads wrote deafens the library, for any number of
\* threads and records (LogServer.cpp:215-218, Logger.cpp:106, 138-170).
THEOREM DeafnessIsARace == SysSpec => []DeafOnlyByRace
<1>1. SysInv => DeafOnlyByRace
  BY DEF SysInv, Clean, DeafOnlyByRace
<1> QED BY <1>1, SysInvariance, PTL

\* Beside this server too the receive threads exclude each other and no record
\* has a label out of range (Logger.cpp:107, 139-179).
THEOREM LibrarySafeBesideServer == SysSpec => [](LockInv /\ LabelInRange)
<1>1. SysInv => LockInv /\ LabelInRange
  BY DEF SysInv, IInv, CallInv, LabelInRange
<1> QED BY <1>1, SysInvariance, PTL

\* Beside this server the library still is the abstract filter
\* (Logger.cpp:145-170).
THEOREM FilterBesideServer == SysSpec => FilterRefined
<1>1. SysInit => Filter!Init
  BY InitRefines DEF SysInit
<1>2. SysInv /\ [SysNext]_sysVars => [Filter!Next]_<<level_log, chosen, Leaked>>
  BY SysStepRefines, NextRefines DEF SysInv
<1> QED BY <1>1, <1>2, SysInvariance, PTL DEF SysSpec, FilterRefined, Filter!Spec
=============================================================================
