-------------------------- MODULE LoggerProofs --------------------------
(***************************************************************************)
(* What holds of the logging library for any number of threads that log,   *)
(* any number of initialisations, and queues of any length.                *)
(***************************************************************************)
EXTENDS Logger, TLAPS

\* A call under way has an initialised library, a number, and a severity that
\* Log's array of names has an index for.  A blocked thread waits on a socket.
CallInv ==
    /\ inits > 0 => fd \in Descriptors
    /\ \A t \in Threads : rpc[t] = "blocked" => waits[t] \in Sockets
    /\ \A c \in Callers :
          cpc[c] # "idle" =>
              /\ inits > 0
              /\ call[c].id \in 1..MaxCalls
              /\ call[c].level \in DOMAIN levelStr

\* Inductive.
IInv == TypeOK /\ LockInv /\ CallInv

USE DEF DEBUG, WARNING, ERROR, CRITICAL, LOG_LEVEL, NoThread, Closed, Critical,
        Threads, Sockets, Descriptors

\* The severity a command results in, for any text.
LEMMA ServerLevelSets ==
    ASSUME NEW stat \in 0..4, Recognised(stat)
    PROVE  ServerLevel(stat) \in {DEBUG, CRITICAL}
BY DEF Recognised, ServerLevel, Place

\* What may be sent and received fits in a buffer.
LEMMA ContentTypes ==
    /\ Blank \in Contents
    /\ \A n \in 1..MaxCalls : Record(n) \in Contents
    /\ \A l \in LOG_LEVEL : Command(l) \in Contents
BY DEF Contents, Blank, Record, Command

\* The places a text can have in the dictionary (Logger.cpp:145).
LEMMA StatsTypes == \A content \in Contents : Stats(content) \subseteq 0..4
BY DEF Contents, Blank, Record, Command, Stats, Place

\* What a thread's descriptor refers to is a socket or closed (Logger.cpp:84,
\* 119, 140).
LEMMA SocketType == \A t \in Threads : IInv => Socket(t) \in Sockets \cup {Closed}
BY DEF Socket, IInv, TypeOK

\* A queue of a type stays one.
LEMMA EnqueueType ==
    ASSUME NEW S, NEW queue \in Seq(S), NEW x \in S
    PROVE  Enqueue(queue, x) \in Seq(S)
BY DEF Enqueue

\* The globals start out in the invariant (Logger.cpp:50-60).
LEMMA InitEstablishes == Init => IInv
BY BoundsAssumption, ContentTypes
   DEF Init, IInv, TypeOK, LockInv, CallInv, BoundsAssumption

-----------------------------------------------------------------------------
(* Every step preserves the invariant, one lemma for each group of steps.  *)

\* The calls the program makes (Logger.cpp:70-120).
LEMMA ProgramPreserves == IInv /\ ProgramStep => IInv'
<1> SUFFICES ASSUME IInv, ProgramStep PROVE IInv'
    OBVIOUS
<1> USE BoundsAssumption, LevelsAssumption DEF IInv, BoundsAssumption, LevelsAssumption
<1>1. CASE InitializeLog
  <2>1. TypeOK'
    BY <1>1 DEF InitializeLog, TypeOK, appVars, filterVars
  <2>2. LockInv'
    BY <1>1 DEF InitializeLog, TypeOK, LockInv
  <2>3. CallInv'
    BY <1>1 DEF InitializeLog, TypeOK, CallInv, appVars
  <2> QED BY <2>1, <2>2, <2>3
<1>2. ASSUME NEW l \in Levels, SetLogLevel(l) PROVE IInv'
  BY <1>2 DEF SetLogLevel, TypeOK, LockInv, CallInv, kernelVars, appVars, threadVars
<1>3. ASSUME NEW c \in Callers, NEW l \in Levels, Log(c, l) PROVE IInv'
  <2>1. l \in 0..2
    BY <1>3 DEF Log, Passes, TypeOK
  <2>2. TypeOK'
    <3>1. /\ calls' \in 0..MaxCalls
          /\ call' = [call EXCEPT ![c] = [level |-> l, id |-> calls']]
          /\ cpc' = [cpc EXCEPT ![c] = "memset"]
      BY <1>3 DEF Log, TypeOK
    <3>2. [level |-> l, id |-> calls'] \in [level : LOG_LEVEL, id : 0..MaxCalls]
      BY <2>1, <3>1
    <3>3. /\ call' \in [Callers -> [level : LOG_LEVEL, id : 0..MaxCalls]]
          /\ cpc' \in [Callers -> {"idle", "memset", "sprintf", "sendto"}]
      BY <3>1, <3>2 DEF TypeOK
    <3>4. UNCHANGED <<isWorking, filterVars, buf, mutex, fd, kernelVars, inits, threadVars>>
      BY <1>3 DEF Log
    <3> QED BY <3>1, <3>3, <3>4 DEF TypeOK, kernelVars, threadVars, filterVars
  <2>3. LockInv'
    BY <1>3 DEF Log, LockInv, threadVars
  <2>4. CallInv'
    <3>1. /\ inits > 0 /\ UNCHANGED <<inits, fd, rpc, waits>> /\ calls' \in 1..MaxCalls
          /\ call' = [call EXCEPT ![c] = [level |-> l, id |-> calls']]
          /\ cpc' = [cpc EXCEPT ![c] = "memset"]
      BY <1>3 DEF Log, TypeOK, threadVars
    <3>2. l \in DOMAIN levelStr
      BY <2>1 DEF levelStr
    <3>3. call'[c].id \in 1..MaxCalls /\ call'[c].level \in DOMAIN levelStr
      BY <3>1, <3>2 DEF TypeOK
    <3>4. \A d \in Callers \ {c} : call'[d] = call[d] /\ cpc'[d] = cpc[d]
      BY <3>1 DEF TypeOK
    <3> QED BY <3>1, <3>3, <3>4 DEF CallInv
  <2> QED BY <2>2, <2>3, <2>4
<1>4. CASE ExitLog
  BY <1>4 DEF ExitLog, TypeOK, LockInv, CallInv, appVars, threadVars, filterVars
<1> QED BY <1>1, <1>2, <1>3, <1>4 DEF ProgramStep

\* The rest of Log, once the filter is passed (Logger.cpp:104-113).
LEMMA LogPreserves == ASSUME NEW c \in Callers PROVE IInv /\ LogStep(c) => IInv'
<1> SUFFICES ASSUME IInv, LogStep(c) PROVE IInv'
    OBVIOUS
<1> USE DEF IInv, kernelVars, appVars, threadVars, filterVars
<1>1. CASE LogMemset(c)
  BY <1>1, ContentTypes DEF LogMemset, TypeOK, LockInv, CallInv
<1>2. CASE LogSprintf(c)
  BY <1>2, ContentTypes DEF LogSprintf, TypeOK, LockInv, CallInv
<1>3. CASE LogSendto(c)
  <2>1. fd \in Descriptors
    BY <1>3 DEF LogSendto, CallInv
  <2>2. toServer' \in Seq([from : Sockets, data : Contents])
    <3>1. CASE sock[fd] = Closed
      BY <1>3, <3>1 DEF LogSendto, TypeOK
    <3>2. CASE sock[fd] # Closed
      <4>1. [from |-> sock[fd], data |-> buf] \in [from : Sockets, data : Contents]
        BY <2>1, <3>2 DEF TypeOK
      <4>2. toServer' = Enqueue(toServer, [from |-> sock[fd], data |-> buf])
        BY <1>3, <3>2 DEF LogSendto
      <4>3. toServer \in Seq([from : Sockets, data : Contents])
        BY DEF TypeOK
      <4> QED BY <4>1, <4>2, <4>3, EnqueueType
    <3> QED BY <3>1, <3>2
  <2>3. bound' \in SUBSET Sockets
    <3>1. sock[fd] # Closed => sock[fd] \in Sockets
      BY <2>1 DEF TypeOK
    <3>2. bound \in SUBSET Sockets
      BY DEF TypeOK
    <3>3. bound' = bound \/ (sock[fd] # Closed /\ bound' = bound \cup {sock[fd]})
      BY <1>3 DEF LogSendto
    <3> QED BY <3>1, <3>2, <3>3
  <2>4. TypeOK'
    BY <1>3, <2>2, <2>3 DEF LogSendto, TypeOK
  <2> QED BY <1>3, <2>4 DEF LogSendto, TypeOK, LockInv, CallInv
<1> QED BY <1>1, <1>2, <1>3 DEF LogStep

\* One step of a receive thread (Logger.cpp:129-180).
LEMMA ThreadPreserves == ASSUME NEW t \in Threads PROVE IInv /\ ThreadStep(t) => IInv'
<1> SUFFICES ASSUME IInv, ThreadStep(t) PROVE IInv'
    OBVIOUS
<1> USE DEF IInv, Goto, kernelVars, appVars, threadVars, filterVars
<1>1. CASE Poll(t)
  <2>1. TypeOK'
    BY <1>1, ContentTypes DEF Poll, TypeOK
  <2>2. LockInv'
    <3>1. rpc'[t] \in {"lock", "done"} /\ rpc[t] = "top" /\ UNCHANGED <<mutex, inits>>
          /\ mutex \in Threads \cup {NoThread}
      BY <1>1 DEF Poll, TypeOK
    <3>2. \A u \in Threads \ {t} : rpc'[u] = rpc[u]
      BY <1>1 DEF Poll, TypeOK
    <3> QED BY <3>1, <3>2 DEF LockInv
  <2>3. CallInv'
    BY <1>1 DEF Poll, TypeOK, CallInv
  <2> QED BY <2>1, <2>2, <2>3
<1>2. CASE Lock(t)
  BY <1>2, BoundsAssumption DEF Lock, TypeOK, LockInv, CallInv, BoundsAssumption
<1>3. CASE Receive(t)
  <2>1. Socket(t) \in Sockets
    BY <1>3, SocketType DEF Receive, HasDatagram
  <2>2. Head(inbox[Socket(t)]) \in Contents /\ Tail(inbox[Socket(t)]) \in Seq(Contents)
    BY <1>3, <2>1 DEF Receive, HasDatagram, TypeOK
  <2>3. inbox' \in [Sockets -> Seq(Contents)] /\ buf' \in Contents
    BY <1>3, <2>1, <2>2 DEF Receive, TypeOK
  <2>4. rpc' = [rpc EXCEPT ![t] = "copy"] /\ rpc[t] = "recv"
    BY <1>3 DEF Receive
  <2>5. /\ UNCHANGED <<isWorking, level_log, chosen, mutex, fd, sock, bound, timed, toServer>>
        /\ UNCHANGED <<inits, cpc, call, calls, rfd, waits, message>>
    BY <1>3 DEF Receive
  <2>6. TypeOK'
    BY <2>3, <2>4, <2>5 DEF TypeOK
  <2>7. LockInv' /\ CallInv'
    BY <2>4, <2>5 DEF TypeOK, LockInv, CallInv
  <2> QED BY <2>6, <2>7
<1>4. CASE ReceiveNothing(t)
  BY <1>4 DEF ReceiveNothing, TypeOK, LockInv, CallInv
<1>8. CASE SetTimeout(t)
  <2>1. timed' \in SUBSET Sockets
    BY <1>8, SocketType DEF SetTimeout, TypeOK
  <2>2. TypeOK'
    BY <1>8, <2>1 DEF SetTimeout, TypeOK
  <2>3. LockInv'
    BY <1>8 DEF SetTimeout, TypeOK, LockInv
  <2> QED BY <1>8, <2>2, <2>3 DEF SetTimeout, TypeOK, CallInv
<1>9. CASE Block(t)
  <2>1. Socket(t) \in Sockets
    BY <1>9, SocketType DEF Block
  <2>2. TypeOK'
    BY <1>9, <2>1 DEF Block, TypeOK
  <2>3. LockInv'
    BY <1>9 DEF Block, TypeOK, LockInv
  <2>4. CallInv'
    BY <1>9, <2>1 DEF Block, TypeOK, CallInv
  <2> QED BY <2>2, <2>3, <2>4
<1>10. CASE ReceiveLate(t)
  <2>1. waits[t] \in Sockets
    BY <1>10 DEF ReceiveLate, CallInv
  <2>2. Head(inbox[waits[t]]) \in Contents /\ Tail(inbox[waits[t]]) \in Seq(Contents)
    BY <1>10, <2>1 DEF ReceiveLate, TypeOK
  <2>3. /\ inbox' \in [Sockets -> Seq(Contents)] /\ buf' \in Contents
        /\ waits' \in [Threads -> Sockets \cup {0}]
    BY <1>10, <2>1, <2>2 DEF ReceiveLate, TypeOK
  <2>4. /\ rpc' = [rpc EXCEPT ![t] = "copy"] /\ rpc[t] = "blocked"
        /\ waits' = [waits EXCEPT ![t] = 0]
    BY <1>10 DEF ReceiveLate
  <2>5. /\ UNCHANGED <<isWorking, level_log, chosen, mutex, fd, sock, bound, timed, toServer>>
        /\ UNCHANGED <<inits, cpc, call, calls, rfd, message>>
    BY <1>10 DEF ReceiveLate
  <2>6. TypeOK'
    BY <2>3, <2>4, <2>5 DEF TypeOK
  <2>7. LockInv'
    BY <2>4, <2>5 DEF TypeOK, LockInv
  <2>8. CallInv'
    BY <2>4, <2>5 DEF TypeOK, CallInv
  <2> QED BY <2>6, <2>7, <2>8
<1>5. CASE Copy(t)
  BY <1>5 DEF Copy, TypeOK, LockInv, CallInv
<1>6. CASE Act(t)
  <2>1. PICK stat \in Stats(message[t]) :
            \/ Recognised(stat) /\ level_log' = ServerLevel(stat) /\ rpc' = [rpc EXCEPT ![t] = "unlock"]
            \/ ~Recognised(stat) /\ rpc' = [rpc EXCEPT ![t] = "top"] /\ UNCHANGED level_log
    BY <1>6 DEF Act
  <2>2. level_log' \in LOG_LEVEL
    BY <2>1, ServerLevelSets, StatsTypes DEF TypeOK
  <2>3. TypeOK'
    BY <1>6, <2>1, <2>2, ContentTypes DEF Act, TypeOK
  <2>4. LockInv'
    BY <1>6, <2>1 DEF Act, TypeOK, LockInv
  <2>5. CallInv'
    BY <1>6, <2>1 DEF Act, TypeOK, CallInv
  <2> QED BY <2>3, <2>4, <2>5
<1>7. CASE Unlock(t)
  BY <1>7 DEF Unlock, TypeOK, LockInv, CallInv
<1> QED BY <1>1, <1>2, <1>3, <1>4, <1>5, <1>6, <1>7, <1>8, <1>9, <1>10 DEF ThreadStep

\* The server sends or receives (LogServer.cpp:213-219, 278).
LEMMA NetworkPreserves == IInv /\ NetworkStep => IInv'
<1> SUFFICES ASSUME IInv, NetworkStep PROVE IInv'
    OBVIOUS
<1> USE DEF IInv, appVars, threadVars, filterVars
<1>1. ASSUME NEW s \in Sockets, NEW content \in Built, ServerSends(s, content) PROVE IInv'
  <2>1. content \in Contents
    <3>1. 1..calls \subseteq 1..MaxCalls
      BY BoundsAssumption DEF TypeOK, BoundsAssumption
    <3> QED BY <3>1 DEF Built, Contents
  <2>2. Enqueue(inbox[s], content) \in Seq(Contents)
    BY <2>1, EnqueueType DEF TypeOK
  <2>3. TypeOK'
    BY <1>1, <2>2 DEF ServerSends, TypeOK
  <2> QED BY <1>1, <2>3 DEF ServerSends, LockInv, CallInv
<1>2. CASE ServerReceives
  BY <1>2 DEF ServerReceives, TypeOK, LockInv, CallInv
<1> QED BY <1>1, <1>2 DEF NetworkStep

\* Any step, or none.
LEMMA NextPreserves == IInv /\ [Next]_vars => IInv'
<1> SUFFICES ASSUME IInv, [Next]_vars PROVE IInv'
    OBVIOUS
<1>1. CASE UNCHANGED vars
  BY <1>1 DEF vars, kernelVars, appVars, threadVars, filterVars, IInv, TypeOK, LockInv, CallInv
<1>2. CASE Next
  BY <1>2, ProgramPreserves, LogPreserves, ThreadPreserves, NetworkPreserves
     DEF Next, LibraryStep
<1> QED BY <1>1, <1>2

\* The invariant holds of every behaviour.
THEOREM Invariance == SafetySpec => []IInv
<1> QED BY InitEstablishes, NextPreserves, PTL DEF SafetySpec

\* Every variable keeps its type.
THEOREM TypeCorrect == Spec => []TypeOK
<1> QED BY Invariance, PTL DEF Spec, IInv

\* Mutual exclusion of the receive threads (Logger.cpp:139-179).
THEOREM MutualExclusion == Spec => []LockInv
<1> QED BY Invariance, PTL DEF Spec, IInv

\* The array of names is never indexed with -1 (Logger.cpp:102-108).
THEOREM LabelsInRange == Spec => []LabelInRange
<1>1. IInv => LabelInRange
  BY DEF IInv, CallInv, LabelInRange
<1> QED BY <1>1, Invariance, PTL DEF Spec

-----------------------------------------------------------------------------
(* After ExitLog.                                                          *)

\* No step sets the flag again, nor starts an iteration without it
\* (Logger.cpp:118, 136).
LEMMA ExitStep ==
    ASSUME IInv, [Next]_vars
    PROVE  \A t \in Threads :
              /\ ~isWorking => ~isWorking'
              /\ ~isWorking /\ rpc[t] \in OutOfLoop
                    => rpc'[t] \in OutOfLoop
<1> SUFFICES ASSUME NEW t \in Threads, ~isWorking
             PROVE  /\ ~isWorking'
                    /\ rpc[t] \in OutOfLoop
                          => rpc'[t] \in OutOfLoop
    OBVIOUS
<1> USE DEF OutOfLoop, Goto, appVars, threadVars
<1>1. CASE UNCHANGED vars
  BY <1>1 DEF vars
<1>2. CASE ProgramStep
  <2>1. CASE InitializeLog
    BY <2>1 DEF InitializeLog, IInv, TypeOK
  <2>2. CASE ~InitializeLog
    BY <1>2, <2>2 DEF ProgramStep, SetLogLevel, Log, ExitLog
  <2> QED BY <2>1, <2>2
<1>3. ASSUME NEW c \in Callers, LogStep(c) PROVE UNCHANGED <<isWorking, rpc>>
  BY <1>3 DEF LogStep, LogMemset, LogSprintf, LogSendto
<1>4. ASSUME NEW u \in Threads, ThreadStep(u)
      PROVE  /\ ~isWorking'
             /\ rpc[t] \in OutOfLoop => rpc'[t] \in OutOfLoop
  <2>1. \E place \in {"top", "lock", "done"} \cup Critical :
            /\ rpc' = [rpc EXCEPT ![u] = place]
            /\ rpc[u] \in OutOfLoop => place \in OutOfLoop
    BY <1>4 DEF ThreadStep, SetTimeout, Poll, Lock, Receive, ReceiveNothing, Block, ReceiveLate,
                Copy, Act, Unlock
  <2>2. ~isWorking'
    BY <1>4 DEF ThreadStep, SetTimeout, Poll, Lock, Receive, ReceiveNothing, Block, ReceiveLate,
                Copy, Act, Unlock
  <2> QED BY <2>1, <2>2 DEF IInv, TypeOK
<1>5. CASE NetworkStep
  BY <1>5 DEF NetworkStep, ServerSends, ServerReceives
<1> QED BY <1>1, <1>2, <1>3, <1>4, <1>5 DEF Next, LibraryStep

\* ExitLog is final: no receive thread begins another iteration, and none
\* that a later InitializeLog starts begins any (Logger.cpp:70-86, 115-136).
THEOREM ExitFinal == Spec => ExitIsFinal
<1>1. IInv /\ [Next]_vars
        => [\A t \in Threads :
              /\ ~isWorking => ~isWorking'
              /\ ~isWorking /\ rpc[t] \in OutOfLoop
                    => rpc'[t] \in OutOfLoop]_vars
  BY ExitStep
<1> QED BY <1>1, Invariance, PTL DEF Spec, SafetySpec, ExitIsFinal

-----------------------------------------------------------------------------
(* Refinement of LogFilter.                                                *)

USE DEF Filter!DEBUG, Filter!WARNING, Filter!ERROR, Filter!CRITICAL, Filter!LOG_LEVEL

\* A step that leaves the mutex and the threads alone leaves Leaked alone.
LEMMA LeakedStays == UNCHANGED <<mutex, rpc>> => Leaked' = Leaked
BY DEF Leaked

\* The library starts as the abstract filter does (Logger.cpp:58).
LEMMA InitRefines == Init => Filter!Init
BY DEF Init, Filter!Init, Leaked

\* A call of the program sets the filter or changes nothing of it
\* (Logger.cpp:70-120).
LEMMA ProgramRefines ==
    IInv /\ ProgramStep => [Filter!Next]_<<level_log, chosen, Leaked>>
<1> SUFFICES ASSUME IInv, ProgramStep PROVE [Filter!Next]_<<level_log, chosen, Leaked>>
    OBVIOUS
<1>1. ASSUME NEW l \in Levels, SetLogLevel(l) PROVE Filter!SetLocally
  BY <1>1, LeakedStays, LevelsAssumption
     DEF SetLogLevel, Filter!SetLocally, threadVars, LevelsAssumption
<1>2. CASE InitializeLog
  <2>1. Leaked' = Leaked
    BY <1>2, BoundsAssumption DEF InitializeLog, Leaked, IInv, TypeOK, LockInv, BoundsAssumption
  <2> QED BY <1>2, <2>1 DEF InitializeLog, filterVars
<1>3. ASSUME NEW c \in Callers, NEW l \in Levels, Log(c, l)
      PROVE UNCHANGED <<level_log, chosen, Leaked>>
  BY <1>3, LeakedStays DEF Log, threadVars, filterVars
<1>4. CASE ExitLog
  BY <1>4, LeakedStays DEF ExitLog, threadVars, filterVars
<1> QED BY <1>1, <1>2, <1>3, <1>4 DEF ProgramStep, Filter!Next

\* A receive thread sets one of two severities, goes deaf, or changes nothing
\* of the filter (Logger.cpp:129-180).
LEMMA ThreadRefines ==
    ASSUME NEW t \in Threads, IInv, ThreadStep(t)
    PROVE  [Filter!Next]_<<level_log, chosen, Leaked>>
<1> USE DEF Goto, filterVars
<1>1. ASSUME rpc' = [rpc EXCEPT ![t] = "unlock"], rpc[t] \in Critical, UNCHANGED mutex
      PROVE  Leaked = FALSE /\ Leaked' = FALSE
  BY <1>1 DEF IInv, TypeOK, LockInv, Leaked
<1>2. CASE Poll(t)
  <2>1. Leaked' = Leaked
    BY <1>2 DEF Poll, Leaked, IInv, TypeOK
  <2> QED BY <1>2, <2>1 DEF Poll
<1>3. CASE Lock(t)
  <2>1. Leaked = FALSE /\ Leaked' = FALSE
    BY <1>3 DEF Lock, Leaked, IInv, TypeOK
  <2> QED BY <1>3, <2>1 DEF Lock
<1>4. CASE Receive(t)
  <2>1. Leaked = FALSE /\ Leaked' = FALSE
    BY <1>4 DEF Receive, Leaked, IInv, TypeOK, LockInv
  <2> QED BY <1>4, <2>1 DEF Receive
<1>5. CASE ReceiveNothing(t)
  BY <1>1, <1>5 DEF ReceiveNothing
<1>9. CASE SetTimeout(t)
  <2>1. Leaked' = Leaked
    BY <1>9 DEF SetTimeout, Leaked, IInv, TypeOK, LockInv
  <2> QED BY <1>9, <2>1 DEF SetTimeout
<1>10. CASE Block(t)
  <2>1. Leaked = FALSE /\ Leaked' = FALSE
    BY <1>10 DEF Block, Leaked, IInv, TypeOK, LockInv
  <2> QED BY <1>10, <2>1 DEF Block
<1>11. CASE ReceiveLate(t)
  <2>1. Leaked = FALSE /\ Leaked' = FALSE
    BY <1>11 DEF ReceiveLate, Leaked, IInv, TypeOK, LockInv
  <2> QED BY <1>11, <2>1 DEF ReceiveLate
<1>6. CASE Copy(t)
  <2>1. Leaked = FALSE /\ Leaked' = FALSE
    BY <1>6 DEF Copy, Leaked, IInv, TypeOK, LockInv
  <2> QED BY <1>6, <2>1 DEF Copy
<1>7. CASE Act(t)
  <2>1. PICK stat \in Stats(message[t]) :
            \/ Recognised(stat) /\ level_log' = ServerLevel(stat) /\ rpc' = [rpc EXCEPT ![t] = "unlock"]
            \/ ~Recognised(stat) /\ rpc' = [rpc EXCEPT ![t] = "top"] /\ UNCHANGED level_log
    BY <1>7 DEF Act
  <2>2. stat \in 0..4
    BY StatsTypes DEF IInv, TypeOK
  <2>3. UNCHANGED <<mutex, chosen>> /\ rpc[t] = "act"
    BY <1>7 DEF Act
  <2>4. Leaked = FALSE
    BY <2>3 DEF Leaked, IInv, TypeOK, LockInv
  <2>5. CASE Recognised(stat) /\ level_log' = ServerLevel(stat) /\ rpc' = [rpc EXCEPT ![t] = "unlock"]
    <3>1. level_log' \in {DEBUG, CRITICAL}
      BY <2>2, <2>5, ServerLevelSets
    <3>2. Leaked' = FALSE
      BY <1>1, <2>3, <2>5
    <3>3. Filter!SetRemotely
      BY <2>3, <2>4, <3>1, <3>2 DEF Filter!SetRemotely
    <3> QED BY <3>3 DEF Filter!Next
  <2>6. CASE rpc' = [rpc EXCEPT ![t] = "top"] /\ UNCHANGED level_log
    <3>1. Leaked' = TRUE
      BY <2>3, <2>6 DEF Leaked, IInv, TypeOK, LockInv
    <3>2. Filter!Deafen
      BY <2>3, <2>4, <2>6, <3>1 DEF Filter!Deafen
    <3> QED BY <3>2 DEF Filter!Next
  <2> QED BY <2>1, <2>5, <2>6
<1>8. CASE Unlock(t)
  <2>1. Leaked = FALSE /\ Leaked' = FALSE
    BY <1>8 DEF Unlock, Leaked, IInv, TypeOK, LockInv
  <2> QED BY <1>8, <2>1 DEF Unlock
<1> QED BY <1>2, <1>3, <1>4, <1>5, <1>6, <1>7, <1>8, <1>9, <1>10, <1>11 DEF ThreadStep

\* Any step of the library is one of the filter, or a stutter.
LEMMA NextRefines ==
    IInv /\ [Next]_vars => [Filter!Next]_<<level_log, chosen, Leaked>>
<1> SUFFICES ASSUME IInv, [Next]_vars PROVE [Filter!Next]_<<level_log, chosen, Leaked>>
    OBVIOUS
<1> USE DEF threadVars, filterVars
<1>1. CASE UNCHANGED vars
  BY <1>1, LeakedStays DEF vars
<1>2. ASSUME NEW c \in Callers, LogStep(c) PROVE UNCHANGED <<level_log, chosen, Leaked>>
  BY <1>2, LeakedStays DEF LogStep, LogMemset, LogSprintf, LogSendto
<1>3. CASE NetworkStep
  BY <1>3, LeakedStays DEF NetworkStep, ServerSends, ServerReceives
<1> QED BY <1>1, <1>2, <1>3, ProgramRefines, ThreadRefines DEF Next, LibraryStep

\* The library implements LogFilter: the network sets DEBUG or CRITICAL only,
\* and one unrecognised command ends its influence (Logger.cpp:145-170).
THEOREM Refinement == Spec => FilterRefined
<1> QED BY InitRefines, NextRefines, Invariance, PTL
        DEF Spec, SafetySpec, FilterRefined, Filter!Spec
=============================================================================
