--------------------------- MODULE NetMonitor ---------------------------
(***************************************************************************)
(* The network monitor of Assignments/A1 (netMonitor.cpp) with the         *)
(* interface monitors it starts.  It forks them before its socket exists,  *)
(* shakes hands with each in the order they connect, then answers the one  *)
(* that connected last until SIGINT, and then shuts all of them down.      *)
(***************************************************************************)
EXTENDS IntfMonitor

VARIABLES
    isWorking,    \* cleared by SIGINT (netMonitor.cpp:47)
    interrupted,  \* the system call the server is blocked in will fail
    mpc,          \* where the server is
    idx,          \* the i of its loops, from 1
    retRecv,      \* the connection of the last accept; NoClient when it failed
    connectedFDs  \* the connections, by order of arrival

serverVars == <<isWorking, interrupted, mpc, idx, retRecv, connectedFDs>>
vars == <<netVars, clientVars, serverVars>>

TypeOK ==
    /\ ClientTypeOK
    /\ isWorking \in BOOLEAN
    /\ interrupted \in BOOLEAN
    /\ mpc \in {"fork", "bind", "listen", "accept", "ready", "monitoring", "loop",
                "quit", "answer", "exited", "failed", "killed"}
    /\ idx \in Clients
    /\ retRecv \in Clients \cup {NoClient}
    /\ connectedFDs \in [Clients -> Clients \cup {NoClient}]

Init ==
    /\ ClientInit
    /\ isWorking = TRUE
    /\ interrupted = FALSE
    /\ mpc = "fork"
    /\ idx = 1
    /\ retRecv = NoClient
    /\ connectedFDs = [i \in Clients |-> NoClient]

Ended == mpc \in {"exited", "failed", "killed"}

-----------------------------------------------------------------------------
\* receiveMessage from the server's side of a connection.  A descriptor of -1
\* and an interrupted read leave the buffer empty.
Heard(c, message) ==
    \/ interrupted /\ message = Nothing
    \/ ~interrupted /\ c = NoClient /\ message = Nothing
    \/ /\ ~interrupted /\ c # NoClient
       /\ \/ toSrv[c] # <<>> /\ message = Head(toSrv[c])
          \/ toSrv[c] = <<>> /\ cpc[c] = "done" /\ message = Nothing

\* Hearing takes all that has arrived, unless the call was interrupted.
Taken(c) ==
    /\ interrupted' = FALSE
    /\ toSrv' = [d \in Clients |-> IF d = c /\ ~interrupted THEN <<>> ELSE toSrv[d]]

\* sendMessage, then on to a place.  Writing to a client that has gone raises
\* SIGPIPE, which nobody handles: the server ends, and its path stays.
TellAndGoto(c, message, place) ==
    \/ /\ c # NoClient /\ cpc[c] # "done"
       /\ toCli' = [toCli EXCEPT ![c] = Append(@, message)]
       /\ mpc' = place
       /\ UNCHANGED <<path, srvClosed>>
    \/ /\ c # NoClient /\ cpc[c] = "done"
       /\ mpc' = "killed"
       /\ path' = IF path = "listening" THEN "bound" ELSE path
       /\ srvClosed' = Clients
       /\ UNCHANGED toCli
    \/ /\ c = NoClient
       /\ mpc' = place
       /\ UNCHANGED <<path, srvClosed, toCli>>

\* Mutant: the loop variable is not reset, as with a shared i.
NextTurnNoReset(again, after) ==
    /\ idx' = idx + 1
    /\ mpc' = IF idx < N THEN again ELSE after

\* The end of a turn of a loop over the clients.
NextTurn(again, after) ==
    IF idx < N THEN idx' = idx + 1 /\ mpc' = again
               ELSE idx' = 1 /\ mpc' = after

-----------------------------------------------------------------------------
Fork ==
    /\ mpc = "fork"
    /\ Goto(idx, "connect")
    /\ NextTurn("fork", "bind")
    /\ UNCHANGED <<netVars, operstate, link, isWorking, interrupted, retRecv, connectedFDs>>

\* Mutant: the path is unlinked after the bind.
BindThenUnlink ==
    /\ mpc = "bind"
    /\ path' = "absent"
    /\ mpc' = "listen"
    /\ UNCHANGED <<pending, toSrv, toCli, srvClosed, clientVars, isWorking, interrupted, idx,
                   retRecv, connectedFDs>>

\* socket, unlink of an old path, bind.  When one of them fails the server
\* removes the path and exits.
Bind ==
    /\ mpc = "bind"
    /\ \/ path' = "bound" /\ mpc' = "listen"
       \/ path' = "absent" /\ mpc' = "failed"
    /\ UNCHANGED <<pending, toSrv, toCli, srvClosed, clientVars, isWorking, interrupted, idx,
                   retRecv, connectedFDs>>

Listen ==
    /\ mpc = "listen"
    /\ path' = IF path = "bound" THEN "listening" ELSE path
    /\ mpc' = "accept"
    /\ UNCHANGED <<pending, toSrv, toCli, srvClosed, clientVars, isWorking, interrupted, idx,
                   retRecv, connectedFDs>>

Accept ==
    /\ mpc = "accept"
    /\ \/ /\ ~interrupted /\ pending # <<>>
          /\ retRecv' = Head(pending)
          /\ pending' = Tail(pending)
       \/ /\ interrupted
          /\ retRecv' = NoClient
          /\ UNCHANGED pending
    /\ interrupted' = FALSE
    /\ connectedFDs' = [connectedFDs EXCEPT ![idx] = retRecv']
    /\ mpc' = "ready"
    /\ UNCHANGED <<path, toSrv, toCli, srvClosed, clientVars, isWorking, idx>>

\* Mutant: monitoring is asked for without waiting for "Ready".
MonitorAtOnce ==
    /\ mpc = "ready"
    /\ interrupted' = FALSE
    /\ TellAndGoto(retRecv, "Monitor", "monitoring")
    /\ UNCHANGED <<pending, toSrv, clientVars, isWorking, idx, retRecv, connectedFDs>>

\* Whatever was received, monitoring is asked for.
AwaitReady ==
    /\ mpc = "ready"
    /\ \E message \in Messages \cup {Nothing} : Heard(retRecv, message)
    /\ Taken(retRecv)
    /\ TellAndGoto(retRecv, "Monitor", "monitoring")
    /\ UNCHANGED <<pending, clientVars, isWorking, idx, retRecv, connectedFDs>>

AwaitMonitoring ==
    /\ mpc = "monitoring"
    /\ \E message \in Messages \cup {Nothing} :
          /\ Heard(retRecv, message)
          /\ \/ /\ message = "Monitoring"
                /\ NextTurn("listen", "loop")
                /\ UNCHANGED <<path, srvClosed, toCli>>
             \/ /\ message # "Monitoring"
                /\ TellAndGoto(retRecv, "ShutDown", IF idx < N THEN "listen" ELSE "loop")
                /\ idx' = IF idx < N THEN idx + 1 ELSE 1
    /\ Taken(retRecv)
    /\ UNCHANGED <<pending, clientVars, isWorking, retRecv, connectedFDs>>

\* The do-while loop: `continue` goes to its condition.
AfterMessage == IF isWorking THEN "loop" ELSE "quit"

\* Mutant: anything but "Link Up" is taken for a link that is down.
ServeByDefault ==
    /\ mpc = "loop"
    /\ \E message \in Messages \cup {Nothing} :
          /\ Heard(retRecv, message)
          /\ \/ message # "LinkUp" /\ TellAndGoto(retRecv, "SetLinkUp", AfterMessage)
             \/ message = "LinkUp" /\ TellAndGoto(retRecv, "Monitor", AfterMessage)
    /\ Taken(retRecv)
    /\ UNCHANGED <<pending, clientVars, isWorking, idx, retRecv, connectedFDs>>

\* Mutant: "Link Up" is not answered.
ServeDownOnly ==
    /\ mpc = "loop"
    /\ \E message \in Messages \cup {Nothing} :
          /\ Heard(retRecv, message)
          /\ \/ message = "LinkDown" /\ TellAndGoto(retRecv, "SetLinkUp", AfterMessage)
             \/ /\ message # "LinkDown"
                /\ mpc' = AfterMessage
                /\ UNCHANGED <<path, srvClosed, toCli>>
    /\ Taken(retRecv)
    /\ UNCHANGED <<pending, clientVars, isWorking, idx, retRecv, connectedFDs>>

Serve ==
    /\ mpc = "loop"
    /\ \E message \in Messages \cup {Nothing} :
          /\ Heard(retRecv, message)
          /\ \/ message = "LinkDown" /\ TellAndGoto(retRecv, "SetLinkUp", AfterMessage)
             \/ message = "LinkUp" /\ TellAndGoto(retRecv, "Monitor", AfterMessage)
             \/ /\ message \notin {"LinkDown", "LinkUp"}
                /\ mpc' = AfterMessage
                /\ UNCHANGED <<path, srvClosed, toCli>>
    /\ Taken(retRecv)
    /\ UNCHANGED <<pending, clientVars, isWorking, idx, retRecv, connectedFDs>>

Quit ==
    /\ mpc = "quit"
    /\ TellAndGoto(connectedFDs[idx], "ShutDown", "answer")
    /\ UNCHANGED <<pending, toSrv, clientVars, isWorking, interrupted, idx, retRecv, connectedFDs>>

\* After the last answer, whatever it was, the server exits.
AwaitDone ==
    /\ mpc = "answer"
    /\ \E message \in Messages \cup {Nothing} :
          /\ Heard(connectedFDs[idx], message)
          /\ srvClosed' = IF idx = N THEN Clients
                          ELSE IF message = "Done" THEN srvClosed \cup {connectedFDs[idx]}
                          ELSE srvClosed
    /\ Taken(connectedFDs[idx])
    /\ NextTurn("quit", "exited")
    /\ path' = IF idx = N THEN "absent" ELSE path
    /\ UNCHANGED <<pending, toCli, clientVars, isWorking, retRecv, connectedFDs>>

-----------------------------------------------------------------------------
\* The system call the server is in waits.
Waiting ==
    \/ mpc = "accept" /\ pending = <<>>
    \/ /\ mpc \in {"ready", "monitoring", "loop"}
       /\ retRecv # NoClient /\ toSrv[retRecv] = <<>> /\ cpc[retRecv] # "done"
    \/ /\ mpc = "answer"
       /\ connectedFDs[idx] # NoClient
       /\ toSrv[connectedFDs[idx]] = <<>> /\ cpc[connectedFDs[idx]] # "done"

\* SIGINT to the server alone, or from the terminal to its clients as well,
\* which do not handle it.  It interrupts a call that waits; one that is just
\* about to be made waits on.
SigInt ==
    /\ ~Ended
    /\ isWorking' = FALSE
    /\ \/ UNCHANGED interrupted
       \/ Waiting /\ interrupted' = TRUE
    /\ \/ UNCHANGED cpc
       \/ cpc' = [c \in Clients |-> IF cpc[c] = "unborn" THEN "unborn" ELSE "done"]
    /\ UNCHANGED <<netVars, operstate, link, mpc, idx, retRecv, connectedFDs>>

ServerStep ==
    \/ Fork
    \/ Bind
    \/ Listen
    \/ Accept
    \/ AwaitReady
    \/ AwaitMonitoring
    \/ Serve
    \/ Quit
    \/ AwaitDone

Next ==
    \/ ServerStep
    \/ SigInt
    \/ \E c \in Clients : (ClientStep(c) \/ LinkChanges(c)) /\ UNCHANGED serverVars

\* Every process is scheduled; cables and signals come or not.
Fairness ==
    /\ WF_vars(ServerStep)
    /\ \A c \in Clients : WF_vars(ClientStep(c) /\ UNCHANGED serverVars)

Spec == Init /\ [][Next]_vars /\ Fairness

-----------------------------------------------------------------------------
(* Properties.                                                             *)

\* All that waits on a stream fits the 255 bytes of one read, at most 12 for a
\* message: a read never splits a message (netMonitor.cpp:72-77).
StreamsFit ==
    \A c \in Clients : 12 * Len(toSrv[c]) <= 255 /\ 12 * Len(toCli[c]) <= 255

\* Before SIGINT a client has at most one command to read, so none is lost
\* behind another one (netMonitor.cpp:170, 185-187, intfMonitor.cpp:235).
CommandsSingle == isWorking => \A c \in Clients : Len(toCli[c]) <= 1

\* The client that is told to set its link up is the one being served, which
\* then does nothing but read (netMonitor.cpp:184, intfMonitor.cpp:259-274).
RepairExpected ==
    \A c \in Clients :
        \A i \in DOMAIN toCli[c] :
            toCli[c][i] = "SetLinkUp" =>
                /\ c = retRecv
                /\ cpc[c] \in {"stats", "wait", "done"}

\* A client connects, and then the server accepts its connection.
Arrived(c)  == \E k \in DOMAIN pending : pending[k] = c
Accepted(c) == retRecv = c \/ \E k \in Clients : connectedFDs[k] = c
GaveUp      == \E c \in Clients : cpc[c] = "done" /\ ~Arrived(c) /\ ~Accepted(c)

\* While clients are awaited the server's path is there, so that the wait can
\* end, unless a client gave up before it had a connection: only such a one may
\* have removed it (netMonitor.cpp:144-160, intfMonitor.cpp:79-83, 122-138).
PathWhileAccepting == mpc = "accept" => path = "listening" \/ GaveUp

\* The start ends in monitoring, unless a client gave up
\* (netMonitor.cpp:122-178, intfMonitor.cpp:133-166).
StartCompletes == mpc = "fork" ~> mpc = "loop" \/ Ended \/ \E c \in Clients : cpc[c] = "done"

\* The client being served has reported its link down.
Reported(c) ==
    mpc = "loop" /\ retRecv = c /\ \E i \in DOMAIN toSrv[c] : toSrv[c][i] = "LinkDown"

\* Something else has arrived before the report: one read will take both, and
\* only the first of them is looked at.
Behind(c) == Head(toSrv[c]) # "LinkDown"

\* A report of the client being served leads to its link being set up and its
\* monitoring resumed, unless the report is behind another message
\* (netMonitor.cpp:181-191, intfMonitor.cpp:235-274).
RepairCompletes ==
    \A c \in Clients :
        Reported(c) /\ ~Behind(c) ~> cpc[c] \in {"display", "done"} \/ ~isWorking \/ Ended

\* SIGINT has missed the call the server waits in, and nobody will end the wait.
Missed == mpc \in {"accept", "loop"} /\ Waiting

\* After SIGINT the server ends, unless it waits for ever because the signal came
\* before the call it was meant to interrupt, or because a client displays an
\* interface that was up (netMonitor.cpp:159-160, 182-209, intfMonitor.cpp:245-256).
ShutdownCompletes ==
    ~isWorking
        ~> \/ Ended
           \/ \E c \in Clients : cpc[c] = "display" /\ operstate[c] = "up"
           \/ []Missed

\* Said at intfMonitor.cpp:276 of a client that receives "Shut Down", and here of
\* one that is sent it: it closes its connection and ends.
ShutDownObeyed ==
    \A c \in Clients :
        (\E i \in DOMAIN toCli[c] : toCli[c][i] = "ShutDown") ~> cpc[c] = "done"
=============================================================================
