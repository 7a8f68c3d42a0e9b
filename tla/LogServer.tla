---------------------------- MODULE LogServer ----------------------------
(***************************************************************************)
(* The logging server of Assignments/A2 (LogServer.cpp): the main thread   *)
(* runs the operator's menu, a detached thread receives records into the   *)
(* log file.  Both use the same 256-byte buffer; the mutex is left out,    *)
(* since the receive thread alone locks it.  One action is one access to   *)
(* what the threads share.  LogSystem composes the server with a client.   *)
(***************************************************************************)
EXTENDS LogTypes

CONSTANT Choices   \* numbers the operator may answer

ASSUME ChoicesAssumption == Choices \subseteq Nat

VARIABLES
    isWorking, inputWorking,   \* LogServer.cpp:57
    buf,             \* the buffer of LogServer.cpp:56
    client_address,  \* socket the last datagram came from; 0 before the first
    mpc,             \* where the main thread is
    cinOk,           \* cin has not failed
    level,           \* argument of sendlevel_log while it runs
    rpc,             \* where the receive thread is
    message,         \* its copy of buf
    opened,          \* the fopen of the current iteration returned a file
    fileExists,      \* /tmp/fileLog exists
    logFile,         \* what this server appended to it
    toServer,        \* receive queue of the server's socket
    inbox            \* receive queues of the clients' sockets

mainVars == <<mpc, cinOk, level>>
recvVars == <<rpc, message>>
fileVars == <<opened, fileExists, logFile>>
flags    == <<isWorking, inputWorking>>
vars == <<flags, buf, client_address, mainVars, recvVars, fileVars, toServer, inbox>>

TypeOK ==
    /\ isWorking \in BOOLEAN
    /\ inputWorking \in BOOLEAN
    /\ buf \in Contents
    /\ client_address \in Sockets \cup {0}
    /\ mpc \in {"loop", "menu", "setlevel", "memset", "sprintf", "sendto", "dump",
                "exited", "failed"}
    /\ cinOk \in BOOLEAN
    /\ level \in LOG_LEVEL
    /\ rpc \in {"top", "open", "recv", "copy", "write", "done"}
    /\ message \in Contents
    /\ opened \in BOOLEAN
    /\ fileExists \in BOOLEAN
    /\ logFile \in Seq(Contents \ {Blank})

Init ==
    /\ isWorking = TRUE
    /\ inputWorking = TRUE
    /\ buf = Blank
    /\ client_address = 0
    /\ mpc = "loop"
    /\ cinOk = TRUE
    /\ level = DEBUG
    /\ rpc = "top"
    /\ message = Blank
    /\ opened = FALSE
    /\ fileExists \in BOOLEAN   \* an earlier server may have left one
    /\ logFile = <<>>

\* main returning, or exit(), ends the receive thread as well.
Alive == mpc \notin {"exited", "failed"}

-----------------------------------------------------------------------------
(* The main thread.                                                        *)

Goto(place) == mpc' = place

\* Mutant: an endless menu.
MenuForever ==
    /\ mpc = "loop"
    /\ Goto("menu")
    /\ UNCHANGED <<flags, buf, client_address, cinOk, level, recvVars, fileVars, toServer, inbox>>

Menu ==
    /\ mpc = "loop"
    /\ Goto(IF inputWorking THEN "menu" ELSE "exited")
    /\ UNCHANGED <<flags, buf, client_address, cinOk, level, recvVars, fileVars, toServer, inbox>>

(***************************************************************************)
(* `cin >> user_choice`, as a relation between the choice and cin's state  *)
(* after it.  A number is read as typed.  Anything else stores 0 and makes *)
(* cin fail; so does the end of the input, which stores nothing.  Once cin *)
(* has failed nothing is stored: the uninitialised variable has any value. *)
(***************************************************************************)
Extraction(choice, ok) ==
    /\ choice \in Choices
    /\ ok \in BOOLEAN
    /\ ok => cinOk

\* The operator is waited for only while cin works.
Blocked == mpc \in {"menu", "setlevel"} /\ cinOk

Select(choice) ==
    /\ mpc = "menu"
    /\ \E ok \in BOOLEAN : Extraction(choice, ok) /\ cinOk' = ok
    /\ \/ choice = 1 /\ Goto("setlevel") /\ UNCHANGED flags
       \/ choice = 2 /\ Goto("dump") /\ UNCHANGED flags
       \/ choice = 0 /\ Goto("loop") /\ isWorking' = FALSE /\ inputWorking' = FALSE
       \/ choice \notin {0, 1, 2} /\ Goto("loop") /\ UNCHANGED flags
    /\ UNCHANGED <<buf, client_address, level, recvVars, fileVars, toServer, inbox>>

\* Mutant: the answers counted from 0.
NamedFromZero == [choice \in 1..4 |-> choice - 1]

Named == [choice \in 1..4 |-> CASE choice = 1 -> DEBUG
                                [] choice = 2 -> WARNING
                                [] choice = 3 -> ERROR
                                [] choice = 4 -> CRITICAL]

SetLevel(choice) ==
    /\ mpc = "setlevel"
    /\ \E ok \in BOOLEAN : Extraction(choice, ok) /\ cinOk' = ok
    /\ \/ choice \in 1..4 /\ Goto("memset") /\ level' = Named[choice]
       \/ choice \notin 1..4 /\ Goto("loop") /\ UNCHANGED level
    /\ UNCHANGED <<flags, buf, client_address, recvVars, fileVars, toServer, inbox>>

SendMemset ==
    /\ mpc = "memset"
    /\ buf' = Blank
    /\ Goto("sprintf")
    /\ UNCHANGED <<flags, client_address, cinOk, level, recvVars, fileVars, toServer, inbox>>

SendSprintf ==
    /\ mpc = "sprintf"
    /\ buf' = Command(level)
    /\ Goto("sendto")
    /\ UNCHANGED <<flags, client_address, cinOk, level, recvVars, fileVars, toServer, inbox>>

\* Mutant: the command goes to every socket.
SendToAll ==
    /\ mpc = "sendto"
    /\ Goto("loop")
    /\ level' = DEBUG
    /\ inbox' = [s \in Sockets |-> Enqueue(inbox[s], buf)]
    /\ UNCHANGED <<flags, buf, client_address, cinOk, recvVars, fileVars, toServer>>

\* Before the first datagram client_address is zero, and sendto fails.
SendSendto ==
    /\ mpc = "sendto"
    /\ Goto("loop")
    /\ level' = DEBUG
    /\ inbox' = [s \in Sockets |->
                    IF s = client_address THEN Enqueue(inbox[s], buf) ELSE inbox[s]]
    /\ UNCHANGED <<flags, buf, client_address, cinOk, recvVars, fileVars, toServer>>

\* A log file that is not there ends the server.
Dump ==
    /\ mpc = "dump"
    /\ Goto(IF fileExists THEN "loop" ELSE "failed")
    /\ UNCHANGED <<flags, buf, client_address, cinOk, level, recvVars, fileVars, toServer, inbox>>

\* The handler runs without SA_RESTART, so the signal ends a read that waits,
\* and cin fails; a signal that comes before the read, or that another thread
\* gets, leaves main to wait in it.
SigInt ==
    /\ Alive
    /\ isWorking' = FALSE
    /\ inputWorking' = FALSE
    /\ \/ UNCHANGED cinOk
       \/ Blocked /\ cinOk' = FALSE
    /\ UNCHANGED <<buf, client_address, mpc, level, recvVars, fileVars, toServer, inbox>>

-----------------------------------------------------------------------------
(* The receive thread.                                                     *)

\* The loop condition, then the memset.
Poll ==
    /\ Alive
    /\ rpc = "top"
    /\ \/ isWorking /\ buf' = Blank /\ rpc' = "open"
       \/ ~isWorking /\ rpc' = "done" /\ UNCHANGED buf
    /\ UNCHANGED <<flags, client_address, mainVars, message, fileVars, toServer, inbox>>

\* The result of fopen is not looked at: the thread receives without a file too.
OpenFile ==
    /\ Alive
    /\ rpc = "open"
    /\ rpc' = "recv"
    /\ opened' \in BOOLEAN
    /\ fileExists' = (fileExists \/ opened')
    /\ UNCHANGED <<flags, buf, client_address, mainVars, message, logFile, toServer, inbox>>

Receive ==
    /\ Alive
    /\ rpc = "recv"
    /\ toServer # <<>>
    /\ buf' = Head(toServer).data
    /\ client_address' = Head(toServer).from
    /\ toServer' = Tail(toServer)
    /\ rpc' = "copy"
    /\ UNCHANGED <<flags, mainVars, message, fileVars, inbox>>

\* Mutant: the thread ends when there is nothing to receive.
ReceiveOrStop ==
    /\ Alive
    /\ rpc = "recv"
    /\ toServer = <<>>
    /\ rpc' = "done"
    /\ UNCHANGED <<flags, buf, client_address, mainVars, message, fileVars, toServer, inbox>>

\* The 1 us timeout expires: nothing is written, sleep(1).
ReceiveNothing ==
    /\ Alive
    /\ rpc = "recv"
    /\ toServer = <<>>
    /\ opened
    /\ rpc' = "top"
    /\ UNCHANGED <<flags, buf, client_address, mainVars, message, fileVars, toServer, inbox>>

Copy ==
    /\ Alive
    /\ rpc = "copy"
    /\ message' = buf
    /\ rpc' = "write"
    /\ UNCHANGED <<flags, buf, client_address, mainVars, fileVars, toServer, inbox>>

\* Mutant: the shared buffer is written instead of its copy.
WriteBuffer ==
    /\ Alive
    /\ rpc = "write"
    /\ opened
    /\ logFile' = IF buf = Blank THEN logFile ELSE Append(logFile, buf)
    /\ message' = Blank
    /\ rpc' = "top"
    /\ UNCHANGED <<flags, buf, client_address, mainVars, opened, fileExists, toServer, inbox>>

\* The text is appended as a C string: an empty one leaves no trace.
Write ==
    /\ Alive
    /\ rpc = "write"
    /\ opened
    /\ logFile' = IF message = Blank THEN logFile ELSE Append(logFile, message)
    /\ message' = Blank
    /\ rpc' = "top"
    /\ UNCHANGED <<flags, buf, client_address, mainVars, opened, fileExists, toServer, inbox>>

\* Without a file fprintf, or fclose after a timeout, is given NULL: the
\* process dies.
WriteToNull ==
    /\ Alive
    /\ rpc = "write" \/ (rpc = "recv" /\ toServer = <<>>)
    /\ ~opened
    /\ Goto("failed")
    /\ UNCHANGED <<flags, buf, client_address, cinOk, level, recvVars, fileVars, toServer, inbox>>

-----------------------------------------------------------------------------
MainStep ==
    \/ Menu
    \/ \E choice \in Choices : Select(choice) \/ SetLevel(choice)
    \/ SendMemset
    \/ SendSprintf
    \/ SendSendto
    \/ Dump

ReceiverStep ==
    \/ Poll
    \/ OpenFile
    \/ Receive
    \/ ReceiveNothing
    \/ Copy
    \/ Write
    \/ WriteToNull

Step == MainStep \/ SigInt \/ ReceiverStep

\* Both threads are scheduled; the operator need not answer, nor press ctrl-C.
Fairness ==
    /\ WF_vars(~Blocked /\ MainStep)
    /\ WF_vars(ReceiverStep)
=============================================================================
