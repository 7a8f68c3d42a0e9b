---------------------------- MODULE LogSystem ----------------------------
(***************************************************************************)
(* A program with the logging library and the logging server, joined by    *)
(* the loopback interface: a Logger whose network is a LogServer.          *)
(***************************************************************************)
EXTENDS Logger

CONSTANT Choices

VARIABLES
    sIsWorking, sInputWorking, sBuf, client_address, mpc, cinOk, sLevel, sRpc,
    sMessage, opened, fileExists, logFile,   \* the server's state
    raced       \* history: a command was overwritten in a buffer, in either process

Server == INSTANCE LogServer WITH
    isWorking <- sIsWorking, inputWorking <- sInputWorking, buf <- sBuf,
    level <- sLevel, rpc <- sRpc, message <- sMessage

serverVars == <<sIsWorking, sInputWorking, sBuf, client_address, mpc, cinOk, sLevel, sRpc,
                sMessage, opened, fileExists, logFile>>
sysVars    == <<vars, serverVars, raced>>

SysInit ==
    /\ Init
    /\ Server!Init
    /\ raced = FALSE

\* The server sends something else than the command it built, or what the
\* library received is written over before it is copied.
Remember ==
    raced' = \/ raced
             \/ mpc = "sendto" /\ mpc' = "loop" /\ sBuf # Command(sLevel)
             \/ \E t \in Threads : rpc[t] = "copy" /\ buf' # buf

LibraryActs ==
    /\ LibraryStep
    /\ UNCHANGED serverVars
    /\ Remember

ServerActs ==
    /\ Server!Step
    /\ UNCHANGED <<isWorking, filterVars, buf, mutex, fd, sock, bound, timed, inits, appVars, threadVars>>
    /\ Remember

SysNext == LibraryActs \/ ServerActs

SysSpec == SysInit /\ [][SysNext]_sysVars

-----------------------------------------------------------------------------
(* Properties.                                                             *)

\* Types of both processes.
SysTypeOK ==
    /\ TypeOK
    /\ Server!TypeOK
    /\ raced \in BOOLEAN

\* The server is a network such as Logger assumes: it sends to sockets that
\* sent before, and nothing but blanks, commands and records already built
\* (LogServer.cpp:213-219).
ClientRefined == SafetySpec

\* A command deafens the library only if a buffer was written between the
\* sprintf and the sendto in the server, or between the recvfrom and the copy
\* in the library: no command of the menu does of itself
\* (LogServer.cpp:215-218, Logger.cpp:106, 138-170).
DeafOnlyByRace == Leaked => raced
=============================================================================
