--------------------------- MODULE IntfMonitor ---------------------------
(***************************************************************************)
(* The interface monitors of Assignments/A1 (intfMonitor.cpp): one process *)
(* for each network interface, which talks to the network monitor over a   *)
(* local stream socket.  The server's half is in NetMonitor.               *)
(*                                                                         *)
(* A stream has no message boundaries: a read takes all that has arrived,  *)
(* up to 255 bytes, and the C string made of it ends at the first 0, so    *)
(* the first message is returned and the ones behind it are lost.          *)
(***************************************************************************)
EXTENDS Naturals, Sequences

CONSTANT N   \* interfaces; main has room for exactly 2 (netMonitor.cpp:119)

ASSUME NAssumption == N \in Nat \ {0}

Clients  == 1..N
NoClient == 0

VARIABLES
    path,       \* of the server's socket: "absent", "bound" or "listening"
    pending,    \* clients that connected and are not yet accepted
    toSrv,      \* client -> messages on their way to the server
    toCli,      \* client -> messages on their way to the client
    srvClosed,  \* clients whose connection the server has closed
    cpc,        \* client -> where it is
    operstate,  \* client -> the operstate it last read
    link        \* client -> the operstate the kernel shows

netVars    == <<path, pending, toSrv, toCli, srvClosed>>
clientVars == <<cpc, operstate, link>>

\* The texts, without their spaces.
Messages == {"Ready", "Monitor", "Monitoring", "LinkDown", "SetLinkUp", "LinkUp",
             "ShutDown", "Done"}
Nothing == ""   \* what a read at the end of the stream, or a failed one, leaves

ClientTypeOK ==
    /\ path \in {"absent", "bound", "listening"}
    /\ pending \in Seq(Clients)
    /\ toSrv \in [Clients -> Seq(Messages)]
    /\ toCli \in [Clients -> Seq(Messages)]
    /\ srvClosed \in SUBSET Clients
    /\ cpc \in [Clients -> {"unborn", "connect", "opendir", "ready", "stats", "wait",
                            "display", "done"}]
    /\ operstate \in [Clients -> {"up", "down"}]
    /\ link \in [Clients -> {"up", "down"}]

ClientInit ==
    /\ path = "absent"
    /\ pending = <<>>
    /\ toSrv = [c \in Clients |-> <<>>]
    /\ toCli = [c \in Clients |-> <<>>]
    /\ srvClosed = {}
    /\ cpc = [c \in Clients |-> "unborn"]
    /\ operstate = [c \in Clients |-> "up"]
    /\ link \in [Clients -> {"up", "down"}]

-----------------------------------------------------------------------------
Goto(c, place) == cpc' = [cpc EXCEPT ![c] = place]

\* Exiting closes the client's socket.
Exit(c) == Goto(c, "done")

\* sendMessage, then on to a place.  Without a reader, SIGPIPE ends the client.
SendAndGoto(c, message, place) ==
    \/ /\ c \notin srvClosed
       /\ toSrv' = [toSrv EXCEPT ![c] = Append(@, message)]
       /\ Goto(c, place)
    \/ /\ c \in srvClosed
       /\ Exit(c)
       /\ UNCHANGED toSrv

\* receiveMessage: blocks while the stream is open and empty.
Receives(c, message) ==
    \/ toCli[c] # <<>> /\ message = Head(toCli[c])
    \/ toCli[c] = <<>> /\ c \in srvClosed /\ message = Nothing

Drained(c) == toCli' = [toCli EXCEPT ![c] = <<>>]

-----------------------------------------------------------------------------
\* Refused unless the server listens already: the client gives up at once.  A
\* client that gets no socket gives up too, and removes the server's path.
Connect(c) ==
    /\ cpc[c] = "connect"
    /\ \/ /\ path = "listening"
          /\ pending' = Append(pending, c)
          /\ Goto(c, "opendir")
          /\ UNCHANGED path
       \/ /\ path # "listening"
          /\ Exit(c)
          /\ UNCHANGED <<path, pending>>
       \/ /\ path' = "absent"
          /\ Exit(c)
          /\ UNCHANGED pending
    /\ UNCHANGED <<toSrv, toCli, srvClosed, operstate, link>>

\* The interface may not exist.
OpenDir(c) ==
    /\ cpc[c] = "opendir"
    /\ Goto(c, "ready") \/ Exit(c)
    /\ UNCHANGED <<netVars, operstate, link>>

\* Mutant: the client waits for a command without saying it is ready.
SkipReady(c) ==
    /\ cpc[c] = "ready"
    /\ Goto(c, "stats")
    /\ UNCHANGED <<netVars, operstate, link>>

SendReady(c) ==
    /\ cpc[c] = "ready"
    /\ SendAndGoto(c, "Ready", "stats")
    /\ UNCHANGED <<path, pending, toCli, srvClosed, operstate, link>>

\* The eleven statistics files, of which only operstate matters later.  They
\* are read before the command that asks for them is waited for.
ReadStats(c) ==
    /\ cpc[c] = "stats"
    /\ operstate' = [operstate EXCEPT ![c] = link[c]]
    /\ Goto(c, "wait")
    /\ UNCHANGED <<netVars, link>>

Monitor(c) ==
    /\ cpc[c] = "wait"
    /\ Receives(c, "Monitor")
    /\ Drained(c)
    /\ SendAndGoto(c, "Monitoring", "display")
    /\ UNCHANGED <<path, pending, srvClosed, operstate, link>>

\* Mutant: the report does not end the display.
ReportAndDisplay(c) ==
    /\ cpc[c] = "display"
    /\ operstate[c] = "down"
    /\ SendAndGoto(c, "LinkDown", "display")
    /\ UNCHANGED <<path, pending, toCli, srvClosed, operstate, link>>

\* The display loop tests values read before it: it ends after one round if
\* the interface was down, and otherwise never.
ReportDown(c) ==
    /\ cpc[c] = "display"
    /\ operstate[c] = "down"
    /\ SendAndGoto(c, "LinkDown", "stats")
    /\ UNCHANGED <<path, pending, toCli, srvClosed, operstate, link>>

\* interfaceUp: the ioctl may fail, which also removes the server's path; it
\* may succeed, with the carrier still down.
SetLinkUp(c) ==
    /\ cpc[c] = "wait"
    /\ Receives(c, "SetLinkUp")
    /\ Drained(c)
    /\ \/ /\ link' \in {link, [link EXCEPT ![c] = "up"]}
          /\ SendAndGoto(c, "LinkUp", "stats")
          /\ UNCHANGED path
       \/ /\ path' = "absent"
          /\ Exit(c)
          /\ UNCHANGED <<link, toSrv>>
    /\ UNCHANGED <<pending, srvClosed, operstate>>

\* Mutant: the request to quit is not answered.
ShutDownSilently(c) ==
    /\ cpc[c] = "wait"
    /\ Receives(c, "ShutDown")
    /\ Drained(c)
    /\ Goto(c, "stats")
    /\ UNCHANGED <<path, pending, toSrv, srvClosed, operstate, link>>

ShutDown(c) ==
    /\ cpc[c] = "wait"
    /\ Receives(c, "ShutDown")
    /\ Drained(c)
    /\ SendAndGoto(c, "Done", "done")
    /\ UNCHANGED <<path, pending, srvClosed, operstate, link>>

\* Also the end of the stream: the client then asks again, for ever.
Unknown(c) ==
    /\ cpc[c] = "wait"
    /\ \E message \in (Messages \cup {Nothing}) \ {"Monitor", "SetLinkUp", "ShutDown"} :
          Receives(c, message)
    /\ Drained(c)
    /\ Goto(c, "stats")
    /\ UNCHANGED <<path, pending, toSrv, srvClosed, operstate, link>>

ClientStep(c) ==
    \/ Connect(c)
    \/ OpenDir(c)
    \/ SendReady(c)
    \/ ReadStats(c)
    \/ Monitor(c)
    \/ ReportDown(c)
    \/ SetLinkUp(c)
    \/ ShutDown(c)
    \/ Unknown(c)

\* A cable is plugged in or pulled out.
LinkChanges(c) ==
    /\ link' = [link EXCEPT ![c] = IF @ = "up" THEN "down" ELSE "up"]
    /\ UNCHANGED <<netVars, cpc, operstate>>
=============================================================================
