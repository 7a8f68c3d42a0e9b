--------------------------- MODULE LogService ---------------------------
(***************************************************************************)
(* The logging server with any clients: sockets that send it records, or   *)
(* blank datagrams, at any time.  What the log file ends up with.          *)
(***************************************************************************)
EXTENDS LogServer

VARIABLES
    sent,       \* datagrams the clients have sent so far
    received,   \* history: the texts recvfrom returned
    spoiled     \* history: a received text was overwritten before it was copied

svcVars == <<vars, sent, received, spoiled>>

SvcInit ==
    /\ Init
    /\ toServer = <<>>
    /\ inbox = [s \in Sockets |-> <<>>]
    /\ sent = 0
    /\ received = <<>>
    /\ spoiled = FALSE

Remember ==
    /\ received' = IF rpc = "recv" /\ rpc' = "copy" /\ buf' # Blank
                   THEN Append(received, buf') ELSE received
    /\ spoiled' = (spoiled \/ (rpc = "copy" /\ buf' # buf))

Serve == Step /\ Remember /\ UNCHANGED sent

\* The n-th datagram is the n-th record, or blank: Log may send a buffer that
\* another thread has cleared.
ClientSends(s) ==
    /\ sent < MaxCalls
    /\ sent' = sent + 1
    /\ \E content \in {Blank, Record(sent')} :
          toServer' = Enqueue(toServer, [from |-> s, data |-> content])
    /\ UNCHANGED <<flags, buf, client_address, mainVars, recvVars, fileVars, inbox,
                   received, spoiled>>

ClientReceives(s) ==
    /\ inbox[s] # <<>>
    /\ inbox' = [inbox EXCEPT ![s] = Tail(@)]
    /\ UNCHANGED <<flags, buf, client_address, mainVars, recvVars, fileVars, toServer,
                   sent, received, spoiled>>

SvcNext ==
    \/ Serve
    \/ \E s \in Sockets : ClientSends(s) \/ ClientReceives(s)

SvcSafetySpec == SvcInit /\ [][SvcNext]_svcVars
SvcSpec == SvcSafetySpec /\ Fairness

-----------------------------------------------------------------------------
(* Properties.                                                             *)

\* Types of the server, the queues and the history.
SvcTypeOK ==
    /\ TypeOK
    /\ toServer \in Seq([from : Sockets, data : Contents])
    /\ inbox \in [Sockets -> Seq(Contents)]
    /\ sent \in 0..MaxCalls
    /\ received \in Seq(Contents \ {Blank})
    /\ spoiled \in BOOLEAN

\* The text received and not yet in the file.
Pending ==
    IF rpc = "copy" /\ buf # Blank THEN <<buf>>
    ELSE IF rpc = "write" /\ message # Blank THEN <<message>>
    ELSE <<>>

\* As long as the menu did not write the buffer between a recvfrom and the
\* copy of it, the file holds the texts received, in order, each once: all
\* other interleavings of the two threads are harmless to the file
\* (LogServer.cpp:273-291).
FileFaithful == ~spoiled => logFile \o Pending = received

\* A shutdown, from the menu or by ctrl-C, ends the server, unless it waits
\* for the operator's next answer (LogServer.cpp:112-162, 250-255).
ShutdownCompletes == ~inputWorking ~> ~Alive \/ Blocked

\* A record that reached the server's socket is written to the file, unless
\* the server stops or a record was overwritten (LogServer.cpp:271-291).
RecordsReachFile ==
    \A n \in 1..MaxCalls :
        (\E i \in DOMAIN toServer : toServer[i].data = Record(n))
            ~> \/ \E i \in DOMAIN logFile : logFile[i] = Record(n)
               \/ ~isWorking \/ ~Alive
               \/ spoiled

\* Said of ctrl-C at LogServer.cpp:143: it shuts the server down.
SigIntShutsDown == ~inputWorking ~> ~Alive
=============================================================================
