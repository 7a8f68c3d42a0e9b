---------------------------- MODULE LogTypes ----------------------------
(***************************************************************************)
(* What the logging library (Logger.cpp) and the logging server            *)
(* (LogServer.cpp) exchange: severities, the C string a 256-byte buffer    *)
(* holds, and the socket queues of the loopback interface.                 *)
(***************************************************************************)
EXTENDS Integers, Sequences

CONSTANTS
    MaxCalls,   \* bound: calls of Log that pass the filter, numbered 1..MaxCalls
    MaxInits,   \* bound: calls of InitializeLog, numbered 1..MaxInits
    QCap        \* datagrams a socket's receive queue holds; the next are dropped

ASSUME BoundsAssumption ==
    /\ MaxCalls \in Nat \ {0}
    /\ MaxInits \in Nat \ {0}
    /\ QCap \in Nat \ {0}

DEBUG    == -1
WARNING  == 0
ERROR    == 1
CRITICAL == 2
LOG_LEVEL == {DEBUG, WARNING, ERROR, CRITICAL}

\* The names Log indexes with the severity itself.
levelStr == [i \in 0..3 |-> CASE i = 0 -> "DEBUG"
                              [] i = 1 -> "WARNING"
                              [] i = 2 -> "ERROR"
                              [] i = 3 -> "CRITICAL"]

(***************************************************************************)
(* The C string in a buffer: nothing (first byte 0), the server's command  *)
(* "Setting Log to Level=<l>", or the text of the n-th record Log built.   *)
(***************************************************************************)
Blank      == [kind |-> "blank",   arg |-> 0]
Command(l) == [kind |-> "command", arg |-> l]
Record(n)  == [kind |-> "record",  arg |-> n]

Contents ==
    {Blank} \cup {Command(l) : l \in LOG_LEVEL} \cup {Record(n) : n \in 1..MaxCalls}

\* The k-th call of InitializeLog creates the k-th socket and the k-th thread.
Sockets == 1..MaxInits
Threads == 1..MaxInits

\* A UDP datagram that finds the receive queue full is lost.
Enqueue(queue, datagram) ==
    IF Len(queue) < QCap THEN Append(queue, datagram) ELSE queue
=============================================================================
