---------------------------- MODULE QueueServer ----------------------------
(***************************************************************************)
(* The server of Lab 8 (Labs/Lab 8/server.cpp): a receive thread takes     *)
(* messages of type 4 from a System V message queue, main sends each on    *)
(* with the type of its destination, and ctrl-C ends both.                 *)
(*                                                                         *)
(* A message is its type, a number and its destination; client.h and the   *)
(* clients are not in the repository.  Number 0 is what no client sent.    *)
(***************************************************************************)
EXTENDS RelayQueue, FiniteSets

CONSTANTS
    MaxMsgs,   \* bound: messages the clients send
    Cap        \* messages the kernel's queue holds

QueueBounds == MaxMsgs \in Nat /\ Cap \in Nat \ {0}
ASSUME QueueBounds

Server   == 4
Clients  == 1..3
Quitting == MaxMsgs + 1   \* the number of the server's own "Quit"
Mail     == [id : 0..Quitting, dest : 0..Server]

VARIABLES
    isWorking,
    rpc, mess,   \* the receive thread: where it is, its local variable
    mpc, i,      \* main: where it is, the i of its last loop
    out,         \* main's message_recieve and message_send
    kq,          \* the kernel's queue: a sequence of [type, mail]
    nsent,       \* messages the clients have sent
    last,        \* client -> number of the last message it took
    stale        \* a receive failed, and what mess held was pushed

recvVars == <<rpc, mess, stale>>
mainVars == <<mpc, i, out>>
netVars  == <<kq, nsent, last>>
vars == <<queueVars, isWorking, recvVars, mainVars, netVars>>

\* The type invariant.
TypeOK ==
    /\ queue \in Seq(Mail)
    /\ {pushing, isWorking, stale} \subseteq BOOLEAN
    /\ rpc \in {"unborn", "top", "recv", "lock", "push", "done"}
    /\ {mess, out} \subseteq Mail
    /\ mpc \in {"start", "loop", "drain", "pop", "send", "quit", "join", "exited"}
    /\ i \in 0..3
    /\ kq \in Seq([type : 1..Server, mail : Mail]) /\ Len(kq) <= Cap
    /\ nsent \in 0..MaxMsgs
    /\ last \in [Clients -> 0..Quitting]

\* Main has registered its handler (line 53).  Nothing writes mess before the
\* first message.  Nothing writes out either, but only its dest could be seen,
\* in a "Quit", where no client has a use for it.
Init ==
    /\ QueueInit
    /\ isWorking = FALSE
    /\ rpc = "unborn" /\ mess \in [id : {0}, dest : 0..Server]
    /\ mpc = "start" /\ i = 0 /\ out = [id |-> 0, dest |-> 0]
    /\ kq = <<>> /\ nsent = 0
    /\ last = [c \in Clients |-> 0]
    /\ stale = FALSE

-----------------------------------------------------------------------------
(* The kernel's queue.                                                     *)

Full == Len(kq) = Cap
Waiting(t) == {k \in DOMAIN kq : kq[k].type = t}
First(t) == CHOOSE k \in Waiting(t) : \A l \in Waiting(t) : k <= l
Enqueue(t, mail) == ~Full /\ kq' = Append(kq, [type |-> t, mail |-> mail])
Dequeue(k) == kq' = SubSeq(kq, 1, k - 1) \o SubSeq(kq, k + 1, Len(kq))

-----------------------------------------------------------------------------
(* The receive thread.                                                     *)

Poll ==
    /\ rpc = "top"
    /\ rpc' = IF isWorking THEN "recv" ELSE "done"
    /\ UNCHANGED <<queueVars, isWorking, mess, stale, mainVars, netVars>>

MsgRcv ==
    /\ rpc = "recv" /\ Waiting(Server) # {}
    /\ mess' = kq[First(Server)].mail
    /\ Dequeue(First(Server))
    /\ rpc' = "lock"
    /\ UNCHANGED <<queueVars, isWorking, stale, mainVars, nsent, last>>

Lock ==
    /\ rpc = "lock" /\ rpc' = "push"
    /\ LockToPush
    /\ UNCHANGED <<isWorking, mess, stale, mainVars, netVars>>

PushMess ==
    /\ rpc = "push" /\ rpc' = "top"
    /\ Push(mess)
    /\ UNCHANGED <<isWorking, mess, stale, mainVars, netVars>>

ReceiverStep == Poll \/ MsgRcv \/ Lock \/ PushMess

-----------------------------------------------------------------------------
(* The main thread.                                                        *)

\* A ctrl-C before this is forgotten.
Start ==
    /\ mpc = "start" /\ mpc' = "loop"
    /\ isWorking' = TRUE
    /\ rpc' = "top"
    /\ UNCHANGED <<queueVars, mess, stale, i, out, netVars>>

LoopWhile(working) ==
    /\ mpc = "loop"
    /\ mpc' = IF working THEN "drain" ELSE "quit"
    /\ UNCHANGED <<queueVars, isWorking, recvVars, i, out, netVars>>

\* Mutant: while (true).
LoopForever == LoopWhile(TRUE)
Loop == LoopWhile(isWorking)

Drain ==
    /\ mpc = "drain"
    /\ \E positive \in BOOLEAN :
          SizeTest(positive) /\ mpc' = IF positive THEN "pop" ELSE "loop"
    /\ UNCHANGED <<isWorking, queueVars, recvVars, i, out, netVars>>

Take ==
    /\ mpc = "pop" /\ mpc' = "send"
    /\ \E item \in Mail : Pop(item) /\ out' = item
    /\ UNCHANGED <<isWorking, recvVars, i, netVars>>

\* msgsnd waits while the queue is full; it refuses the type 0.
Send ==
    /\ mpc = "send" /\ mpc' = "drain"
    /\ IF out.dest = 0 THEN UNCHANGED kq ELSE Enqueue(out.dest, out)
    /\ UNCHANGED <<queueVars, isWorking, recvVars, i, out, nsent, last>>

QuitUpTo(n) ==
    /\ mpc = "quit"
    /\ \/ /\ i < n /\ i' = i + 1
          /\ Enqueue(i + 1, [out EXCEPT !.id = Quitting])
          /\ UNCHANGED mpc
       \/ /\ i = n /\ mpc' = "join"
          /\ UNCHANGED <<i, kq>>
    /\ UNCHANGED <<queueVars, isWorking, recvVars, out, nsent, last>>

\* Mutant: i <= 3.
QuitFour == QuitUpTo(4)
Quit == QuitUpTo(3)

\* The kernel's queue is removed with what is in it.
Join ==
    /\ mpc = "join" /\ rpc = "done"
    /\ mpc' = "exited"
    /\ kq' = <<>>
    /\ UNCHANGED <<queueVars, isWorking, recvVars, i, out, nsent, last>>

MainStep == Start \/ Loop \/ Drain \/ Take \/ Send \/ Quit \/ Join

\* ctrl-C: the handler clears the flag, in either thread, and the system call
\* that thread was waiting in fails: the receive thread pushes what mess held,
\* main loses what it was sending.
SigInt ==
    /\ mpc # "exited"
    /\ isWorking' = FALSE
    /\ \/ UNCHANGED <<recvVars, mainVars>>
       \/ /\ rpc = "recv" /\ Waiting(Server) = {}
          /\ rpc' = "lock" /\ stale' = TRUE
          /\ UNCHANGED <<mess, mainVars>>
       \/ /\ mpc = "send" /\ out.dest # 0 /\ Full
          /\ mpc' = "drain"
          /\ UNCHANGED <<recvVars, i, out>>
       \/ /\ mpc = "quit" /\ i < 3 /\ Full
          /\ i' = i + 1
          /\ UNCHANGED <<recvVars, mpc, out>>
    /\ UNCHANGED <<queueVars, netVars>>

-----------------------------------------------------------------------------
(* The clients.                                                            *)

ClientSend(dest) ==
    /\ mpc # "exited" /\ nsent < MaxMsgs
    /\ nsent' = nsent + 1
    /\ Enqueue(Server, [id |-> nsent + 1, dest |-> dest])
    /\ UNCHANGED <<queueVars, isWorking, recvVars, mainVars, last>>

ClientReceive(c) ==
    /\ Waiting(c) # {}
    /\ last' = [last EXCEPT ![c] = kq[First(c)].mail.id]
    /\ Dequeue(First(c))
    /\ UNCHANGED <<queueVars, isWorking, recvVars, mainVars, nsent>>

Next ==
    \/ ReceiverStep
    \/ MainStep
    \/ SigInt
    \/ \E dest \in 1..Server : ClientSend(dest)
    \/ \E c \in Clients : ClientReceive(c)

\* The two threads are scheduled; the clients do as they like.
Fairness == WF_vars(ReceiverStep) /\ WF_vars(MainStep)

Spec == Init /\ [][Next]_vars /\ Fairness

-----------------------------------------------------------------------------
\* Main never takes the front of an empty queue (lines 79 to 83).
PopSafe == mpc = "pop" => queue # <<>> \/ pushing

\* The places of what is not sent on yet: with main, in the queue, with the
\* receive thread, in the kernel's queue; by stage, then by index.
Unsent ==
    (IF mpc = "send" THEN {<<2, 1, out>>} ELSE {})
       \cup {<<3, k, queue[k]>> : k \in DOMAIN queue}
       \cup (IF rpc \in {"lock", "push"} THEN {<<4, 1, mess>>} ELSE {})
       \cup {<<5, k, kq[k].mail>> : k \in Waiting(Server)}

\* The numbers a client took, has waiting for it, and will be sent, each at its
\* place.  Once main sends "Quit", what it has not sent is dropped.
Leaving == mpc \in {"quit", "join", "exited"}
Way(c) ==
    {<<0, 1, last[c]>>}
       \cup {<<1, k, kq[k].mail.id>> : k \in Waiting(c)}
       \cup (IF Leaving THEN {}
             ELSE {<<u[1], u[2], u[3].id>> : u \in {v \in Unsent : v[3].dest = c}})
Ahead(p, q) == p[1] < q[1] \/ (p[1] = q[1] /\ p[2] < q[2])

\* Every client is sent what is for it in the order it was sent to the server,
\* each once, and "Quit" last; only a receive that failed may repeat the
\* message before (lines 79 to 103, 130 to 135).
InOrder ==
    \A c \in Clients : \A p, q \in Way(c) :
        Ahead(p, q) => p[3] < q[3] \/ (stale /\ p[3] = q[3])

\* While the server works, a message in the queue is sent on, unless the
\* kernel's queue is full (lines 77 to 94).
Queued(n) == \E k \in DOMAIN queue : queue[k].id = n
Relayed ==
    \A n \in 1..MaxMsgs : Queued(n) ~> ~Queued(n) \/ ~isWorking \/ Full

\* Once it works, a ctrl-C takes main out of its loops, unless it waits for
\* room in the kernel's queue (lines 77 to 103).
ShutdownProceeds ==
    mpc # "start" /\ ~isWorking ~> mpc \in {"join", "exited"} \/ Full

\* The join ends, except that a receive thread that found nothing to receive
\* is still waiting: "Quit" does not wake it (lines 105 and 131).
JoinEnds ==
    mpc = "join" ~> mpc = "exited" \/ (rpc = "recv" /\ Waiting(Server) = {})
=============================================================================
