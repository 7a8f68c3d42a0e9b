--------------------------- MODULE SelectServer ---------------------------
(***************************************************************************)
(* The server of Lab 9 (Labs/Lab 9/server.cpp): a receive thread accepts   *)
(* connections and receives texts by select, main prints the texts, and    *)
(* when select finds nothing, or several clients at once, the server asks  *)
(* its clients to quit and ends.                                           *)
(*                                                                         *)
(* The messages a client sends are numbered.  One recv returns some of     *)
(* them, after one and up to another; the string made of them ends at the  *)
(* first 0, so a text keeps only the first ones.  The time select waits is *)
(* left out: it may give up whenever nothing is ready.                     *)
(*                                                                         *)
(* A client has one connection here: one that comes back is another.       *)
(***************************************************************************)
EXTENDS RelayQueue, FiniteSets

CONSTANTS
    Clients,
    C_MAX,     \* places of fd_client, 3 in the code
    MaxMsgs,   \* bound: client -> messages it sends
    MaxQueue   \* bound: texts in the queue

SelectBounds == C_MAX \in Nat \ {0} /\ MaxMsgs \in [Clients -> Nat] /\ MaxQueue \in Nat \ {0}
ASSUME SelectBounds

VARIABLES
    is_Working, fd_client,   \* C_CNT is the length of fd_client
    rpc, text,   \* the receive thread: where it is, what it has received
    mpc, i,      \* main: where it is, the i of its last loop
    backlog,     \* connections to accept
    sent, got,   \* client -> messages it has sent, messages recv has returned
    closed,      \* clients that have closed their connection
    passed,      \* client -> messages main has printed, but for those cut off
    told         \* clients that were sent "Quit"

netVars  == <<backlog, sent, closed>>
recvVars == <<is_Working, rpc, text, got, fd_client>>
mainVars == <<mpc, i, passed, told>>
vars == <<queueVars, netVars, recvVars, mainVars>>

Members(s) == {s[k] : k \in DOMAIN s}

\* What one recv returned of a client's stream: the messages after `after` and
\* up to `upto`, of which those up to `kept` are left.
Texts == [from : Clients, after : Nat, kept : Nat, upto : Nat]

TypeOK ==
    /\ queue \in Seq(Texts) /\ Len(queue) <= MaxQueue
    /\ pushing \in BOOLEAN /\ is_Working \in BOOLEAN
    /\ fd_client \in Seq(Clients)
    /\ rpc \in {"top", "select", "lock", "push", "done", "undefined"}
    /\ text \in Texts \cup {<<>>}
    /\ mpc \in {"loop", "drain", "pop", "quit", "join", "exited", "undefined"}
    /\ i \in Nat \ {0}
    /\ backlog \in Seq(Clients)
    /\ {sent, got, passed} \subseteq [Clients -> Nat]
    /\ closed \subseteq Clients /\ told \subseteq Clients

Init ==
    /\ QueueInit
    /\ is_Working = TRUE
    /\ fd_client = <<>>
    /\ rpc = "top" /\ text = <<>>
    /\ mpc = "loop" /\ i = 1
    /\ backlog = <<>>
    /\ sent = [c \in Clients |-> 0] /\ got = sent /\ passed = sent
    /\ closed = {} /\ told = {}

-----------------------------------------------------------------------------
(* The receive thread.                                                     *)

PollFlag(working) ==
    /\ rpc = "top"
    /\ rpc' = IF working THEN "select" ELSE "done"
    /\ UNCHANGED <<queueVars, netVars, is_Working, text, got, fd_client, mainVars>>

\* Mutant: while (true).
PollForever == PollFlag(TRUE)
Poll == PollFlag(is_Working)

\* Writing past the end of fd_client may hit nothing that is used, or else
\* there is no telling what the process does next, and the model ends there.
ToTop ==
    \/ rpc' = "top" /\ UNCHANGED mpc
    \/ Len(fd_client) >= C_MAX /\ rpc' = "undefined" /\ mpc' = "undefined"

\* Mutant: a failed accept is counted, as without the else of line 77.
AcceptCounted ==
    /\ rpc = "select" /\ backlog # <<>>
    /\ backlog' = Tail(backlog)
    /\ \/ fd_client' = Append(fd_client, Head(backlog)) /\ UNCHANGED closed
       \/ fd_client' = Append(fd_client, 0) /\ closed' = closed \cup {Head(backlog)}
    /\ ToTop
    /\ UNCHANGED <<queueVars, sent, is_Working, text, got, i, passed, told>>

\* A connection goes first, whatever else is ready; it may have been aborted
\* meanwhile.  That there is room for it is not checked.
Accept ==
    /\ rpc = "select" /\ backlog # <<>>
    /\ backlog' = Tail(backlog)
    /\ \/ fd_client' = Append(fd_client, Head(backlog)) /\ UNCHANGED closed
       \/ closed' = closed \cup {Head(backlog)} /\ UNCHANGED fd_client
    /\ ToTop
    /\ UNCHANGED <<queueVars, sent, is_Working, text, got, i, passed, told>>

\* At the end of its stream a client is ready for ever.
Ready == {c \in Members(fd_client) : got[c] < sent[c] \/ c \in closed}

\* One client is ready: recv returns some of what it has sent, of which the
\* string keeps what comes before the first 0.  At the end of the stream both
\* are empty.
Receive ==
    /\ rpc = "select" /\ backlog = <<>> /\ Len(queue) < MaxQueue
    /\ \E c \in Clients : \E n \in got[c]..sent[c] : \E k \in got[c]..n :
          /\ Ready = {c}
          /\ n = got[c] => got[c] = sent[c]
          /\ text' = [from |-> c, after |-> got[c], kept |-> k, upto |-> n]
          /\ got' = [got EXCEPT ![c] = n]
    /\ rpc' = "lock"
    /\ UNCHANGED <<queueVars, netVars, is_Working, fd_client, mainVars>>

StopTo(working) ==
    /\ rpc = "select" /\ backlog = <<>>
    /\ Cardinality(Ready) # 1
    /\ is_Working' = working
    /\ rpc' = "top"
    /\ UNCHANGED <<queueVars, netVars, text, got, fd_client, mainVars>>

\* Mutant: when nothing is ready, select is called again.
StopIfCrowded == StopTo(Ready = {})
\* select timed out, or several clients are ready: either stops the server.
Stop == StopTo(FALSE)

Lock ==
    /\ rpc = "lock" /\ rpc' = "push"
    /\ LockToPush
    /\ UNCHANGED <<netVars, is_Working, text, got, fd_client, mainVars>>

PushText ==
    /\ rpc = "push" /\ rpc' = "top"
    /\ Push(text)
    /\ text' = <<>>
    /\ UNCHANGED <<netVars, is_Working, got, fd_client, mainVars>>

ReceiverStep == Poll \/ Accept \/ Receive \/ Stop \/ Lock \/ PushText

-----------------------------------------------------------------------------
(* The main thread.                                                        *)

Goto(place) == mpc' = place /\ UNCHANGED i

Loop ==
    /\ mpc = "loop"
    /\ Goto(IF is_Working THEN "drain" ELSE "quit")
    /\ UNCHANGED <<queueVars, netVars, recvVars, passed, told>>

Drain ==
    /\ mpc = "drain"
    /\ \E positive \in BOOLEAN :
          SizeTest(positive) /\ Goto(IF positive THEN "pop" ELSE "loop")
    /\ UNCHANGED <<queueVars, netVars, recvVars, passed, told>>

Display ==
    /\ mpc = "pop"
    /\ \E item \in Members(queue) :
          Pop(item) /\ passed' = [passed EXCEPT ![item.from] = item.upto]
    /\ Goto("drain")
    /\ UNCHANGED <<netVars, recvVars, told>>

Quit ==
    /\ mpc = "quit"
    /\ \/ /\ i <= Len(fd_client)
          /\ told' = told \cup {fd_client[i]}
          /\ i' = i + 1
          /\ UNCHANGED mpc
       \/ /\ i > Len(fd_client)
          /\ Goto("join")
          /\ UNCHANGED told
    /\ UNCHANGED <<queueVars, netVars, recvVars, passed>>

Join ==
    /\ mpc = "join" /\ rpc = "done"
    /\ Goto("exited")
    /\ UNCHANGED <<queueVars, netVars, recvVars, passed, told>>

MainStep == Loop \/ Drain \/ Display \/ Quit \/ Join

-----------------------------------------------------------------------------
(* The clients, which are not in the repository.                           *)

Connected(c) == c \in Members(fd_client) \cup Members(backlog)

Connect(c) ==
    /\ mpc \notin {"exited", "undefined"} /\ ~Connected(c) /\ c \notin closed
    /\ backlog' = Append(backlog, c)
    /\ UNCHANGED <<queueVars, sent, closed, recvVars, mainVars>>

Send(c) ==
    /\ Connected(c) /\ c \notin closed /\ sent[c] < MaxMsgs[c]
    /\ sent' = [sent EXCEPT ![c] = @ + 1]
    /\ UNCHANGED <<queueVars, backlog, closed, recvVars, mainVars>>

Close(c) ==
    /\ Connected(c) /\ c \notin closed
    /\ closed' = closed \cup {c}
    /\ UNCHANGED <<queueVars, backlog, sent, recvVars, mainVars>>

Next ==
    \/ ReceiverStep
    \/ MainStep
    \/ \E c \in Clients : Connect(c) \/ Send(c) \/ Close(c)

\* The two threads are scheduled; the clients do as they like.
Fairness == WF_vars(ReceiverStep) /\ WF_vars(MainStep)

Spec == Init /\ [][Next]_vars /\ Fairness

-----------------------------------------------------------------------------
\* Main never takes the front of an empty queue, although it read the size
\* without the lock: a wrong answer is possible only during a push, which
\* main then waits for (lines 173 to 178).
PopSafe == mpc = "pop" => queue # <<>> \/ pushing

\* What recv has returned of a client's stream is, piece by piece, what was
\* printed, then what is queued, then what the receive thread still holds: no
\* text is lost, doubled or out of order between the threads, and messages are
\* lost only behind others of the same recv (lines 96 to 108, 173 to 180).
\* What is left of it when main exits is what the server drops: nothing makes
\* main empty the queue before it leaves (line 182).
Held == IF text = <<>> THEN queue ELSE Append(queue, text)

\* Of the stream of c, the messages up to n came before place k of s; those up
\* to p came before s.
Reached(s, p, c, k, n) ==
    \/ n = p /\ \A j \in DOMAIN s : j < k => s[j].from # c
    \/ \E j \in DOMAIN s :
          /\ j < k /\ s[j].from = c /\ n = s[j].upto
          /\ \A m \in DOMAIN s : j < m /\ m < k => s[m].from # c
Prefixed(s) == \A k \in DOMAIN s : s[k].kept \in s[k].after..s[k].upto
RelayFaithful ==
    /\ \A c \in Clients :
          /\ Reached(Held, passed[c], c, Len(Held) + 1, got[c])
          /\ \A k \in DOMAIN Held :
                Held[k].from = c => Reached(Held, passed[c], c, k, Held[k].after)
    /\ Prefixed(Held)

\* When main has left its last loop every client that was ever accepted has
\* been sent "Quit", although main walks their array without the mutex: none is
\* accepted behind that loop's back (lines 70 to 86 and 186 to 191).
QuitToAll == mpc \in {"join", "exited"} => told = Members(fd_client)

\* Once select gave up, the server ends: main leaves its loops and the thread
\* it joins is not stuck (lines 55 and 191).
ShutdownCompletes == ~is_Working ~> mpc = "exited"

\* When no more is sent the server stops by itself, unless an accepted client
\* has closed its connection: that one is ready for ever, and the thread pushes
\* empty texts without end (lines 60, 96 and 115).  Or unless one too many
\* was accepted, and what it overwrote was in use (lines 70 and 86).
IdleStops == TRUE ~> ~is_Working \/ mpc = "undefined" \/ closed \cap Members(fd_client) # {}
=============================================================================
