------------------------ MODULE SelectServerProofs ------------------------
(***************************************************************************)
(* What holds of the server of Lab 9 for any number of clients and         *)
(* messages: what recv returned passes to the screen piece by piece and in *)
(* order, main never pops an empty queue, and tells every client to quit.  *)
(***************************************************************************)
EXTENDS SelectServer, SequenceTheorems, TLAPS

\* What the queue's safety depends on: it is a queue of texts.  And the backlog
\* is one of clients.
QueueType ==
    /\ queue \in Seq(Texts)
    /\ text \in Texts \cup {<<>>}
    /\ rpc \in {"lock", "push"} => text \in Texts
    /\ {sent, got} \subseteq [Clients -> Nat]
    /\ backlog \in Seq(Clients)

\* Once the flag is cleared, the receive thread goes to its test and from
\* there to its end: it accepts nobody.
Stopping ==
    /\ is_Working = FALSE => rpc \in {"top", "done"}
    /\ mpc = "undefined" => rpc = "undefined"

\* Main leaves its loop only when the flag is cleared, and has told the
\* clients before its index.
ToldSoFar ==
    /\ i \in Nat \ {0} /\ fd_client \in Seq(Clients)
    /\ is_Working \in BOOLEAN
    /\ mpc \in {"loop", "drain", "pop", "quit", "join", "exited", "undefined"}
    /\ mpc \in {"quit", "join", "exited"} => is_Working = FALSE
    /\ mpc \in {"loop", "drain", "pop"} => i = 1
    /\ mpc # "join" /\ mpc # "exited" => i <= Len(fd_client) + 1
    /\ mpc \in {"join", "exited"} => i = Len(fd_client) + 1
    /\ told = {fd_client[k] : k \in 1..(i - 1)}

\* The receive thread holds a text from recv until the push, for which there
\* is still room: only it adds to the queue.
InHand ==
    /\ rpc \in {"top", "select", "lock", "push", "done", "undefined"}
    /\ pushing \in BOOLEAN
    /\ rpc \in {"lock", "push"} => Len(queue) < MaxQueue
    /\ rpc \notin {"lock", "push"} => text = <<>>
    /\ Len(queue) <= MaxQueue
    /\ passed \in [Clients -> Nat]
    /\ closed \subseteq Clients

IInv ==
    /\ QueueType /\ PopSafe /\ Stopping /\ ToldSoFar
    /\ InHand /\ RelayFaithful

USE SelectBounds DEF SelectBounds

-----------------------------------------------------------------------------
(* Sequences.                                                              *)

\* An element more, behind the others.
LEMMA Behind ==
    ASSUME NEW S, NEW s \in Seq(S), NEW x \in S
    PROVE  /\ Append(s, x) \in Seq(S) /\ Len(s) \in Nat /\ DOMAIN s = 1..Len(s)
           /\ Len(Append(s, x)) = Len(s) + 1 /\ DOMAIN Append(s, x) = 1..(Len(s) + 1)
           /\ \A k \in 1..Len(s) : Append(s, x)[k] = s[k]
           /\ Append(s, x)[Len(s) + 1] = x
<1>1. /\ Append(s, x) \in Seq(S) /\ Len(Append(s, x)) = Len(s) + 1
      /\ \A k \in 1..Len(s) : Append(s, x)[k] = s[k]
      /\ Append(s, x)[Len(s) + 1] = x
  BY AppendProperties
<1>2. /\ DOMAIN s = 1..Len(s) /\ Len(s) \in Nat
      /\ DOMAIN Append(s, x) = 1..Len(Append(s, x))
  BY <1>1, LenProperties
<1> QED BY <1>1, <1>2

\* The first element gone, the others one place ahead.
LEMMA Ahead ==
    ASSUME NEW S, NEW s \in Seq(S), s # <<>>
    PROVE  /\ Len(s) \in Nat \ {0} /\ DOMAIN s = 1..Len(s)
           /\ Head(s) \in S /\ Head(s) = s[1]
           /\ Tail(s) \in Seq(S) /\ Len(Tail(s)) = Len(s) - 1
           /\ DOMAIN Tail(s) = 1..(Len(s) - 1)
           /\ \A k \in 1..(Len(s) - 1) : Tail(s)[k] = s[k + 1]
<1>1. /\ Len(s) \in Nat \ {0} /\ DOMAIN s = 1..Len(s)
      /\ Head(s) \in S /\ Tail(s) \in Seq(S) /\ Len(Tail(s)) = Len(s) - 1
      /\ \A k \in 1..Len(Tail(s)) : Tail(s)[k] = s[k + 1]
  BY EmptySeq, LenProperties, HeadTailProperties
<1>2. DOMAIN Tail(s) = 1..(Len(s) - 1)
  BY <1>1, LenProperties
<1>3. Head(s) = s[1]
  OBVIOUS
<1> QED BY <1>1, <1>2, <1>3

\* The first element of a longer queue is the same, and so is what follows it.
LEMMA TailOfLonger ==
    ASSUME NEW S, NEW s \in Seq(S), s # <<>>, NEW x \in S
    PROVE  /\ Append(s, x) # <<>> /\ Head(Append(s, x)) = Head(s)
           /\ Tail(Append(s, x)) = Append(Tail(s), x)
<1>1. /\ Len(s) \in Nat \ {0} /\ Head(s) = s[1] /\ Tail(s) \in Seq(S)
      /\ Len(Tail(s)) = Len(s) - 1
      /\ \A k \in 1..(Len(s) - 1) : Tail(s)[k] = s[k + 1]
  BY Ahead
<1> DEFINE a == Append(s, x)
           t == Tail(s)
           b == Append(t, x)
<1>2. /\ a \in Seq(S) /\ Len(a) = Len(s) + 1 /\ a[Len(s) + 1] = x
      /\ \A k \in 1..Len(s) : a[k] = s[k]
  BY Behind
<1>3. /\ b \in Seq(S) /\ Len(b) = Len(t) + 1 /\ b[Len(t) + 1] = x
      /\ \A k \in 1..Len(t) : b[k] = t[k]
  BY <1>1, Behind
<1>4. Len(a) # 0 /\ (a = <<>> => Len(a) = 0)
  BY <1>1, <1>2
<1>5. /\ Head(a) = a[1] /\ Tail(a) \in Seq(S) /\ Len(Tail(a)) = Len(a) - 1
      /\ \A k \in 1..(Len(a) - 1) : Tail(a)[k] = a[k + 1]
  BY <1>2, <1>4, Ahead
<1> DEFINE u == Tail(a)
<1>6. /\ Len(t) = Len(s) - 1 /\ \A k \in 1..(Len(s) - 1) : t[k] = s[k + 1]
  BY <1>1
<1>7. /\ u \in Seq(S) /\ Len(u) = Len(a) - 1 /\ \A k \in 1..(Len(a) - 1) : u[k] = a[k + 1]
  BY <1>5
<1> HIDE DEF a, b, t, u
<1>8. Len(u) = Len(b)
  BY <1>1, <1>2, <1>3, <1>6, <1>7
<1>9. ASSUME NEW k \in 1..Len(u) PROVE u[k] = b[k]
  <2>1. k \in 1..Len(s) /\ u[k] = a[k + 1]
    BY <1>1, <1>2, <1>7
  <2>2. CASE k = Len(s)
    BY <1>1, <1>2, <1>3, <1>6, <2>1, <2>2
  <2>3. CASE k # Len(s)
    <3>1. k \in 1..(Len(s) - 1) /\ k + 1 \in 1..Len(s)
      <4> DEFINE n == Len(s)
      <4>1. n \in Nat /\ k \in 1..n /\ k # n
        BY <1>1, <2>1, <2>3
      <4> HIDE DEF n
      <4>2. k \in 1..(n - 1) /\ k + 1 \in 1..n
        BY <4>1
      <4> QED BY <4>2 DEF n
    <3>2. k \in 1..Len(t)
      BY <1>6, <3>1
    <3> QED BY <1>2, <1>3, <1>6, <2>1, <3>1, <3>2
  <2> QED BY <2>2, <2>3
<1>10. u = b
  BY <1>3, <1>7, <1>8, <1>9, SeqEqual
<1>11. Head(a) = Head(s)
  <2>1. 1 \in 1..Len(s)
    BY <1>1
  <2> QED BY <1>1, <1>2, <1>5, <2>1
<1> QED BY <1>4, <1>10, <1>11 DEF a, b, t, u

\* A text is not nothing.
LEMMA TextIsSome == \A t \in Texts : t # <<>>
<1> SUFFICES ASSUME NEW t \in Texts PROVE t # <<>>
  OBVIOUS
<1>1. DOMAIN t = {"from", "after", "kept", "upto"}
  BY DEF Texts
<1>2. DOMAIN <<>> = {}
  OBVIOUS
<1> QED BY <1>1, <1>2

\* What is added behind does not change how far a stream was before.
LEMMA ReachedBehind ==
    ASSUME NEW s \in Seq(Texts), NEW t \in Texts, NEW p, NEW c, NEW n,
           NEW k \in 1..(Len(s) + 1), Reached(s, p, c, k, n)
    PROVE  Reached(Append(s, t), p, c, k, n)
<1>1. /\ Len(s) \in Nat /\ DOMAIN s = 1..Len(s) /\ DOMAIN Append(s, t) = 1..(Len(s) + 1)
      /\ \A j \in 1..Len(s) : Append(s, t)[j] = s[j]
  BY Behind
<1> DEFINE a == Append(s, t)
<1>2. DOMAIN a = 1..(Len(s) + 1) /\ \A j \in 1..Len(s) : a[j] = s[j]
  BY <1>1
<1> HIDE DEF a
<1>3. CASE n = p /\ \A j \in DOMAIN s : j < k => s[j].from # c
  <2>1. \A j \in DOMAIN a : j < k => a[j].from # c
    BY <1>1, <1>2, <1>3
  <2>2. Reached(a, p, c, k, n)
    BY <1>3, <2>1 DEF Reached
  <2> QED BY <2>2 DEF a
<1>4. ASSUME NEW j \in DOMAIN s, j < k, s[j].from = c, n = s[j].upto,
             \A m \in DOMAIN s : j < m /\ m < k => s[m].from # c
      PROVE  Reached(a, p, c, k, n)
  <2>1. /\ j \in DOMAIN a /\ a[j].from = c /\ n = a[j].upto
        /\ \A m \in DOMAIN a : j < m /\ m < k => a[m].from # c
    BY <1>1, <1>2, <1>4
  <2> QED BY <1>4, <2>1 DEF Reached
<1> QED BY <1>3, <1>4 DEF Reached, a

\* What is taken off the front was passed: the others follow on that.
LEMMA ReachedAhead ==
    ASSUME NEW s \in Seq(Texts), s # <<>>, NEW p, NEW q, NEW c, NEW n,
           NEW k \in 1..Len(s), Reached(s, p, c, k + 1, n),
           q = IF Head(s).from = c THEN Head(s).upto ELSE p
    PROVE  Reached(Tail(s), q, c, k, n)
<1>1. /\ Len(s) \in Nat \ {0} /\ DOMAIN s = 1..Len(s) /\ Head(s) = s[1]
      /\ DOMAIN Tail(s) = 1..(Len(s) - 1)
      /\ \A j \in 1..(Len(s) - 1) : Tail(s)[j] = s[j + 1]
  BY Ahead
<1> DEFINE a == Tail(s)
<1>2. DOMAIN a = 1..(Len(s) - 1) /\ \A j \in 1..(Len(s) - 1) : a[j] = s[j + 1]
  BY <1>1
<1> HIDE DEF a
<1>3. CASE n = p /\ \A j \in DOMAIN s : j < k + 1 => s[j].from # c
  <2>1. s[1].from # c
    BY <1>1, <1>3
  <2>2. n = q
    BY <1>1, <1>3, <2>1
  <2>3. \A j \in DOMAIN a : j < k => a[j].from # c
    BY <1>1, <1>2, <1>3
  <2>4. Reached(a, q, c, k, n)
    BY <2>2, <2>3 DEF Reached
  <2> QED BY <2>4 DEF a
<1>4. ASSUME NEW j \in DOMAIN s, j < k + 1, s[j].from = c, n = s[j].upto,
             \A m \in DOMAIN s : j < m /\ m < k + 1 => s[m].from # c
      PROVE  Reached(a, q, c, k, n)
  <2>1. CASE j = 1
    <3>1. n = q
      BY <1>1, <1>4, <2>1
    <3>2. ASSUME NEW m \in DOMAIN a, m < k PROVE a[m].from # c
      <4>1. m + 1 \in DOMAIN s /\ a[m] = s[m + 1] /\ j < m + 1 /\ m + 1 < k + 1
        BY <1>1, <1>2, <2>1, <3>2
      <4> QED BY <1>4, <4>1
    <3> QED BY <3>1, <3>2 DEF Reached
  <2>2. CASE j # 1
    <3>1. /\ j - 1 \in DOMAIN a /\ j - 1 < k /\ a[j - 1].from = c /\ n = a[j - 1].upto
      BY <1>1, <1>2, <1>4, <2>2
    <3>2. ASSUME NEW m \in DOMAIN a, j - 1 < m, m < k PROVE a[m].from # c
      <4>1. m + 1 \in DOMAIN s /\ a[m] = s[m + 1] /\ j < m + 1 /\ m + 1 < k + 1
        BY <1>1, <1>2, <1>4, <3>2
      <4> QED BY <1>4, <4>1
    <3> QED BY <3>1, <3>2 DEF Reached
  <2> QED BY <2>1, <2>2
<1> QED BY <1>3, <1>4 DEF Reached, a

-----------------------------------------------------------------------------
(* The start.                                                              *)

\* At the start the queue is empty and nobody is told.
LEMMA InitEstablishes == Init => IInv
<1> SUFFICES ASSUME Init PROVE IInv
    OBVIOUS
<1>1. QueueType
  BY DEF Init, QueueInit, QueueType
<1>2. PopSafe /\ Stopping
  BY DEF Init, PopSafe, Stopping
<1>3. ToldSoFar
  BY DEF Init, ToldSoFar
<1>4. InHand
  <2>1. rpc = "top" /\ pushing = FALSE /\ text = <<>> /\ closed = {}
    BY DEF Init, QueueInit
  <2>2. Len(queue) = 0 /\ Len(queue) <= MaxQueue
    BY DEF Init, QueueInit
  <2>3. passed \in [Clients -> Nat]
    BY DEF Init
  <2> QED BY <2>1, <2>2, <2>3 DEF InHand
<1>5. RelayFaithful
  <2>1. Held = <<>> /\ passed = got
    BY DEF Init, QueueInit, Held
  <2> QED BY <2>1 DEF RelayFaithful, Reached, Prefixed
<1> QED BY <1>1, <1>2, <1>3, <1>4, <1>5 DEF IInv

-----------------------------------------------------------------------------
(* The queue.                                                              *)

\* What recv returns, and what is left of it, ends at some message.
LEMMA Pieces ==
    ASSUME QueueType, NEW c \in Clients, NEW n \in got[c]..sent[c], NEW k \in got[c]..n
    PROVE  n \in Nat /\ k \in Nat
<1>1. got[c] \in Nat /\ sent[c] \in Nat
  BY DEF QueueType
<1> QED BY <1>1

\* Every step keeps the types of what goes through the queue.
LEMMA TypeKept == ASSUME IInv, Next PROVE QueueType'
<1> USE DEF IInv, QueueType, queueVars, netVars, recvVars, mainVars
<1>1. CASE Poll \/ Accept \/ Stop \/ Lock
  <2>1. backlog' \in Seq(Clients)
    <3>1. CASE Accept
      <4>1. backlog # <<>> /\ backlog' = Tail(backlog)
        BY <3>1 DEF Accept
      <4> QED BY <4>1
    <3>2. CASE Poll \/ Stop \/ Lock
      BY <3>2 DEF Poll, PollFlag, Stop, StopTo, Lock
    <3> QED BY <1>1, <3>1, <3>2
  <2>2. queue' = queue /\ text' = text /\ sent' = sent /\ got' = got
    BY <1>1 DEF Poll, PollFlag, Accept, ToTop, Stop, StopTo, Lock, LockToPush
  <2>3. rpc' = "push" => rpc = "lock"
    BY <1>1 DEF Poll, PollFlag, Accept, ToTop, Stop, StopTo, Lock, LockToPush
  <2>4. rpc' # "lock"
    BY <1>1 DEF Poll, PollFlag, Accept, ToTop, Stop, StopTo, Lock, LockToPush
  <2> QED BY <2>1, <2>2, <2>3, <2>4
<1>2. CASE Receive
  <2>1. PICK c \in Clients, n \in Nat, k \in Nat :
           /\ text' = [from |-> c, after |-> got[c], kept |-> k, upto |-> n]
           /\ got' = [got EXCEPT ![c] = n]
    BY <1>2, Pieces DEF Receive
  <2>2. text' \in Texts
    BY <2>1 DEF Texts
  <2>3. got' \in [Clients -> Nat]
    BY <2>1
  <2>4. queue' = queue /\ sent' = sent
    BY <1>2 DEF Receive
  <2>5. backlog' = backlog
    BY <1>2 DEF Receive
  <2> QED BY <2>2, <2>3, <2>4, <2>5
<1>3. CASE PushText
  BY <1>3 DEF PushText, Push
<1>4. CASE MainStep
  <2>1. CASE Display
    <3>1. queue # <<>> /\ queue' = Tail(queue)
      BY <2>1 DEF Display, Pop
    <3>2. text' = text /\ rpc' = rpc /\ sent' = sent /\ got' = got /\ backlog' = backlog
      BY <2>1 DEF Display
    <3> QED BY <3>1, <3>2
  <2>2. CASE Loop \/ Drain \/ Quit \/ Join
    BY <2>2 DEF Loop, Drain, Quit, Join
  <2> QED BY <1>4, <2>1, <2>2 DEF MainStep
<1>5. ASSUME NEW c \in Clients, Connect(c) \/ Send(c) \/ Close(c) PROVE QueueType'
  <2>1. queue' = queue /\ text' = text /\ rpc' = rpc /\ got' = got
    BY <1>5 DEF Connect, Send, Close
  <2>2. sent' \in [Clients -> Nat]
    BY <1>5 DEF Connect, Send, Close
  <2>3. backlog' = backlog \/ backlog' = Append(backlog, c)
    BY <1>5 DEF Connect, Send, Close
  <2>4. backlog' \in Seq(Clients)
    <3>1. backlog \in Seq(Clients) /\ c \in Clients
      BY <1>5
    <3>2. Append(backlog, c) \in Seq(Clients)
      BY <3>1, AppendProperties
    <3> QED BY <2>3, <3>1, <3>2
  <2> QED BY <2>1, <2>2, <2>4
<1> QED BY <1>1, <1>2, <1>3, <1>4, <1>5 DEF Next, ReceiverStep

\* Main goes to pop only on a positive answer; a push leaves something, and
\* nobody else pops (server.cpp:107, 173-177).
LEMMA PopSafeKept == ASSUME IInv, Next PROVE PopSafe'
<1> USE DEF IInv, PopSafe, queueVars, netVars, recvVars, mainVars
<1>1. CASE Poll \/ Accept \/ Receive \/ Stop
  BY <1>1 DEF Poll, PollFlag, Accept, ToTop, Receive, Stop, StopTo
<1>2. CASE Lock
  BY <1>2 DEF Lock, LockToPush
<1>3. CASE PushText
  <2>1. text \in Texts /\ queue \in Seq(Texts)
    BY <1>3 DEF PushText, QueueType
  <2>2. queue' # <<>>
    BY <1>3, <2>1 DEF PushText, Push
  <2> QED BY <2>2
<1>4. CASE Drain
  BY <1>4 DEF Drain, SizeTest, Goto
<1>5. CASE Loop \/ Display \/ Quit \/ Join
  BY <1>5 DEF Loop, Display, Pop, Quit, Join, Goto
<1>6. ASSUME NEW c \in Clients, Connect(c) \/ Send(c) \/ Close(c) PROVE PopSafe'
  BY <1>6 DEF Connect, Send, Close
<1> QED BY <1>1, <1>2, <1>3, <1>4, <1>5, <1>6 DEF Next, ReceiverStep, MainStep

-----------------------------------------------------------------------------
(* The shutdown.                                                           *)

\* Only the receive thread clears the flag, on its way to its test
\* (server.cpp:55, 115).
LEMMA StoppingKept == ASSUME IInv, Next PROVE Stopping'
<1> USE DEF IInv, Stopping, queueVars, netVars, recvVars, mainVars
<1>1. CASE ReceiverStep
  <2>1. CASE Accept
    BY <2>1 DEF Accept, ToTop
  <2>2. CASE Poll \/ Receive \/ Stop \/ Lock \/ PushText
    BY <2>2 DEF Poll, PollFlag, Receive, Stop, StopTo, Lock, PushText
  <2> QED BY <1>1, <2>1, <2>2 DEF ReceiverStep
<1>2. CASE MainStep
  <2>1. UNCHANGED <<is_Working, rpc>> /\ mpc' # "undefined"
    BY <1>2 DEF MainStep, Loop, Drain, Display, Quit, Join, Goto
  <2> QED BY <2>1
<1>3. ASSUME NEW c \in Clients, Connect(c) \/ Send(c) \/ Close(c) PROVE Stopping'
  BY <1>3 DEF Connect, Send, Close
<1> QED BY <1>1, <1>2, <1>3 DEF Next

\* Main's last loop tells the clients one by one, while no other comes
\* (server.cpp:166, 186-191).
LEMMA ToldKept == ASSUME IInv, Next PROVE ToldSoFar'
<1> USE DEF IInv, ToldSoFar, queueVars, netVars, recvVars, mainVars
<1>1. CASE Poll \/ Receive \/ Stop \/ Lock \/ PushText
  BY <1>1 DEF Poll, PollFlag, Receive, Stop, StopTo, Lock, PushText
<1>2. CASE Accept
  <2>1. is_Working = TRUE
    BY <1>2 DEF Accept, Stopping
  <2>2. i = 1 /\ i' = 1 /\ mpc' \in {mpc, "undefined"} /\ mpc \in {"loop", "drain", "pop"}
    <3>1. mpc # "undefined" /\ rpc = "select"
      BY <1>2 DEF Accept, Stopping
    <3> QED BY <1>2, <2>1, <3>1 DEF Accept, ToTop
  <2>3. fd_client' \in Seq(Clients)
    <3>1. backlog \in Seq(Clients) /\ backlog # <<>>
      BY <1>2 DEF Accept, QueueType
    <3>2. Head(backlog) \in Clients
      BY <3>1, HeadTailProperties
    <3>3. fd_client' \in {fd_client, Append(fd_client, Head(backlog))}
      BY <1>2 DEF Accept
    <3> QED BY <3>2, <3>3, AppendProperties
  <2>4. told' = {} /\ is_Working' = is_Working
    BY <1>2, <2>2 DEF Accept
  <2> QED BY <2>1, <2>2, <2>3, <2>4
<1>3. CASE Loop \/ Drain \/ Display
  BY <1>3 DEF Loop, Drain, Display, Goto
<1>4. CASE Quit
  <2>1. CASE i <= Len(fd_client)
    <3>1. i' = i + 1 /\ told' = told \cup {fd_client[i]} /\ mpc' = mpc /\ mpc = "quit"
      BY <1>4, <2>1 DEF Quit, Goto
    <3>2. fd_client' = fd_client /\ is_Working' = is_Working
      BY <1>4 DEF Quit
    <3>3. 1..(i' - 1) = (1..(i - 1)) \cup {i}
      BY <3>1
    <3>4. told' = {fd_client[k] : k \in 1..(i' - 1)}
      BY <3>1, <3>3
    <3>5. told' = {fd_client'[k] : k \in 1..(i' - 1)}
      BY <3>2, <3>4
    <3>6. i' \in Nat \ {0} /\ i' <= Len(fd_client') + 1
      BY <2>1, <3>1, <3>2
    <3> QED BY <3>1, <3>2, <3>5, <3>6
  <2>2. CASE i > Len(fd_client)
    <3>1. mpc = "quit" /\ mpc' = "join" /\ UNCHANGED <<i, told, fd_client, is_Working>>
      BY <1>4, <2>2 DEF Quit, Goto
    <3>2. Len(fd_client) \in Nat /\ i <= Len(fd_client) + 1
      BY <3>1, LenProperties
    <3>3. i = Len(fd_client) + 1
      BY <2>2, <3>2
    <3>4. is_Working = FALSE
      BY <3>1
    <3> QED BY <3>1, <3>3, <3>4
  <2>3. i <= Len(fd_client) \/ i > Len(fd_client)
    <3>1. i \in Nat /\ Len(fd_client) \in Nat
      BY LenProperties
    <3> QED BY <3>1
  <2> QED BY <2>1, <2>2, <2>3
<1>5. CASE Join
  BY <1>5 DEF Join, Goto
<1>6. ASSUME NEW c \in Clients, Connect(c) \/ Send(c) \/ Close(c) PROVE ToldSoFar'
  BY <1>6 DEF Connect, Send, Close
<1> QED BY <1>1, <1>2, <1>3, <1>4, <1>5, <1>6 DEF Next, ReceiverStep, MainStep

-----------------------------------------------------------------------------
(* What the receive thread holds, and whom it serves.                      *)

\* A text is in the thread's hands from recv to push, and nobody else fills the
\* queue meanwhile (server.cpp:96-108).
LEMMA InHandKept == ASSUME IInv, Next PROVE InHand'
<1> USE DEF IInv, InHand, queueVars, netVars, recvVars, mainVars
<1>1. CASE Poll \/ Accept \/ Stop
  <2>1. backlog # <<>> => Head(backlog) \in Clients
    BY HeadTailProperties DEF QueueType
  <2> QED BY <1>1, <2>1 DEF Poll, PollFlag, Accept, ToTop, Stop, StopTo
<1>2. CASE Lock
  BY <1>2 DEF Lock, LockToPush
<1>3. CASE Receive
  BY <1>3 DEF Receive
<1>4. CASE PushText
  <2>1. queue \in Seq(Texts) /\ text \in Texts /\ Len(queue) < MaxQueue
    BY <1>4 DEF PushText, QueueType
  <2>2. Len(Append(queue, text)) = Len(queue) + 1 /\ Len(queue) \in Nat
    BY <2>1, Behind
  <2>3. Len(queue') <= MaxQueue
    BY <1>4, <2>1, <2>2 DEF PushText, Push
  <2> QED BY <1>4, <2>3 DEF PushText, Push
<1>5. CASE Loop \/ Drain \/ Quit \/ Join
  BY <1>5 DEF Loop, Drain, Quit, Join
<1>6. CASE Display
  <2>1. queue # <<>> /\ queue' = Tail(queue) /\ pushing' = pushing
    BY <1>6 DEF Display, Pop
  <2>2. Len(queue) \in Nat /\ Len(queue') = Len(queue) - 1
    BY <2>1, Ahead DEF QueueType
  <2>3. UNCHANGED <<rpc, text, closed>>
    BY <1>6 DEF Display
  <2>4. passed' \in [Clients -> Nat]
    <3>1. PICK item \in Members(queue) : passed' = [passed EXCEPT ![item.from] = item.upto]
      BY <1>6 DEF Display
    <3>2. item \in Texts
      BY <3>1 DEF Members, QueueType
    <3>3. item.upto \in Nat
      BY <3>2 DEF Texts
    <3> QED BY <3>1, <3>3
  <2> QED BY <2>1, <2>2, <2>3, <2>4
<1>7. ASSUME NEW c \in Clients, Connect(c) \/ Send(c) \/ Close(c) PROVE InHand'
  BY <1>7 DEF Connect, Send, Close
<1> QED BY <1>1, <1>2, <1>3, <1>4, <1>5, <1>6, <1>7 DEF Next, ReceiverStep, MainStep

\* The messages pass from recv through the queue to the screen in their order
\* (server.cpp:96-108, 173-180).
LEMMA RelayKept == ASSUME IInv, Next PROVE RelayFaithful'
<1> USE DEF IInv, queueVars, netVars, recvVars, mainVars
<1>1. /\ queue \in Seq(Texts) /\ text \in Texts \cup {<<>>}
      /\ rpc \in {"lock", "push"} => text \in Texts
      /\ rpc \notin {"lock", "push"} => text = <<>>
      /\ passed \in [Clients -> Nat] /\ got \in [Clients -> Nat]
  BY DEF QueueType, InHand
<1>2. Held \in Seq(Texts)
  BY <1>1, Behind DEF Held
<1>3. ASSUME Held' = Held, UNCHANGED <<passed, got>> PROVE RelayFaithful'
  BY <1>3 DEF RelayFaithful
<1>4. CASE Poll \/ Accept \/ Stop \/ Lock \/ Loop \/ Drain \/ Quit \/ Join
  <2>1. UNCHANGED <<queue, text, passed, got>>
    BY <1>4 DEF Poll, PollFlag, Accept, ToTop, Stop, StopTo, Lock, LockToPush, Loop, Drain, Quit, Join
  <2> QED BY <1>3, <2>1 DEF Held
<1>5. CASE Receive
  <2>1. PICK d \in Clients, n \in Nat, l \in Nat :
           /\ l \in got[d]..n
           /\ text' = [from |-> d, after |-> got[d], kept |-> l, upto |-> n]
           /\ got' = [got EXCEPT ![d] = n]
    BY <1>1, <1>5, Pieces DEF Receive
  <2>2. queue' = queue /\ passed' = passed /\ rpc = "select"
    BY <1>5 DEF Receive
  <2>3. text' \in Texts
    BY <1>1, <2>1 DEF Texts
  <2>4. Held = queue /\ Held' = Append(queue, text')
    BY <1>1, <2>2, <2>3, TextIsSome DEF Held
  <2> DEFINE a == Append(queue, text')
  <2>5. /\ Len(queue) \in Nat /\ DOMAIN queue = 1..Len(queue)
        /\ Len(a) = Len(queue) + 1 /\ DOMAIN a = 1..(Len(queue) + 1)
        /\ \A k \in 1..Len(queue) : a[k] = queue[k]
        /\ a[Len(queue) + 1] = text'
    BY <1>1, <2>3, Behind
  <2>6. \A c \in Clients : \A k \in 1..(Len(queue) + 1) : \A m :
           Reached(queue, passed[c], c, k, m) => Reached(a, passed[c], c, k, m)
    BY <1>1, <2>3, ReachedBehind
  <2> HIDE DEF a
  <2>13. Prefixed(a)
    <3>1. Prefixed(queue)
      BY <2>4 DEF RelayFaithful
    <3>2. text'.kept \in text'.after..text'.upto
      BY <2>1
    <3> QED BY <2>5, <3>1, <3>2 DEF Prefixed
  <2> SUFFICES ASSUME NEW c \in Clients
               PROVE  /\ Reached(a, passed[c], c, Len(a) + 1, got'[c])
                      /\ \A k \in DOMAIN a : a[k].from = c => Reached(a, passed[c], c, k, a[k].after)
    BY <2>2, <2>4, <2>13 DEF RelayFaithful, a
  <2>7. /\ Reached(queue, passed[c], c, Len(queue) + 1, got[c])
        /\ \A k \in DOMAIN queue : queue[k].from = c
              => Reached(queue, passed[c], c, k, queue[k].after)
    BY <2>4 DEF RelayFaithful
  <2>8. text'.from = d /\ text'.after = got[d] /\ text'.upto = n
    BY <2>1
  <2>9. Reached(a, passed[c], c, Len(queue) + 1, got[c])
    BY <2>5, <2>6, <2>7
  <2>10. ASSUME NEW k \in DOMAIN a, a[k].from = c PROVE Reached(a, passed[c], c, k, a[k].after)
    <3>1. CASE k \in 1..Len(queue)
      BY <2>5, <2>6, <2>7, <2>10, <3>1
    <3>2. CASE k = Len(queue) + 1
      BY <2>5, <2>8, <2>9, <2>10, <3>2
    <3> QED BY <2>5, <3>1, <3>2
  <2>11. CASE c = d
    <3>1. got'[c] = n
      BY <1>1, <2>1, <2>11
    <3>2. /\ Len(queue) + 1 \in DOMAIN a /\ Len(queue) + 1 < Len(a) + 1
          /\ a[Len(queue) + 1].from = c /\ n = a[Len(queue) + 1].upto
          /\ \A m \in DOMAIN a : ~(Len(queue) + 1 < m)
      BY <2>5, <2>8, <2>11
    <3>3. Reached(a, passed[c], c, Len(a) + 1, n)
      BY <3>2 DEF Reached
    <3> QED BY <2>10, <3>1, <3>3
  <2>12. CASE c # d
    <3>1. got'[c] = got[c]
      BY <1>1, <2>1, <2>12
    <3>2. a[Len(queue) + 1].from # c
      BY <2>5, <2>8, <2>12
    <3>3. Reached(a, passed[c], c, Len(a) + 1, got[c])
      BY <2>5, <2>9, <3>2 DEF Reached
    <3> QED BY <2>10, <3>1, <3>3
  <2> QED BY <2>11, <2>12
<1>6. CASE PushText
  <2>1. text \in Texts /\ queue' = Append(queue, text) /\ text' = <<>> /\ UNCHANGED <<passed, got>>
    BY <1>1, <1>6 DEF PushText, Push
  <2>2. Held' = Held
    BY <2>1, TextIsSome DEF Held
  <2> QED BY <1>3, <2>1, <2>2
<1>7. CASE Display
  <2>1. queue # <<>> /\ queue' = Tail(queue) /\ text' = text /\ got' = got
    BY <1>7 DEF Display, Pop
  <2>2. passed' = [passed EXCEPT ![Head(queue).from] = Head(queue).upto]
    BY <1>7 DEF Display, Pop
  <2>3. Held # <<>> /\ Head(Held) = Head(queue) /\ Held' = Tail(Held)
    <3>1. CASE text = <<>>
      BY <2>1, <3>1 DEF Held
    <3>2. CASE text # <<>>
      <4>1. text \in Texts /\ Held = Append(queue, text) /\ Held' = Append(Tail(queue), text)
        BY <1>1, <2>1, <3>2 DEF Held
      <4> QED BY <1>1, <2>1, <4>1, TailOfLonger
    <3> QED BY <3>1, <3>2
  <2>4. Head(Held) \in Texts
    BY <1>2, <2>3, Ahead
  <2>5. \A c \in Clients :
           passed'[c] = IF Head(Held).from = c THEN Head(Held).upto ELSE passed[c]
    BY <1>1, <2>2, <2>3, <2>4 DEF Texts
  <2>6. \A c \in Clients : \A k \in 1..Len(Held) : \A m :
           Reached(Held, passed[c], c, k + 1, m) => Reached(Tail(Held), passed'[c], c, k, m)
    BY <1>2, <2>3, <2>5, ReachedAhead
  <2>7. /\ Len(Held) \in Nat \ {0} /\ DOMAIN Held = 1..Len(Held)
        /\ Len(Tail(Held)) = Len(Held) - 1 /\ DOMAIN Tail(Held) = 1..(Len(Held) - 1)
        /\ \A k \in 1..(Len(Held) - 1) : Tail(Held)[k] = Held[k + 1]
    BY <1>2, <2>3, Ahead
  <2> DEFINE h == Held
             a == Tail(Held)
  <2>8. /\ Len(h) \in Nat \ {0} /\ DOMAIN h = 1..Len(h)
        /\ Len(a) = Len(h) - 1 /\ DOMAIN a = 1..(Len(h) - 1)
        /\ \A k \in 1..(Len(h) - 1) : a[k] = h[k + 1]
        /\ \A c \in Clients : \A k \in 1..Len(h) : \A m :
              Reached(h, passed[c], c, k + 1, m) => Reached(a, passed'[c], c, k, m)
    BY <2>6, <2>7
  <2>9. \A c \in Clients :
           /\ Reached(h, passed[c], c, Len(h) + 1, got[c])
           /\ \A k \in DOMAIN h : h[k].from = c => Reached(h, passed[c], c, k, h[k].after)
    BY DEF RelayFaithful
  <2>10. Held' = a
    BY <2>3
  <2> HIDE DEF h, a
  <2>13. Prefixed(a)
    <3>1. Prefixed(h)
      BY DEF RelayFaithful, h
    <3>2. \A k \in DOMAIN a : k + 1 \in DOMAIN h /\ a[k] = h[k + 1]
      BY <2>8
    <3> QED BY <3>1, <3>2 DEF Prefixed
  <2> SUFFICES ASSUME NEW c \in Clients
               PROVE  /\ Reached(a, passed'[c], c, Len(a) + 1, got[c])
                      /\ \A k \in DOMAIN a : a[k].from = c => Reached(a, passed'[c], c, k, a[k].after)
    BY <2>1, <2>10, <2>13 DEF RelayFaithful
  <2>11. Reached(a, passed'[c], c, Len(a) + 1, got[c])
    <3>1. Len(h) \in 1..Len(h) /\ Len(a) + 1 = Len(h)
      BY <2>8
    <3> QED BY <2>8, <2>9, <3>1
  <2>12. ASSUME NEW k \in DOMAIN a, a[k].from = c PROVE Reached(a, passed'[c], c, k, a[k].after)
    <3>1. k \in 1..Len(h) /\ k + 1 \in DOMAIN h /\ a[k] = h[k + 1]
      BY <2>8, <2>12
    <3>2. Reached(h, passed[c], c, k + 1, h[k + 1].after)
      BY <2>9, <2>12, <3>1
    <3> QED BY <2>8, <3>1, <3>2
  <2> QED BY <2>11, <2>12
<1>8. ASSUME NEW c \in Clients, Connect(c) \/ Send(c) \/ Close(c) PROVE RelayFaithful'
  <2>1. UNCHANGED <<queue, text, passed, got>>
    BY <1>8 DEF Connect, Send, Close
  <2> QED BY <1>3, <2>1 DEF Held
<1> QED
  BY <1>4, <1>5, <1>6, <1>7, <1>8 DEF Next, ReceiverStep, MainStep

-----------------------------------------------------------------------------
(* The theorems.                                                           *)

\* Every step of the two threads and the clients keeps the invariant.
LEMMA StepKeeps == IInv /\ [Next]_vars => IInv'
<1> SUFFICES ASSUME IInv, [Next]_vars PROVE IInv'
    OBVIOUS
<1>1. CASE Next
  BY <1>1, TypeKept, PopSafeKept, StoppingKept, ToldKept, InHandKept, RelayKept DEF IInv
<1>2. CASE UNCHANGED vars
  <2>1. /\ UNCHANGED <<queue, pushing, backlog, sent, closed, is_Working, rpc, text, got>>
        /\ UNCHANGED <<fd_client, mpc, i, passed, told>>
    BY <1>2 DEF vars, queueVars, netVars, recvVars, mainVars
  <2>2. QueueType' /\ PopSafe' /\ Stopping' /\ ToldSoFar'
    BY <2>1 DEF IInv, QueueType, PopSafe, Stopping, ToldSoFar
  <2>3. InHand'
    BY <2>1 DEF IInv, InHand
  <2>4. Held' = Held
    BY <2>1 DEF Held
  <2>5. RelayFaithful'
    BY <2>1, <2>4 DEF IInv, RelayFaithful
  <2> QED BY <2>2, <2>3, <2>5 DEF IInv
<1> QED BY <1>1, <1>2

\* The inductive invariant always holds.
THEOREM Invariance == Spec => []IInv
<1> QED BY InitEstablishes, StepKeeps, PTL DEF Spec

\* Every variable keeps its type and the queue its bound, whatever number of
\* clients is accepted (server.cpp:28-40).
THEOREM TypeCorrect == Spec => []TypeOK
<1>1. IInv => TypeOK
  <2> SUFFICES ASSUME IInv PROVE TypeOK
      OBVIOUS
  <2>1. fd_client \in Seq(Clients) /\ Len(fd_client) \in Nat /\ DOMAIN fd_client = 1..Len(fd_client)
    BY DEF IInv, ToldSoFar
  <2>2. told \subseteq Clients
    <3>1. i - 1 <= Len(fd_client) /\ i \in Nat
      BY <2>1 DEF IInv, ToldSoFar
    <3>2. \A k \in 1..(i - 1) : k \in 1..Len(fd_client)
      BY <2>1, <3>1
    <3>3. \A k \in 1..Len(fd_client) : fd_client[k] \in Clients
      BY <2>1
    <3>4. told = {fd_client[k] : k \in 1..(i - 1)}
      BY DEF IInv, ToldSoFar
    <3> QED BY <3>2, <3>3, <3>4
  <2>3. /\ queue \in Seq(Texts) /\ Len(queue) <= MaxQueue /\ pushing \in BOOLEAN
        /\ rpc \in {"top", "select", "lock", "push", "done", "undefined"}
        /\ text \in Texts \cup {<<>>}
        /\ backlog \in Seq(Clients) /\ {sent, got, passed} \subseteq [Clients -> Nat]
        /\ closed \subseteq Clients
    BY DEF IInv, QueueType, InHand
  <2>4. /\ is_Working \in BOOLEAN /\ i \in Nat \ {0}
        /\ mpc \in {"loop", "drain", "pop", "quit", "join", "exited", "undefined"}
    BY DEF IInv, ToldSoFar
  <2> QED BY <2>1, <2>2, <2>3, <2>4 DEF TypeOK
<1> QED BY <1>1, Invariance, PTL

\* What recv returned passes to the screen piece by piece, none of them lost,
\* doubled or out of order; messages are lost only behind others of the same
\* piece, for any number of clients and messages (server.cpp:96-108, 173-180).
THEOREM RelayIsFaithful == Spec => []RelayFaithful
<1>1. IInv => RelayFaithful
  BY DEF IInv
<1> QED BY <1>1, Invariance, PTL

\* Main never takes the front of an empty queue, for any number of texts in it
\* (server.cpp:173-178).
THEOREM PopIsSafe == Spec => []PopSafe
<1>1. IInv => PopSafe
  BY DEF IInv
<1> QED BY <1>1, Invariance, PTL

\* Every client that was accepted has been told to quit when main joins the
\* receive thread (server.cpp:186-191).
THEOREM AllAreTold == Spec => []QuitToAll
<1>1. IInv => QuitToAll
  <2> SUFFICES ASSUME IInv, mpc \in {"join", "exited"} PROVE told = Members(fd_client)
      BY DEF QuitToAll
  <2>1. told = {fd_client[k] : k \in 1..Len(fd_client)}
    BY DEF IInv, ToldSoFar
  <2>2. DOMAIN fd_client = 1..Len(fd_client)
    BY DEF IInv, ToldSoFar
  <2> QED BY <2>1, <2>2 DEF Members
<1> QED BY <1>1, Invariance, PTL
=============================================================================
