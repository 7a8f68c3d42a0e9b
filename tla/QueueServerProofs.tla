------------------------- MODULE QueueServerProofs -------------------------
(***************************************************************************)
(* What holds of the server of Lab 8 for any capacity of the kernel's      *)
(* queue and any number of messages.                                       *)
(***************************************************************************)
EXTENDS QueueServer, SequenceTheorems, WellFoundedInduction, TLAPS

USE QueueBounds DEF QueueBounds, Server, Clients, Quitting, Mail

Entries == [type : 1..Server, mail : Mail]

\* Among the entries of a type there is a first one.
LEMMA FirstIsWaiting ==
    ASSUME NEW t, kq \in Seq(Entries), Waiting(t) # {}
    PROVE  First(t) \in Waiting(t) /\ First(t) \in 1..Len(kq)
<1>1. Waiting(t) \subseteq 1..Len(kq)
  BY DEF Waiting
<1>2. Waiting(t) \in SUBSET Nat /\ Len(kq) \in Nat
  BY <1>1
<1>3. PICK k \in Waiting(t) : \A l \in Waiting(t) : k <= l
  <2>1. PICK k \in Waiting(t) : \A l \in Waiting(t) : <<l, k>> \notin OpToRel(<, Nat)
    BY <1>2, NatLessThanWellFounded, WFMin
  <2>2. ASSUME NEW l \in Waiting(t) PROVE k <= l
    <3>1. ~(l < k)
      BY <1>2, <2>1 DEF OpToRel
    <3> QED BY <1>2, <3>1
  <2> QED BY <2>2
<1>4. First(t) \in Waiting(t)
  BY <1>3 DEF First
<1> QED BY <1>1, <1>4

\* Taking an entry out leaves a queue of entries, one shorter.
LEMMA DequeueType ==
    ASSUME NEW k \in 1..Len(kq), kq \in Seq(Entries), Dequeue(k)
    PROVE  kq' \in Seq(Entries) /\ Len(kq') = Len(kq) - 1
<1>1. Len(kq) \in Nat /\ \A j \in 1..Len(kq) : kq[j] \in Entries
  BY ElementOfSeq
<1> DEFINE before == SubSeq(kq, 1, k - 1)
           behind == SubSeq(kq, k + 1, Len(kq))
<1>2. before \in Seq(Entries) /\ Len(before) = k - 1
  <2>1. 1 \in Int /\ k - 1 \in Int /\ \A j \in 1..(k - 1) : kq[j] \in Entries
    BY <1>1
  <2>2. /\ before \in Seq(Entries)
        /\ Len(before) = IF 1 <= k - 1 THEN (k - 1) - 1 + 1 ELSE 0
    BY <2>1, SubSeqProperties
  <2> QED BY <2>2, <1>1
<1>3. behind \in Seq(Entries) /\ Len(behind) = Len(kq) - k
  <2>1. k + 1 \in Int /\ Len(kq) \in Int /\ \A j \in (k + 1)..Len(kq) : kq[j] \in Entries
    BY <1>1
  <2>2. /\ behind \in Seq(Entries)
        /\ Len(behind) = IF k + 1 <= Len(kq) THEN Len(kq) - (k + 1) + 1 ELSE 0
    BY <2>1, SubSeqProperties
  <2> QED BY <2>2, <1>1
<1> HIDE DEF before, behind
<1>4. before \o behind \in Seq(Entries) /\ Len(before \o behind) = Len(kq) - 1
  <2>1. before \o behind \in Seq(Entries) /\ Len(before \o behind) = Len(before) + Len(behind)
    BY <1>2, <1>3, ConcatProperties
  <2> QED BY <1>1, <1>2, <1>3, <2>1
<1>5. kq' = before \o behind
  BY DEF Dequeue, before, behind
<1> QED BY <1>1, <1>4, <1>5

\* Putting an entry in keeps the queue within its capacity.
LEMMA EnqueueType ==
    ASSUME kq \in Seq(Entries), Len(kq) <= Cap, NEW t \in 1..Server, NEW m \in Mail,
           Enqueue(t, m)
    PROVE  kq' \in Seq(Entries) /\ Len(kq') <= Cap
<1>1. [type |-> t, mail |-> m] \in Entries
  BY DEF Entries
<1>2. kq' = Append(kq, [type |-> t, mail |-> m]) /\ Len(kq) # Cap
  BY DEF Enqueue, Full
<1>3. kq' \in Seq(Entries) /\ Len(kq') = Len(kq) + 1 /\ Len(kq) \in Nat
  BY <1>1, <1>2, AppendProperties, LenProperties
<1> QED BY <1>2, <1>3

\* The invariant: the types, and the queue's safety, each kept by itself.
IInv == TypeOK /\ PopSafe

\* The types in two parts: what passes through the queues, and the rest.
MailTypes ==
    /\ queue \in Seq(Mail)
    /\ {mess, out} \subseteq Mail
    /\ kq \in Seq(Entries) /\ Len(kq) <= Cap
    /\ last \in [Clients -> 0..Quitting]
    /\ nsent \in 0..MaxMsgs
PlaceTypes ==
    /\ pushing \in BOOLEAN /\ isWorking \in BOOLEAN /\ stale \in BOOLEAN
    /\ rpc \in {"unborn", "top", "recv", "lock", "push", "done"}
    /\ mpc \in {"start", "loop", "drain", "pop", "send", "quit", "join", "exited"}
    /\ i \in 0..3

\* The two parts are all.
LEMMA TypesSplit == TypeOK <=> MailTypes /\ PlaceTypes
BY DEF TypeOK, MailTypes, PlaceTypes, Entries

\* At the start the queues are empty, whatever mess holds.
LEMMA InitEstablishes == Init => IInv
<1> SUFFICES ASSUME Init PROVE IInv
    OBVIOUS
<1>1. mess \in Mail /\ out \in Mail
  BY DEF Init
<1>2. MailTypes
  BY <1>1 DEF Init, QueueInit, MailTypes
<1>3. PlaceTypes
  <2>1. pushing \in BOOLEAN /\ isWorking \in BOOLEAN /\ stale \in BOOLEAN
    BY Zenon DEF Init, QueueInit
  <2>2. rpc = "unborn" /\ mpc = "start" /\ i = 0
    BY DEF Init
  <2>3. i \in 0..3
    BY <2>2
  <2> QED BY <2>1, <2>2, <2>3, Zenon DEF PlaceTypes
<1>4. PopSafe
  BY DEF Init, PopSafe
<1> QED BY <1>2, <1>3, <1>4, TypesSplit DEF IInv

-----------------------------------------------------------------------------
\* What the receive thread takes is mail (server.cpp:130-135).
LEMMA ReceiverMail == ASSUME MailTypes, ReceiverStep PROVE MailTypes'
<1> USE DEF MailTypes, recvVars, mainVars, netVars, queueVars
<1>1. CASE Poll \/ Lock
  BY <1>1 DEF Poll, Lock, LockToPush
<1>2. CASE MsgRcv
  <2>1. First(Server) \in 1..Len(kq)
    BY <1>2, FirstIsWaiting DEF MsgRcv
  <2>2. mess' \in Mail
    <3>1. kq[First(Server)] \in Entries
      BY <2>1, ElementOfSeq
    <3>2. mess' = kq[First(Server)].mail
      BY <1>2 DEF MsgRcv
    <3> QED BY <3>1, <3>2 DEF Entries
  <2>3. kq' \in Seq(Entries) /\ Len(kq') = Len(kq) - 1
    BY <1>2, <2>1, DequeueType DEF MsgRcv
  <2>4. Len(kq') <= Cap
    BY <2>3, LenProperties
  <2>5. queue' = queue /\ out' = out /\ last' = last /\ nsent' = nsent
    BY <1>2 DEF MsgRcv
  <2> QED BY <2>2, <2>3, <2>4, <2>5
<1>3. CASE PushMess
  BY <1>3 DEF PushMess, Push
<1> QED BY <1>1, <1>2, <1>3 DEF ReceiverStep

\* What main passes on is mail (server.cpp:81-106).
LEMMA MainMail == ASSUME MailTypes, PlaceTypes, MainStep PROVE MailTypes'
<1> USE DEF MailTypes, recvVars, mainVars, netVars, queueVars
<1>1. CASE Start \/ Loop \/ Drain
  BY <1>1 DEF Start, Loop, LoopWhile, Drain
<1>2. CASE Take
  <2>1. out' \in Mail /\ queue # <<>> /\ queue' = Tail(queue)
    BY <1>2 DEF Take, Pop
  <2>2. mess' = mess /\ kq' = kq /\ last' = last /\ nsent' = nsent
    BY <1>2 DEF Take
  <2>3. queue' \in Seq(Mail)
    BY <2>1, HeadTailProperties
  <2> QED BY <2>1, <2>2, <2>3
<1>3. CASE Send
  <2>1. queue' = queue /\ mess' = mess /\ out' = out /\ last' = last /\ nsent' = nsent
    BY <1>3 DEF Send
  <2>2. CASE out.dest = 0
    BY <1>3, <2>1, <2>2 DEF Send
  <2>3. CASE out.dest # 0
    <3>1. out.dest \in 1..Server /\ out \in Mail
      BY <2>3
    <3>2. Enqueue(out.dest, out)
      BY <1>3, <2>3 DEF Send
    <3>3. kq' \in Seq(Entries) /\ Len(kq') <= Cap
      BY <3>1, <3>2, EnqueueType
    <3> QED BY <2>1, <3>3
  <2> QED BY <2>2, <2>3
<1>4. CASE Quit
  <2>1. queue' = queue /\ mess' = mess /\ out' = out /\ last' = last /\ nsent' = nsent
    BY <1>4 DEF Quit, QuitUpTo
  <2>2. kq' \in Seq(Entries) /\ Len(kq') <= Cap
    <3>1. CASE kq' = kq
      BY <3>1
    <3>2. CASE i < 3 /\ Enqueue(i + 1, [out EXCEPT !.id = Quitting])
      <4>1. i + 1 \in 1..Server
        BY <3>2 DEF PlaceTypes
      <4>2. [out EXCEPT !.id = Quitting] \in Mail
        <5>1. out \in [id : 0..Quitting, dest : 0..Server] /\ MaxMsgs + 1 \in 0..(MaxMsgs + 1)
          OBVIOUS
        <5> QED BY <5>1
      <4> QED BY <3>2, <4>1, <4>2, EnqueueType
    <3> QED BY <1>4, <3>1, <3>2 DEF Quit, QuitUpTo
  <2> QED BY <2>1, <2>2
<1>5. CASE Join
  BY <1>5 DEF Join
<1> QED BY <1>1, <1>2, <1>3, <1>4, <1>5 DEF MainStep

\* What the clients send and take is mail.
LEMMA ClientMail ==
    ASSUME MailTypes,
           \/ \E dest \in 1..Server : ClientSend(dest)
           \/ \E c \in Clients : ClientReceive(c)
    PROVE  MailTypes'
<1> USE DEF MailTypes, recvVars, mainVars, netVars, queueVars
<1>1. ASSUME NEW dest \in 1..Server, ClientSend(dest) PROVE MailTypes'
  <2>1. /\ queue' = queue /\ mess' = mess /\ out' = out /\ last' = last
        /\ nsent' = nsent + 1 /\ nsent < MaxMsgs
        /\ Enqueue(Server, [id |-> nsent + 1, dest |-> dest])
    BY <1>1 DEF ClientSend
  <2>2. nsent' \in 0..MaxMsgs /\ [id |-> nsent + 1, dest |-> dest] \in Mail
    BY <2>1
  <2>3. kq' \in Seq(Entries) /\ Len(kq') <= Cap
    <3>1. Server \in 1..Server
      OBVIOUS
    <3> QED BY <2>1, <2>2, <3>1, EnqueueType
  <2> QED BY <2>1, <2>2, <2>3
<1>2. ASSUME NEW c \in Clients, ClientReceive(c) PROVE MailTypes'
  <2>1. First(c) \in 1..Len(kq)
    BY <1>2, FirstIsWaiting DEF ClientReceive
  <2>2. kq[First(c)] \in Entries
    BY <2>1, ElementOfSeq
  <2>3. kq[First(c)].mail.id \in 0..Quitting
    BY <2>2 DEF Entries
  <2>4. last' \in [Clients -> 0..Quitting]
    BY <1>2, <2>3 DEF ClientReceive
  <2>5. kq' \in Seq(Entries) /\ Len(kq') = Len(kq) - 1
    BY <1>2, <2>1, DequeueType DEF ClientReceive
  <2>6. Len(kq') <= Cap
    BY <2>5, LenProperties
  <2>7. queue' = queue /\ mess' = mess /\ out' = out /\ nsent' = nsent
    BY <1>2 DEF ClientReceive
  <2> QED BY <2>4, <2>5, <2>6, <2>7
<1> QED BY <1>1, <1>2

\* Threads, flags and indices stay where they may be.
LEMMA PlacesKept == ASSUME PlaceTypes, MailTypes, Next PROVE PlaceTypes'
<1> USE DEF PlaceTypes, recvVars, mainVars, netVars, queueVars
<1>1. CASE ReceiverStep
  BY <1>1 DEF ReceiverStep, Poll, MsgRcv, Lock, LockToPush, PushMess, Push
<1>2. CASE Start \/ Loop \/ Drain \/ Take \/ Send \/ Join
  BY <1>2 DEF Start, Loop, LoopWhile, Drain, Take, Pop, Send, Join
<1>3. CASE Quit
  BY <1>3 DEF Quit, QuitUpTo
<1>4. CASE SigInt
  <2>1. pushing' = pushing /\ isWorking' = FALSE /\ (stale' = stale \/ stale' = TRUE)
    BY <1>4 DEF SigInt
  <2>2. rpc' = rpc \/ rpc' = "lock"
    BY <1>4 DEF SigInt
  <2>3. mpc' = mpc \/ mpc' = "drain"
    BY <1>4 DEF SigInt
  <2>4. i' \in 0..3
    BY <1>4 DEF SigInt
  <2> QED BY <2>1, <2>2, <2>3, <2>4
<1>5. ASSUME NEW dest \in 1..Server, ClientSend(dest) PROVE PlaceTypes'
  BY <1>5 DEF ClientSend
<1>6. ASSUME NEW c \in Clients, ClientReceive(c) PROVE PlaceTypes'
  BY <1>6 DEF ClientReceive
<1> QED BY <1>1, <1>2, <1>3, <1>4, <1>5, <1>6 DEF Next, MainStep

\* Main goes to pop only on a positive answer; a push leaves something, and
\* nobody else pops, ctrl-C or not (server.cpp:79-83, 133-135).
LEMMA PopSafeKept == ASSUME MailTypes, PopSafe, Next PROVE PopSafe'
<1> USE DEF PopSafe, recvVars, mainVars, netVars, queueVars
<1>1. CASE Poll \/ MsgRcv
  BY <1>1 DEF Poll, MsgRcv
<1>2. CASE Lock
  BY <1>2 DEF Lock, LockToPush
<1>3. CASE PushMess
  <2>1. queue' # <<>>
    BY <1>3, AppendProperties DEF PushMess, Push, MailTypes
  <2> QED BY <2>1
<1>4. CASE Drain
  BY <1>4 DEF Drain, SizeTest
<1>5. CASE Start \/ Loop \/ Take \/ Send \/ Quit \/ Join
  BY <1>5 DEF Start, Loop, LoopWhile, Take, Send, Quit, QuitUpTo, Join
<1>6. CASE SigInt
  BY <1>6 DEF SigInt
<1>7. ASSUME NEW dest \in 1..Server, ClientSend(dest) PROVE PopSafe'
  BY <1>7 DEF ClientSend
<1>8. ASSUME NEW c \in Clients, ClientReceive(c) PROVE PopSafe'
  BY <1>8 DEF ClientReceive
<1> QED BY <1>1, <1>2, <1>3, <1>4, <1>5, <1>6, <1>7, <1>8 DEF Next, ReceiverStep, MainStep

-----------------------------------------------------------------------------
(* The theorems.                                                           *)

\* Every step of the threads, of ctrl-C and of the clients keeps the invariant.
LEMMA StepKeeps == IInv /\ [Next]_vars => IInv'
<1> SUFFICES ASSUME IInv, [Next]_vars PROVE IInv'
    OBVIOUS
<1>1. MailTypes /\ PlaceTypes /\ PopSafe
  BY TypesSplit DEF IInv
<1>2. CASE Next
  <2>1. MailTypes'
    <3>1. CASE SigInt
      BY <1>1, <3>1 DEF SigInt, MailTypes, queueVars, netVars, recvVars, mainVars
    <3> QED BY <1>1, <1>2, <3>1, ReceiverMail, MainMail, ClientMail DEF Next
  <2>2. PlaceTypes' /\ PopSafe'
    BY <1>1, <1>2, PlacesKept, PopSafeKept
  <2>3. TypeOK'
    BY <2>1, <2>2 DEF TypeOK, MailTypes, PlaceTypes, Entries
  <2> QED BY <2>2, <2>3 DEF IInv
<1>3. CASE UNCHANGED vars
  BY <1>3 DEF vars, queueVars, recvVars, mainVars, netVars, IInv, TypeOK, PopSafe
<1> QED BY <1>2, <1>3

\* The inductive invariant always holds.
THEOREM Invariance == Spec => []IInv
<1> QED BY InitEstablishes, StepKeeps, PTL DEF Spec

\* The state always has its types, and the kernel's queue never exceeds its
\* capacity.
THEOREM TypeCorrect == Spec => []TypeOK
<1>1. IInv => TypeOK
  BY DEF IInv
<1> QED BY <1>1, Invariance, PTL

\* Main never takes the front of an empty queue (server.cpp:79-83).
THEOREM PopIsSafe == Spec => []PopSafe
<1>1. IInv => PopSafe
  BY DEF IInv
<1> QED BY <1>1, Invariance, PTL
=============================================================================
