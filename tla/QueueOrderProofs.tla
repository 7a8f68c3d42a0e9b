------------------------- MODULE QueueOrderProofs -------------------------
(***************************************************************************)
(* The server of Lab 8 sends every client its messages in the order it got *)
(* them.  A message's place is a stage (0: taken by the client, 1: waiting *)
(* for it in the kernel's queue, 2: with main, 3: in the queue, 4: with    *)
(* the receive thread, 5: waiting for the server) and an index within the  *)
(* stage.  The invariant is that the numbers at any two places are in the  *)
(* order of the places; each lemma follows one action's message from its   *)
(* place to the next.                                                      *)
(***************************************************************************)
EXTENDS QueueServerProofs

\* On the way to client c, number n is at place k of stage a.  Unlike Way it
\* also has the text the receive thread has pushed already, in whose place it
\* receives the next.
On(c, a, k, n) ==
    \/ a = 0 /\ k = 1 /\ n = last[c]
    \/ a = 1 /\ k \in Waiting(c) /\ n = kq[k].mail.id
    \/ a = 2 /\ k = 1 /\ ~Leaving /\ mpc = "send" /\ out.dest = c /\ n = out.id
    \/ a = 3 /\ ~Leaving /\ k \in DOMAIN queue /\ queue[k].dest = c /\ n = queue[k].id
    \/ a = 4 /\ k = 1 /\ ~Leaving /\ mess.dest = c /\ n = mess.id
    \/ a = 5 /\ ~Leaving /\ k \in Waiting(Server) /\ kq[k].mail.dest = c /\ n = kq[k].mail.id

Before(a, j, b, k) == a < b \/ (a = b /\ j < k)

Holding == rpc \in {"lock", "push"}

\* The numbers at two places are in order; equal only after a receive that
\* failed, or if the receive thread is done with one of them.
Apart(a, b, m, n) ==
    m < n \/ (m = n /\ (stale \/ (~Holding /\ (a = 4 \/ b = 4))))

Sorted ==
    \A c \in Clients : \A a, b \in 0..5 : \A j, k, m, n \in Nat :
        On(c, a, j, m) /\ On(c, b, k, n) /\ Before(a, j, b, k) => Apart(a, b, m, n)

\* No number is above what was sent but "Quit", which went to the clients
\* before main's index.
Numbered ==
    /\ mess.id <= nsent /\ out.id <= nsent
    /\ \A k \in DOMAIN queue : queue[k].id <= nsent
    /\ \A k \in DOMAIN kq : kq[k].mail.id <= nsent \/ (Leaving /\ kq[k].type <= i)
    /\ \A c \in Clients : last[c] <= nsent \/ (Leaving /\ c <= i)

-----------------------------------------------------------------------------
\* Where an element was before the one at f was taken.
Shift(f, k) == IF k < f THEN k ELSE k + 1

\* The first entry of a type comes before the others.
LEMMA FirstIsFirst ==
    ASSUME NEW t, kq \in Seq(Entries), Waiting(t) # {}
    PROVE  \A l \in Waiting(t) : First(t) <= l
<1>1. Waiting(t) \subseteq 1..Len(kq)
  BY DEF Waiting
<1>2. Waiting(t) \in SUBSET Nat /\ Len(kq) \in Nat
  BY <1>1
<1>3. PICK k \in Waiting(t) : \A l \in Waiting(t) : k <= l
  <2>1. PICK k \in Waiting(t) : \A l \in Waiting(t) : <<l, k>> \notin OpToRel(<, Nat)
    BY <1>2, NatLessThanWellFounded, WFMin
  <2>2. ASSUME NEW l \in Waiting(t) PROVE k <= l
    <3>1. ~(l < k)
      BY <1>2, <2>1 DEF OpToRel
    <3> QED BY <1>2, <3>1
  <2> QED BY <2>2
<1> QED BY <1>3 DEF First

\* An entry of the kernel's queue has a number.
LEMMA EntryIsMail ==
    ASSUME MailTypes, NEW k \in DOMAIN kq
    PROVE  k \in Nat /\ kq[k].mail.id \in Nat
<1>1. k \in Nat /\ kq[k] \in Entries
  BY DEF MailTypes
<1>2. Quitting \in Nat
  BY QueueBounds DEF QueueBounds, Quitting
<1> QED BY <1>1, <1>2 DEF Entries, Mail

\* What is left in the kernel's queue is what was there, in its order.
LEMMA Taken ==
    ASSUME kq \in Seq(Entries), NEW f \in 1..Len(kq), Dequeue(f)
    PROVE  /\ Len(kq) \in Nat /\ DOMAIN kq = 1..Len(kq)
           /\ DOMAIN kq' = 1..(Len(kq) - 1)
           /\ \A k \in 1..(Len(kq) - 1) : kq'[k] = kq[Shift(f, k)]
<1>1. Len(kq) \in Nat /\ DOMAIN kq = 1..Len(kq) /\ \A j \in 1..Len(kq) : kq[j] \in Entries
  BY ElementOfSeq, LenProperties
<1> DEFINE before == SubSeq(kq, 1, f - 1)
           behind == SubSeq(kq, f + 1, Len(kq))
<1>2. /\ before \in Seq(Entries) /\ Len(before) = f - 1
      /\ \A k \in 1..(f - 1) : before[k] = kq[k]
  <2>1. 1 \in Int /\ f - 1 \in Int /\ \A j \in 1..(f - 1) : kq[j] \in Entries
    BY <1>1
  <2>2. /\ before \in Seq(Entries)
        /\ Len(before) = IF 1 <= f - 1 THEN (f - 1) - 1 + 1 ELSE 0
        /\ \A k \in 1..((f - 1) - 1 + 1) : before[k] = kq[1 + k - 1]
    BY <2>1, SubSeqProperties
  <2> QED BY <2>2, <1>1
<1>3. /\ behind \in Seq(Entries) /\ Len(behind) = Len(kq) - f
      /\ \A k \in 1..(Len(kq) - f) : behind[k] = kq[f + k]
  <2>1. f + 1 \in Int /\ Len(kq) \in Int /\ \A j \in (f + 1)..Len(kq) : kq[j] \in Entries
    BY <1>1
  <2>2. /\ behind \in Seq(Entries)
        /\ Len(behind) = IF f + 1 <= Len(kq) THEN Len(kq) - (f + 1) + 1 ELSE 0
        /\ \A k \in 1..(Len(kq) - (f + 1) + 1) : behind[k] = kq[(f + 1) + k - 1]
    BY <2>1, SubSeqProperties
  <2>3. /\ Len(kq) - (f + 1) + 1 = Len(kq) - f
        /\ (IF f + 1 <= Len(kq) THEN Len(kq) - (f + 1) + 1 ELSE 0) = Len(kq) - f
    <3> DEFINE l == Len(kq)
    <3>1. l \in Nat /\ f \in 1..l
      BY <1>1
    <3> HIDE DEF l
    <3>2. l - (f + 1) + 1 = l - f
      BY <3>1
    <3>3. (IF f + 1 <= l THEN l - f ELSE 0) = l - f
      BY <3>1
    <3> QED BY <3>2, <3>3 DEF l
  <2>4. ASSUME NEW k \in 1..(Len(kq) - f) PROVE behind[k] = kq[f + k]
    <3>1. (f + 1) + k - 1 = f + k
      BY <1>1
    <3>2. behind[k] = kq[(f + 1) + k - 1]
      BY <2>2, <2>3
    <3> QED BY <3>1, <3>2
  <2> QED BY <2>2, <2>3, <2>4
<1>4. kq' = before \o behind
  BY DEF Dequeue
<1> DEFINE l == Len(kq)
<1>5. l \in Nat /\ f \in 1..l /\ Len(before) = f - 1 /\ Len(behind) = l - f
  BY <1>1, <1>2, <1>3
<1>6. /\ before \o behind \in Seq(Entries)
      /\ Len(before \o behind) = Len(before) + Len(behind)
      /\ \A k \in 1..(Len(before) + Len(behind)) :
            (before \o behind)[k] = IF k <= Len(before) THEN before[k] ELSE behind[k - Len(before)]
  BY <1>2, <1>3, ConcatProperties
<1> HIDE DEF before, behind
<1>7. Len(before) + Len(behind) = Len(kq) - 1
  <2> HIDE DEF l
  <2>1. Len(before) + Len(behind) = l - 1
    BY <1>5
  <2> QED BY <2>1 DEF l
<1>8. DOMAIN kq' = 1..(Len(kq) - 1)
  BY <1>4, <1>6, <1>7, LenProperties
<1>9. ASSUME NEW k \in 1..(Len(kq) - 1) PROVE kq'[k] = kq[Shift(f, k)]
  <2>1. kq'[k] = IF k <= f - 1 THEN before[k] ELSE behind[k - (f - 1)]
    BY <1>4, <1>5, <1>6, <1>7
  <2>2. CASE k < f
    BY <1>2, <2>1, <2>2 DEF Shift
  <2>3. CASE ~(k < f)
    <3>1. k - (f - 1) \in 1..(Len(kq) - f) /\ f + (k - (f - 1)) = k + 1 /\ ~(k <= f - 1)
      BY <1>1, <2>3
    <3> QED BY <1>3, <2>1, <2>3, <3>1 DEF Shift
  <2> QED BY <2>2, <2>3
<1> QED BY <1>1, <1>8, <1>9

\* A place in the queue after an entry was taken, and where that was before.
LEMMA PlaceBefore ==
    ASSUME kq \in Seq(Entries), NEW f \in 1..Len(kq), Dequeue(f), NEW t, NEW k \in Waiting(t)'
    PROVE  /\ k \in Nat /\ Shift(f, k) \in Nat /\ Shift(f, k) # f
           /\ Shift(f, k) \in Waiting(t) /\ kq'[k] = kq[Shift(f, k)]
<1>1. /\ Len(kq) \in Nat /\ DOMAIN kq = 1..Len(kq) /\ DOMAIN kq' = 1..(Len(kq) - 1)
      /\ \A l \in 1..(Len(kq) - 1) : kq'[l] = kq[Shift(f, l)]
  BY Taken
<1>2. k \in 1..(Len(kq) - 1) /\ kq'[k].type = t
  BY <1>1 DEF Waiting
<1>3. Shift(f, k) \in 1..Len(kq) /\ Shift(f, k) # f /\ k \in Nat
  BY <1>1, <1>2 DEF Shift
<1> QED BY <1>1, <1>2, <1>3 DEF Waiting

\* A place in the queue after an entry was put.
LEMMA PlaceAfterPut ==
    ASSUME kq \in Seq(Entries), NEW u \in 1..Server, NEW mail \in Mail, Enqueue(u, mail),
           NEW t, NEW k \in Waiting(t)'
    PROVE  /\ k \in Nat /\ Len(kq) \in Nat /\ DOMAIN kq = 1..Len(kq)
           /\ \/ k \in Waiting(t) /\ k <= Len(kq) /\ kq'[k] = kq[k]
              \/ k = Len(kq) + 1 /\ u = t /\ kq'[k].mail = mail
<1> DEFINE e == [type |-> u, mail |-> mail]
<1>1. e \in Entries /\ e.type = u /\ e.mail = mail
  BY DEF Entries
<1>2. kq' = Append(kq, e)
  BY DEF Enqueue
<1> HIDE DEF e
<1>3. /\ Len(kq) \in Nat /\ DOMAIN kq = 1..Len(kq) /\ DOMAIN kq' = 1..(Len(kq) + 1)
      /\ \A l \in 1..Len(kq) : kq'[l] = kq[l]
      /\ kq'[Len(kq) + 1] = e
  <2>1. /\ kq' \in Seq(Entries) /\ Len(kq') = Len(kq) + 1
        /\ \A l \in 1..Len(kq) : kq'[l] = kq[l]
        /\ kq'[Len(kq) + 1] = e
    BY <1>1, <1>2, AppendProperties
  <2>2. Len(kq) \in Nat /\ DOMAIN kq = 1..Len(kq) /\ DOMAIN kq' = 1..Len(kq')
    BY <2>1, LenProperties
  <2> QED BY <2>1, <2>2
<1>4. k \in 1..(Len(kq) + 1) /\ kq'[k].type = t
  BY <1>3 DEF Waiting
<1>5. CASE k \in 1..Len(kq)
  BY <1>3, <1>4, <1>5 DEF Waiting
<1>6. CASE k = Len(kq) + 1
  BY <1>1, <1>3, <1>4, <1>6
<1> QED BY <1>3, <1>4, <1>5, <1>6

-----------------------------------------------------------------------------
(* Every step keeps the numbers in order.                                  *)

\* A step that moves nothing, or drops something.
LEMMA SortedStays ==
    ASSUME Sorted, stale => stale', Holding' => Holding \/ stale',
           \A c \in Clients : \A a \in 0..5 : \A j, m \in Nat : On(c, a, j, m)' => On(c, a, j, m)
    PROVE  Sorted'
<1> SUFFICES ASSUME NEW c \in Clients, NEW a \in 0..5, NEW b \in 0..5, NEW j \in Nat, NEW k \in Nat,
                    NEW m \in Nat, NEW n \in Nat, On(c, a, j, m)', On(c, b, k, n)', Before(a, j, b, k)
             PROVE  Apart(a, b, m, n)'
    BY DEF Sorted, Before
<1>1. Apart(a, b, m, n)
  BY DEF Sorted
<1> QED BY <1>1 DEF Apart

\* The thread receives the first message for the server (server.cpp:131).
LEMMA MsgRcvSorted == ASSUME MailTypes, Sorted, MsgRcv PROVE Sorted'
<1> USE DEF MailTypes, recvVars, mainVars, netVars, queueVars
<1> SUFFICES ASSUME NEW c \in Clients, NEW a \in 0..5, NEW b \in 0..5, NEW j \in Nat, NEW k \in Nat,
                    NEW m \in Nat, NEW n \in Nat, On(c, a, j, m)', On(c, b, k, n)', Before(a, j, b, k)
             PROVE  Apart(a, b, m, n)'
    BY DEF Sorted, Before
<1> DEFINE f == First(Server)
           A(x) == IF x = 4 THEN 5 ELSE x
           J(x, y) == IF x = 4 THEN f ELSE IF x \in {1, 5} THEN Shift(f, y) ELSE y
<1>1. /\ f \in Waiting(Server) /\ f \in 1..Len(kq) /\ f \in Nat /\ Dequeue(f)
      /\ \A l \in Waiting(Server) : f <= l
  <2>1. Waiting(Server) # {} /\ Dequeue(f)
    BY DEF MsgRcv
  <2>2. f \in Waiting(Server) /\ f \in 1..Len(kq) /\ \A l \in Waiting(Server) : f <= l
    BY <2>1, FirstIsWaiting, FirstIsFirst
  <2> QED BY <2>1, <2>2
<1>2. /\ UNCHANGED <<queue, stale, mpc, out, last>> /\ mess' = kq[f].mail
      /\ rpc = "recv" /\ rpc' = "lock"
  BY DEF MsgRcv
<1> HIDE DEF f
<1>3. ASSUME NEW t, NEW y \in Waiting(t)'
      PROVE  /\ Shift(f, y) \in Nat /\ Shift(f, y) # f /\ Shift(f, y) \in Waiting(t)
             /\ kq'[y] = kq[Shift(f, y)]
  BY <1>1, <1>3, PlaceBefore
<1>4. ASSUME NEW x \in 0..5, NEW y \in Nat, NEW z \in Nat, On(c, x, y, z)'
      PROVE  /\ On(c, A(x), J(x, y), z) /\ A(x) \in (0..5) \ {4} /\ J(x, y) \in Nat
             /\ x \in {0, 2, 4} => y = 1
  <2>1. CASE x \in {0, 2, 3}
    BY <1>2, <1>4, <2>1 DEF On, Leaving
  <2>2. CASE x = 1
    <3>1. y \in Waiting(c)' /\ z = kq'[y].mail.id
      BY <1>4, <2>2 DEF On
    <3> QED BY <1>3, <2>2, <3>1 DEF On
  <2>3. CASE x = 4
    BY <1>1, <1>2, <1>4, <2>3 DEF On, Leaving
  <2>4. CASE x = 5
    <3>1. y \in Waiting(Server)' /\ z = kq'[y].mail.id /\ kq'[y].mail.dest = c /\ ~Leaving
      BY <1>2, <1>4, <2>4 DEF On, Leaving
    <3>2. Shift(f, y) \in Nat /\ Shift(f, y) \in Waiting(Server) /\ kq'[y] = kq[Shift(f, y)]
      BY <1>3, <3>1
    <3>3. On(c, 5, Shift(f, y), z)
      BY <3>1, <3>2 DEF On
    <3> QED BY <2>4, <3>2, <3>3
  <2> QED BY <2>1, <2>2, <2>3, <2>4
<1>5. /\ On(c, A(a), J(a, j), m) /\ A(a) \in (0..5) \ {4} /\ J(a, j) \in Nat
      /\ a \in {0, 2, 4} => j = 1
  BY <1>4
<1>6. /\ On(c, A(b), J(b, k), n) /\ A(b) \in (0..5) \ {4} /\ J(b, k) \in Nat
      /\ b \in {0, 2, 4} => k = 1
  BY <1>4
<1>7. Before(A(a), J(a, j), A(b), J(b, k))
  <2>1. CASE b = 4
    BY <1>5, <1>6, <2>1 DEF Before
  <2>2. CASE a = 4 /\ b # 4
    <3>1. b = 5 /\ k \in Waiting(Server)'
      BY <2>2 DEF Before, On
    <3>2. Shift(f, k) \in Nat /\ f < Shift(f, k)
      BY <1>1, <1>3, <3>1
    <3> QED BY <2>2, <3>1, <3>2 DEF Before
  <2>3. CASE a # 4 /\ b # 4
    BY <1>1, <2>3 DEF Before, Shift
  <2> QED BY <2>1, <2>2, <2>3
<1>8. Apart(A(a), A(b), m, n)
  BY <1>5, <1>6, <1>7 DEF Sorted
<1>9. m < n \/ (m = n /\ stale)
  BY <1>5, <1>6, <1>8 DEF Apart
<1> QED BY <1>2, <1>9 DEF Apart

\* It pushes the message behind the others (server.cpp:133-135).
LEMMA PushSorted == ASSUME MailTypes, Sorted, PushMess PROVE Sorted'
<1> USE DEF MailTypes, recvVars, mainVars, netVars, queueVars
<1> SUFFICES ASSUME NEW c \in Clients, NEW a \in 0..5, NEW b \in 0..5, NEW j \in Nat, NEW k \in Nat,
                    NEW m \in Nat, NEW n \in Nat, On(c, a, j, m)', On(c, b, k, n)', Before(a, j, b, k)
             PROVE  Apart(a, b, m, n)'
    BY DEF Sorted, Before
<1> DEFINE l == Len(queue) + 1
           A(x, y) == IF x = 3 /\ y = l THEN 4 ELSE x
           J(x, y) == IF x = 3 /\ y = l THEN 1 ELSE y
<1>1. /\ UNCHANGED <<stale, mpc, out, last, kq, mess>> /\ rpc = "push" /\ rpc' = "top"
      /\ queue' = Append(queue, mess)
  BY DEF PushMess, Push
<1>2. /\ l \in Nat /\ DOMAIN queue = 1..(l - 1) /\ DOMAIN queue' = 1..l
      /\ \A y \in 1..(l - 1) : queue'[y] = queue[y]
      /\ queue'[l] = mess
  <2>1. /\ queue' \in Seq(Mail) /\ Len(queue') = Len(queue) + 1 /\ queue'[Len(queue) + 1] = mess
        /\ \A y \in 1..Len(queue) : queue'[y] = queue[y]
    BY <1>1, AppendProperties
  <2>2. Len(queue) \in Nat /\ DOMAIN queue = 1..Len(queue) /\ DOMAIN queue' = 1..Len(queue')
    BY <2>1, LenProperties
  <2>3. l - 1 = Len(queue)
    BY <2>2
  <2> QED BY <2>1, <2>2, <2>3
<1> HIDE DEF l
<1>3. ASSUME NEW x \in 0..5, NEW y \in Nat, NEW z \in Nat, On(c, x, y, z)'
      PROVE  /\ On(c, A(x, y), J(x, y), z) /\ A(x, y) \in 0..5 /\ J(x, y) \in Nat
             /\ x \in {0, 2, 4} => y = 1
             /\ x = 3 => y \in 1..l
             /\ A(x, y) = 4 => z = mess.id
  <2>1. CASE x # 3
    BY <1>1, <1>3, <2>1 DEF On, Leaving, Waiting
  <2>2. CASE x = 3
    <3>1. y \in 1..l /\ queue'[y].dest = c /\ z = queue'[y].id /\ ~Leaving
      BY <1>1, <1>2, <1>3, <2>2 DEF On, Leaving
    <3>2. CASE y = l
      BY <1>2, <2>2, <3>1, <3>2 DEF On
    <3>3. CASE y # l
      <4>1. y \in 1..(l - 1)
        BY <1>2, <3>1, <3>3
      <4> QED BY <1>2, <2>2, <3>1, <3>3, <4>1 DEF On
    <3> QED BY <3>2, <3>3
  <2> QED BY <2>1, <2>2
<1>4. /\ On(c, A(a, j), J(a, j), m) /\ A(a, j) \in 0..5 /\ J(a, j) \in Nat
      /\ a \in {0, 2, 4} => j = 1
      /\ a = 3 => j \in 1..l
      /\ A(a, j) = 4 => m = mess.id
  BY <1>3
<1>5. /\ On(c, A(b, k), J(b, k), n) /\ A(b, k) \in 0..5 /\ J(b, k) \in Nat
      /\ b \in {0, 2, 4} => k = 1
      /\ b = 3 => k \in 1..l
      /\ A(b, k) = 4 => n = mess.id
  BY <1>3
<1>6. CASE A(a, j) = 4 /\ A(b, k) = 4
  <2>1. m = n /\ b = 4
    BY <1>2, <1>4, <1>5, <1>6 DEF Before
  <2> QED BY <1>1, <2>1 DEF Apart, Holding
<1>7. CASE ~(A(a, j) = 4 /\ A(b, k) = 4)
  <2>1. Before(A(a, j), J(a, j), A(b, k), J(b, k))
    <3>1. CASE a = 3 /\ j = l
      <4>1. b \in {4, 5}
        BY <1>2, <1>5, <3>1 DEF Before
      <4>2. b = 5
        BY <1>7, <3>1, <4>1
      <4> QED BY <3>1, <4>2 DEF Before
    <3>2. CASE ~(a = 3 /\ j = l) /\ b = 3 /\ k = l
      <4>1. a < 4
        BY <3>2 DEF Before
      <4> QED BY <3>2, <4>1 DEF Before
    <3>3. CASE ~(a = 3 /\ j = l) /\ ~(b = 3 /\ k = l)
      BY <3>3
    <3> QED BY <3>1, <3>2, <3>3
  <2>2. Apart(A(a, j), A(b, k), m, n)
    BY <1>4, <1>5, <2>1 DEF Sorted
  <2>3. m < n \/ (m = n /\ stale)
    BY <1>1, <2>2 DEF Apart, Holding
  <2> QED BY <1>1, <2>3 DEF Apart
<1> QED BY <1>6, <1>7

\* Main takes the first message of the queue (server.cpp:81-84).
LEMMA TakeSorted == ASSUME MailTypes, Sorted, Take PROVE Sorted'
<1> USE DEF MailTypes, recvVars, mainVars, netVars, queueVars
<1> SUFFICES ASSUME NEW c \in Clients, NEW a \in 0..5, NEW b \in 0..5, NEW j \in Nat, NEW k \in Nat,
                    NEW m \in Nat, NEW n \in Nat, On(c, a, j, m)', On(c, b, k, n)', Before(a, j, b, k)
             PROVE  Apart(a, b, m, n)'
    BY DEF Sorted, Before
<1> DEFINE A(x) == IF x = 2 THEN 3 ELSE x
           J(x, y) == IF x = 2 THEN 1 ELSE IF x = 3 THEN y + 1 ELSE y
<1>1. /\ UNCHANGED <<stale, last, kq, mess, rpc>> /\ mpc = "pop" /\ mpc' = "send"
      /\ queue # <<>> /\ queue' = Tail(queue) /\ out' = Head(queue)
  BY DEF Take, Pop
<1>2. /\ Len(queue) \in Nat \ {0} /\ DOMAIN queue = 1..Len(queue)
      /\ DOMAIN queue' = 1..(Len(queue) - 1)
      /\ \A y \in 1..(Len(queue) - 1) : queue'[y] = queue[y + 1]
      /\ out' = queue[1]
  <2>1. /\ Len(queue) \in Nat \ {0} /\ DOMAIN queue = 1..Len(queue)
        /\ queue' \in Seq(Mail) /\ Len(queue') = Len(queue) - 1
        /\ \A y \in 1..Len(queue') : queue'[y] = queue[y + 1]
    BY <1>1, EmptySeq, LenProperties, HeadTailProperties
  <2>2. DOMAIN queue' = 1..(Len(queue) - 1)
    BY <2>1, LenProperties
  <2>3. out' = queue[1]
    BY <1>1
  <2> QED BY <2>1, <2>2, <2>3
<1>3. ASSUME NEW x \in 0..5, NEW y \in Nat, NEW z \in Nat, On(c, x, y, z)'
      PROVE  /\ On(c, A(x), J(x, y), z) /\ A(x) \in 0..5 /\ J(x, y) \in Nat
             /\ x \in {0, 2, 4} => y = 1
             /\ x = 3 => y >= 1
  <2>1. CASE x \notin {2, 3}
    BY <1>1, <1>3, <2>1 DEF On, Leaving, Waiting
  <2>2. CASE x = 2
    <3>1. y = 1 /\ out'.dest = c /\ z = out'.id /\ ~Leaving
      BY <1>1, <1>3, <2>2 DEF On, Leaving
    <3>2. 1 \in DOMAIN queue /\ queue[1].dest = c /\ z = queue[1].id
      BY <1>2, <3>1
    <3> QED BY <2>2, <3>1, <3>2 DEF On
  <2>3. CASE x = 3
    <3>1. y \in 1..(Len(queue) - 1) /\ queue'[y].dest = c /\ z = queue'[y].id /\ ~Leaving
      BY <1>1, <1>2, <1>3, <2>3 DEF On, Leaving
    <3>2. queue'[y] = queue[y + 1]
      BY <1>2, <3>1
    <3>3. y + 1 \in DOMAIN queue
      <4> DEFINE l == Len(queue)
      <4>1. l \in Nat /\ y \in 1..(l - 1) /\ DOMAIN queue = 1..l
        BY <1>2, <3>1
      <4> HIDE DEF l
      <4> QED BY <4>1
    <3> QED BY <3>3, <2>3, <3>1, <3>2 DEF On
  <2> QED BY <2>1, <2>2, <2>3
<1>4. /\ On(c, A(a), J(a, j), m) /\ A(a) \in 0..5 /\ J(a, j) \in Nat
      /\ a \in {0, 2, 4} => j = 1
      /\ a = 3 => j >= 1
  BY <1>3
<1>5. /\ On(c, A(b), J(b, k), n) /\ A(b) \in 0..5 /\ J(b, k) \in Nat
      /\ b \in {0, 2, 4} => k = 1
      /\ b = 3 => k >= 1
  BY <1>3
<1>6. Before(A(a), J(a, j), A(b), J(b, k))
  BY <1>4, <1>5 DEF Before
<1>7. Apart(A(a), A(b), m, n)
  BY <1>4, <1>5, <1>6 DEF Sorted
<1> QED BY <1>1, <1>7 DEF Apart, Holding

\* Main sends the message on behind what waits (server.cpp:86-92).
LEMMA SendSorted == ASSUME MailTypes, Sorted, Send PROVE Sorted'
<1> USE DEF MailTypes, recvVars, mainVars, netVars, queueVars
<1>1. /\ UNCHANGED <<stale, last, queue, mess, rpc, out>> /\ mpc = "send" /\ mpc' = "drain"
      /\ IF out.dest = 0 THEN UNCHANGED kq ELSE Enqueue(out.dest, out)
  BY DEF Send
<1>2. CASE out.dest = 0
  <2>1. \A c \in Clients : \A a \in 0..5 : \A j, m \in Nat : On(c, a, j, m)' => On(c, a, j, m)
    BY <1>1, <1>2 DEF On, Leaving, Waiting
  <2> QED BY <1>1, <2>1, SortedStays DEF Holding
<1>3. CASE out.dest # 0
  <2> SUFFICES ASSUME NEW c \in Clients, NEW a \in 0..5, NEW b \in 0..5, NEW j \in Nat, NEW k \in Nat,
                      NEW m \in Nat, NEW n \in Nat, On(c, a, j, m)', On(c, b, k, n)', Before(a, j, b, k)
               PROVE  Apart(a, b, m, n)'
      BY DEF Sorted, Before
  <2> DEFINE l == Len(kq) + 1
             A(x, y) == IF x = 1 /\ y = l THEN 2 ELSE x
             J(x, y) == IF x = 1 /\ y = l THEN 1 ELSE y
  <2>1. out.dest \in 1..Server /\ out \in Mail /\ Enqueue(out.dest, out) /\ l \in Nat
    <3>1. Len(kq) \in Nat
      BY LenProperties
    <3>2. out \in Mail
      OBVIOUS
    <3>3. out.dest \in 1..Server
      BY <1>3, <3>2 DEF Mail, Server
    <3> QED BY <1>1, <1>3, <3>1, <3>2, <3>3
  <2>2. ASSUME NEW t, NEW y \in Waiting(t)'
        PROVE  \/ y \in Waiting(t) /\ y < l /\ kq'[y] = kq[y]
               \/ y = l /\ out.dest = t /\ kq'[y].mail = out
    BY <2>1, <2>2, PlaceAfterPut
  <2> HIDE DEF l
  <2>3. ASSUME NEW x \in 0..5, NEW y \in Nat, NEW z \in Nat, On(c, x, y, z)'
        PROVE  /\ On(c, A(x, y), J(x, y), z) /\ x # 2
               /\ x = 1 => y < l \/ y = l
    <3>1. CASE x \notin {1, 5}
      BY <1>1, <2>3, <3>1 DEF On, Leaving
    <3>2. CASE x = 1
      <4>1. y \in Waiting(c)' /\ z = kq'[y].mail.id
        BY <2>3, <3>2 DEF On
      <4>2. CASE y \in Waiting(c) /\ y < l /\ kq'[y] = kq[y]
        BY <2>1, <3>2, <4>1, <4>2 DEF On
      <4>3. CASE y = l /\ out.dest = c /\ kq'[y].mail = out
        BY <1>1, <3>2, <4>1, <4>3 DEF On, Leaving
      <4> QED BY <2>2, <4>1, <4>2, <4>3
    <3>3. CASE x = 5
      <4>1. y \in Waiting(Server)' /\ z = kq'[y].mail.id /\ kq'[y].mail.dest = c
        BY <2>3, <3>3 DEF On
      <4>2. y \in Waiting(Server) /\ kq'[y] = kq[y]
        <5>1. kq'[y].mail # out \/ out.dest # Server
          <6>1. c # Server
            BY DEF Server, Clients
          <6> QED BY <4>1, <6>1
        <5>2. \/ y \in Waiting(Server) /\ kq'[y] = kq[y]
              \/ out.dest = Server /\ kq'[y].mail = out
          BY <2>2, <4>1
        <5> QED BY <5>1, <5>2
      <4> QED BY <1>1, <3>3, <4>1, <4>2 DEF On, Leaving
    <3> QED BY <3>1, <3>2, <3>3
  <2>4. On(c, A(a, j), J(a, j), m) /\ a # 2 /\ (a = 1 => j < l \/ j = l)
    BY <2>3
  <2>5. On(c, A(b, k), J(b, k), n) /\ b # 2 /\ (b = 1 => k < l \/ k = l)
    BY <2>3
  <2>6. Before(A(a, j), J(a, j), A(b, k), J(b, k))
    <3>1. CASE a = 1 /\ j = l
      <4>1. b > 2
        BY <2>1, <2>5, <3>1 DEF Before
      <4> QED BY <3>1, <4>1 DEF Before
    <3>2. CASE ~(a = 1 /\ j = l) /\ b = 1 /\ k = l
      <4>1. a < 2
        BY <3>2 DEF Before
      <4> QED BY <3>2, <4>1 DEF Before
    <3>3. CASE ~(a = 1 /\ j = l) /\ ~(b = 1 /\ k = l)
      BY <3>3
    <3> QED BY <3>1, <3>2, <3>3
  <2>7. A(a, j) \in 0..5 /\ A(b, k) \in 0..5 /\ J(a, j) \in Nat /\ J(b, k) \in Nat
    OBVIOUS
  <2>8. Apart(A(a, j), A(b, k), m, n)
    BY <2>4, <2>5, <2>6, <2>7 DEF Sorted
  <2> QED BY <1>1, <2>8 DEF Apart, Holding
<1> QED BY <1>2, <1>3

\* "Quit" comes behind everything, and what is not sent is dropped
\* (server.cpp:97-103).
LEMMA QuitSorted == ASSUME MailTypes, PlaceTypes, Numbered, Sorted, Quit PROVE Sorted'
<1> USE DEF MailTypes, recvVars, mainVars, netVars, queueVars
<1>1. UNCHANGED <<stale, last, queue, mess, rpc, out, nsent>> /\ mpc = "quit" /\ Leaving /\ Leaving'
  BY DEF Quit, QuitUpTo, Leaving
<1>2. CASE kq' = kq
  <2>1. \A c \in Clients : \A a \in 0..5 : \A j, m \in Nat : On(c, a, j, m)' => On(c, a, j, m)
    BY <1>1, <1>2 DEF On, Waiting
  <2> QED BY <1>1, <2>1, SortedStays DEF Holding
<1>3. CASE i < 3 /\ Enqueue(i + 1, [out EXCEPT !.id = Quitting])
  <2> SUFFICES ASSUME NEW c \in Clients, NEW a \in 0..5, NEW b \in 0..5, NEW j \in Nat, NEW k \in Nat,
                      NEW m \in Nat, NEW n \in Nat, On(c, a, j, m)', On(c, b, k, n)', Before(a, j, b, k)
               PROVE  Apart(a, b, m, n)'
      BY DEF Sorted, Before
  <2> DEFINE l == Len(kq) + 1
             mail == [out EXCEPT !.id = Quitting]
  <2>1. i + 1 \in 1..Server /\ mail \in Mail /\ mail.id = Quitting /\ Enqueue(i + 1, mail)
    <3>1. i + 1 \in 1..Server
      BY <1>3 DEF PlaceTypes, Server
    <3>2. out \in Mail /\ Quitting \in 0..Quitting
      BY QueueBounds DEF QueueBounds, Quitting
    <3>3. mail \in Mail /\ mail.id = Quitting
      BY <3>2 DEF Mail
    <3> QED BY <1>3, <3>1, <3>3
  <2> HIDE DEF mail
  <2>2. ASSUME NEW t, NEW y \in Waiting(t)'
        PROVE  /\ l \in Nat
               /\ \/ y \in Waiting(t) /\ y < l /\ kq'[y] = kq[y]
                  \/ y = l /\ i + 1 = t /\ kq'[y].mail = mail
    BY <2>1, <2>2, PlaceAfterPut
  <2> HIDE DEF l
  <2>3. ASSUME NEW x \in 0..5, NEW y \in Nat, NEW z \in Nat, On(c, x, y, z)'
        PROVE  /\ x \in {0, 1} /\ (x = 0 => y = 1)
               /\ \/ On(c, x, y, z) /\ (x = 1 => y < l)
                  \/ x = 1 /\ y = l /\ c = i + 1 /\ z = Quitting
    <3>1. x \in {0, 1} /\ (x = 0 => y = 1)
      BY <1>1, <2>3 DEF On
    <3>2. CASE x = 0
      BY <1>1, <2>3, <3>2 DEF On
    <3>3. CASE x = 1
      <4>1. y \in Waiting(c)' /\ z = kq'[y].mail.id
        BY <2>3, <3>3 DEF On
      <4>2. CASE y \in Waiting(c) /\ y < l /\ kq'[y] = kq[y]
        BY <3>3, <4>1, <4>2 DEF On
      <4>3. CASE y = l /\ i + 1 = c /\ kq'[y].mail = mail
        BY <2>1, <3>3, <4>1, <4>3
      <4> QED BY <2>2, <4>1, <4>2, <4>3, <3>3
    <3> QED BY <3>1, <3>2, <3>3
  <2>4. ASSUME NEW x \in {0, 1}, NEW y \in Nat, NEW z \in Nat, On(c, x, y, z), c = i + 1
        PROVE  z < Quitting
    <3>1. z <= nsent
      <4>1. CASE x = 0
        BY <2>4, <4>1 DEF On, Numbered, PlaceTypes
      <4>2. CASE x = 1
        <5>1. y \in DOMAIN kq /\ kq[y].type = c /\ z = kq[y].mail.id
          BY <2>4, <4>2 DEF On, Waiting
        <5>2. ~(kq[y].type <= i)
          BY <2>4, <5>1 DEF PlaceTypes
        <5> QED BY <5>1, <5>2 DEF Numbered
      <4> QED BY <4>1, <4>2
    <3> QED BY <3>1, QueueBounds DEF QueueBounds, Quitting
  <2>5. /\ a \in {0, 1} /\ (a = 0 => j = 1)
        /\ \/ On(c, a, j, m) /\ (a = 1 => j < l)
           \/ a = 1 /\ j = l /\ c = i + 1 /\ m = Quitting
    BY <2>3
  <2>6. /\ b \in {0, 1} /\ (b = 0 => k = 1)
        /\ \/ On(c, b, k, n) /\ (b = 1 => k < l)
           \/ b = 1 /\ k = l /\ c = i + 1 /\ n = Quitting
    BY <2>3
  <2>7. l \in Nat
    <3>1. Len(kq) \in Nat
      BY LenProperties
    <3> QED BY <3>1 DEF l
  <2>8. CASE a = 1 /\ j = l
    <3>1. FALSE
      BY <2>6, <2>7, <2>8 DEF Before
    <3> QED BY <3>1
  <2>9. CASE ~(a = 1 /\ j = l) /\ b = 1 /\ k = l
    <3>1. On(c, a, j, m) /\ n = Quitting /\ c = i + 1
      BY <2>5, <2>6, <2>7, <2>9
    <3>2. m < n
      BY <2>4, <2>5, <3>1
    <3> QED BY <3>2 DEF Apart
  <2>10. CASE ~(a = 1 /\ j = l) /\ ~(b = 1 /\ k = l)
    <3>1. Apart(a, b, m, n)
      BY <2>5, <2>6, <2>10 DEF Sorted
    <3> QED BY <1>1, <3>1 DEF Apart, Holding
  <2> QED BY <2>8, <2>9, <2>10
<1> QED BY <1>2, <1>3 DEF Quit, QuitUpTo

\* A new message comes behind everything.
LEMMA ClientSendSorted ==
    ASSUME MailTypes, Numbered, Sorted, NEW dest \in 1..Server, ClientSend(dest)
    PROVE  Sorted'
<1> USE DEF MailTypes, recvVars, mainVars, netVars, queueVars
<1> SUFFICES ASSUME NEW c \in Clients, NEW a \in 0..5, NEW b \in 0..5, NEW j \in Nat, NEW k \in Nat,
                    NEW m \in Nat, NEW n \in Nat, On(c, a, j, m)', On(c, b, k, n)', Before(a, j, b, k)
             PROVE  Apart(a, b, m, n)'
    BY DEF Sorted, Before
<1> DEFINE l == Len(kq) + 1
           mail == [id |-> nsent + 1, dest |-> dest]
<1>1. /\ UNCHANGED <<stale, last, queue, mess, rpc, mpc, out>>
      /\ Enqueue(Server, mail) /\ mail \in Mail /\ mail.id = nsent + 1
  <2>1. nsent + 1 \in 0..Quitting /\ dest \in 0..Server
    BY QueueBounds DEF QueueBounds, Quitting, Server, ClientSend
  <2> QED BY <2>1 DEF ClientSend, Mail
<1> HIDE DEF mail
<1>2. ASSUME NEW t, NEW y \in Waiting(t)'
      PROVE  \/ y \in Waiting(t) /\ y < l /\ kq'[y] = kq[y]
             \/ y = l /\ Server = t /\ kq'[y].mail = mail
  <2>1. Server \in 1..Server
    BY DEF Server
  <2> QED BY <1>1, <1>2, <2>1, PlaceAfterPut
<1>3. l \in Nat
  BY LenProperties
<1> HIDE DEF l
<1>4. ASSUME NEW x \in 0..5, NEW y \in Nat, NEW z \in Nat, On(c, x, y, z)'
      PROVE  \/ On(c, x, y, z) /\ (x = 5 => y < l)
             \/ x = 5 /\ y = l /\ z = nsent + 1 /\ ~Leaving
  <2>1. CASE x \notin {1, 5}
    BY <1>1, <1>4, <2>1 DEF On, Leaving
  <2>2. CASE x = 1
    <3>1. y \in Waiting(c)' /\ z = kq'[y].mail.id
      BY <1>4, <2>2 DEF On
    <3>2. y \in Waiting(c) /\ kq'[y] = kq[y]
      <4>1. Server # c
        BY DEF Server, Clients
      <4> QED BY <1>2, <3>1, <4>1
    <3> QED BY <2>2, <3>1, <3>2 DEF On
  <2>3. CASE x = 5
    <3>1. y \in Waiting(Server)' /\ z = kq'[y].mail.id /\ kq'[y].mail.dest = c /\ ~Leaving
      BY <1>1, <1>4, <2>3 DEF On, Leaving
    <3>2. CASE y \in Waiting(Server) /\ y < l /\ kq'[y] = kq[y]
      BY <2>3, <3>1, <3>2 DEF On
    <3>3. CASE y = l /\ kq'[y].mail = mail
      BY <1>1, <2>3, <3>1, <3>3
    <3> QED BY <1>2, <3>1, <3>2, <3>3
  <2> QED BY <2>1, <2>2, <2>3
<1>5. ASSUME NEW x \in 0..5, NEW y \in Nat, NEW z \in Nat, On(c, x, y, z), ~Leaving
      PROVE  z <= nsent
  <2>1. Waiting(c) \subseteq DOMAIN kq /\ Waiting(Server) \subseteq DOMAIN kq
    BY DEF Waiting
  <2>2. \/ z = last[c] \/ z = out.id \/ z = mess.id
        \/ \E q \in DOMAIN kq : z = kq[q].mail.id
        \/ \E q \in DOMAIN queue : z = queue[q].id
    BY <1>5, <2>1 DEF On
  <2> QED BY <1>5, <2>2 DEF Numbered
<1>6. \/ On(c, a, j, m) /\ (a = 5 => j < l)
      \/ a = 5 /\ j = l /\ m = nsent + 1 /\ ~Leaving
  BY <1>4
<1>7. \/ On(c, b, k, n) /\ (b = 5 => k < l)
      \/ b = 5 /\ k = l /\ n = nsent + 1 /\ ~Leaving
  BY <1>4
<1>8. CASE a = 5 /\ j = l
  <2>1. FALSE
    BY <1>3, <1>7, <1>8 DEF Before
  <2> QED BY <2>1
<1>9. CASE ~(a = 5 /\ j = l) /\ b = 5 /\ k = l
  <2>1. On(c, a, j, m) /\ n = nsent + 1 /\ ~Leaving
    BY <1>3, <1>6, <1>7, <1>9
  <2>2. m < n
    BY <1>5, <2>1
  <2> QED BY <2>2 DEF Apart
<1>10. CASE ~(a = 5 /\ j = l) /\ ~(b = 5 /\ k = l)
  <2>1. Apart(a, b, m, n)
    BY <1>6, <1>7, <1>10 DEF Sorted
  <2> QED BY <1>1, <2>1 DEF Apart, Holding
<1> QED BY <1>8, <1>9, <1>10

\* A client takes the first message that waits for it.
LEMMA ClientReceiveSorted ==
    ASSUME MailTypes, Sorted, NEW d \in Clients, ClientReceive(d)
    PROVE  Sorted'
<1> USE DEF MailTypes, recvVars, mainVars, netVars, queueVars
<1> SUFFICES ASSUME NEW c \in Clients, NEW a \in 0..5, NEW b \in 0..5, NEW j \in Nat, NEW k \in Nat,
                    NEW m \in Nat, NEW n \in Nat, On(c, a, j, m)', On(c, b, k, n)', Before(a, j, b, k)
             PROVE  Apart(a, b, m, n)'
    BY DEF Sorted, Before
<1> DEFINE f == First(d)
           A(x) == IF x = 0 /\ c = d THEN 1 ELSE x
           J(x, y) == IF x = 0 /\ c = d THEN f ELSE IF x \in {1, 5} THEN Shift(f, y) ELSE y
<1>1. /\ f \in Waiting(d) /\ f \in 1..Len(kq) /\ f \in Nat /\ Dequeue(f)
      /\ \A l \in Waiting(d) : f <= l
  <2>1. Waiting(d) # {} /\ Dequeue(f)
    BY DEF ClientReceive
  <2>2. f \in Waiting(d) /\ f \in 1..Len(kq) /\ \A l \in Waiting(d) : f <= l
    BY <2>1, FirstIsWaiting, FirstIsFirst
  <2> QED BY <2>1, <2>2
<1>2. /\ UNCHANGED <<queue, stale, mpc, out, mess, rpc>>
      /\ last' = [last EXCEPT ![d] = kq[f].mail.id]
  BY DEF ClientReceive
<1> HIDE DEF f
<1>3. ASSUME NEW t, NEW y \in Waiting(t)'
      PROVE  /\ Shift(f, y) \in Nat /\ Shift(f, y) # f /\ Shift(f, y) \in Waiting(t)
             /\ kq'[y] = kq[Shift(f, y)]
  BY <1>1, <1>3, PlaceBefore
<1>4. ASSUME NEW x \in 0..5, NEW y \in Nat, NEW z \in Nat, On(c, x, y, z)'
      PROVE  /\ On(c, A(x), J(x, y), z) /\ A(x) \in 0..5 /\ J(x, y) \in Nat
             /\ x = 0 => y = 1
             /\ x = 1 => y \in Waiting(c)'
  <2>1. CASE x \in {2, 3, 4}
    BY <1>2, <1>4, <2>1 DEF On, Leaving
  <2>2. CASE x = 1
    <3>1. y \in Waiting(c)' /\ z = kq'[y].mail.id
      BY <1>4, <2>2 DEF On
    <3> QED BY <1>3, <2>2, <3>1 DEF On
  <2>3. CASE x = 0
    <3>1. y = 1 /\ z = last'[c]
      BY <1>4, <2>3 DEF On
    <3>2. CASE c = d
      <4>1. last'[c] = kq[f].mail.id
        BY <1>2, <3>2
      <4> QED BY <1>1, <2>3, <3>1, <3>2, <4>1 DEF On
    <3>3. CASE c # d
      <4>1. last'[c] = last[c]
        BY <1>2, <3>3
      <4> QED BY <2>3, <3>1, <3>3, <4>1 DEF On
    <3> QED BY <3>2, <3>3
  <2>4. CASE x = 5
    <3>1. y \in Waiting(Server)' /\ z = kq'[y].mail.id /\ kq'[y].mail.dest = c /\ ~Leaving
      BY <1>2, <1>4, <2>4 DEF On, Leaving
    <3>2. Shift(f, y) \in Nat /\ Shift(f, y) \in Waiting(Server) /\ kq'[y] = kq[Shift(f, y)]
      BY <1>3, <3>1
    <3>3. On(c, 5, Shift(f, y), z)
      BY <3>1, <3>2 DEF On
    <3> QED BY <2>4, <3>2, <3>3
  <2> QED BY <2>1, <2>2, <2>3, <2>4
<1>5. /\ On(c, A(a), J(a, j), m) /\ A(a) \in 0..5 /\ J(a, j) \in Nat
      /\ (a = 0 => j = 1)
  BY <1>4
<1>6. /\ On(c, A(b), J(b, k), n) /\ A(b) \in 0..5 /\ J(b, k) \in Nat
      /\ (b = 0 => k = 1) /\ (b = 1 => k \in Waiting(c)')
  BY <1>4
<1>7. Before(A(a), J(a, j), A(b), J(b, k))
  <2>1. CASE a = 0 /\ c = d
    <3>1. b # 0
      BY <1>5, <1>6, <2>1 DEF Before
    <3>2. CASE b = 1
      <4>1. Shift(f, k) \in Nat /\ f < Shift(f, k)
        BY <1>1, <1>3, <1>6, <2>1, <3>2
      <4> QED BY <2>1, <3>2, <4>1 DEF Before
    <3>3. CASE b > 1
      BY <2>1, <3>3 DEF Before
    <3> QED BY <3>1, <3>2, <3>3
  <2>2. CASE ~(a = 0 /\ c = d)
    <3>1. ~(b = 0 /\ c = d)
      BY <1>5, <1>6, <2>2 DEF Before
    <3> QED BY <1>1, <2>2, <3>1 DEF Before, Shift
  <2> QED BY <2>1, <2>2
<1>8. Apart(A(a), A(b), m, n)
  BY <1>5, <1>6, <1>7 DEF Sorted
<1>9. (A(a) = 4 <=> a = 4) /\ (A(b) = 4 <=> b = 4)
  OBVIOUS
<1> QED BY <1>2, <1>8, <1>9 DEF Apart, Holding

-----------------------------------------------------------------------------
(* The numbers themselves.                                                 *)

\* Every message has a number that was given, and "Quit" is what main's index
\* has passed (server.cpp:97-103).
LEMMA NumberedKept == ASSUME MailTypes, PlaceTypes, Numbered, Next PROVE Numbered'
<1> USE DEF MailTypes, PlaceTypes, recvVars, mainVars, netVars, queueVars
<1>1. ASSUME UNCHANGED <<mess, out, queue, kq, last, nsent>>, Leaving => Leaving', i' = i \/ i' = i + 1
      PROVE  Numbered'
  <2>1. \A n \in Nat : n <= i => n <= i'
    BY <1>1
  <2>2. \A k \in DOMAIN kq : kq[k].type \in Nat
    <3>1. \A k \in DOMAIN kq : kq[k] \in Entries
      OBVIOUS
    <3>2. \A e \in Entries : e.type \in Nat
      BY DEF Entries, Server
    <3> QED BY <3>1, <3>2
  <2>3. \A c \in Clients : c \in Nat
    BY DEF Clients
  <2>4. \A k \in DOMAIN kq' : kq'[k].mail.id <= nsent' \/ (Leaving' /\ kq'[k].type <= i')
    BY <1>1, <2>1, <2>2 DEF Numbered
  <2>5. \A c \in Clients : last'[c] <= nsent' \/ (Leaving' /\ c <= i')
    BY <1>1, <2>1, <2>3 DEF Numbered
  <2>6. mess'.id <= nsent' /\ out'.id <= nsent' /\ \A k \in DOMAIN queue' : queue'[k].id <= nsent'
    BY <1>1 DEF Numbered
  <2> QED BY <2>4, <2>5, <2>6 DEF Numbered
<1>2. CASE Poll \/ Lock \/ Start \/ Loop \/ Drain \/ SigInt
  <2>1. UNCHANGED <<mess, out, queue, kq, last, nsent>> /\ (i' = i \/ i' = i + 1)
    BY <1>2 DEF Poll, Lock, LockToPush, Start, Loop, LoopWhile, Drain, SigInt
  <2>2. Leaving => Leaving'
    BY <1>2 DEF Poll, Lock, Start, Loop, LoopWhile, Drain, SigInt, Leaving
  <2> QED BY <1>1, <2>1, <2>2
<1>3. CASE MsgRcv
  <2> DEFINE f == First(Server)
  <2>1. f \in Waiting(Server) /\ f \in 1..Len(kq) /\ Dequeue(f) /\ mess' = kq[f].mail
    BY <1>3, FirstIsWaiting DEF MsgRcv
  <2> HIDE DEF f
  <2>2. /\ Len(kq) \in Nat /\ DOMAIN kq = 1..Len(kq) /\ DOMAIN kq' = 1..(Len(kq) - 1)
        /\ \A k \in 1..(Len(kq) - 1) : kq'[k] = kq[Shift(f, k)]
    BY <2>1, Taken
  <2>3. UNCHANGED <<out, queue, last, nsent, mpc, i>>
    BY <1>3 DEF MsgRcv
  <2>4. mess'.id <= nsent
    <3>1. ~(kq[f].type <= i)
      BY <2>1 DEF Waiting, Server
    <3> QED BY <2>1, <2>2, <3>1 DEF Numbered
  <2>5. \A k \in DOMAIN kq' : Shift(f, k) \in DOMAIN kq
    BY <2>1, <2>2 DEF Shift
  <2>6. \A k \in DOMAIN kq' : kq'[k].mail.id <= nsent \/ (Leaving /\ kq'[k].type <= i)
    BY <2>2, <2>5 DEF Numbered
  <2> QED BY <2>3, <2>4, <2>6 DEF Numbered, Leaving
<1>4. CASE PushMess
  <2>1. queue' = Append(queue, mess) /\ UNCHANGED <<mess, out, kq, last, nsent, mpc, i>>
    BY <1>4 DEF PushMess, Push
  <2>2. /\ Len(queue) \in Nat /\ DOMAIN queue = 1..Len(queue)
        /\ DOMAIN queue' = 1..(Len(queue) + 1)
        /\ \A k \in 1..Len(queue) : queue'[k] = queue[k]
        /\ queue'[Len(queue) + 1] = mess
    <3>1. /\ queue' \in Seq(Mail) /\ Len(queue') = Len(queue) + 1
          /\ queue'[Len(queue) + 1] = mess
          /\ \A k \in 1..Len(queue) : queue'[k] = queue[k]
      BY <2>1, AppendProperties
    <3> QED BY <3>1, LenProperties
  <2>3. \A k \in DOMAIN queue' : queue'[k].id <= nsent
    BY <2>2 DEF Numbered
  <2> QED BY <2>1, <2>3 DEF Numbered, Leaving
<1>5. CASE Take
  <2>1. /\ queue # <<>> /\ queue' = Tail(queue) /\ out' = Head(queue)
        /\ UNCHANGED <<mess, kq, last, nsent, i>> /\ mpc = "pop" /\ mpc' = "send"
    BY <1>5 DEF Take, Pop
  <2>2. /\ Len(queue) \in Nat \ {0} /\ DOMAIN queue = 1..Len(queue)
        /\ queue' \in Seq(Mail) /\ Len(queue') = Len(queue) - 1
        /\ \A k \in 1..Len(queue') : queue'[k] = queue[k + 1]
    BY <2>1, EmptySeq, LenProperties, HeadTailProperties
  <2>3. out' = queue[1]
    BY <2>1
  <2>4. DOMAIN queue' = 1..Len(queue')
    BY <2>2, LenProperties
  <2>5. \A k \in DOMAIN queue' : queue'[k].id <= nsent
    <3> SUFFICES ASSUME NEW k \in DOMAIN queue' PROVE queue'[k].id <= nsent
        OBVIOUS
    <3>1. k \in 1..Len(queue') /\ queue'[k] = queue[k + 1]
      BY <2>2, <2>4
    <3>2. k + 1 \in DOMAIN queue
      <4> DEFINE l == Len(queue)
      <4>1. l \in Nat /\ k \in 1..(l - 1) /\ DOMAIN queue = 1..l
        BY <2>2, <3>1
      <4> HIDE DEF l
      <4> QED BY <4>1
    <3> QED BY <3>1, <3>2 DEF Numbered
  <2>6. 1 \in DOMAIN queue
    BY <2>2
  <2>7. out'.id <= nsent
    BY <2>3, <2>6 DEF Numbered
  <2> QED BY <2>1, <2>5, <2>7 DEF Numbered, Leaving
<1>6. ASSUME NEW u \in 1..Server, NEW mail \in Mail, Enqueue(u, mail),
             UNCHANGED <<mess, out, queue, last>>,
             nsent' \in Nat, nsent <= nsent', i' \in Nat, i <= i', Leaving => Leaving',
             mail.id <= nsent' \/ (Leaving' /\ u <= i')
      PROVE  Numbered'
  <2>1. ASSUME NEW k \in DOMAIN kq' PROVE kq'[k].mail.id <= nsent' \/ (Leaving' /\ kq'[k].type <= i')
    <3> PICK t : t = kq'[k].type
      OBVIOUS
    <3>1. k \in Waiting(t)'
      BY DEF Waiting
    <3>2. \/ k \in Waiting(t) /\ kq'[k] = kq[k]
          \/ u = t /\ kq'[k].mail = mail
      BY <1>6, <3>1, PlaceAfterPut
    <3>3. CASE k \in Waiting(t) /\ kq'[k] = kq[k]
      <4>1. k \in DOMAIN kq /\ kq[k] \in Entries
        BY <3>3 DEF Waiting
      <4>2. kq[k].mail.id \in Nat /\ kq[k].type \in Nat
        BY <4>1 DEF Entries, Mail, Server, Quitting
      <4>3. kq[k].mail.id <= nsent \/ (Leaving /\ kq[k].type <= i)
        BY <4>1 DEF Numbered
      <4> QED BY <1>6, <3>3, <4>2, <4>3
    <3>4. CASE u = t /\ kq'[k].mail = mail
      BY <1>6, <3>4
    <3> QED BY <3>2, <3>3, <3>4
  <2>2. mess.id \in Nat /\ out.id \in Nat /\ nsent \in Nat
    BY DEF Mail
  <2>3. \A k \in DOMAIN queue : queue[k].id \in Nat
    <3>1. \A k \in DOMAIN queue : queue[k] \in Mail
      OBVIOUS
    <3>2. \A m \in Mail : m.id \in Nat
      BY QueueBounds DEF QueueBounds, Quitting, Mail
    <3> QED BY <3>1, <3>2
  <2>4. \A c \in Clients : last[c] \in Nat /\ c \in Nat
    BY DEF Clients
  <2>5. mess'.id <= nsent' /\ out'.id <= nsent'
    BY <1>6, <2>2 DEF Numbered
  <2>6. \A k \in DOMAIN queue' : queue'[k].id <= nsent'
    BY <1>6, <2>2, <2>3 DEF Numbered
  <2>7. \A c \in Clients : last'[c] <= nsent' \/ (Leaving' /\ c <= i')
    BY <1>6, <2>2, <2>4 DEF Numbered
  <2> QED BY <2>1, <2>5, <2>6, <2>7 DEF Numbered
<1>7. CASE Send
  <2>1. /\ UNCHANGED <<mess, out, queue, last, nsent, i>> /\ mpc = "send"
        /\ IF out.dest = 0 THEN UNCHANGED kq ELSE Enqueue(out.dest, out)
    BY <1>7 DEF Send
  <2>2. ~Leaving
    BY <2>1 DEF Leaving
  <2>3. CASE out.dest = 0
    BY <1>1, <2>1, <2>2, <2>3
  <2>4. CASE out.dest # 0
    <3>1. out \in Mail
      OBVIOUS
    <3>2. out.dest \in 1..Server
      BY <2>4, <3>1 DEF Mail, Server
    <3>3. out.id <= nsent'
      BY <2>1 DEF Numbered
    <3> QED BY <1>6, <2>1, <2>2, <2>4, <3>1, <3>2, <3>3
  <2> QED BY <2>3, <2>4
<1>8. CASE Quit
  <2>1. UNCHANGED <<mess, out, queue, last, nsent>> /\ Leaving /\ Leaving'
    BY <1>8 DEF Quit, QuitUpTo, Leaving
  <2>2. CASE UNCHANGED <<i, kq>>
    BY <1>1, <2>1, <2>2
  <2>3. CASE i < 3 /\ i' = i + 1 /\ Enqueue(i + 1, [out EXCEPT !.id = Quitting])
    <3>1. i + 1 \in 1..Server
      BY <2>3 DEF Server
    <3>2. [out EXCEPT !.id = Quitting] \in Mail
      <4>1. out \in Mail /\ Quitting \in 0..Quitting
        BY QueueBounds DEF QueueBounds, Quitting
      <4> QED BY <4>1 DEF Mail
    <3>3. i + 1 <= i' /\ i <= i' /\ i' \in Nat /\ nsent' \in Nat /\ nsent <= nsent'
      BY <2>1, <2>3
    <3> QED BY <1>6, <2>1, <2>3, <3>1, <3>2, <3>3
  <2> QED BY <1>8, <2>2, <2>3 DEF Quit, QuitUpTo
<1>9. CASE Join
  <2>1. UNCHANGED <<mess, out, queue, last, nsent, i>> /\ kq' = <<>> /\ Leaving /\ Leaving'
    BY <1>9 DEF Join, Leaving
  <2>2. DOMAIN kq' = {}
    BY <2>1
  <2> QED BY <2>1, <2>2 DEF Numbered
<1>10. ASSUME NEW dest \in 1..Server, ClientSend(dest) PROVE Numbered'
  <2> DEFINE mail == [id |-> nsent + 1, dest |-> dest]
  <2>1. /\ UNCHANGED <<mess, out, queue, last, mpc, i>>
        /\ nsent' = nsent + 1 /\ nsent < MaxMsgs /\ Enqueue(Server, mail)
    BY <1>10 DEF ClientSend
  <2>2. mail \in Mail /\ mail.id = nsent' /\ Server \in 1..Server
    <3>1. nsent + 1 \in 0..Quitting /\ dest \in 0..Server
      BY <2>1, QueueBounds DEF QueueBounds, Quitting, Server
    <3> QED BY <2>1, <3>1 DEF Mail, Server
  <2>3. nsent' \in Nat /\ nsent <= nsent' /\ mail.id <= nsent' /\ i' \in Nat /\ i <= i'
    BY <2>1, <2>2
  <2>4. Leaving => Leaving'
    BY <2>1 DEF Leaving
  <2> HIDE DEF mail
  <2> QED BY <1>6, <2>1, <2>2, <2>3, <2>4
<1>11. ASSUME NEW d \in Clients, ClientReceive(d) PROVE Numbered'
  <2> DEFINE f == First(d)
  <2>1. /\ f \in Waiting(d) /\ f \in 1..Len(kq) /\ Dequeue(f)
        /\ last' = [last EXCEPT ![d] = kq[f].mail.id]
    BY <1>11, FirstIsWaiting DEF ClientReceive
  <2> HIDE DEF f
  <2>2. /\ Len(kq) \in Nat /\ DOMAIN kq = 1..Len(kq) /\ DOMAIN kq' = 1..(Len(kq) - 1)
        /\ \A k \in 1..(Len(kq) - 1) : kq'[k] = kq[Shift(f, k)]
    BY <2>1, Taken
  <2>3. UNCHANGED <<mess, out, queue, nsent, mpc, i>>
    BY <1>11 DEF ClientReceive
  <2>4. kq[f].mail.id <= nsent \/ (Leaving /\ d <= i)
    BY <2>1, <2>2 DEF Numbered, Waiting
  <2>5. \A c \in Clients : last'[c] <= nsent \/ (Leaving /\ c <= i)
    BY <2>1, <2>4 DEF Numbered
  <2>6. \A k \in DOMAIN kq' : Shift(f, k) \in DOMAIN kq
    BY <2>1, <2>2 DEF Shift
  <2>7. \A k \in DOMAIN kq' : kq'[k].mail.id <= nsent \/ (Leaving /\ kq'[k].type <= i)
    BY <2>2, <2>6 DEF Numbered
  <2> QED BY <2>3, <2>5, <2>7 DEF Numbered, Leaving
<1> QED BY <1>2, <1>3, <1>4, <1>5, <1>7, <1>8, <1>9, <1>10, <1>11 DEF Next, ReceiverStep, MainStep

\* Every step keeps the order.  What a failed receive leaves in mess is the
\* message before, so it repeats at most that one (server.cpp:130-135).
LEMMA SortedKept == ASSUME MailTypes, PlaceTypes, Numbered, Sorted, Next PROVE Sorted'
<1> USE DEF recvVars, mainVars, netVars, queueVars
<1>1. CASE Poll \/ Lock \/ Start \/ Loop \/ Drain
  <2>1. UNCHANGED <<stale, last, kq, mess, out, queue>> /\ (Holding' => Holding)
    BY <1>1 DEF Poll, Lock, LockToPush, Start, Loop, LoopWhile, Drain, Holding
  <2>2. (Leaving => Leaving') /\ (mpc' = "send" => mpc = "send")
    BY <1>1 DEF Poll, Lock, Start, Loop, LoopWhile, Drain, Leaving
  <2>3. \A c \in Clients : \A a \in 0..5 : \A j, m \in Nat : On(c, a, j, m)' => On(c, a, j, m)
    BY <2>1, <2>2 DEF On, Waiting
  <2> QED BY <2>1, <2>3, SortedStays
<1>2. CASE SigInt
  <2>1. UNCHANGED <<last, kq, mess, out, queue>> /\ (stale => stale') /\ (Holding' => Holding \/ stale')
    BY <1>2 DEF SigInt, Holding
  <2>2. (Leaving => Leaving') /\ (mpc' = "send" => mpc = "send")
    BY <1>2 DEF SigInt, Leaving
  <2>3. \A c \in Clients : \A a \in 0..5 : \A j, m \in Nat : On(c, a, j, m)' => On(c, a, j, m)
    BY <2>1, <2>2 DEF On, Waiting
  <2> QED BY <2>1, <2>3, SortedStays
<1>3. CASE Join
  <2>1. UNCHANGED <<stale, last, mess, out, queue, rpc>> /\ kq' = <<>> /\ Leaving /\ Leaving'
    BY <1>3 DEF Join, Leaving
  <2>2. \A t : Waiting(t)' = {}
    BY <2>1 DEF Waiting
  <2>3. \A c \in Clients : \A a \in 0..5 : \A j, m \in Nat : On(c, a, j, m)' => On(c, a, j, m)
    BY <2>1, <2>2 DEF On
  <2> QED BY <2>1, <2>3, SortedStays DEF Holding
<1> QED BY <1>1, <1>2, <1>3, MsgRcvSorted, PushSorted, TakeSorted, SendSorted, QuitSorted,
           ClientSendSorted, ClientReceiveSorted DEF Next, ReceiverStep, MainStep

\* At the start there is nothing but what mess holds by chance, with number 0.
LEMMA OrderAtStart == Init => Numbered /\ Sorted
<1> SUFFICES ASSUME Init PROVE Numbered /\ Sorted
    OBVIOUS
<1>1. /\ mess.id = 0 /\ out.id = 0 /\ nsent = 0 /\ \A c \in Clients : last[c] = 0
      /\ DOMAIN queue = {} /\ DOMAIN kq = {} /\ mpc = "start" /\ rpc = "unborn"
  <2>1. mess.id = 0
    BY DEF Init
  <2>2. DOMAIN queue = {} /\ DOMAIN kq = {}
    BY DEF Init, QueueInit
  <2> QED BY <2>1, <2>2 DEF Init
<1>2. Numbered
  BY <1>1 DEF Numbered
<1>3. ASSUME NEW c \in Clients, NEW a \in 0..5, NEW b \in 0..5, NEW j \in Nat, NEW k \in Nat,
             NEW m \in Nat, NEW n \in Nat, On(c, a, j, m), On(c, b, k, n), Before(a, j, b, k)
      PROVE  Apart(a, b, m, n)
  <2>1. Waiting(c) = {} /\ Waiting(Server) = {}
    BY <1>1 DEF Waiting
  <2>2. a \in {0, 4} /\ j = 1 /\ m = 0 /\ b \in {0, 4} /\ k = 1 /\ n = 0
    BY <1>1, <1>3, <2>1 DEF On
  <2>3. b = 4
    BY <1>3, <2>2 DEF Before
  <2> QED BY <1>1, <2>2, <2>3 DEF Apart, Holding
<1> QED BY <1>2, <1>3 DEF Sorted

\* What is on a client's way, as the property has it, is in order.
LEMMA SortedInOrder == ASSUME MailTypes, Sorted PROVE InOrder
<1> SUFFICES ASSUME NEW c \in Clients, NEW p \in Way(c), NEW q \in Way(c), Ahead(p, q)
             PROVE  p[3] < q[3] \/ (stale /\ p[3] = q[3])
    BY DEF InOrder
<1>1. ASSUME NEW w \in Way(c)
      PROVE  /\ On(c, w[1], w[2], w[3]) /\ w[1] \in 0..5 /\ w[2] \in Nat /\ w[3] \in Nat
             /\ w[1] = 4 => Holding
  <2>1. CASE w = <<0, 1, last[c]>>
    BY <2>1 DEF On, MailTypes
  <2>2. ASSUME NEW k \in Waiting(c), w = <<1, k, kq[k].mail.id>>
        PROVE  /\ On(c, w[1], w[2], w[3]) /\ w[1] \in 0..5 /\ w[2] \in Nat /\ w[3] \in Nat
               /\ w[1] = 4 => Holding
    <3>1. k \in Nat /\ kq[k].mail.id \in Nat
      BY EntryIsMail DEF Waiting
    <3> QED BY <2>2, <3>1 DEF On
  <2>3. ASSUME NEW u \in Unsent, u[3].dest = c, w = <<u[1], u[2], u[3].id>>, ~Leaving
        PROVE  /\ On(c, w[1], w[2], w[3]) /\ w[1] \in 0..5 /\ w[2] \in Nat /\ w[3] \in Nat
               /\ w[1] = 4 => Holding
    <3>1. CASE mpc = "send" /\ u = <<2, 1, out>>
      BY <2>3, <3>1 DEF On, MailTypes, Mail
    <3>2. ASSUME NEW k \in DOMAIN queue, u = <<3, k, queue[k]>>
          PROVE  /\ On(c, w[1], w[2], w[3]) /\ w[1] \in 0..5 /\ w[2] \in Nat /\ w[3] \in Nat
                 /\ w[1] = 4 => Holding
      <4>1. k \in Nat /\ queue[k] \in Mail
        BY DEF MailTypes
      <4>2. queue[k].id \in Nat
        BY <4>1 DEF Mail
      <4> QED BY <2>3, <3>2, <4>1, <4>2 DEF On
    <3>3. CASE rpc \in {"lock", "push"} /\ u = <<4, 1, mess>>
      BY <2>3, <3>3 DEF On, MailTypes, Mail, Holding
    <3>4. ASSUME NEW k \in Waiting(Server), u = <<5, k, kq[k].mail>>
          PROVE  /\ On(c, w[1], w[2], w[3]) /\ w[1] \in 0..5 /\ w[2] \in Nat /\ w[3] \in Nat
                 /\ w[1] = 4 => Holding
      <4>1. k \in Nat /\ kq[k].mail.id \in Nat
        BY EntryIsMail DEF Waiting
      <4> QED BY <2>3, <3>4, <4>1 DEF On
    <3> QED BY <3>1, <3>2, <3>3, <3>4 DEF Unsent
  <2> QED BY <2>1, <2>2, <2>3 DEF Way
<1>2. On(c, p[1], p[2], p[3]) /\ p[1] \in 0..5 /\ p[2] \in Nat /\ p[3] \in Nat /\ (p[1] = 4 => Holding)
  BY <1>1
<1>3. On(c, q[1], q[2], q[3]) /\ q[1] \in 0..5 /\ q[2] \in Nat /\ q[3] \in Nat /\ (q[1] = 4 => Holding)
  BY <1>1
<1>4. Before(p[1], p[2], q[1], q[2])
  BY DEF Before, Ahead
<1>5. Apart(p[1], q[1], p[3], q[3])
  BY <1>2, <1>3, <1>4 DEF Sorted
<1> QED BY <1>2, <1>3, <1>5 DEF Apart

\* Every client is sent its messages in the order the server got them, each
\* once, and "Quit" last; only after a failed receive may one be repeated, for
\* any capacity and number of messages (server.cpp:79-103, 130-135).
THEOREM MessagesInOrder == Spec => []InOrder
<1>1. Init => Numbered /\ Sorted
  BY OrderAtStart
<1>2. IInv /\ Numbered /\ Sorted /\ [Next]_vars => Numbered' /\ Sorted'
  <2> SUFFICES ASSUME IInv, Numbered, Sorted, [Next]_vars PROVE Numbered' /\ Sorted'
      OBVIOUS
  <2>1. MailTypes /\ PlaceTypes
    BY TypesSplit DEF IInv
  <2>2. CASE Next
    BY <2>1, <2>2, NumberedKept, SortedKept
  <2>3. CASE UNCHANGED vars
    <3>1. UNCHANGED <<queue, rpc, mess, stale, mpc, i, out, kq, nsent, last>>
      BY <2>3 DEF vars, queueVars, recvVars, mainVars, netVars
    <3>2. Numbered'
      BY <3>1 DEF Numbered, Leaving
    <3>3. \A c \in Clients : \A a \in 0..5 : \A j, m \in Nat : On(c, a, j, m)' => On(c, a, j, m)
      BY <3>1 DEF On, Waiting, Leaving
    <3> QED BY <3>1, <3>2, <3>3, SortedStays DEF Holding
  <2> QED BY <2>2, <2>3
<1>3. IInv /\ Numbered /\ Sorted => InOrder
  BY TypesSplit, SortedInOrder DEF IInv
<1> QED BY <1>1, <1>2, <1>3, Invariance, PTL DEF Spec
=============================================================================
