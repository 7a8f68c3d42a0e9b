---------------------------- MODULE RelayQueue ----------------------------
(***************************************************************************)
(* The std::queue between the receive thread and the main thread in the    *)
(* servers of Labs 8 and 9.  Both hold a mutex to change it, and main      *)
(* reads its size without.                                                 *)
(***************************************************************************)
EXTENDS Sequences, Naturals

VARIABLES
    queue,
    pushing   \* the receive thread holds the mutex

queueVars == <<queue, pushing>>

QueueInit == queue = <<>> /\ pushing = FALSE

\* Mutants: the test that there is something to pop is missing, or it asks
\* for more than one.
SizeIgnored(positive) == positive
SizeAboveOne(positive) == positive = (Len(queue) > 1)

\* The size is computed from several pointers that a push changes: during
\* one, anything may come out.
SizeTest(positive) == pushing \/ positive = (queue # <<>>)

LockToPush == ~pushing /\ pushing' = TRUE /\ UNCHANGED queue

\* Mutant: the mutex is not unlocked.
PushLocked(item) == pushing /\ queue' = Append(queue, item) /\ UNCHANGED pushing

Push(item) ==
    /\ pushing
    /\ queue' = Append(queue, item)
    /\ pushing' = FALSE

\* Mutant: back instead of front.
PopBack(item) ==
    /\ ~pushing /\ queue # <<>>
    /\ item = queue[Len(queue)]
    /\ queue' = SubSeq(queue, 1, Len(queue) - 1)
    /\ UNCHANGED pushing

\* front and pop, under the mutex; of an empty queue, undefined.
Pop(item) ==
    /\ ~pushing /\ queue # <<>>
    /\ item = Head(queue)
    /\ queue' = Tail(queue)
    /\ UNCHANGED pushing
=============================================================================
