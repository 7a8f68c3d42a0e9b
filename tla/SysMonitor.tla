---------------------------- MODULE SysMonitor ----------------------------
(***************************************************************************)
(* Lab 5: the system monitor (sysmonExec.cpp) forks one interface monitor  *)
(* per interface (intfMonitor_solution.cpp), starts them with SIGUSR1,     *)
(* stops them with SIGUSR2 and waits for them.                             *)
(*                                                                         *)
(* The parent's sleeps delay it but order nothing, so they are left out.   *)
(* What a monitor reads under /sys is left out; writing a line stays.      *)
(***************************************************************************)
EXTENDS Naturals, Sequences

CONSTANT NUM   \* children

NUMAssumption == NUM \in Nat \ {0}
ASSUME NUMAssumption

Children == 1..NUM
Signals  == {"USR1", "USR2", "INT", "TSTP"}
NoSignal == "none"

\* Mutant: a line pasted and half edited.
HandlersPasted == <<"USR1", "USR2", "TSTP", "TSTP">>
\* The signals in the order their handler is registered.
Handlers == <<"USR1", "USR2", "INT", "TSTP">>

VARIABLES
    ppc, i,      \* the parent: where it is, the i of its loops
    reaped,      \* children the parent has waited for
    cpc,         \* child -> where it is
    reg,         \* child -> handlers registered
    pend,        \* child -> signals pending
    isRunning,   \* child -> its flag
    handled,     \* child -> signals its handler has seen
    woken,       \* child -> the signal that ended its pause, or NoSignal
    after,       \* child -> lines written since it saw SIGUSR2, counted to two
    overtaken,   \* children that saw SIGUSR2 while SIGUSR1 was still pending
    noExec       \* children whose execlp failed

parentVars  == <<ppc, i, reaped>>
historyVars == <<woken, after, overtaken, noExec>>
vars == <<parentVars, cpc, reg, pend, isRunning, handled, historyVars>>

\* The type invariant.
TypeOK ==
    /\ ppc \in {"fork", "start", "stop", "wait", "exited", "killed"}
    /\ i \in 1..NUM
    /\ reaped \subseteq Children
    /\ cpc \in [Children -> {"unborn", "forked", "register", "pausing", "paused",
                             "loop", "gather", "done", "killed"}]
    /\ reg \in [Children -> 0..4]
    /\ {pend, handled} \subseteq [Children -> SUBSET Signals]
    /\ isRunning \in [Children -> BOOLEAN]
    /\ woken \in [Children -> Signals \cup {NoSignal}]
    /\ after \in [Children -> 0..2]
    /\ {overtaken, noExec} \subseteq SUBSET Children

Init ==
    /\ ppc = "fork" /\ i = 1 /\ reaped = {}
    /\ cpc = [c \in Children |-> "unborn"]
    /\ reg = [c \in Children |-> 0] /\ after = reg
    /\ pend = [c \in Children |-> {}] /\ handled = pend
    /\ isRunning = [c \in Children |-> FALSE]
    /\ woken = [c \in Children |-> NoSignal]
    /\ overtaken = {} /\ noExec = {}

Alive(c) == cpc[c] \notin {"unborn", "done", "killed"}
Ended(c) == cpc[c] \in {"done", "killed"}

-----------------------------------------------------------------------------
(* The parent.                                                             *)

\* Mutant: i <= NUM.
NextPastEnd(next) ==
    IF i <= NUM THEN i' = i + 1 /\ UNCHANGED ppc ELSE i' = 1 /\ ppc' = next

\* One iteration of a loop over the children, on to another place at its end.
Next_i(next) ==
    IF i < NUM THEN i' = i + 1 /\ UNCHANGED ppc ELSE i' = 1 /\ ppc' = next

Fork ==
    /\ ppc = "fork"
    /\ cpc' = [cpc EXCEPT ![i] = "forked"]
    /\ Next_i("start")
    /\ UNCHANGED <<reaped, reg, pend, isRunning, handled, historyVars>>

\* kill: a child that has ended keeps its identifier until it is waited for.
Signal(place, s, next) ==
    /\ ppc = place
    /\ pend' = [pend EXCEPT ![i] = IF Alive(i) THEN @ \cup {s} ELSE @]
    /\ Next_i(next)
    /\ UNCHANGED <<reaped, cpc, reg, isRunning, handled, historyVars>>

Start == Signal("start", "USR1", "stop")

\* Mutant: SIGUSR1 once more.
StartAgain == Signal("stop", "USR1", "wait")
Stop == Signal("stop", "USR2", "wait")

\* Each wait takes one child that has ended; when there is no child left, wait
\* fails, which ends the loop.
Wait ==
    /\ ppc = "wait"
    /\ \/ \E c \in Children \ reaped :
             Ended(c) /\ reaped' = reaped \cup {c} /\ UNCHANGED ppc
       \/ reaped = Children /\ ppc' = "exited" /\ UNCHANGED reaped
    /\ UNCHANGED <<i, cpc, reg, pend, isRunning, handled, historyVars>>

ParentStep == Fork \/ Start \/ Stop \/ Wait

-----------------------------------------------------------------------------
(* A child.                                                                *)

Move(c, from, to) == cpc[c] = from /\ cpc' = [cpc EXCEPT ![c] = to]

Exec(c) ==
    /\ \/ Move(c, "forked", "register") /\ UNCHANGED noExec
       \/ Move(c, "forked", "done") /\ noExec' = noExec \cup {c}
    /\ UNCHANGED <<parentVars, reg, pend, isRunning, handled, woken, after, overtaken>>

\* One sigaction; after the last of them the monitor goes on to pause.
Register(c) ==
    /\ Move(c, "register", IF reg[c] = 3 THEN "pausing" ELSE "register")
    /\ reg' = [reg EXCEPT ![c] = @ + 1]
    /\ UNCHANGED <<parentVars, pend, isRunning, handled, historyVars>>

PauseTo(c, place) ==
    /\ Move(c, "pausing", place)
    /\ UNCHANGED <<parentVars, reg, pend, isRunning, handled, historyVars>>

\* Mutant: the child does not wait for its start signal.
NoPause(c) == PauseTo(c, "loop")
\* A signal handled before this does not end the pause.
Pause(c) == PauseTo(c, "paused")

Loop(c) ==
    /\ Move(c, "loop", IF isRunning[c] THEN "gather" ELSE "done")
    /\ UNCHANGED <<parentVars, reg, pend, isRunning, handled, historyVars>>

Write(c) ==
    /\ Move(c, "gather", "loop")
    /\ after' = [after EXCEPT ![c] = IF "USR2" \in handled[c] /\ @ < 2 THEN @ + 1 ELSE @]
    /\ UNCHANGED <<parentVars, reg, pend, isRunning, handled, woken, overtaken, noExec>>

ChildStep(c) == Exec(c) \/ Register(c) \/ Pause(c) \/ Loop(c) \/ Write(c)

-----------------------------------------------------------------------------
(* Signals.                                                                *)

Registered(c) == {Handlers[k] : k \in 1..reg[c]}

\* Mutant: SIGUSR2 does not clear the flag.
KeepRunning(s, running) == s = "USR1" \/ running

\* What signalHandler leaves in isRunning.
Flag(s, running) == s = "USR1" \/ (s # "USR2" /\ running)

\* signalHandler, then back from pause if the child was in it.
Handle(c, s) ==
    /\ s \in pend[c] \cap Registered(c) /\ Alive(c)
    /\ pend' = [pend EXCEPT ![c] = @ \ {s}]
    /\ isRunning' = [isRunning EXCEPT ![c] = Flag(s, @)]
    /\ handled' = [handled EXCEPT ![c] = @ \cup {s}]
    /\ cpc' = [cpc EXCEPT ![c] = IF @ = "paused" THEN "loop" ELSE @]
    /\ woken' = [woken EXCEPT ![c] = IF cpc[c] = "paused" THEN s ELSE @]
    /\ overtaken' = IF s = "USR2" /\ "USR1" \in pend[c] THEN overtaken \cup {c} ELSE overtaken
    /\ UNCHANGED <<parentVars, reg, after, noExec>>

\* Without a handler a signal kills, and SIGTSTP stops until the job goes on.
Default(c, s) ==
    /\ s \in pend[c] \ Registered(c) /\ Alive(c)
    /\ pend' = [pend EXCEPT ![c] = @ \ {s}]
    /\ cpc' = [cpc EXCEPT ![c] = IF s = "TSTP" THEN @ ELSE "killed"]
    /\ UNCHANGED <<parentVars, reg, isRunning, handled, historyVars>>

\* ctrl-C and ctrl-Z reach the parent, which has no handler, and the children.
Press(s) ==
    /\ ppc \notin {"exited", "killed"}
    /\ pend' = [c \in Children |-> IF Alive(c) THEN pend[c] \cup {s} ELSE pend[c]]
    /\ ppc' = IF s = "INT" THEN "killed" ELSE ppc
    /\ UNCHANGED <<i, reaped, cpc, reg, isRunning, handled, historyVars>>

Next ==
    \/ ParentStep
    \/ \E c \in Children : ChildStep(c)
    \/ \E c \in Children, s \in Signals : Handle(c, s) \/ Default(c, s)
    \/ \E s \in {"INT", "TSTP"} : Press(s)

\* The processes are scheduled, and a pending signal is delivered.
Fairness ==
    /\ WF_vars(ParentStep)
    /\ \A c \in Children :
          /\ WF_vars(ChildStep(c))
          /\ \A s \in Signals : WF_vars(Handle(c, s) \/ Default(c, s))

Spec == Init /\ [][Next]_vars /\ Fairness

-----------------------------------------------------------------------------
\* Once a monitor saw SIGUSR2 it writes at most the line it was gathering,
\* provided SIGUSR1 was not pending with it: pending together they may be
\* handled in either order (lines 65 to 101 and 127 to 145).
StopsWriting == \A c \in Children : c \notin overtaken => after[c] <= 1

\* A monitor ends by itself only when it was told to stop, or never became a
\* monitor; or when the signal that ended its pause was ctrl-C or ctrl-Z, and
\* its start signal has not come by then (lines 62 to 65, 127 to 145).
EndsForReason ==
    \A c \in Children : cpc[c] = "done" =>
        \/ c \in noExec
        \/ "USR2" \in handled[c]
        \/ woken[c] \in {"INT", "TSTP"} /\ "USR1" \notin handled[c]

\* A signal kills a monitor only before it has registered all its handlers
\* (lines 42 to 45).
KilledUnready == \A c \in Children : cpc[c] = "killed" => reg[c] < 3

\* The parent's wait ends, except for two ways to miss a signal: both came
\* before a child's pause, or SIGUSR2 was handled before SIGUSR1.
Stuck(c) == "USR2" \in handled[c] /\ (cpc[c] = "paused" \/ c \in overtaken)
WaitEnds == ppc = "wait" ~> ppc \in {"exited", "killed"} \/ \E c \in Children : Stuck(c)

\* Said at intfMonitor_solution.cpp:109: a monitor discards any ctrl-C and
\* ctrl-Z, so only SIGUSR2 ends it.
DiscardsKeys ==
    \A c \in Children : cpc[c] = "done" => c \in noExec \/ "USR2" \in handled[c]
=============================================================================
