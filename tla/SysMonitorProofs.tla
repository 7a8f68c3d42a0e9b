------------------------- MODULE SysMonitorProofs -------------------------
(***************************************************************************)
(* What holds of the system monitor and its children for any number of     *)
(* children, wherever in their start-up the signals meet them.             *)
(***************************************************************************)
EXTENDS SysMonitor, TLAPS

\* Nobody is told to stop before everybody was told to start.
StartFirst ==
    ppc \in {"fork", "start"} => \A c \in Children : "USR2" \notin pend[c] \cup handled[c]

\* A child the parent has not come to does not exist.
ForkedInTurn ==
    ppc = "fork" => \A c \in Children : c >= i => cpc[c] = "unborn"

\* Before its last registration a child has registered three handlers at most.
Registering ==
    \A c \in Children : cpc[c] \in {"unborn", "forked", "register"} => reg[c] <= 3

\* A child that was started and not stopped runs.
Started ==
    \A c \in Children :
        "USR1" \in handled[c] /\ "USR2" \notin handled[c] => isRunning[c] = TRUE

\* A child that got out of its pause runs, or a signal other than SIGUSR1 is
\* why it will not.
LoopsForReason ==
    \A c \in Children : cpc[c] \in {"loop", "gather"} =>
        \/ isRunning[c] = TRUE
        \/ "USR2" \in handled[c]
        \/ woken[c] \in {"INT", "TSTP"} /\ "USR1" \notin handled[c]

\* After SIGUSR2 nothing is left to start the child again, so it writes the
\* line it was gathering, if it was, and no other.
Settled(c) ==
    /\ "USR2" \notin handled[c] => after[c] = 0
    /\ "USR2" \in handled[c] =>
          /\ "USR1" \notin pend[c]
          /\ isRunning[c] = FALSE
          /\ after[c] <= 1
          /\ cpc[c] = "gather" => after[c] = 0
StopSettles == \A c \in Children : c \notin overtaken => Settled(c)

IInv ==
    /\ TypeOK
    /\ StartFirst
    /\ ForkedInTurn
    /\ Registering
    /\ KilledUnready
    /\ Started
    /\ LoopsForReason
    /\ EndsForReason
    /\ StopSettles

USE NUMAssumption DEF NUMAssumption, Children, Signals, NoSignal

\* What signalHandler leaves in the flag is a truth value.
LEMMA FlagType ==
    ASSUME NEW s, NEW running \in BOOLEAN
    PROVE  Flag(s, running) \in BOOLEAN
BY DEF Flag

\* Which signals have a handler, after three of the four registrations.
LEMMA ThreeRegistered ==
    ASSUME NEW c, reg[c] \in 3..4
    PROVE  {"USR1", "USR2", "INT"} \subseteq Registered(c)
<1>1. 1 \in 1..reg[c] /\ 2 \in 1..reg[c] /\ 3 \in 1..reg[c]
  OBVIOUS
<1>2. Handlers[1] = "USR1" /\ Handlers[2] = "USR2" /\ Handlers[3] = "INT"
  BY DEF Handlers
<1> QED BY <1>1, <1>2 DEF Registered

\* Every iteration of the parent's loops stays within the children.
LEMMA IterationType ==
    ASSUME i \in 1..NUM, NEW next, Next_i(next)
    PROVE  i' \in 1..NUM /\ (ppc' = ppc \/ ppc' = next)
BY DEF Next_i

\* Before the parent has forked there is nothing to disagree about.
LEMMA InitEstablishes == Init => IInv
<1> SUFFICES ASSUME Init PROVE IInv
    OBVIOUS
<1>1. TypeOK
  BY DEF Init, TypeOK
<1> QED BY <1>1 DEF Init, IInv, StartFirst, ForkedInTurn, Registering, KilledUnready,
                 Started, LoopsForReason, EndsForReason, StopSettles, Settled

-----------------------------------------------------------------------------
(* The parent.                                                             *)

\* fork makes a child that has had no signal (sysmonExec.cpp:31-40).
LEMMA ForkKeeps == ASSUME IInv, Fork PROVE IInv'
<1> USE DEF Fork, historyVars
<1>1. i' \in 1..NUM /\ ppc' \in {"fork", "start"}
  BY IterationType DEF IInv, TypeOK
<1>2. TypeOK'
  BY <1>1 DEF IInv, TypeOK
<1>3. \A c \in Children : cpc'[c] = IF c = i THEN "forked" ELSE cpc[c]
  BY DEF IInv, TypeOK
<1>4. ForkedInTurn'
  BY <1>3 DEF IInv, TypeOK, ForkedInTurn, Next_i
<1>5. cpc[i] = "unborn" /\ i \in 1..NUM
  BY DEF IInv, TypeOK, ForkedInTurn
<1>6. Registering'
  BY <1>3, <1>5 DEF IInv, Registering
<1>7. KilledUnready' /\ Started' /\ LoopsForReason' /\ EndsForReason'
  BY <1>3 DEF IInv, KilledUnready, Started, LoopsForReason, EndsForReason
<1> QED BY <1>1, <1>2, <1>3, <1>4, <1>6, <1>7
       DEF IInv, StartFirst, StopSettles, Settled

\* A signal becomes pending; SIGUSR1 only while nobody has SIGUSR2
\* (sysmonExec.cpp:58-95).
LEMMA SignalKeeps == ASSUME IInv, Start \/ Stop PROVE IInv'
<1> USE DEF Start, Stop, Signal, historyVars
<1>1. i \in 1..NUM /\ i' \in 1..NUM /\ ppc' \in {"start", "stop", "wait"}
  BY IterationType DEF IInv, TypeOK
<1>2. TypeOK'
  <2>1. PICK s \in {"USR1", "USR2"} :
           pend' = [pend EXCEPT ![i] = IF Alive(i) THEN @ \cup {s} ELSE @]
    OBVIOUS
  <2>2. pend' \in [Children -> SUBSET Signals]
    BY <2>1, <1>1 DEF IInv, TypeOK
  <2> QED BY <1>1, <2>2 DEF IInv, TypeOK
<1>3. StartFirst'
  <2>1. CASE Start
    BY <2>1, <1>1 DEF IInv, TypeOK, StartFirst
  <2>2. CASE Stop
    <3>1. ppc' \in {"stop", "wait"}
      BY <2>2, IterationType DEF IInv, TypeOK
    <3> QED BY <3>1 DEF StartFirst
  <2> QED BY <2>1, <2>2
<1>4. StopSettles'
  <2>1. CASE Start
    BY <2>1, <1>1 DEF IInv, TypeOK, StartFirst, StopSettles, Settled
  <2>2. CASE Stop
    BY <2>2, <1>1 DEF IInv, TypeOK, StopSettles, Settled
  <2> QED BY <2>1, <2>2
<1> QED BY <1>1, <1>2, <1>3, <1>4 DEF IInv, ForkedInTurn, Registering, KilledUnready,
                                Started, LoopsForReason, EndsForReason

\* The parent takes one ended child at a time, and ends when it has them all
\* (sysmonExec.cpp:99-103).
LEMMA WaitKeeps == ASSUME IInv, Wait PROVE IInv'
<1> USE DEF Wait, historyVars
<1>1. TypeOK'
  BY DEF IInv, TypeOK
<1> QED BY <1>1 DEF IInv, StartFirst, ForkedInTurn, Registering, KilledUnready,
                 Started, LoopsForReason, EndsForReason,
                 StopSettles, Settled

-----------------------------------------------------------------------------
(* A child.                                                                *)

\* The steps of a child that do not write (intfMonitor_solution.cpp:28-65).
LEMMA ChildKeeps ==
    ASSUME IInv, NEW c \in Children, Exec(c) \/ Register(c) \/ Pause(c) \/ Loop(c)
    PROVE  IInv'
<1> USE DEF Exec, Register, Pause, PauseTo, Loop, Move, historyVars, parentVars
<1>1. TypeOK'
  <2>1. CASE Exec(c)
    BY <2>1 DEF IInv, TypeOK
  <2>2. CASE Register(c)
    <3>1. reg[c] \in 0..3
      BY <2>2 DEF IInv, TypeOK, Registering
    <3>2. reg' \in [Children -> 0..4]
      BY <2>2, <3>1 DEF IInv, TypeOK
    <3> QED BY <2>2, <3>2 DEF IInv, TypeOK
  <2>3. CASE Pause(c)
    BY <2>3 DEF IInv, TypeOK
  <2>4. CASE Loop(c)
    BY <2>4 DEF IInv, TypeOK
  <2> QED BY <2>1, <2>2, <2>3, <2>4
<1>2. StartFirst' /\ ForkedInTurn'
  BY DEF IInv, TypeOK, StartFirst, ForkedInTurn
<1>3. Registering'
  <2>1. CASE Register(c)
    <3>1. reg[c] \in 0..3
      BY <2>1 DEF IInv, TypeOK, Registering
    <3>2. cpc'[c] = "register" => reg'[c] <= 3
      BY <2>1, <3>1 DEF IInv, TypeOK
    <3>3. cpc'[c] # "unborn" /\ cpc'[c] # "forked"
      BY <2>1 DEF IInv, TypeOK
    <3>4. \A d \in Children \ {c} : cpc'[d] = cpc[d] /\ reg'[d] = reg[d]
      BY <2>1 DEF IInv, TypeOK
    <3> QED BY <3>2, <3>3, <3>4 DEF IInv, Registering
  <2>2. CASE Exec(c) \/ Pause(c) \/ Loop(c)
    BY <2>2 DEF IInv, TypeOK, Registering
  <2> QED BY <2>1, <2>2
<1>4. KilledUnready'
  BY DEF IInv, TypeOK, KilledUnready
<1>5. Started' /\ LoopsForReason'
  BY DEF IInv, TypeOK, Started, LoopsForReason
<1>6. EndsForReason'
  <2>1. CASE Exec(c)
    BY <2>1 DEF IInv, TypeOK, EndsForReason
  <2>2. CASE Loop(c)
    BY <2>2 DEF IInv, TypeOK, EndsForReason, LoopsForReason
  <2>3. CASE Register(c) \/ Pause(c)
    BY <2>3 DEF IInv, TypeOK, EndsForReason
  <2> QED BY <2>1, <2>2, <2>3
<1>7. StopSettles'
  BY DEF IInv, TypeOK, StopSettles, Settled
<1> QED BY <1>1, <1>2, <1>3, <1>4, <1>5, <1>6, <1>7 DEF IInv

\* A line is written, the last one if the child saw SIGUSR2
\* (intfMonitor_solution.cpp:66-100).
LEMMA WriteKeeps ==
    ASSUME IInv, NEW c \in Children, Write(c)
    PROVE  IInv'
<1> USE DEF Write, Move, parentVars
<1>1. TypeOK'
  BY DEF IInv, TypeOK
<1>2. Started' /\ LoopsForReason'
  BY DEF IInv, TypeOK, Started, LoopsForReason
<1>3. KilledUnready' /\ EndsForReason' /\ StartFirst' /\ ForkedInTurn' /\ Registering'
  BY DEF IInv, TypeOK, KilledUnready, EndsForReason, StartFirst,
         ForkedInTurn, Registering
<1>4. StopSettles'
  BY DEF IInv, TypeOK, StopSettles, Settled
<1> QED BY <1>1, <1>2, <1>3, <1>4 DEF IInv

-----------------------------------------------------------------------------
(* Signals.                                                                *)

\* signalHandler runs (intfMonitor_solution.cpp:127-149).
LEMMA HandleKeeps ==
    ASSUME IInv, NEW c \in Children, NEW s \in Signals, Handle(c, s)
    PROVE  IInv'
<1> USE DEF Handle, parentVars
<1>1. TypeOK'
  BY FlagType DEF IInv, TypeOK
<1>2. StartFirst' /\ ForkedInTurn' /\ Registering'
  BY DEF IInv, TypeOK, StartFirst, ForkedInTurn, Registering, Alive
<1>3. KilledUnready'
  BY DEF IInv, TypeOK, KilledUnready, Alive
<1>4. Started' /\ LoopsForReason'
  BY DEF IInv, TypeOK, Started, LoopsForReason, Flag
<1>5. EndsForReason'
  BY DEF IInv, TypeOK, EndsForReason, Alive
<1>6. StopSettles'
  <2> SUFFICES ASSUME NEW d \in Children, d \notin overtaken' PROVE Settled(d)'
      BY DEF StopSettles
  <2>1. Settled(d)
    BY DEF IInv, StopSettles
  <2>2. CASE d # c
    BY <2>1, <2>2 DEF IInv, TypeOK, Settled
  <2>3. CASE d = c
    <3>1. isRunning'[c] = Flag(s, isRunning[c]) /\ isRunning[c] \in BOOLEAN
      BY DEF IInv, TypeOK
    <3>2. CASE s = "USR2"
      <4>1. isRunning'[c] = FALSE
        BY <3>1, <3>2 DEF Flag
      <4> QED BY <2>1, <2>3, <3>2, <4>1 DEF IInv, TypeOK, Settled
    <3>3. CASE s = "USR1"
      BY <2>1, <2>3, <3>3 DEF IInv, TypeOK, Settled
    <3>4. CASE s \notin {"USR1", "USR2"}
      <4>1. isRunning[c] = FALSE => isRunning'[c] = FALSE
        BY <3>1, <3>4 DEF Flag
      <4> QED BY <2>1, <2>3, <3>4, <4>1 DEF IInv, TypeOK, Settled
    <3> QED BY <3>2, <3>3, <3>4
  <2> QED BY <2>2, <2>3
<1> QED BY <1>1, <1>2, <1>3, <1>4, <1>5, <1>6 DEF IInv

\* A signal meets a child that has no handler for it yet.
LEMMA DefaultKeeps ==
    ASSUME IInv, NEW c \in Children, NEW s \in Signals, Default(c, s)
    PROVE  IInv'
<1> USE DEF Default, parentVars, historyVars
<1>1. TypeOK'
  BY DEF IInv, TypeOK
<1>2. KilledUnready'
  <2>1. CASE reg[c] < 3
    BY <2>1 DEF IInv, TypeOK, KilledUnready
  <2>2. CASE reg[c] \in 3..4
    <3>1. s = "TSTP"
      BY <2>2, ThreeRegistered
    <3> QED BY <3>1 DEF IInv, TypeOK, KilledUnready
  <2>3. reg[c] \in 0..4
    BY DEF IInv, TypeOK
  <2> QED BY <2>1, <2>2, <2>3
<1>3. StartFirst' /\ ForkedInTurn' /\ Registering'
  BY DEF IInv, TypeOK, StartFirst, ForkedInTurn, Registering, Alive
<1>4. Started' /\ LoopsForReason' /\ EndsForReason'
  BY DEF IInv, TypeOK, Started, LoopsForReason, EndsForReason, Alive
<1>5. StopSettles'
  BY DEF IInv, TypeOK, StopSettles, Settled
<1> QED BY <1>1, <1>2, <1>3, <1>4, <1>5 DEF IInv

\* ctrl-C or ctrl-Z becomes pending for every child.
LEMMA PressKeeps ==
    ASSUME IInv, NEW s \in {"INT", "TSTP"}, Press(s)
    PROVE  IInv'
<1> USE DEF Press, historyVars
<1>1. TypeOK'
  BY DEF IInv, TypeOK
<1>2. StartFirst' /\ ForkedInTurn'
  BY DEF IInv, TypeOK, StartFirst, ForkedInTurn, Alive
<1>3. Registering' /\ KilledUnready' /\ Started' /\ LoopsForReason' /\ EndsForReason'
  BY DEF IInv, Registering, KilledUnready, Started, LoopsForReason, EndsForReason
<1>4. StopSettles'
  BY DEF IInv, TypeOK, StopSettles, Settled
<1> QED BY <1>1, <1>2, <1>3, <1>4 DEF IInv

-----------------------------------------------------------------------------
(* The theorems.                                                           *)

\* Every step of parent, children, kernel and keyboard keeps the invariant.
LEMMA StepKeeps == IInv /\ [Next]_vars => IInv'
<1> SUFFICES ASSUME IInv, [Next]_vars PROVE IInv'
    OBVIOUS
<1>1. CASE ParentStep
  BY <1>1, ForkKeeps, SignalKeeps, WaitKeeps DEF ParentStep
<1>2. ASSUME NEW c \in Children, ChildStep(c) PROVE IInv'
  BY <1>2, ChildKeeps, WriteKeeps DEF ChildStep
<1>3. ASSUME NEW c \in Children, NEW s \in Signals, Handle(c, s) \/ Default(c, s)
      PROVE  IInv'
  BY <1>3, HandleKeeps, DefaultKeeps
<1>4. ASSUME NEW s \in {"INT", "TSTP"}, Press(s) PROVE IInv'
  BY <1>4, PressKeeps
<1>5. CASE UNCHANGED vars
  BY <1>5 DEF vars, parentVars, historyVars, IInv, TypeOK, StartFirst, ForkedInTurn, Registering,
              KilledUnready, Started, LoopsForReason, EndsForReason, StopSettles, Settled
<1> QED BY <1>1, <1>2, <1>3, <1>4, <1>5 DEF Next

\* The inductive invariant always holds, for every number of children.
THEOREM Invariance == Spec => []IInv
<1> QED BY InitEstablishes, StepKeeps, PTL DEF Spec

\* The state of parent and children always has its types.
THEOREM TypeCorrect == Spec => []TypeOK
<1>1. IInv => TypeOK
  BY DEF IInv
<1> QED BY <1>1, Invariance, PTL

\* After SIGUSR2 a monitor writes at most the line it was gathering, unless
\* SIGUSR2 overtook SIGUSR1 (intfMonitor_solution.cpp:65-101).
THEOREM WritingStops == Spec => []StopsWriting
<1>1. IInv => StopsWriting
  <2> SUFFICES ASSUME IInv, NEW c \in Children, c \notin overtaken PROVE after[c] <= 1
      BY DEF StopsWriting
  <2> QED BY DEF IInv, StopSettles, Settled
<1> QED BY <1>1, Invariance, PTL

\* A monitor ends by itself only if it was told to stop, or ctrl-C or ctrl-Z
\* ended its pause, or it never became one (intfMonitor_solution.cpp:62-65).
THEOREM EndHasReason == Spec => []EndsForReason
<1>1. IInv => EndsForReason
  BY DEF IInv
<1> QED BY <1>1, Invariance, PTL

\* No signal kills a monitor once its handlers for SIGUSR1, SIGUSR2 and ctrl-C
\* are registered (intfMonitor_solution.cpp:42-45).
THEOREM ReadySurvives == Spec => []KilledUnready
<1>1. IInv => KilledUnready
  BY DEF IInv
<1> QED BY <1>1, Invariance, PTL

=============================================================================
