---------------------------- MODULE LogFilter ----------------------------
(***************************************************************************)
(* What the filter severity of the logging library amounts to, with the    *)
(* threads, the mutex and the socket hidden.  The application sets any     *)
(* severity at any time; the network sets one of two severities, for as    *)
(* long as the library listens; and the library may stop listening, which  *)
(* nothing undoes.                                                         *)
(***************************************************************************)
EXTENDS LogTypes

VARIABLES
    level,   \* the filter severity
    chosen,  \* the severity the application set last
    deaf     \* no command from the network will be obeyed any more

Init ==
    /\ level = ERROR
    /\ chosen = ERROR
    /\ deaf = FALSE

\* The application calls SetLogLevel.
SetLocally ==
    /\ chosen' \in LOG_LEVEL
    /\ level' = chosen'
    /\ UNCHANGED deaf

\* A datagram sets the severity: whatever it names, only these two result.
SetRemotely ==
    /\ ~deaf
    /\ level' \in {DEBUG, CRITICAL}
    /\ UNCHANGED <<chosen, deaf>>

\* A datagram that names no severity ends all listening.
Deafen ==
    /\ ~deaf
    /\ deaf' = TRUE
    /\ UNCHANGED <<level, chosen>>

Next == SetLocally \/ SetRemotely \/ Deafen

Spec == Init /\ [][Next]_<<level, chosen, deaf>>
=============================================================================
