-------------------------- MODULE MCNetMonitor --------------------------
(***************************************************************************)
(* The two interfaces the program has room for.                            *)
(***************************************************************************)
EXTENDS NetMonitor
=============================================================================
