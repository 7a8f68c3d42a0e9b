--------------------------- MODULE MCSysMonitor ---------------------------
(***************************************************************************)
(* Two children, as in the code: each may be at any point of its start-up  *)
(* when the parent, or the keyboard, sends a signal.                       *)
(***************************************************************************)
EXTENDS SysMonitor
=============================================================================
