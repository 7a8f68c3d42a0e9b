--------------------------- MODULE MCLogSystem ---------------------------
(***************************************************************************)
(* One program and one server.                                             *)
(***************************************************************************)
EXTENDS LogSystem

\* Records the initial filter lets through.
OneLevel == {CRITICAL}
=============================================================================
