-------------------------- MODULE MCLogService --------------------------
(***************************************************************************)
(* One server, a client's socket, an operator who uses every option.       *)
(***************************************************************************)
EXTENDS LogService
=============================================================================
