---------------------------- MODULE MCLogger ----------------------------
(***************************************************************************)
(* The library on its own, with any server: initialised up to twice, so    *)
(* that two receive threads and two sockets can exist.                     *)
(***************************************************************************)
EXTENDS Logger

\* DEBUG is below every filter; WARNING passes once the filter is lowered.
TwoLevels == {DEBUG, WARNING}
=============================================================================
