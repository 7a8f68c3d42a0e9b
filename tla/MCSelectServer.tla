-------------------------- MODULE MCSelectServer --------------------------
(***************************************************************************)
(* One client more than there is room for.  Two of them send: one recv may *)
(* take both messages of the first, and cut the second off; both clients   *)
(* may be ready at once, and texts of both may be queued.                  *)
(***************************************************************************)
EXTENDS SelectServer, TLC

TwoTalk == (1 :> 2) @@ (2 :> 1) @@ (3 :> 0)
=============================================================================
