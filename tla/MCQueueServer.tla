-------------------------- MODULE MCQueueServer --------------------------
(***************************************************************************)
(* The three clients of the code, two messages between them, and a kernel  *)
(* queue that two messages fill: the three "Quit" do not fit without the   *)
(* clients, and two messages may follow each other to one client.          *)
(***************************************************************************)
EXTENDS QueueServer
=============================================================================
