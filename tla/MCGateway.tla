----------------------------- MODULE MCGateway -----------------------------
(***************************************************************************)
(* An instance of Gateway for TLC: three connections, two workers and a    *)
(* queue of one slot, so that the accept loop blocks in queue_push while   *)
(* both workers are busy, and one signal that may come twice.              *)
(***************************************************************************)
EXTENDS Gateway
=============================================================================
