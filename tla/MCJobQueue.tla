----------------------------- MODULE MCJobQueue -----------------------------
(***************************************************************************)
(* Instances of JobQueue for TLC: two workers and a ring of two slots,     *)
(* with two producers and four jobs for safety (the queue's own contract   *)
(* does not depend on there being one accept loop) and the one accept loop *)
(* of the gateway for liveness.  There are enough jobs to fill the ring    *)
(* while every other thread holds one.                                     *)
(***************************************************************************)
EXTENDS JobQueue
=============================================================================
