----------------------------- MODULE DriverCall -----------------------------
(***************************************************************************)
(* What an adapter promises driver_dispatch about one call (driver.h):     *)
(* the call returns, it does what it was asked at most once and only if    *)
(* the adapter can, and its return value tells whether it did.  The last   *)
(* is what lets the scheduler try another device after an error without    *)
(* doing the operation twice.  SkfAdapter implements this specification;   *)
(* Scheduler's Execute is one such call.                                    *)
(***************************************************************************)
CONSTANTS Ops,       \* the operations translate_backend_call lets through
          Feasible   \* those of them the adapter may carry out

VARIABLES phase,    \* "idle", "running" or "returned"
          op,       \* the operation of the call
          effect,   \* it has been carried out on the device
          ok        \* the return value is 0

dvars == <<phase, op, effect, ok>>

Init ==
  /\ phase = "idle"
  /\ op \in Ops
  /\ effect = FALSE
  /\ ok = FALSE

Start(o) ==
  /\ phase # "running"
  /\ phase' = "running"
  /\ op' = o
  /\ effect' = FALSE
  /\ ok' = FALSE

Perform ==
  /\ phase = "running"
  /\ ~effect
  /\ op \in Feasible
  /\ effect' = TRUE
  /\ UNCHANGED <<phase, op, ok>>

Return ==
  /\ phase = "running"
  /\ phase' = "returned"
  /\ ok' = effect
  /\ UNCHANGED <<op, effect>>

Next ==
  \/ \E o \in Ops : Start(o)
  \/ Perform
  \/ Return

SafeSpec == Init /\ [][Next]_dvars

\* A call that was started returns.
Spec == SafeSpec /\ WF_dvars(Return)

=============================================================================
