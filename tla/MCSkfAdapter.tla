---------------------------- MODULE MCSkfAdapter ----------------------------
(***************************************************************************)
(* Instances of SkfAdapter for TLC: every operation with a rule for the    *)
(* gm3000-skf profile, each library that lacks at most one of the symbols  *)
(* the adapter looks up, and one that has the required ones only; the      *)
(* application's name and the PIN are configured or not.  A second call    *)
(* follows the first, so what a call leaves behind would show.             *)
(***************************************************************************)
EXTENDS SkfAdapter

MCDevice == [profile |-> "gm3000-skf", type |-> "classic"]

MCOps == Rules("gm3000-skf", "classic")

MCLibraries ==
  {(Required \cup Optional) \ {s} : s \in Required \cup Optional}
    \cup {Required \cup Optional, Required}
=============================================================================
