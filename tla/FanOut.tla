------------------------------- MODULE FanOut -------------------------------
(***************************************************************************)
(* What a caller of ExtensionController.run, .delete, .Default or          *)
(* .Validate relies on: the extensions that are selected are called, in no *)
(* particular order; the call returns once all of them have finished, and  *)
(* returns an error exactly when one of them failed.                       *)
(***************************************************************************)
EXTENDS FiniteSets

CONSTANT Ext

VARIABLES
  running,  \* the extensions that have not finished
  failed,   \* those that finished with an error
  outcome   \* what the call returned

vars == <<running, failed, outcome>>

Init ==
  /\ running \in SUBSET Ext
  /\ failed = {}
  /\ outcome = "none"

Finish(e) ==
  /\ e \in running
  /\ running' = running \ {e}
  /\ failed' \in {failed, failed \cup {e}}
  /\ UNCHANGED outcome

Return ==
  /\ running = {} /\ outcome = "none"
  /\ outcome' = IF failed = {} THEN "ok" ELSE "error"
  /\ UNCHANGED <<running, failed>>

Next == (\E e \in Ext : Finish(e)) \/ Return

Spec == Init /\ [][Next]_vars
=============================================================================
