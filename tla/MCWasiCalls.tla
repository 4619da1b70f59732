----------------------------- MODULE MCWasiCalls -----------------------------
(***************************************************************************)
(* Values for the constants of WasiCalls: an image with two sets of        *)
(* permissions under its tag, one with none, and one without the function  *)
(* that Sync calls.                                                        *)
(***************************************************************************)
EXTENDS WasiCalls

Module(tag, perms) == [tag |-> tag, perms |-> perms, exports |-> requiredFunctions]

OneTag == { Module("v1", {"get"}), Module("v1", {}) }

MCModules ==
  OneTag \cup { Module("v2", {}), [Module("v3", {"get"}) EXCEPT !.exports = @ \ {"Sync"}] }

MCKinds ==
  [c \in {"s", "t", "v", "w"} |->
     CASE c = "s" -> {"sync", "delete"}
       [] c = "t" -> {"sync"}
       [] c = "v" -> {"validate"}
       [] c = "w" -> {"validate", "default"}]
=============================================================================
