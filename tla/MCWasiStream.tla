---------------------------- MODULE MCWasiStream ----------------------------
(***************************************************************************)
(* Guests that send up to five messages, the first and the fourth of which *)
(* are merge patches.                                                      *)
(***************************************************************************)
EXTENDS WasiStream

MCPatches == {1, 4}
=============================================================================
