-------------------------- MODULE MCExtensionServer --------------------------
(***************************************************************************)
(* Values for ExtensionServer: the extension is used, with a spec that is  *)
(* not of its type, not used any more and used again, and the Application  *)
(* is deleted.                                                             *)
(***************************************************************************)
EXTENDS ExtensionServer

MCRevisions == <<"a", "bad", "", "b", "gone">>
=============================================================================
