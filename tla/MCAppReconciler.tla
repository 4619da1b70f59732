-------------------------- MODULE MCAppReconciler --------------------------
(***************************************************************************)
(* Values for the constants of AppReconciler.  Four contents: a and b      *)
(* select the optional extension x and have different ports; c drops its   *)
(* key and its port; d is c with another annotation, and so has c's hash.  *)
(* x is a WASI module; y is served over gRPC and has spec.always.          *)
(***************************************************************************)
EXTENDS AppReconciler

MCContents == {"a", "b", "c", "d"}
MCHashes   == {"ha", "hb", "hc"}
MCHashOf   == [a |-> "ha", b |-> "hb", c |-> "hc", d |-> "hc"]
MCPortOf   == [a |-> 1, b |-> 2, c |-> 0, d |-> 0]
MCKeysOf   == [a |-> {"x"}, b |-> {"x"}, c |-> {}, d |-> {}]
MCExt      == {"x", "y"}
MCAlways   == {"y"}
MCWasi     == {"x"}

\* Two contents, for the runs where the cluster itself moves more.
FewContents == {"a", "c"}
FewHashOf   == [c \in FewContents |-> MCHashOf[c]]
FewPortOf   == [c \in FewContents |-> MCPortOf[c]]
FewKeysOf   == [c \in FewContents |-> MCKeysOf[c]]

AllCalls   == Calls
OnlyDelOld == {"delOld"}
ButDelOld  == Calls \ {"delOld", "delOldUnnoticed"}

\* The hypothesis of the theorem on quiescence.
ASSUME MCHashTells == HashTells
=============================================================================
