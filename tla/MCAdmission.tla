----------------------------- MODULE MCAdmission -----------------------------
(***************************************************************************)
(* Values for the constants of Admission: x and y have default patches     *)
(* that meet on one key and differ on another, x as a patch of the spec or *)
(* as the SDK encodes it; y and z validate.                                *)
(***************************************************************************)
EXTENDS Admission

MCKeys     == {"a", "b"}
MCVals     == {"v", "w"}
MCRootKeys == [e \in {"x", "y", "z"} |-> IF e = "x" THEN {"a"} ELSE IF e = "y" THEN {"b"} ELSE {"a", "b"}]

P(a, b) == [k \in MCKeys |-> IF k = "a" THEN a ELSE b]

Answer(kind, a, b) == [kind |-> kind, patch |-> P(a, b)]

MCAnswers ==
  [e \in {"x", "y", "z"} |->
     CASE e = "x" -> {Answer("spec", "v", "none"), Answer("bare", "v", "none"),
                      Answer("spec", "v", "null")}
       [] e = "y" -> {Answer("spec", "w", "v"), Answer("spec", "null", "none"), Answer("empty", "none", "none"),
                      Answer("bad", "none", "none")}
       [] OTHER   -> {}]
=============================================================================
