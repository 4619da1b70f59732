--------------------------- MODULE AdmissionProofs ---------------------------
(***************************************************************************)
(* Theorems about Admission, for any extensions, keys, defaults and        *)
(* requests: what is stored has passed every validation that was due, the  *)
(* answer to the user is exact, and the last default of a key wins.        *)
(***************************************************************************)
EXTENDS Admission, SequenceTheorems, WellFoundedInduction, TLAPS

-----------------------------------------------------------------------------
(* The two fan-outs. *)

(***************************************************************************)
(* An extension that was due and has answered: what it was shown, what it  *)
(* said, and where that was noted.                                         *)
(***************************************************************************)
Answered(e) ==
  \E v \in Verdicts :
    /\ said[e] = <<View(e, req.new), View(e, stored), v>>
    /\ e \in allErrs <=> v = "invalid"
    /\ e \in errs <=> v = "error"

\* One that has not, or was not due.
Silent(e) == said[e] = <<>> /\ e \notin allErrs /\ e \notin errs

(***************************************************************************)
(* What each phase of a request has established: nothing has been          *)
(* validated before the defaults are in, no error is left over from them,  *)
(* and an extension that is due has answered or still runs.                *)
(***************************************************************************)
PhaseInv ==
  /\ phase \in {"idle", "defaulting", "defaulted", "validating"}
  /\ phase # "idle" => outcome = "none"
  /\ phase \in {"defaulting", "defaulted"} =>
       due = {} /\ allErrs = {} /\ \A e \in Ext : said[e] = <<>>
  /\ phase = "defaulted" => errs = {}
  /\ phase = "validating" =>
       /\ running \subseteq due
       /\ \A e \in Ext : IF e \in due \ running THEN Answered(e) ELSE Silent(e)
  /\ due \subseteq Ext /\ allErrs \subseteq Ext /\ errs \subseteq Ext
  /\ said = [e \in Ext |-> said[e]]

LEMMA PhaseInit ==
  ASSUME Init
  PROVE  PhaseInv /\ VerdictExact
BY DEF Init, PhaseInv, VerdictExact

LEMMA PhaseStep ==
  ASSUME PhaseInv, [Next]_vars
  PROVE  PhaseInv'
<1> USE DEF history, request
<1>1. ASSUME NEW op \in {"create", "update", "delete"}, NEW new \in Specs \cup {NoObj},
             Receive(op, new)
      PROVE  PhaseInv'
  BY <1>1 DEF Receive, PhaseInv
<1>2. ASSUME NEW e \in Ext, DefaultCall(e) PROVE PhaseInv'
  BY <1>2 DEF DefaultCall, PhaseInv
<1>3. ASSUME NEW e \in Ext, ValidateCall(e) PROVE PhaseInv'
  <2>1. PICK v \in Verdicts :
          /\ said' = [said EXCEPT ![e] = <<View(e, req.new), View(e, stored), v>>]
          /\ allErrs' = IF v = "invalid" THEN allErrs \cup {e} ELSE allErrs
          /\ errs' = IF v = "error" THEN errs \cup {e} ELSE errs
    BY <1>3 DEF ValidateCall
  <2>2. /\ phase = "validating" /\ running' = running \ {e} /\ e \in running
        /\ UNCHANGED <<stored, phase, req, outcome, due>>
    BY <1>3 DEF ValidateCall
  <2>3. /\ said = [d \in Ext |-> said[d]] /\ running \subseteq due
        /\ \A d \in Ext : IF d \in due \ running THEN Answered(d) ELSE Silent(d)
    BY <2>2 DEF PhaseInv
  <2>4. Silent(e)
    BY <2>2, <2>3
  <2>5. Answered(e)'
    <3>1. said'[e] = <<View(e, req'.new), View(e, stored'), v>>
      BY <2>1, <2>2, <2>3
    <3>2. (e \in allErrs' <=> v = "invalid") /\ (e \in errs' <=> v = "error")
      BY <2>1, <2>4 DEF Silent, Verdicts
    <3> QED BY <3>1, <3>2 DEF Answered
  <2>6. ASSUME NEW d \in Ext \ {e}
        PROVE  /\ Answered(d) => Answered(d)'
               /\ Silent(d) => Silent(d)'
    <3>1. said'[d] = said[d] /\ (d \in allErrs' <=> d \in allErrs) /\ (d \in errs' <=> d \in errs)
      BY <2>1, <2>3
    <3> QED BY <2>2, <3>1 DEF Answered, Silent
  <2>7. \A d \in Ext : IF d \in due' \ running' THEN Answered(d)' ELSE Silent(d)'
    BY <2>2, <2>3, <2>5, <2>6
  <2> QED BY <2>1, <2>2, <2>3, <2>7 DEF PhaseInv
<1>4. CASE DefaultDone
  BY <1>4 DEF DefaultDone, Reply, PhaseInv
<1>5. CASE StartValidate
  <2>1. Validating \subseteq Ext
    BY AdmissionAssumption
  <2>2. \A e \in Ext : Silent(e)'
    BY <1>5 DEF StartValidate, PhaseInv, Silent
  <2> QED BY <1>5, <2>1, <2>2 DEF StartValidate, PhaseInv
<1>6. CASE ValidateDone
  BY <1>6 DEF ValidateDone, Reply, PhaseInv
<1>7. CASE GiveUp
  BY <1>7 DEF GiveUp, Reply, PhaseInv
<1>8. CASE Churn
  BY <1>8 DEF Churn, PhaseInv, Answered, Silent
<1>9. CASE UNCHANGED vars
  BY <1>9 DEF vars, PhaseInv, Answered, Silent
<1> QED BY <1>1, <1>2, <1>3, <1>4, <1>5, <1>6, <1>7, <1>8, <1>9 DEF Next, Webhook

-----------------------------------------------------------------------------
(* The results. *)

\* The phases of a request.
THEOREM PhaseInvariant == Spec => []PhaseInv
BY PhaseInit, PhaseStep, PTL DEF Spec

(***************************************************************************)
(* Whatever is stored was shown, with all the defaults in it, to every     *)
(* extension that was due to validate it, and each said yes (Validate's    *)
(* fan-out, and its errors and field errors).                              *)
(***************************************************************************)
THEOREM AdmittedChecked == Spec => AdmittedIsChecked
<1>1. ASSUME PhaseInv, [Next]_vars
      PROVE  stored' # stored =>
               \A e \in due : said[e] = <<View(e, stored'), View(e, stored), "ok">>
  <2> SUFFICES ASSUME stored' # stored, NEW e \in due
               PROVE  said[e] = <<View(e, stored'), View(e, stored), "ok">>
    OBVIOUS
  <2>1. ValidateDone /\ errs = {} /\ allErrs = {} /\ stored' = req.new
    BY <1>1 DEF Next, Receive, Webhook, DefaultCall, ValidateCall, DefaultDone, StartValidate,
                ValidateDone, GiveUp, Churn, vars, request
  <2>2. Answered(e)
    BY <1>1, <2>1 DEF PhaseInv, ValidateDone
  <2> QED BY <2>1, <2>2 DEF Answered, Verdicts
<1> QED BY <1>1, PhaseInvariant, PTL DEF Spec, AdmittedIsChecked

(***************************************************************************)
(* The answer to the user is exact: "allowed" if all that were due have    *)
(* said yes, "invalid" with each extension that objected and if none       *)
(* failed, an error only for a failure or nonsense.                        *)
(***************************************************************************)
THEOREM VerdictsExact == Spec => []VerdictExact
<1> USE DEF history, request
<1> DEFINE who(v) == {e \in Ext : said[e] # <<>> /\ said[e][3] = v}
<1>1. ASSUME PhaseInv, VerdictExact, [Next]_vars PROVE VerdictExact'
  <2>1. CASE outcome' = "none" \/ outcome' = "timeout"
    BY <2>1 DEF VerdictExact
  <2>2. CASE DefaultDone
    BY <1>1, <2>2 DEF DefaultDone, Reply, VerdictExact, PhaseInv
  <2>3. CASE ValidateDone
    <3>1. \A e \in Ext : IF e \in due THEN Answered(e) ELSE Silent(e)
      BY <1>1, <2>3 DEF ValidateDone, PhaseInv
    <3>2. /\ UNCHANGED <<said, due, errs, allErrs, responses>>
          /\ outcome' = IF errs # {} THEN "error" ELSE IF allErrs # {} THEN "invalid" ELSE "allowed"
      BY <2>3 DEF ValidateDone, Reply
    <3>3. /\ due \subseteq Ext /\ allErrs \subseteq Ext /\ errs \subseteq Ext
      BY <1>1 DEF PhaseInv
    <3>4. \A e \in Ext : /\ e \notin due => said[e] = <<>> /\ e \notin allErrs /\ e \notin errs
                         /\ e \in due => /\ said[e] # <<>> /\ said[e][3] \in Verdicts
                                         /\ e \in allErrs <=> said[e][3] = "invalid"
                                         /\ e \in errs <=> said[e][3] = "error"
      BY <3>1 DEF Answered, Silent
    <3>5. allErrs = who("invalid") /\ errs = who("error")
      BY <3>3, <3>4
    <3>6. errs = {} /\ allErrs = {} => who("ok") = due
      BY <3>3, <3>4 DEF Verdicts
    <3> QED BY <3>2, <3>5, <3>6 DEF VerdictExact
  <2>4. CASE UNCHANGED <<said, due, errs, allErrs, responses, outcome>>
    BY <1>1, <2>4 DEF VerdictExact
  <2>5. CASE phase # "idle" /\ UNCHANGED outcome
    BY <1>1, <2>1, <2>5 DEF PhaseInv
  <2> QED BY <1>1, <2>1, <2>2, <2>3, <2>4, <2>5
          DEF Next, Receive, Webhook, DefaultCall, ValidateCall, StartValidate, GiveUp, Reply,
              Churn, vars
<1> QED BY <1>1, PhaseInit, PhaseInvariant, PTL DEF Spec

-----------------------------------------------------------------------------
(* Induction, for sets of numbers. *)

Below == {pair \in Nat \X Nat : pair[1] < pair[2]}

LEMMA Induction ==
  ASSUME NEW S, 0 \in S, \A n \in Nat : n \in S => n + 1 \in S
  PROVE  Nat \subseteq S
<1> DEFINE T == Nat \ S
<1> SUFFICES ASSUME T # {} PROVE FALSE
  OBVIOUS
<1>1. IsWellFoundedOn(Below, Nat)
  BY NatLessThanWellFounded DEF OpToRel, Below
<1>2. PICK x \in T : \A y \in T : <<y, x>> \notin Below
  <2>1. T \subseteq Nat
    OBVIOUS
  <2> HIDE DEF T
  <2> QED BY <1>1, <2>1, WFMin
<1>3. x - 1 \in Nat /\ <<x - 1, x>> \in Below
  BY DEF Below
<1>4. x - 1 \in S
  BY <1>2, <1>3
<1> QED BY <1>3, <1>4

-----------------------------------------------------------------------------
(* The patches, combined. *)

\* g is the combination of the first n responses, for each n up to there.
Combines(g, rs, n) ==
  g = [i \in 0 .. n |-> IF i = 0 THEN NoPatch ELSE Combine(g[i - 1], SpecPatch(rs[i].answer))]

LEMMA SomeCombines ==
  ASSUME NEW rs, NEW n \in Nat
  PROVE  \E g : Combines(g, rs, n)
<1> DEFINE S == {m \in Nat : \E g : Combines(g, rs, m)}
<1>1. 0 \in S
  <2> DEFINE g == [i \in 0 .. 0 |-> NoPatch]
  <2>1. Combines(g, rs, 0)
    BY DEF Combines
  <2> QED BY <2>1
<1>2. ASSUME NEW m \in Nat, m \in S
      PROVE  m + 1 \in S
  <2>1. PICK g : Combines(g, rs, m)
    BY <1>2
  <2> DEFINE h == [i \in 0 .. m + 1 |->
                     IF i = m + 1 THEN Combine(g[m], SpecPatch(rs[m + 1].answer)) ELSE g[i]]
  <2>2. \A i \in 0 .. m : g[i] = IF i = 0 THEN NoPatch ELSE Combine(g[i - 1], SpecPatch(rs[i].answer))
    BY <2>1 DEF Combines
  <2>3. \A i \in 0 .. m + 1 :
          h[i] = IF i = 0 THEN NoPatch ELSE Combine(h[i - 1], SpecPatch(rs[i].answer))
    <3> SUFFICES ASSUME NEW i \in 0 .. m + 1
                 PROVE  h[i] = IF i = 0 THEN NoPatch ELSE Combine(h[i - 1], SpecPatch(rs[i].answer))
      OBVIOUS
    <3>1. CASE i = m + 1
      <4>1. h[i - 1] = g[m] /\ i # 0 /\ h[i] = Combine(g[m], SpecPatch(rs[i].answer))
        BY <3>1
      <4> QED BY <4>1
    <3>2. CASE i \in 0 .. m
      <4>1. h[i] = g[i] /\ (i # 0 => i - 1 \in 0 .. m /\ h[i - 1] = g[i - 1])
        BY <3>2
      <4> QED BY <2>2, <3>2, <4>1
    <3> QED BY <3>1, <3>2
  <2>4. h = [i \in 0 .. m + 1 |-> h[i]]
    OBVIOUS
  <2> HIDE DEF h
  <2>5. Combines(h, rs, m + 1)
    BY <2>3, <2>4 DEF Combines
  <2> QED BY <2>5
<1> HIDE DEF S
<1>3. Nat \subseteq S
  BY <1>1, <1>2, Induction
<1> QED BY <1>3 DEF S

LEMMA ChangesetCombines ==
  ASSUME NEW rs, Len(rs) \in Nat
  PROVE  \E g : Combines(g, rs, Len(rs)) /\ Changeset(rs) = g[Len(rs)]
<1> DEFINE g == CHOOSE f : Combines(f, rs, Len(rs))
<1>1. Combines(g, rs, Len(rs))
  BY SomeCombines
<1>2. Changeset(rs) = g[Len(rs)]
  BY DEF Changeset, Combines
<1> QED BY <1>1, <1>2

\* What the changeset has for a key is what the last response says that mentions
\* it, and nothing if none does.
LEMMA LastMentionStays ==
  ASSUME NEW rs, Len(rs) \in Nat, NEW k \in Keys
  PROVE  LET says(i) == SpecPatch(rs[i].answer)[k]
         IN  \/ /\ \A i \in 1 .. Len(rs) : says(i) = None
                /\ Changeset(rs)[k] = None
             \/ \E i \in 1 .. Len(rs) :
                  /\ says(i) # None /\ \A j \in i + 1 .. Len(rs) : says(j) = None
                  /\ Changeset(rs)[k] = says(i)
<1> DEFINE says(i) == SpecPatch(rs[i].answer)[k]
<1>1. PICK g : Combines(g, rs, Len(rs)) /\ Changeset(rs) = g[Len(rs)]
  BY ChangesetCombines
<1> DEFINE Holds(n) == \/ /\ \A i \in 1 .. n : says(i) = None
                          /\ g[n][k] = None
                       \/ \E i \in 1 .. n :
                            /\ says(i) # None /\ \A j \in i + 1 .. n : says(j) = None
                            /\ g[n][k] = says(i)
           S == {n \in Nat : n <= Len(rs) => Holds(n)}
<1>2. 0 \in S
  <2>1. g[0] = NoPatch
    BY <1>1 DEF Combines
  <2> QED BY <2>1 DEF NoPatch
<1>3. ASSUME NEW n \in Nat, n \in S
      PROVE  n + 1 \in S
  <2> SUFFICES ASSUME n + 1 <= Len(rs)
               PROVE  Holds(n + 1)
    OBVIOUS
  <2>1. Holds(n)
    BY <1>3
  <2>2. g[n + 1] = Combine(g[n], SpecPatch(rs[n + 1].answer))
    BY <1>1 DEF Combines
  <2>3. g[n + 1][k] = IF says(n + 1) = None THEN g[n][k] ELSE says(n + 1)
    BY <2>2 DEF Combine
  <2> HIDE DEF says
  <2>4. CASE says(n + 1) # None
    BY <2>3, <2>4
  <2>5. CASE says(n + 1) = None
    <3>1. g[n + 1][k] = g[n][k]
      BY <2>3, <2>5
    <3>2. \A j \in Nat : j <= n + 1 /\ ~(j <= n) => says(j) = None
      BY <2>5
    <3> QED BY <2>1, <3>1, <3>2
  <2> QED BY <2>4, <2>5
<1> HIDE DEF S
<1>4. Nat \subseteq S
  BY <1>2, <1>3, Induction
<1>5. Holds(Len(rs))
  BY <1>4 DEF S
<1> QED BY <1>1, <1>5

(***************************************************************************)
(* What becomes of the object: nothing before the defaults are in, then    *)
(* the combination of the responses, on what the user sent.                *)
(***************************************************************************)
DefaultsInv ==
  /\ responses \in Seq([ext : Ext, answer : UNION {Answers[e] : e \in Ext}])
  /\ req = [op |-> req.op, user |-> req.user, new |-> req.new]
  /\ phase # "idle" => (req.op = "delete" <=> req.user = NoObj)
  /\ phase = "defaulting" => req.op # "delete" /\ req.new = req.user
  /\ phase \in {"defaulted", "validating"} =>
       req.new = IF req.op = "delete" THEN NoObj ELSE Apply(req.user, Changeset(responses))

LEMMA DefaultsStep ==
  ASSUME DefaultsInv, [Next]_vars
  PROVE  DefaultsInv'
<1> USE DEF history, request
<1> DEFINE R == [ext : Ext, answer : UNION {Answers[e] : e \in Ext}]
<1>1. ASSUME NEW op \in {"create", "update", "delete"}, NEW new \in Specs \cup {NoObj},
             Receive(op, new)
      PROVE  DefaultsInv'
  <2>1. responses' \in Seq(R)
    BY <1>1, EmptySeq DEF Receive
  <2> QED BY <1>1, <2>1 DEF Receive, DefaultsInv
<1>2. ASSUME NEW e \in Ext, DefaultCall(e) PROVE DefaultsInv'
  <2>1. responses' \in Seq(R)
    <3>1. responses \in Seq(R)
      BY DEF DefaultsInv
    <3>2. responses' = responses \/ \E r \in R : responses' = Append(responses, r)
      BY <1>2 DEF DefaultCall
    <3> HIDE DEF R
    <3> QED BY <3>1, <3>2, AppendProperties
  <2> QED BY <1>2, <2>1 DEF DefaultCall, DefaultsInv
<1>3. ASSUME NEW e \in Ext, ValidateCall(e) PROVE DefaultsInv'
  BY <1>3 DEF ValidateCall, DefaultsInv
<1>4. CASE DefaultDone
  BY <1>4 DEF DefaultDone, Reply, DefaultsInv
<1>5. CASE StartValidate
  BY <1>5 DEF StartValidate, DefaultsInv
<1>6. CASE ValidateDone \/ GiveUp
  BY <1>6 DEF ValidateDone, GiveUp, Reply, DefaultsInv
<1>7. CASE Churn
  BY <1>7 DEF Churn, DefaultsInv
<1>8. CASE UNCHANGED vars
  BY <1>8 DEF vars, DefaultsInv
<1> QED BY <1>1, <1>2, <1>3, <1>4, <1>5, <1>6, <1>7, <1>8 DEF Next, Webhook

\* The state of the object in each phase of a request (ReconcilerWrapper.Default).
THEOREM DefaultsInvariant == Spec => []DefaultsInv
<1>1. Init => DefaultsInv
  BY EmptySeq DEF Init, DefaultsInv
<1> QED BY <1>1, DefaultsStep, PTL DEF Spec

(***************************************************************************)
(* However many extensions, answers and keys there are, and in whatever    *)
(* order the answers came: what is stored has at each key what the last    *)
(* answer says that mentions it, and what the user sent at the others      *)
(* (AddMergePatch for one response after the other, and Apply).            *)
(***************************************************************************)
THEOREM LastDefaultsWin == Spec => LastDefaultWins
<1> DEFINE Exact(k) == stored'[k] = IF Mentions(k) = {} THEN req.user[k]
                                    ELSE LET v == responses[Max(Mentions(k))].answer.patch[k]
                                         IN  IF v = Null THEN None ELSE v
<1>1. ASSUME DefaultsInv, [Next]_vars, stored' # stored, stored' # NoObj, NEW k \in Keys
      PROVE  Exact(k)
  <2> DEFINE says(i) == SpecPatch(responses[i].answer)[k]
             patch == Changeset(responses)
  <2>1. phase = "validating" /\ stored' = req.new
    BY <1>1 DEF Next, Receive, Webhook, DefaultCall, ValidateCall, DefaultDone, StartValidate,
                ValidateDone, GiveUp, Churn, vars, request
  <2>2. Len(responses) \in Nat /\ DOMAIN responses = 1 .. Len(responses)
    BY <1>1, LenProperties DEF DefaultsInv
  <2>3. stored' = Apply(req.user, patch)
    BY <1>1, <2>1 DEF DefaultsInv
  <2>4. stored'[k] = CASE patch[k] = None -> req.user[k]
                       [] patch[k] = Null -> None
                       [] OTHER           -> patch[k]
    BY <2>3 DEF Apply
  <2>5. Mentions(k) = {i \in 1 .. Len(responses) : says(i) # None}
    BY <2>2 DEF Mentions
  <2>6. CASE (\A i \in 1 .. Len(responses) : says(i) = None) /\ patch[k] = None
    <3>1. Mentions(k) = {}
      BY <2>5, <2>6
    <3>2. stored'[k] = req.user[k]
      BY <2>4, <2>6, AdmissionAssumption
    <3> QED BY <3>1, <3>2
  <2>7. CASE \E i \in 1 .. Len(responses) :
               says(i) # None /\ (\A j \in i + 1 .. Len(responses) : says(j) = None)
                 /\ patch[k] = says(i)
    <3>1. PICK i \in 1 .. Len(responses) :
               says(i) # None /\ (\A j \in i + 1 .. Len(responses) : says(j) = None)
                 /\ patch[k] = says(i)
      BY <2>7
    <3>2. i \in Mentions(k) /\ \A j \in Mentions(k) : j \in 1 .. Len(responses) /\ i >= j
      <4> HIDE DEF says
      <4> QED BY <2>2, <2>5, <3>1
    <3>3. Max(Mentions(k)) = i
      <4>1. \A m \in Mentions(k) : (\A j \in Mentions(k) : m >= j) => m = i
        BY <2>2, <3>2
      <4> QED BY <3>2, <4>1 DEF Max
    <3>4. says(i) = responses[i].answer.patch[k]
      BY <3>1 DEF SpecPatch, NoPatch
    <3> HIDE DEF says, patch
    <3> QED BY <2>4, <3>1, <3>2, <3>3, <3>4
  <2> QED BY <2>2, <2>6, <2>7, LastMentionStays
<1>2. DefaultsInv /\ [Next]_vars =>
        [stored' # stored /\ stored' # NoObj => \A k \in Keys : Exact(k)]_vars
  BY <1>1
<1> QED BY <1>2, DefaultsInvariant, PTL DEF Spec, LastDefaultWins
=============================================================================
