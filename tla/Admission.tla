------------------------------ MODULE Admission ------------------------------
(***************************************************************************)
(* The admission webhooks of an Application                                *)
(* (internal/controller/reconciler_webhook.go) and the two fan-outs behind *)
(* them, ExtensionController.Default and .Validate.  A request of a user   *)
(* goes through the mutating webhook, which asks every defaulting          *)
(* extension for a merge patch and applies the patches in the order in     *)
(* which the goroutines ended, and then through the validating webhook,    *)
(* which shows the result to every validating extension.  Extensions are   *)
(* registered and removed meanwhile.                                       *)
(*                                                                         *)
(* A spec is a function from root keys to values; None is a key that is    *)
(* not set.                                                                *)
(***************************************************************************)
EXTENDS Naturals, Sequences, FiniteSets, SequencesExt

CONSTANTS
  Ext,          \* the extensions there may be for the kind
  Defaulting, Validating,  \* those with the webhook enabled
  RootKeys,     \* the root keys of the schema of each extension
  Answers,      \* what the Default of each extension may answer
  Keys, Vals,   \* root keys of a spec, and what may be there
  None,         \* a key that is not set
  Null,         \* a merge patch's null
  NoObj,        \* no object
  MaxRequests, MaxChurn

Specs   == [Keys -> Vals \cup {None}]
Patches == [Keys -> Vals \cup {None, Null}]

\* An answer to Default: nothing, something that is not JSON, or a merge patch
\* of the whole object: "spec" patches its spec, "bare" has the keys of the spec
\* at the top level, as the SDK (extension/server.go) encodes the object that an
\* extension's Default returns.
ASSUME AdmissionAssumption ==
  /\ Defaulting \subseteq Ext /\ Validating \subseteq Ext
  /\ RootKeys \in [Ext -> SUBSET Keys]
  /\ \A e \in Ext : \A a \in Answers[e] :
       a.kind \in {"empty", "bad", "spec", "bare"} /\ a.patch \in Patches
  /\ None \notin Vals \cup {Null} /\ Null \notin Vals /\ NoObj \notin Specs
  /\ MaxRequests \in Nat /\ MaxChurn \in Nat

VARIABLES
  registered, \* the extensions that ExtensionsFor returns
  stored,     \* the spec at the API server
  phase,      \* where the request is
  req,        \* the request: operation, what the user sent, the object so far
  running,    \* goroutines of the fan-out under way
  responses,  \* the answers to Default, in the order in which they came
  errs,       \* the MultiError of the fan-out
  allErrs,    \* the field errors of Validate
  outcome,    \* the answer to the last request
  spent,      \* requests and changes of the registry so far
  due,        \* history: who was to validate
  said        \* history: what each was shown, and what it said

request == <<phase, req, running, responses, errs, allErrs, outcome>>
history == <<due, said>>
vars    == <<registered, stored, request, spent, history>>

-----------------------------------------------------------------------------
(* What an extension is shown, and what becomes of its patches. *)

\* createOrUpdateRequest: nothing without an object, else the keys of the
\* spec that are root keys of the extension.
View(e, spec) ==
  IF spec = NoObj THEN NoObj
  ELSE [k \in Keys |-> IF k \in RootKeys[e] THEN spec[k] ELSE None]

NoPatch == [k \in Keys |-> None]

\* Mutant: what is there stays.
CombineKeepingFirst(old, new) ==
  [k \in Keys |-> IF old[k] = None THEN new[k] ELSE old[k]]

\* jsonpatch.MergeMergePatches: the later one wins.
Combine(old, new) == [k \in Keys |-> IF new[k] = None THEN old[k] ELSE new[k]]

\* The part of an answer that is about the spec of the object.  Keys at the top
\* level are merged into the object and ignored when it is decoded.
SpecPatch(a) == IF a.kind = "spec" THEN a.patch ELSE NoPatch

\* AddMergePatch for one response after the other.
Changeset(rs) ==
  LET upTo[i \in 0 .. Len(rs)] ==
        IF i = 0 THEN NoPatch ELSE Combine(upTo[i - 1], SpecPatch(rs[i].answer))
  IN  upTo[Len(rs)]

\* A patch that is not JSON fails as soon as it is combined or applied.
Unusable(rs) == \E i \in DOMAIN rs : rs[i].answer.kind = "bad"

\* Changeset.Apply on an Application: the spec is decoded from scratch
\* (ApplicationSpec.UnmarshalJSON), so that a null does remove a key.
Apply(spec, patch) ==
  [k \in Keys |-> CASE patch[k] = None -> spec[k]
                    [] patch[k] = Null -> None
                    [] OTHER           -> patch[k]]

-----------------------------------------------------------------------------
(* One request. *)

Spend(what, limit) ==
  /\ spent[what] < limit
  /\ spent' = [spent EXCEPT ![what] = @ + 1]

\* The API server gets a request.  Creations and updates go to the mutating
\* webhook; ReconcilerWrapper.Default starts a goroutine for each defaulting
\* extension.  A deletion only goes to the validating one.
Receive(op, new) ==
  /\ phase = "idle"
  /\ Spend("requests", MaxRequests)
  /\ op = "create" <=> stored = NoObj
  /\ op = "delete" <=> new = NoObj
  /\ req' = [op |-> op, user |-> new, new |-> new]
  /\ IF op = "delete"
     THEN phase' = "defaulted" /\ running' = {}
     ELSE phase' = "defaulting" /\ running' = registered \cap Defaulting
  /\ responses' = <<>> /\ errs' = {} /\ allErrs' = {}
  /\ outcome' = "none"
  /\ due' = {} /\ said' = [e \in Ext |-> <<>>]
  /\ UNCHANGED <<registered, stored>>

\* defaulter, in the goroutine of e: the answer, or the error, is added to the
\* results under the lock.
DefaultCall(e) ==
  /\ phase = "defaulting" /\ e \in running
  /\ running' = running \ {e}
  /\ \/ /\ \E a \in Answers[e] : responses' = Append(responses, [ext |-> e, answer |-> a])
        /\ UNCHANGED errs
     \/ errs' = errs \cup {e} /\ UNCHANGED responses
  /\ UNCHANGED <<registered, stored, phase, req, allErrs, outcome, spent, history>>

Reply(verdict) == phase' = "idle" /\ outcome' = verdict

\* wg.Wait, and the rest of ReconcilerWrapper.Default: one error refuses the
\* request, else the patches are combined and applied.
DefaultDone ==
  /\ phase = "defaulting" /\ running = {}
  /\ IF errs # {} \/ Unusable(responses)
     THEN Reply("error") /\ UNCHANGED req
     ELSE /\ phase' = "defaulted"
          /\ req' = [req EXCEPT !.new = Apply(@, Changeset(responses))]
          /\ UNCHANGED outcome
  /\ UNCHANGED <<registered, stored, running, responses, errs, allErrs, spent, history>>

\* ExtensionController.Validate: a goroutine for each validating extension
\* that is registered now.
StartValidate ==
  /\ phase = "defaulted"
  /\ phase' = "validating"
  /\ running' = registered \cap Validating
  /\ due' = registered \cap Validating
  /\ UNCHANGED <<registered, stored, req, responses, errs, allErrs, outcome, spent, said>>

Verdicts == {"ok", "invalid", "error"}

\* Mutant: the extension is shown what the user sent.
ValidateCallUser(e) ==
  /\ phase = "validating" /\ e \in running
  /\ running' = running \ {e}
  /\ \E v \in Verdicts :
       /\ said' = [said EXCEPT ![e] = <<View(e, req.user), View(e, stored), v>>]
       /\ allErrs' = IF v = "invalid" THEN allErrs \cup {e} ELSE allErrs
       /\ errs' = IF v = "error" THEN errs \cup {e} ELSE errs
  /\ UNCHANGED <<registered, stored, phase, req, responses, outcome, spent, due>>

\* Mutant: the field errors are assigned instead of appended.
ValidateCallAssigning(e) ==
  /\ phase = "validating" /\ e \in running
  /\ running' = running \ {e}
  /\ \E v \in Verdicts :
       /\ said' = [said EXCEPT ![e] = <<View(e, req.new), View(e, stored), v>>]
       /\ allErrs' = IF v = "invalid" THEN {e} ELSE allErrs
       /\ errs' = IF v = "error" THEN errs \cup {e} ELSE errs
  /\ UNCHANGED <<registered, stored, phase, req, responses, outcome, spent, due>>

\* validate, in the goroutine of e: it is shown its part of the new and of the
\* old object; field errors and other errors are collected under the lock.
ValidateCall(e) ==
  /\ phase = "validating" /\ e \in running
  /\ running' = running \ {e}
  /\ \E v \in Verdicts :
       /\ said' = [said EXCEPT ![e] = <<View(e, req.new), View(e, stored), v>>]
       /\ allErrs' = IF v = "invalid" THEN allErrs \cup {e} ELSE allErrs
       /\ errs' = IF v = "error" THEN errs \cup {e} ELSE errs
  /\ UNCHANGED <<registered, stored, phase, req, responses, outcome, spent, due>>

\* wg.Wait, and the rest of ReconcilerWrapper.validate; the API server stores
\* what it admits.
ValidateDone ==
  /\ phase = "validating" /\ running = {}
  /\ Reply(IF errs # {} THEN "error" ELSE IF allErrs # {} THEN "invalid" ELSE "allowed")
  /\ stored' = IF errs = {} /\ allErrs = {} THEN req.new ELSE stored
  /\ UNCHANGED <<registered, req, running, responses, errs, allErrs, spent, history>>

\* The API server does not wait longer than its timeout: the request fails, and
\* what the goroutines still find out goes nowhere.
GiveUp ==
  /\ phase # "idle"
  /\ Reply("timeout")
  /\ running' = {}
  /\ UNCHANGED <<registered, stored, req, responses, errs, allErrs, spent, history>>

\* The Extension reconciler adds or removes an extension.
Churn ==
  /\ Spend("churn", MaxChurn)
  /\ \E e \in Ext : registered' = SymDiff(registered, {e})
  /\ UNCHANGED <<stored, request, history>>

-----------------------------------------------------------------------------

Init ==
  /\ registered = Ext
  /\ stored = NoObj
  /\ phase = "idle"
  /\ req = [op |-> "none", user |-> NoObj, new |-> NoObj]
  /\ running = {} /\ responses = <<>> /\ errs = {} /\ allErrs = {}
  /\ outcome = "none"
  /\ spent = [requests |-> 0, churn |-> 0]
  /\ due = {} /\ said = [e \in Ext |-> <<>>]

Webhook == (\E e \in Ext : DefaultCall(e) \/ ValidateCall(e))
           \/ DefaultDone \/ StartValidate \/ ValidateDone

Next == \/ \E op \in {"create", "update", "delete"}, new \in Specs \cup {NoObj} : Receive(op, new)
        \/ Webhook \/ GiveUp \/ Churn

Spec == Init /\ [][Next]_vars

-----------------------------------------------------------------------------
(* Properties. *)

\* Every variable keeps its type.
TypeOK ==
  /\ registered \subseteq Ext
  /\ stored \in Specs \cup {NoObj}
  /\ phase \in {"idle", "defaulting", "defaulted", "validating"}
  /\ req.user \in Specs \cup {NoObj} /\ req.new \in Specs \cup {NoObj}
  /\ running \subseteq Ext /\ errs \subseteq Ext /\ allErrs \subseteq Ext
  /\ outcome \in {"none", "allowed", "invalid", "error", "timeout"}
  /\ due \subseteq Validating

\* Whatever is stored was shown, with all the defaults in it and together with
\* what it replaces, to every validating extension that was registered when
\* the validation began, and each of them said yes: no default of one
\* extension slips past the validation of another, and no extension that comes
\* or goes meanwhile changes that.
AdmittedIsChecked ==
  [][stored' # stored =>
       \A e \in due : said[e] = <<View(e, stored'), View(e, stored), "ok">>]_vars

\* The answer to the user is exact: an error only if an extension failed or
\* sent nonsense, else "invalid" with every extension that objected, whatever
\* the goroutines did at once.
VerdictExact ==
  LET who(v) == {e \in Ext : said[e] # <<>> /\ said[e][3] = v}
  IN  /\ outcome = "allowed" => who("ok") = due
      /\ outcome = "invalid" => allErrs = who("invalid") /\ allErrs # {} /\ who("error") = {}
      /\ outcome = "error" => errs # {} \/ Unusable(responses)

\* The responses that mention a key, of those that patch the spec.
Mentions(k) == {i \in DOMAIN responses : SpecPatch(responses[i].answer)[k] # None}

\* At a key that no response mentions the stored spec has what the user sent;
\* at any other the last response decides, and a null leaves nothing.  Patches
\* about different keys never disturb each other.
LastDefaultWins ==
  [][stored' # stored /\ stored' # NoObj =>
       \A k \in Keys :
         stored'[k] = IF Mentions(k) = {} THEN req.user[k]
                      ELSE LET v == responses[Max(Mentions(k))].answer.patch[k]
                           IN  IF v = Null THEN None ELSE v]_vars

\* The default that an extension returns for a key of its own, which no other
\* extension mentions, is in the spec that is stored.
DefaultsStored ==
  [][stored' # stored /\ stored' # NoObj =>
       \A i \in DOMAIN responses : \A k \in RootKeys[responses[i].ext] :
         LET v == responses[i].answer.patch[k]
         IN  /\ v \in Vals
             /\ \A j \in DOMAIN responses \ {i} : responses[j].answer.patch[k] = None
             => stored'[k] = v]_vars

\* An extension only validates objects that use it.
ValidatesUsedOnly ==
  \A e \in Ext : said[e] # <<>> => \E i \in 1..2 : said[e][i] \notin {NoObj, NoPatch}
=============================================================================
