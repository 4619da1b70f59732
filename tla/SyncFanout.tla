----------------------------- MODULE SyncFanout -----------------------------
(***************************************************************************)
(* ExtensionController.Sync (internal/controller/ext_controller.go): one   *)
(* goroutine per extension, which receives a stream of responses and adds  *)
(* them to the Changeset that all of them share                            *)
(* (internal/extension/changeset.go); and what Reconcile then makes of the *)
(* Changeset: Apply, on the Deployment rendered from the spec.             *)
(*                                                                         *)
(* The Changeset and Result.Extensions are behind mutexes.  The slice of   *)
(* errors is not: `errs = append(errs, err)` (line 377) is a load and a    *)
(* store.  Two goroutines that append at once may each store what they     *)
(* loaded, plus their own error.                                           *)
(***************************************************************************)
EXTENDS Naturals, Sequences, FiniteSets, SequencesExt

CONSTANTS
  Ext,      \* the extensions registered for the kind
  Selected, \* those that spec.always or a root key of the spec selects
  Scripts,  \* what an extension may stream: sequences of responses
  Paths,    \* paths in the Deployment that labels, annotations, patches set
  None,     \* no value at a path
  Null      \* a merge patch's null: remove the path

\* A response: a list entry, a label or an annotation, a merge patch of one
\* path, or something Add refuses.  "error" stands for a stream, or the call
\* that opens it, that fails.
ListKinds == {"env", "envFrom", "container", "initContainer"}
Kinds     == ListKinds \cup {"meta", "patch", "emptyPatch", "badPatch", "unknown", "error"}

ASSUME ScriptAssumption ==
  /\ Selected \subseteq Ext
  /\ \A s \in Scripts : s \in Seq(ToSet(s))
  /\ \A s \in Scripts : \A i \in DOMAIN s :
       /\ s[i].kind \in Kinds
       /\ s[i].kind \in {"meta", "patch"} => s[i].path \in Paths /\ s[i].val # None

VARIABLES
  script,    \* what each extension streams
  pc, pos,   \* each goroutine, and the responses it has received
  loaded,    \* the errors it loaded for its append
  result,    \* how its runExtension ended
  changeset, \* Result.Changeset
  extensions, \* Result.Extensions
  errs,      \* the MultiError of the call
  outcome,   \* what Sync returned
  workload   \* the Deployment after Apply

vars == <<script, pc, pos, loaded, result, changeset, extensions, errs,
          outcome, workload>>

-----------------------------------------------------------------------------
(* The Changeset. *)

NoPatch == [p \in Paths |-> None]

EmptyChangeset == [lists |-> [k \in ListKinds |-> <<>>],
                   meta  |-> [p \in Paths |-> None],
                   patch |-> NoPatch, bad |-> FALSE]

\* A patch that is not JSON is kept when it is the first, and makes every
\* later combination fail; as a later one it fails itself.
HasPatch(cs) == cs.patch # NoPatch \/ cs.bad
PatchRefused(cs, r) == HasPatch(cs) /\ (cs.bad \/ r.kind = "badPatch")

\* The responses that Add returns an error for.
Refused(cs, r) ==
  \/ r.kind = "unknown"
  \/ r.kind \in {"patch", "badPatch"} /\ PatchRefused(cs, r)

\* Mutant: a list is assigned instead of appended to.
AddOverwriting(cs, e, r) ==
  CASE r.kind \in ListKinds -> [cs EXCEPT !.lists[r.kind] = <<<<e, r>>>>]
    [] r.kind = "meta"      -> [cs EXCEPT !.meta[r.path] = r.val]
    [] r.kind = "patch"     -> [cs EXCEPT !.patch[r.path] = r.val]
    [] r.kind = "badPatch"  -> [cs EXCEPT !.bad = TRUE]
    [] OTHER                -> cs

\* Mutant: the value that came first stays.
AddKeepingFirst(cs, e, r) ==
  CASE r.kind \in ListKinds -> [cs EXCEPT !.lists[r.kind] = Append(@, <<e, r>>)]
    [] r.kind = "meta"      -> [cs EXCEPT !.meta[r.path] = IF @ = None THEN r.val ELSE @]
    [] r.kind = "patch"     -> [cs EXCEPT !.patch[r.path] = IF @ = None THEN r.val ELSE @]
    [] r.kind = "badPatch"  -> [cs EXCEPT !.bad = TRUE]
    [] OTHER                -> cs

\* Changeset.Add and AddMergePatch: under the lock, entries are appended,
\* labels and annotations assigned, patches combined, the later one winning.
Add(cs, e, r) ==
  CASE r.kind \in ListKinds -> [cs EXCEPT !.lists[r.kind] = Append(@, <<e, r>>)]
    [] r.kind = "meta"      -> [cs EXCEPT !.meta[r.path] = r.val]
    [] r.kind = "patch"     -> [cs EXCEPT !.patch[r.path] = r.val]
    [] r.kind = "badPatch"  -> [cs EXCEPT !.bad = TRUE]
    [] OTHER                -> cs

\* Changeset.Apply: labels and annotations, then the patch.  The patched JSON is
\* decoded into the same Deployment, in which a field or a map entry that is
\* missing in the JSON stays: a null in a patch removes nothing.  The lists are
\* not looked at: of them the Deployment has what newDeployment rendered.
Rendered == [lists |-> [k \in ListKinds |-> <<>>], at |-> NoPatch]

Apply(cs) ==
  [Rendered EXCEPT !.at =
     [p \in Paths |-> IF cs.patch[p] \in {None, Null} THEN cs.meta[p]
                                                    ELSE cs.patch[p]]]

-----------------------------------------------------------------------------
(* One goroutine. *)

Finish(e, how) ==
  /\ pc' = [pc EXCEPT ![e] = IF how = "error" THEN "load" ELSE "done"]
  /\ result' = [result EXCEPT ![e] = how]

\* Mutant: the extension is called and not noted.
BeginNotingNone(e) ==
  /\ pc[e] = "start"
  /\ IF e \in Selected
     THEN pc' = [pc EXCEPT ![e] = "recv"] /\ UNCHANGED result
     ELSE Finish(e, "ok")
  /\ UNCHANGED <<script, pos, loaded, changeset, extensions, errs, outcome, workload>>

\* runExtension decides whether the extension is called, and notes it in
\* Result.Extensions before it does.
Begin(e) ==
  /\ pc[e] = "start"
  /\ IF e \in Selected
     THEN /\ extensions' = Append(extensions, e)
          /\ pc' = [pc EXCEPT ![e] = "recv"]
          /\ UNCHANGED result
     ELSE Finish(e, "ok") /\ UNCHANGED extensions
  /\ UNCHANGED <<script, pos, loaded, changeset, errs, outcome, workload>>

\* Mutant: Add's error ends the loop, and is forgotten.
RecvIgnoringAdd(e) ==
  /\ pc[e] = "recv"
  /\ IF pos[e] = Len(script[e])
     THEN Finish(e, "ok") /\ UNCHANGED <<pos, changeset>>
     ELSE LET r == script[e][pos[e] + 1]
          IN  /\ pos' = [pos EXCEPT ![e] = @ + 1]
              /\ IF r.kind = "error" THEN Finish(e, "error") /\ UNCHANGED changeset
                 ELSE IF Refused(changeset, r)
                 THEN Finish(e, "ok") /\ UNCHANGED changeset
                 ELSE changeset' = Add(changeset, e, r) /\ UNCHANGED <<pc, result>>
  /\ UNCHANGED <<script, loaded, extensions, errs, outcome, workload>>

\* stream.Recv, then changeset.Add.
Recv(e) ==
  /\ pc[e] = "recv"
  /\ IF pos[e] = Len(script[e])
     THEN Finish(e, "ok") /\ UNCHANGED <<pos, changeset>>
     ELSE LET r == script[e][pos[e] + 1]
          IN  /\ pos' = [pos EXCEPT ![e] = @ + 1]
              /\ IF r.kind = "error" \/ Refused(changeset, r)
                 THEN Finish(e, "error") /\ UNCHANGED changeset
                 ELSE changeset' = Add(changeset, e, r) /\ UNCHANGED <<pc, result>>
  /\ UNCHANGED <<script, loaded, extensions, errs, outcome, workload>>

\* errs = append(errs, err), without the lock: the load ...
LoadErrs(e) ==
  /\ pc[e] = "load"
  /\ loaded' = [loaded EXCEPT ![e] = errs]
  /\ pc' = [pc EXCEPT ![e] = "store"]
  /\ UNCHANGED <<script, pos, result, changeset, extensions, errs, outcome, workload>>

\* ... and the store; then wg.Done.
StoreErrs(e) ==
  /\ pc[e] = "store"
  /\ errs' = Append(loaded[e], e)
  /\ pc' = [pc EXCEPT ![e] = "done"]
  /\ UNCHANGED <<script, pos, loaded, result, changeset, extensions, outcome, workload>>

-----------------------------------------------------------------------------
(* The caller. *)

\* Mutant: the call returns without waiting for the goroutines.
ReturnEarly ==
  /\ outcome = "none"
  /\ outcome' = IF Len(errs) > 0 THEN "error" ELSE "ok"
  /\ UNCHANGED <<script, pc, pos, loaded, result, changeset, extensions, errs, workload>>

\* wg.Wait, and the MultiError if it is not empty.
Return ==
  /\ outcome = "none"
  /\ \A e \in Ext : pc[e] = "done"
  /\ outcome' = IF Len(errs) > 0 THEN "error" ELSE "ok"
  /\ UNCHANGED <<script, pc, pos, loaded, result, changeset, extensions, errs, workload>>

\* CreateOrUpdate applies the Changeset; a patch that is not JSON fails there,
\* and nothing is deployed.
ApplyChangeset ==
  /\ outcome = "ok"
  /\ IF changeset.bad
     THEN outcome' = "applyError" /\ UNCHANGED workload
     ELSE outcome' = "applied" /\ workload' = Apply(changeset)
  /\ UNCHANGED <<script, pc, pos, loaded, result, changeset, extensions, errs>>

Init ==
  /\ script \in [Ext -> Scripts]
  /\ pc = [e \in Ext |-> "start"]
  /\ pos = [e \in Ext |-> 0]
  /\ loaded = [e \in Ext |-> <<>>]
  /\ result = [e \in Ext |-> "none"]
  /\ changeset = EmptyChangeset
  /\ extensions = <<>>
  /\ errs = <<>>
  /\ outcome = "none"
  /\ workload = Rendered

Goroutine(e) == Begin(e) \/ Recv(e) \/ LoadErrs(e) \/ StoreErrs(e)

Next == (\E e \in Ext : Goroutine(e)) \/ Return \/ ApplyChangeset

Spec == Init /\ [][Next]_vars

-----------------------------------------------------------------------------
(* Properties. *)

Returned == outcome # "none"

\* Every variable keeps its type.
TypeOK ==
  /\ script \in [Ext -> Scripts]
  /\ pc \in [Ext -> {"start", "recv", "load", "store", "done"}]
  /\ \A e \in Ext : pos[e] \in 0..Len(script[e])
  /\ result \in [Ext -> {"none", "ok", "error"}]
  /\ IsInjective(extensions) /\ ToSet(extensions) \subseteq Selected
  /\ ToSet(errs) \subseteq Ext /\ \A e \in Ext : ToSet(loaded[e]) \subseteq Ext
  /\ outcome \in {"none", "ok", "error", "applied", "applyError"}

\* In spite of the race on errs, Sync returns an error exactly when the stream of
\* one of the extensions ended with one, so Reconcile does not write a status for
\* it.  (What the stream of a WASI guest ends with is in WasiStream.)
ErrorIffFailed ==
  Returned => (outcome = "error" <=> \E e \in Ext : result[e] = "error")

\* The MultiError that Sync returns has the error of every extension that
\* failed.
AllErrorsReported ==
  outcome = "error" => \A e \in Ext : result[e] = "error" => e \in ToSet(errs)

\* Without an error, the lists of the Changeset have every entry of every
\* extension, once, and each extension's entries in the order it sent them:
\* concurrent goroutines neither lose nor reorder responses.
NoResponseLost ==
  outcome = "ok" =>
    \A e \in Selected, k \in ListKinds :
      LET list == changeset.lists[k]
          sent == {i \in DOMAIN script[e] : script[e][i].kind = k}
          kept == {n \in DOMAIN list : list[n][1] = e}
      IN  \E at \in [sent -> kept] :
            /\ \A i, j \in sent : i < j => at[i] < at[j]
            /\ \A n \in kept : \E i \in sent : at[i] = n
            /\ \A i \in sent : list[at[i]][2] = script[e][i]

\* Result.Extensions has the selected extensions and no other once Sync
\* succeeds, and every extension that was asked anything before that: what
\* DeleteExtension is to undo later is never forgotten by a failing call.
ExtensionsComplete ==
  /\ \A e \in Ext : pos[e] > 0 => e \in ToSet(extensions)
  /\ outcome \in {"ok", "applied"} => ToSet(extensions) = Selected

\* The last value that each extension has for the path p, in a response of the
\* kind; None is not one of them.
Speaks(e, i, kind, p) == script[e][i].kind = kind /\ script[e][i].path = p

LastWords(kind, p) ==
  UNION {{script[e][i].val : i \in {i \in DOMAIN script[e] :
            /\ Speaks(e, i, kind, p)
            /\ \A j \in DOMAIN script[e] : j > i => ~Speaks(e, j, kind, p)}} : e \in Selected}

\* What ends up at a path of the Deployment is the last word of one of the
\* extensions on it, merge patches going before labels and annotations: never
\* a value that the extension which sent it had replaced.
LastWordWins ==
  outcome = "applied" =>
    \A p \in Paths :
      LET say(kind) == LastWords(kind, p)
      IN  \/ workload.at[p] \in say("patch") \ {Null}
          \/ /\ say("patch") = {} \/ Null \in say("patch")
             /\ IF say("meta") = {} THEN workload.at[p] = None
                                   ELSE workload.at[p] \in say("meta")

\* A path that the last merge patch on it removes is not in the Deployment.
NullRemoves ==
  outcome = "applied" =>
    \A p \in Paths : changeset.patch[p] = Null => workload.at[p] = None

\* A merge patch that is not JSON never gets past: in whatever order the
\* patches come, Sync or Apply fails.
BadPatchIsCaught ==
  outcome = "applied" =>
    \A e \in Selected : \A i \in DOMAIN script[e] : script[e][i].kind # "badPatch"

\* The environment variables that the extensions asked for are in the
\* Deployment.
EnvReachesWorkload ==
  outcome = "applied" =>
    \A e \in Selected : \A i \in DOMAIN script[e] :
      script[e][i].kind = "env" =>
        <<e, script[e][i]>> \in ToSet(workload.lists["env"])

\* The interleaving of goroutines, locks and the unlocked append implements
\* what the callers rely on.
Abstract == INSTANCE FanOut WITH
  running <- {e \in Ext : pc[e] # "done"},
  failed  <- {e \in Ext : pc[e] = "done" /\ result[e] = "error"},
  outcome <- IF outcome \in {"none", "error"} THEN outcome ELSE "ok"

RefinesFanOut == Abstract!Spec
=============================================================================
