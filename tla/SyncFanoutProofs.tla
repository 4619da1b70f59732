-------------------------- MODULE SyncFanoutProofs --------------------------
(***************************************************************************)
(* Theorems about SyncFanout, for any extensions, any streams of any       *)
(* length, and every interleaving of the goroutines, the unlocked append   *)
(* to errs included.                                                       *)
(***************************************************************************)
EXTENDS SyncFanout, SequenceTheorems, TLAPS

-----------------------------------------------------------------------------
(* Types. *)

\* What an extension may answer, and the values that a path may get.
Responses == UNION {ToSet(s) : s \in Scripts}
Vals == {None} \cup {r.val : r \in Responses}

Changesets == [lists : [ListKinds -> Seq(Ext \X Responses)],
               meta  : [Paths -> Vals], patch : [Paths -> Vals], bad : BOOLEAN]

GoroutineType ==
  /\ script \in [Ext -> Scripts]
  /\ pc \in [Ext -> {"start", "recv", "load", "store", "done"}]
  /\ pos \in [Ext -> Nat] /\ \A e \in Ext : pos[e] \in 0..Len(script[e])
  /\ result \in [Ext -> {"none", "ok", "error"}]
  /\ loaded \in [Ext -> Seq(Ext)]

SharedType ==
  /\ changeset \in Changesets
  /\ extensions \in Seq(Selected) /\ errs \in Seq(Ext)
  /\ outcome \in {"none", "ok", "error", "applied", "applyError"}

LEMMA StreamType ==
  ASSUME NEW s \in Scripts
  PROVE  /\ s \in Seq(Responses) /\ Len(s) \in Nat
         /\ \A i \in 1..Len(s) : s[i] \in Responses
<1>1. s \in Seq(ToSet(s)) /\ ToSet(s) \subseteq Responses
  BY ScriptAssumption DEF Responses
<1>2. s \in Seq(Responses)
  BY <1>1
<1> QED BY <1>2

LEMMA ResponseType ==
  \A r \in Responses :
    /\ r.kind \in Kinds
    /\ r.kind \in {"meta", "patch"} => r.path \in Paths /\ r.val # None
<1> SUFFICES ASSUME NEW s \in Scripts, NEW i \in DOMAIN s
             PROVE  /\ s[i].kind \in Kinds
                    /\ s[i].kind \in {"meta", "patch"} =>
                         s[i].path \in Paths /\ s[i].val # None
  BY DEF Responses, ToSet
<1> QED BY ScriptAssumption

(***************************************************************************)
(* Changeset.Add only ever adds: a list keeps its entries, and a patch     *)
(* that is not JSON stays.                                                 *)
(***************************************************************************)
Grown(cs, e, r, new) ==
  /\ new \in Changesets
  /\ cs.bad \/ r.kind = "badPatch" => new.bad
  /\ \A k \in ListKinds :
       new.lists[k] = IF r.kind = k THEN Append(cs.lists[k], <<e, r>>) ELSE cs.lists[k]
  /\ \A p \in Paths :
       /\ new.meta[p] = IF r.kind = "meta" /\ r.path = p THEN r.val ELSE cs.meta[p]
       /\ new.patch[p] = IF r.kind = "patch" /\ r.path = p THEN r.val ELSE cs.patch[p]

LEMMA AddGrows ==
  ASSUME NEW cs \in Changesets, NEW e \in Ext, NEW r \in Responses
  PROVE  Grown(cs, e, r, Add(cs, e, r))
<1>0. /\ r.val \in Vals /\ <<e, r>> \in Ext \X Responses
      /\ r.kind \in {"meta", "patch"} => r.path \in Paths
      /\ "meta" \notin ListKinds /\ "patch" \notin ListKinds /\ "badPatch" \notin ListKinds
  BY ResponseType DEF Vals, ListKinds
<1> DEFINE With(lists, meta, patch, bad) ==
             [lists |-> lists, meta |-> meta, patch |-> patch, bad |-> bad]
<1>c. /\ cs = With(cs.lists, cs.meta, cs.patch, cs.bad)
      /\ cs.lists \in [ListKinds -> Seq(Ext \X Responses)] /\ cs.bad \in BOOLEAN
      /\ cs.meta \in [Paths -> Vals] /\ cs.patch \in [Paths -> Vals]
  BY DEF Changesets
<1>1. CASE r.kind \in ListKinds
  <2> DEFINE lists == [cs.lists EXCEPT ![r.kind] = Append(cs.lists[r.kind], <<e, r>>)]
  <2>1. Add(cs, e, r) = [cs EXCEPT !.lists[r.kind] = Append(cs.lists[r.kind], <<e, r>>)]
    BY <1>0, <1>1 DEF Add
  <2>2. Add(cs, e, r) = With(lists, cs.meta, cs.patch, cs.bad)
    BY <1>c, <2>1
  <2>3. lists \in [ListKinds -> Seq(Ext \X Responses)]
    BY <1>0, <1>1, <1>c
  <2> QED BY <1>0, <1>1, <1>c, <2>2, <2>3 DEF Changesets, Grown
<1>2. CASE r.kind = "meta"
  <2> DEFINE meta == [cs.meta EXCEPT ![r.path] = r.val]
  <2>1. Add(cs, e, r) = [cs EXCEPT !.meta[r.path] = r.val]
    BY <1>0, <1>2 DEF Add
  <2>2. Add(cs, e, r) = With(cs.lists, meta, cs.patch, cs.bad)
    BY <1>c, <2>1
  <2> QED BY <1>0, <1>2, <1>c, <2>2 DEF Changesets, Grown
<1>3. CASE r.kind = "patch"
  <2> DEFINE patch == [cs.patch EXCEPT ![r.path] = r.val]
  <2>1. Add(cs, e, r) = [cs EXCEPT !.patch[r.path] = r.val]
    BY <1>0, <1>3 DEF Add
  <2>2. Add(cs, e, r) = With(cs.lists, cs.meta, patch, cs.bad)
    BY <1>c, <2>1
  <2> QED BY <1>0, <1>3, <1>c, <2>2 DEF Changesets, Grown
<1>4. CASE r.kind = "badPatch"
  <2>1. Add(cs, e, r) = [cs EXCEPT !.bad = TRUE]
    BY <1>0, <1>4 DEF Add
  <2>2. Add(cs, e, r) = With(cs.lists, cs.meta, cs.patch, TRUE)
    BY <1>c, <2>1
  <2> QED BY <1>0, <1>4, <1>c, <2>2 DEF Changesets, Grown
<1>5. CASE r.kind \notin ListKinds \cup {"meta", "patch", "badPatch"}
  <2>1. Add(cs, e, r) = cs
    BY <1>5 DEF Add
  <2> QED BY <1>0, <1>5, <2>1 DEF Grown
<1> QED BY <1>1, <1>2, <1>3, <1>4, <1>5

-----------------------------------------------------------------------------
(* The inductive invariant. *)

(***************************************************************************)
(* Each goroutine for itself: when it has a result, where the response is  *)
(* that it has come to, and that an extension is noted before it is asked. *)
(***************************************************************************)
GoroutineInv ==
  \A e \in Ext :
    /\ pc[e] \in {"start", "recv"} => result[e] = "none"
    /\ pc[e] \in {"load", "store"} => result[e] = "error"
    /\ pc[e] = "done" => result[e] \in {"ok", "error"}
    /\ pos[e] > 0 \/ pc[e] = "recv" => e \in Selected /\ pc[e] # "start"
    /\ pc[e] = "done" /\ result[e] = "ok" /\ e \in Selected => pos[e] = Len(script[e])

(***************************************************************************)
(* The race on errs: an append may be lost, but only to another one, which *)
(* is there instead.                                                       *)
(***************************************************************************)
ErrorsInv ==
  /\ \A e \in ToSet(errs) : result[e] = "error"
  /\ (\E e \in Ext : pc[e] = "done" /\ result[e] = "error") => errs # <<>>

\* Nobody returns from Sync while a goroutine runs, or with a patch that is not
\* JSON.
OutcomeInv ==
  /\ outcome # "none" => \A e \in Ext : pc[e] = "done"
  /\ outcome # "none" => (outcome = "error" <=> errs # <<>>)
  /\ outcome = "applied" => ~changeset.bad /\ workload = Apply(changeset)

\* The slice of the extensions is that of the goroutines that have begun.
NotedInv ==
  /\ ToSet(extensions) = {e \in Selected : pc[e] # "start"}
  /\ IsInjective(extensions)

\* A patch that is not JSON is in the Changeset, or has been refused.
BadPatchInv ==
  \A e \in Ext : \A i \in 1..pos[e] :
    script[e][i].kind = "badPatch" => changeset.bad \/ result[e] = "error"

SyncInv ==
  /\ GoroutineType /\ SharedType
  /\ GoroutineInv /\ ErrorsInv /\ OutcomeInv /\ NotedInv /\ BadPatchInv
  /\ \A e \in Ext : \A f \in ToSet(loaded[e]) : result[f] = "error"

(***************************************************************************)
(* A sequence with one element more.                                       *)
(***************************************************************************)
LEMMA AppendedSet ==
  ASSUME NEW S, NEW q \in Seq(S), NEW x \in S
  PROVE  /\ Append(q, x) \in Seq(S) /\ Append(q, x) # <<>>
         /\ ToSet(Append(q, x)) = ToSet(q) \cup {x}
         /\ IsInjective(q) /\ x \notin ToSet(q) => IsInjective(Append(q, x))
<1>1. /\ Append(q, x) \in Seq(S) /\ Len(q) \in Nat /\ Len(Append(q, x)) = Len(q) + 1
      /\ DOMAIN q = 1..Len(q) /\ DOMAIN Append(q, x) = 1..(Len(q) + 1)
      /\ Append(q, x)[Len(q) + 1] = x /\ \A i \in 1..Len(q) : Append(q, x)[i] = q[i]
  OBVIOUS
<1>2. Append(q, x) # <<>>
  BY <1>1
<1>3. 1..(Len(q) + 1) = (1..Len(q)) \cup {Len(q) + 1}
  BY <1>1
<1>4. ToSet(Append(q, x)) = ToSet(q) \cup {x}
  BY <1>1, <1>3 DEF ToSet
<1>5. ASSUME IsInjective(q), x \notin ToSet(q) PROVE IsInjective(Append(q, x))
  BY <1>1, <1>3, <1>5 DEF IsInjective, ToSet
<1> QED BY <1>1, <1>2, <1>4, <1>5

LEMMA SyncStart == Init => SyncInv
<1> SUFFICES ASSUME Init PROVE SyncInv
  OBVIOUS
<1> USE DEF Init
<1>1. GoroutineType
  <2>1. \A e \in Ext : Len(script[e]) \in Nat
    BY StreamType
  <2> QED BY <2>1 DEF GoroutineType
<1>2. SharedType
  BY DEF SharedType, Changesets, EmptyChangeset, NoPatch, Vals
<1>3. ToSet(<<>>) = {} /\ IsInjective(<<>>)
  BY DEF ToSet, IsInjective
<1>4. GoroutineInv /\ OutcomeInv
  BY DEF GoroutineInv, OutcomeInv
<1>5. ErrorsInv /\ NotedInv /\ \A e \in Ext : \A f \in ToSet(loaded[e]) : result[f] = "error"
  BY <1>3, ScriptAssumption DEF ErrorsInv, NotedInv
<1>6. BadPatchInv
  BY DEF BadPatchInv
<1> QED BY <1>1, <1>2, <1>4, <1>5, <1>6 DEF SyncInv

-----------------------------------------------------------------------------
(* The steps of a goroutine. *)

\* The three ways in which Recv goes: the stream has ended, the response is an
\* error or refused, or it is added.
RecvEnd(e) ==
  /\ pos[e] = Len(script[e]) /\ pos' = pos /\ changeset' = changeset
  /\ pc' = [pc EXCEPT ![e] = "done"] /\ result' = [result EXCEPT ![e] = "ok"]

RecvError(e) ==
  /\ pos[e] + 1 \in 1..Len(script[e]) /\ pos' = [pos EXCEPT ![e] = pos[e] + 1]
  /\ changeset' = changeset
  /\ script[e][pos[e] + 1].kind \notin ListKinds \cup {"meta"}
  /\ pc' = [pc EXCEPT ![e] = "load"] /\ result' = [result EXCEPT ![e] = "error"]

RecvAdd(e) ==
  /\ pos[e] + 1 \in 1..Len(script[e]) /\ pos' = [pos EXCEPT ![e] = pos[e] + 1]
  /\ script[e][pos[e] + 1] \in Responses
  /\ changeset' = Add(changeset, e, script[e][pos[e] + 1])
  /\ pc' = pc /\ result' = result

LEMMA RecvCases ==
  ASSUME GoroutineType, NEW e \in Ext, Recv(e)
  PROVE  /\ pc[e] = "recv" /\ script' = script /\ loaded' = loaded /\ errs' = errs
         /\ extensions' = extensions /\ outcome' = outcome /\ workload' = workload
         /\ RecvEnd(e) \/ RecvError(e) \/ RecvAdd(e)
<1> DEFINE r == script[e][pos[e] + 1]
<1>0. /\ script[e] \in Scripts /\ Len(script[e]) \in Nat /\ pos[e] \in 0..Len(script[e])
      /\ \A i \in 1..Len(script[e]) : script[e][i] \in Responses
  BY StreamType DEF GoroutineType
<1>1. CASE pos[e] = Len(script[e])
  BY <1>1 DEF Recv, Finish, RecvEnd
<1>2. CASE pos[e] # Len(script[e])
  <2>1. pos[e] + 1 \in 1..Len(script[e]) /\ r \in Responses
    BY <1>0, <1>2
  <2>2. CASE r.kind = "error" \/ Refused(changeset, r)
    <3>1. r.kind \notin ListKinds \cup {"meta"}
      BY <2>2 DEF Refused, ListKinds
    <3>2. Finish(e, "error") /\ UNCHANGED changeset /\ pos' = [pos EXCEPT ![e] = pos[e] + 1]
      BY <1>2, <2>2 DEF Recv
    <3> QED BY <2>1, <3>1, <3>2 DEF Recv, Finish, RecvError
  <2>3. CASE ~(r.kind = "error" \/ Refused(changeset, r))
    BY <1>2, <2>1, <2>3 DEF Recv, RecvAdd
  <2> QED BY <2>2, <2>3
<1> QED BY <1>1, <1>2 DEF Recv

\* The two ways in which Begin goes.
BeginCalled(e) ==
  /\ e \in Selected /\ extensions' = Append(extensions, e)
  /\ pc' = [pc EXCEPT ![e] = "recv"] /\ result' = result

BeginSkipped(e) ==
  /\ e \notin Selected /\ extensions' = extensions
  /\ pc' = [pc EXCEPT ![e] = "done"] /\ result' = [result EXCEPT ![e] = "ok"]

LEMMA BeginCases ==
  ASSUME NEW e \in Ext, Begin(e)
  PROVE  /\ pc[e] = "start" /\ script' = script /\ loaded' = loaded /\ errs' = errs
         /\ pos' = pos /\ changeset' = changeset /\ outcome' = outcome
         /\ workload' = workload
         /\ BeginCalled(e) \/ BeginSkipped(e)
BY DEF Begin, Finish, BeginCalled, BeginSkipped

LEMMA TypeStep ==
  ASSUME GoroutineType, SharedType, [Next]_vars
  PROVE  GoroutineType' /\ SharedType'
<1>1. ASSUME NEW e \in Ext, Begin(e) PROVE GoroutineType' /\ SharedType'
  <2>1. pc' \in [Ext -> {"start", "recv", "load", "store", "done"}]
        /\ result' \in [Ext -> {"none", "ok", "error"}]
    BY <1>1, BeginCases DEF BeginCalled, BeginSkipped, GoroutineType
  <2>2. extensions' \in Seq(Selected)
    BY <1>1, BeginCases DEF BeginCalled, BeginSkipped, SharedType
  <2> QED BY <1>1, <2>1, <2>2, BeginCases DEF GoroutineType, SharedType
<1>2. ASSUME NEW e \in Ext, Recv(e) PROVE GoroutineType' /\ SharedType'
  <2>1. changeset' \in Changesets
    <3>1. CASE RecvAdd(e)
      BY <3>1, AddGrows DEF RecvAdd, SharedType, Grown
    <3>2. CASE changeset' = changeset
      BY <3>2 DEF SharedType
    <3> QED BY <1>2, <3>1, <3>2, RecvCases DEF RecvEnd, RecvError
  <2>2. SharedType'
    BY <1>2, <2>1, RecvCases DEF SharedType
  <2>3. pc' \in [Ext -> {"start", "recv", "load", "store", "done"}]
        /\ result' \in [Ext -> {"none", "ok", "error"}]
    BY <1>2, RecvCases DEF RecvEnd, RecvError, RecvAdd, GoroutineType
  <2>4. pos' \in [Ext -> Nat] /\ \A f \in Ext : pos'[f] \in 0..Len(script[f])
    <3>1. pos' = pos \/ (pos' = [pos EXCEPT ![e] = pos[e] + 1] /\ pos[e] + 1 \in 1..Len(script[e]))
      BY <1>2, RecvCases DEF RecvEnd, RecvError, RecvAdd
    <3>2. Len(script[e]) \in Nat
      BY StreamType DEF GoroutineType
    <3> QED BY <3>1, <3>2 DEF GoroutineType
  <2> QED BY <1>2, <2>2, <2>3, <2>4, RecvCases DEF GoroutineType
<1>3. ASSUME NEW e \in Ext, LoadErrs(e) PROVE GoroutineType' /\ SharedType'
  BY <1>3 DEF LoadErrs, GoroutineType, SharedType
<1>4. ASSUME NEW e \in Ext, StoreErrs(e) PROVE GoroutineType' /\ SharedType'
  BY <1>4 DEF StoreErrs, GoroutineType, SharedType
<1>5. CASE Return \/ ApplyChangeset \/ UNCHANGED vars
  BY <1>5 DEF Return, ApplyChangeset, vars, GoroutineType, SharedType
<1> QED BY <1>1, <1>2, <1>3, <1>4, <1>5 DEF Next, Goroutine

LEMMA GoroutineStep ==
  ASSUME GoroutineType, GoroutineInv, [Next]_vars
  PROVE  GoroutineInv'
<1> USE DEF GoroutineInv, GoroutineType
<1>1. ASSUME NEW e \in Ext, Begin(e) PROVE GoroutineInv'
  <2>1. CASE BeginCalled(e)
    BY <1>1, <2>1, BeginCases DEF BeginCalled
  <2>2. CASE BeginSkipped(e)
    BY <1>1, <2>2, BeginCases DEF BeginSkipped
  <2> QED BY <1>1, <2>1, <2>2, BeginCases
<1>2. ASSUME NEW e \in Ext, Recv(e) PROVE GoroutineInv'
  <2>1. pc[e] = "recv" /\ script' = script /\ result[e] = "none" /\ e \in Selected
    BY <1>2, RecvCases
  <2>2. CASE RecvEnd(e)
    BY <2>1, <2>2 DEF RecvEnd
  <2>3. CASE RecvError(e)
    BY <2>1, <2>3 DEF RecvError
  <2>4. CASE RecvAdd(e)
    BY <2>1, <2>4 DEF RecvAdd
  <2> QED BY <1>2, <2>2, <2>3, <2>4, RecvCases
<1>3. ASSUME NEW e \in Ext, LoadErrs(e) PROVE GoroutineInv'
  BY <1>3 DEF LoadErrs
<1>5. ASSUME NEW e \in Ext, StoreErrs(e) PROVE GoroutineInv'
  BY <1>5 DEF StoreErrs
<1>4. CASE Return \/ ApplyChangeset \/ UNCHANGED vars
  BY <1>4 DEF Return, ApplyChangeset, vars
<1> QED BY <1>1, <1>2, <1>3, <1>4, <1>5 DEF Next, Goroutine

\* What the steps that add no response leave alone.
LEMMA OtherSteps ==
  ASSUME GoroutineType, GoroutineInv, [Next]_vars
  PROVE  \/ \E e \in Ext : Recv(e)
         \/ /\ pos' = pos /\ script' = script /\ changeset' = changeset
            /\ \A e \in Ext : result'[e] = "error" <=> result[e] = "error"
<1>1. ASSUME NEW e \in Ext, Begin(e)
      PROVE  /\ pos' = pos /\ script' = script /\ changeset' = changeset
             /\ \A f \in Ext : result'[f] = "error" <=> result[f] = "error"
  <2>1. CASE BeginCalled(e)
    BY <1>1, <2>1, BeginCases DEF BeginCalled
  <2>2. CASE BeginSkipped(e)
    <3>1. result[e] = "none"
      BY <1>1, BeginCases DEF GoroutineInv
    <3> QED BY <1>1, <2>2, <3>1, BeginCases DEF BeginSkipped, GoroutineType
  <2> QED BY <1>1, <2>1, <2>2, BeginCases
<1>2. ASSUME NEW e \in Ext, LoadErrs(e) \/ StoreErrs(e)
      PROVE  UNCHANGED <<pos, script, changeset, result>>
  BY <1>2 DEF LoadErrs, StoreErrs
<1>3. CASE Return \/ ApplyChangeset \/ UNCHANGED vars
  BY <1>3 DEF Return, ApplyChangeset, vars
<1> QED BY <1>1, <1>2, <1>3 DEF Next, Goroutine

LEMMA ErrorsStep ==
  ASSUME SyncInv, [Next]_vars
  PROVE  ErrorsInv' /\ \A e \in Ext : \A f \in ToSet(loaded'[e]) : result'[f] = "error"
<1> DEFINE Goal ==
             ErrorsInv' /\ \A e \in Ext : \A f \in ToSet(loaded'[e]) : result'[f] = "error"
<1> USE DEF SyncInv
<1>0. ToSet(errs) \subseteq Ext /\ \A e \in Ext : ToSet(loaded[e]) \subseteq Ext
  BY DEF ToSet, SharedType, GoroutineType
<1>k. ASSUME errs' = errs, \A e \in Ext : result[e] = "error" => result'[e] = "error",
             \A e \in Ext : loaded'[e] = loaded[e] \/ loaded'[e] = errs,
             \A e \in Ext : pc'[e] = "done" /\ result'[e] = "error" =>
                              pc[e] = "done" /\ result[e] = "error"
      PROVE  Goal
  BY <1>0, <1>k DEF ErrorsInv
<1>1. ASSUME NEW e \in Ext, Begin(e) PROVE Goal
  <2>1. /\ errs' = errs /\ loaded' = loaded /\ result[e] = "none"
        /\ pc \in [Ext -> {"start", "recv", "load", "store", "done"}]
        /\ result \in [Ext -> {"none", "ok", "error"}]
    BY <1>1, BeginCases DEF GoroutineInv, GoroutineType
  <2>2. CASE BeginCalled(e)
    BY <1>k, <2>1, <2>2 DEF BeginCalled
  <2>3. CASE BeginSkipped(e)
    BY <1>k, <2>1, <2>3 DEF BeginSkipped
  <2> QED BY <1>1, <2>2, <2>3, BeginCases
<1>2. ASSUME NEW e \in Ext, Recv(e) PROVE Goal
  <2>1. /\ errs' = errs /\ loaded' = loaded /\ result[e] = "none"
        /\ pc \in [Ext -> {"start", "recv", "load", "store", "done"}]
        /\ result \in [Ext -> {"none", "ok", "error"}]
    BY <1>2, RecvCases DEF GoroutineInv, GoroutineType
  <2>2. CASE RecvEnd(e)
    BY <1>k, <2>1, <2>2 DEF RecvEnd
  <2>3. CASE RecvError(e)
    BY <1>k, <2>1, <2>3 DEF RecvError
  <2>4. CASE RecvAdd(e)
    BY <1>k, <2>1, <2>4 DEF RecvAdd
  <2> QED BY <1>2, <2>2, <2>3, <2>4, RecvCases
<1>3. ASSUME NEW e \in Ext, LoadErrs(e) PROVE Goal
  BY <1>3, <1>k DEF LoadErrs, GoroutineType
<1>4. ASSUME NEW e \in Ext, StoreErrs(e) PROVE Goal
  <2>0. loaded[e] \in Seq(Ext) /\ errs' = Append(loaded[e], e)
    BY <1>4 DEF StoreErrs, GoroutineType
  <2>1. errs' # <<>> /\ ToSet(errs') = ToSet(loaded[e]) \cup {e}
    BY <2>0, AppendedSet
  <2>2. result[e] = "error" /\ result' = result /\ loaded' = loaded
    BY <1>4 DEF StoreErrs, GoroutineInv
  <2> QED BY <2>1, <2>2 DEF ErrorsInv
<1>5. CASE Return \/ ApplyChangeset \/ UNCHANGED vars
  BY <1>5, <1>k DEF Return, ApplyChangeset, vars
<1> QED BY <1>1, <1>2, <1>3, <1>4, <1>5 DEF Next, Goroutine

LEMMA OutcomeStep ==
  ASSUME SyncInv, [Next]_vars
  PROVE  OutcomeInv'
<1> USE DEF SyncInv
<1>1. ASSUME NEW e \in Ext, Goroutine(e) PROVE OutcomeInv'
  <2>1. pc[e] # "done" /\ outcome' = outcome
    BY <1>1, BeginCases, RecvCases DEF Goroutine, LoadErrs, StoreErrs
  <2> QED BY <2>1 DEF OutcomeInv
<1>2. CASE Return
  <2>1. (Len(errs) > 0) <=> (errs # <<>>)
    BY EmptySeq DEF SharedType
  <2> QED BY <1>2, <2>1 DEF Return, OutcomeInv
<1>3. CASE ApplyChangeset \/ UNCHANGED vars
  BY <1>3 DEF ApplyChangeset, vars, OutcomeInv
<1> QED BY <1>1, <1>2, <1>3 DEF Next

LEMMA NotedStep ==
  ASSUME SyncInv, [Next]_vars
  PROVE  NotedInv'
<1> USE DEF SyncInv
<1>k. ASSUME extensions' = extensions,
             \A e \in Selected : pc'[e] = "start" <=> pc[e] = "start"
      PROVE  NotedInv'
  BY <1>k DEF NotedInv
<1>1. ASSUME NEW e \in Ext, Begin(e) PROVE NotedInv'
  <2>1. CASE BeginCalled(e)
    <3>1. e \notin ToSet(extensions)
      BY <1>1, BeginCases DEF NotedInv
    <3>2. ToSet(extensions') = ToSet(extensions) \cup {e} /\ IsInjective(extensions')
      BY <2>1, <3>1, AppendedSet DEF BeginCalled, SharedType, NotedInv
    <3> QED BY <2>1, <3>2, ScriptAssumption DEF BeginCalled, NotedInv, GoroutineType
  <2>2. CASE BeginSkipped(e)
    BY <1>k, <2>2, ScriptAssumption DEF BeginSkipped, GoroutineType
  <2> QED BY <1>1, <2>1, <2>2, BeginCases
<1>2. ASSUME NEW e \in Ext, Recv(e) PROVE NotedInv'
  BY <1>2, <1>k, RecvCases, ScriptAssumption DEF RecvEnd, RecvError, RecvAdd, GoroutineType
<1>3. ASSUME NEW e \in Ext, LoadErrs(e) \/ StoreErrs(e) PROVE NotedInv'
  BY <1>3, <1>k, ScriptAssumption DEF LoadErrs, StoreErrs, GoroutineType
<1>4. CASE Return \/ ApplyChangeset \/ UNCHANGED vars
  BY <1>4, <1>k DEF Return, ApplyChangeset, vars
<1> QED BY <1>1, <1>2, <1>3, <1>4 DEF Next, Goroutine

LEMMA BadPatchStep ==
  ASSUME SyncInv, [Next]_vars
  PROVE  BadPatchInv'
<1> USE DEF SyncInv
<1>1. ASSUME NEW e \in Ext, Recv(e) PROVE BadPatchInv'
  <2>0. /\ script' = script /\ pos \in [Ext -> Nat] /\ result \in [Ext -> {"none", "ok", "error"}]
        /\ result[e] = "none"
        /\ RecvEnd(e) \/ RecvError(e) \/ RecvAdd(e)
    BY <1>1, RecvCases DEF GoroutineType, GoroutineInv
  <2>1. CASE RecvEnd(e)
    BY <2>0, <2>1 DEF RecvEnd, BadPatchInv
  <2>2. CASE RecvError(e)
    BY <2>0, <2>2 DEF RecvError, BadPatchInv
  <2>3. CASE RecvAdd(e)
    <3> DEFINE r == script[e][pos[e] + 1]
    <3>1. changeset.bad \/ r.kind = "badPatch" => changeset'.bad
      BY <2>3, AddGrows DEF RecvAdd, SharedType, Grown
    <3>2. \A f \in Ext : result'[f] = result[f] /\ (f # e => pos'[f] = pos[f])
      BY <2>0, <2>3 DEF RecvAdd
    <3>3. pos'[e] = pos[e] + 1 /\ \A i \in 1..pos'[e] : i \in 1..pos[e] \/ i = pos[e] + 1
      BY <2>0, <2>3 DEF RecvAdd
    <3> QED BY <2>0, <3>1, <3>2, <3>3 DEF BadPatchInv
  <2> QED BY <2>0, <2>1, <2>2, <2>3
<1>2. CASE /\ pos' = pos /\ script' = script /\ changeset' = changeset
           /\ \A e \in Ext : result'[e] = "error" <=> result[e] = "error"
  BY <1>2 DEF BadPatchInv
<1> QED BY <1>1, <1>2, OtherSteps

-----------------------------------------------------------------------------
(* What is in the Changeset. *)

\* The first m responses of s have their entries of the kind k in the list, in
\* the order of s, and nothing else in the list is of e.
SentIn(s, m, k) == {i \in 1..m : s[i].kind = k}
KeptIn(list, e) == {n \in 1..Len(list) : list[n][1] = e}

Placed(at, s, sent, list, kept) ==
  /\ \A i, j \in sent : i < j => at[i] < at[j]
  /\ \A n \in kept : \E i \in sent : at[i] = n
  /\ \A i \in sent : list[at[i]][2] = s[i]

InOrder(s, m, k, list, e) ==
  \E at \in [SentIn(s, m, k) -> KeptIn(list, e)] :
    Placed(at, s, SentIn(s, m, k), list, KeptIn(list, e))

EntriesInv ==
  \A e \in Ext, k \in ListKinds : InOrder(script[e], pos[e], k, changeset.lists[k], e)

LEMMA EntryOfOther ==
  ASSUME NEW s, NEW m, NEW k, NEW list \in Seq(Ext \X Responses), NEW e, NEW f \in Ext \ {e},
         NEW r \in Responses, e \in Ext, InOrder(s, m, k, list, f)
  PROVE  InOrder(s, m, k, Append(list, <<e, r>>), f)
<1> DEFINE new == Append(list, <<e, r>>)
<1>1. /\ Len(list) \in Nat /\ Len(new) = Len(list) + 1 /\ new[Len(list) + 1] = <<e, r>>
      /\ \A n \in 1..Len(list) : new[n] = list[n]
  OBVIOUS
<1>2. KeptIn(new, f) = KeptIn(list, f)
  BY <1>1 DEF KeptIn
<1>3. \A n \in KeptIn(list, f) : new[n] = list[n]
  BY <1>1 DEF KeptIn
<1>4. PICK at \in [SentIn(s, m, k) -> KeptIn(list, f)] :
        Placed(at, s, SentIn(s, m, k), list, KeptIn(list, f))
  BY DEF InOrder
<1> HIDE DEF new
<1>5. Placed(at, s, SentIn(s, m, k), new, KeptIn(new, f))
  BY <1>2, <1>3, <1>4 DEF Placed
<1> QED BY <1>2, <1>4, <1>5 DEF InOrder, new

LEMMA EntryOfOtherKind ==
  ASSUME NEW s, NEW m \in Nat, NEW k, NEW list, NEW e,
         s[m + 1].kind # k, InOrder(s, m, k, list, e)
  PROVE  InOrder(s, m + 1, k, list, e)
<1>1. SentIn(s, m + 1, k) = SentIn(s, m, k)
  BY DEF SentIn
<1> QED BY <1>1 DEF InOrder

LEMMA EntryAdded ==
  ASSUME NEW s, NEW m \in Nat, NEW k, NEW list \in Seq(Ext \X Responses), NEW e \in Ext,
         s[m + 1] \in Responses, s[m + 1].kind = k, InOrder(s, m, k, list, e)
  PROVE  InOrder(s, m + 1, k, Append(list, <<e, s[m + 1]>>), e)
<1> DEFINE new  == Append(list, <<e, s[m + 1]>>)
           last == Len(list) + 1
           sent == SentIn(s, m, k)
           kept == KeptIn(list, e)
<1>1. /\ Len(list) \in Nat /\ Len(new) = last /\ new[last] = <<e, s[m + 1]>>
      /\ \A n \in 1..Len(list) : new[n] = list[n]
  OBVIOUS
<1>2. /\ SentIn(s, m + 1, k) = sent \cup {m + 1}
      /\ \A i \in sent : i \in Nat /\ i < m + 1
  BY DEF SentIn
<1>3. /\ KeptIn(new, e) = kept \cup {last}
      /\ \A n \in kept : n \in Nat /\ n < last /\ new[n] = list[n]
  <2> HIDE DEF new
  <2>1. \A n \in 1..last : n \in 1..Len(list) \/ n = last
    BY <1>1
  <2> QED BY <1>1, <2>1 DEF KeptIn
<1>4. PICK at \in [sent -> kept] : Placed(at, s, sent, list, kept)
  BY DEF InOrder
<1> DEFINE to == [i \in sent \cup {m + 1} |-> IF i = m + 1 THEN last ELSE at[i]]
<1> HIDE DEF new, last, sent, kept
<1>5. to \in [sent \cup {m + 1} -> kept \cup {last}]
  BY <1>2, <1>4
<1>6. to[m + 1] = last /\ \A i \in sent : to[i] = at[i] /\ at[i] \in kept
  BY <1>2, <1>4
<1> HIDE DEF to
<1>7. \A i, j \in sent \cup {m + 1} : i < j => to[i] < to[j]
  BY <1>2, <1>3, <1>4, <1>6 DEF Placed
<1>8. \A n \in kept \cup {last} : \E i \in sent \cup {m + 1} : to[i] = n
  BY <1>4, <1>6 DEF Placed
<1>9. \A i \in sent \cup {m + 1} : new[to[i]][2] = s[i]
  BY <1>1, <1>3, <1>4, <1>6 DEF Placed
<1>10. Placed(to, s, sent \cup {m + 1}, new, kept \cup {last})
  BY <1>7, <1>8, <1>9 DEF Placed
<1> QED BY <1>2, <1>3, <1>5, <1>10 DEF InOrder, new, sent, kept

LEMMA EntriesStep ==
  ASSUME SyncInv, EntriesInv, [Next]_vars
  PROVE  EntriesInv'
<1> USE DEF SyncInv
<1>1. ASSUME NEW e \in Ext, Recv(e) PROVE EntriesInv'
  <2> DEFINE r == script[e][pos[e] + 1]
  <2>0. /\ script' = script /\ pos \in [Ext -> Nat]
        /\ RecvEnd(e) \/ RecvError(e) \/ RecvAdd(e)
    BY <1>1, RecvCases DEF GoroutineType
  <2>1. \A k \in ListKinds : changeset.lists[k] \in Seq(Ext \X Responses)
    BY DEF SharedType, Changesets
  <2> SUFFICES ASSUME NEW f \in Ext, NEW k \in ListKinds
               PROVE  InOrder(script[f], pos'[f], k, changeset'.lists[k], f)
    BY <2>0 DEF EntriesInv
  <2>2. InOrder(script[f], pos[f], k, changeset.lists[k], f)
    BY DEF EntriesInv
  <2>3. CASE RecvEnd(e)
    BY <2>2, <2>3 DEF RecvEnd
  <2>4. CASE RecvError(e)
    <3>1. CASE f = e
      BY <2>0, <2>2, <2>4, <3>1, EntryOfOtherKind DEF RecvError
    <3>2. CASE f # e
      BY <2>0, <2>2, <2>4, <3>2 DEF RecvError
    <3> QED BY <3>1, <3>2
  <2>5. CASE RecvAdd(e)
    <3>1. /\ r \in Responses
          /\ changeset'.lists[k] = IF r.kind = k THEN Append(changeset.lists[k], <<e, r>>)
                                                ELSE changeset.lists[k]
      BY <2>5, AddGrows DEF RecvAdd, SharedType, Grown
    <3>2. pos'[e] = pos[e] + 1 /\ (f # e => pos'[f] = pos[f])
      BY <2>0, <2>5 DEF RecvAdd
    <3>3. CASE f = e /\ r.kind = k
      BY <2>0, <2>1, <2>2, <3>1, <3>2, <3>3, EntryAdded
    <3>4. CASE f = e /\ r.kind # k
      BY <2>0, <2>2, <3>1, <3>2, <3>4, EntryOfOtherKind
    <3>5. CASE f # e /\ r.kind = k
      BY <2>1, <2>2, <3>1, <3>2, <3>5, EntryOfOther
    <3>6. CASE f # e /\ r.kind # k
      BY <2>2, <3>1, <3>2, <3>6
    <3> QED BY <3>3, <3>4, <3>5, <3>6
  <2> QED BY <2>0, <2>3, <2>4, <2>5
<1>2. CASE pos' = pos /\ script' = script /\ changeset' = changeset
  BY <1>2 DEF EntriesInv
<1> QED BY <1>1, <1>2, OtherSteps

\* The last of the first m responses of s that speak about the path p, and what
\* the extensions have said last so far.
Says(r, kind, p) == r.kind = kind /\ r.path = p

LastIn(s, m, kind, p) ==
  {i \in 1..m : Says(s[i], kind, p) /\ \A j \in 1..m : j > i => ~Says(s[j], kind, p)}

WordsSoFar(kind, p) ==
  UNION {{script[e][i].val : i \in LastIn(script[e], pos[e], kind, p)} : e \in Ext}

Held(v, words) == IF v = None THEN words = {} ELSE v \in words

WordsInv ==
  (\A e \in Ext : result[e] # "error") =>
    \A p \in Paths : /\ Held(changeset.meta[p], WordsSoFar("meta", p))
                     /\ Held(changeset.patch[p], WordsSoFar("patch", p))

LEMMA AddSets ==
  ASSUME NEW cs \in Changesets, NEW e \in Ext, NEW r \in Responses, NEW p \in Paths
  PROVE  /\ Add(cs, e, r).meta[p] = IF Says(r, "meta", p) THEN r.val ELSE cs.meta[p]
         /\ Add(cs, e, r).patch[p] = IF Says(r, "patch", p) THEN r.val ELSE cs.patch[p]
<1>1. Grown(cs, e, r, Add(cs, e, r))
  BY AddGrows
<1> QED BY <1>1 DEF Grown, Says

LEMMA LastWord ==
  ASSUME NEW s, NEW m \in Nat, NEW kind, NEW p
  PROVE  LastIn(s, m + 1, kind, p) =
           IF Says(s[m + 1], kind, p) THEN {m + 1} ELSE LastIn(s, m, kind, p)
<1>1. /\ \A i \in 1..(m + 1) : i \in 1..m \/ i = m + 1
      /\ \A i \in 1..m : i \in 1..(m + 1) /\ m + 1 > i
      /\ m + 1 \in 1..(m + 1) /\ \A j \in 1..(m + 1) : ~(j > m + 1)
  OBVIOUS
<1>2. CASE Says(s[m + 1], kind, p)
  BY <1>1, <1>2 DEF LastIn
<1>3. CASE ~Says(s[m + 1], kind, p)
  BY <1>1, <1>3 DEF LastIn
<1> QED BY <1>2, <1>3

LEMMA WordsAdded ==
  ASSUME NEW e \in Ext, NEW kind, NEW p, NEW v, NEW new,
         pos \in [Ext -> Nat], script' = script, pos' = [pos EXCEPT ![e] = pos[e] + 1],
         Held(v, WordsSoFar(kind, p)),
         Says(script[e][pos[e] + 1], kind, p) => script[e][pos[e] + 1].val # None,
         new = IF Says(script[e][pos[e] + 1], kind, p) THEN script[e][pos[e] + 1].val ELSE v
  PROVE  Held(new, WordsSoFar(kind, p)')
<1> DEFINE r == script[e][pos[e] + 1]
           Words(f) == {script[f][i].val : i \in LastIn(script[f], pos[f], kind, p)}
           After(f) == {script[f][i].val : i \in LastIn(script[f], pos'[f], kind, p)}
<1>1. /\ \A f \in Ext \ {e} : After(f) = Words(f)
      /\ After(e) = IF Says(r, kind, p) THEN {r.val} ELSE Words(e)
  <2>1. /\ pos[e] \in Nat /\ pos'[e] = pos[e] + 1
        /\ \A f \in Ext \ {e} : pos'[f] = pos[f]
    OBVIOUS
  <2>2. LastIn(script[e], pos'[e], kind, p) =
          IF Says(r, kind, p) THEN {pos[e] + 1} ELSE LastIn(script[e], pos[e], kind, p)
    <3> DEFINE s == script[e]
               m == pos[e]
    <3>1. m \in Nat
      BY <2>1
    <3> HIDE DEF s, m
    <3>2. LastIn(s, m + 1, kind, p) =
            IF Says(s[m + 1], kind, p) THEN {m + 1} ELSE LastIn(s, m, kind, p)
      BY <3>1, LastWord
    <3> QED BY <2>1, <3>2 DEF s, m
  <2>3. CASE Says(r, kind, p)
    <3>1. LastIn(script[e], pos'[e], kind, p) = {pos[e] + 1}
      BY <2>2, <2>3
    <3>2. After(e) = {r.val}
      BY <3>1
    <3> QED BY <2>1, <2>3, <3>2
  <2>4. CASE ~Says(r, kind, p)
    BY <2>1, <2>2, <2>4
  <2> QED BY <2>3, <2>4
<1>2. /\ WordsSoFar(kind, p) = UNION {Words(f) : f \in Ext}
      /\ WordsSoFar(kind, p)' = UNION {After(f) : f \in Ext}
  BY DEF WordsSoFar
<1> HIDE DEF Words, After
<1>3. CASE Says(r, kind, p)
  <2>1. r.val \in UNION {After(f) : f \in Ext}
    BY <1>1, <1>3
  <2> QED BY <1>2, <1>3, <2>1 DEF Held
<1>4. CASE ~Says(r, kind, p)
  <2>1. \A f \in Ext : After(f) = Words(f)
    BY <1>1, <1>4
  <2> QED BY <1>2, <1>4, <2>1 DEF Held
<1> QED BY <1>3, <1>4

LEMMA WordsStep ==
  ASSUME SyncInv, WordsInv, [Next]_vars
  PROVE  WordsInv'
<1> USE DEF SyncInv
<1>1. ASSUME NEW e \in Ext, Recv(e), \A f \in Ext : result'[f] # "error"
      PROVE  \A p \in Paths : /\ Held(changeset'.meta[p], WordsSoFar("meta", p)')
                              /\ Held(changeset'.patch[p], WordsSoFar("patch", p)')
  <2> DEFINE r == script[e][pos[e] + 1]
  <2>0. /\ script' = script /\ pos \in [Ext -> Nat] /\ result[e] = "none"
        /\ result \in [Ext -> {"none", "ok", "error"}]
    BY <1>1, RecvCases DEF GoroutineType, GoroutineInv
  <2>1. RecvEnd(e) \/ RecvAdd(e)
    BY <1>1, <2>0, RecvCases DEF RecvError
  <2>2. \A f \in Ext : result[f] # "error"
    BY <1>1, <2>0, <2>1 DEF RecvEnd, RecvAdd
  <2> SUFFICES ASSUME NEW p \in Paths
               PROVE  /\ Held(changeset'.meta[p], WordsSoFar("meta", p)')
                      /\ Held(changeset'.patch[p], WordsSoFar("patch", p)')
    OBVIOUS
  <2>3. /\ Held(changeset.meta[p], WordsSoFar("meta", p))
        /\ Held(changeset.patch[p], WordsSoFar("patch", p))
    BY <2>2 DEF WordsInv
  <2>4. CASE RecvEnd(e)
    BY <2>0, <2>3, <2>4 DEF RecvEnd, WordsSoFar
  <2>5. CASE RecvAdd(e)
    <3>1. /\ r \in Responses
          /\ changeset'.meta[p] = IF Says(r, "meta", p) THEN r.val ELSE changeset.meta[p]
          /\ changeset'.patch[p] = IF Says(r, "patch", p) THEN r.val ELSE changeset.patch[p]
      BY <2>5, AddSets DEF RecvAdd, SharedType
    <3>2. \A kind \in {"meta", "patch"} : Says(r, kind, p) => r.val # None
      BY <3>1, ResponseType DEF Says
    <3>3. pos' = [pos EXCEPT ![e] = pos[e] + 1]
      BY <2>5 DEF RecvAdd
    <3>4. Held(changeset'.meta[p], WordsSoFar("meta", p)')
      BY <2>0, <2>3, <3>1, <3>2, <3>3, WordsAdded
    <3>5. Held(changeset'.patch[p], WordsSoFar("patch", p)')
      BY <2>0, <2>3, <3>1, <3>2, <3>3, WordsAdded
    <3> QED BY <3>4, <3>5
  <2> QED BY <2>1, <2>4, <2>5
<1>2. CASE /\ pos' = pos /\ script' = script /\ changeset' = changeset
           /\ \A e \in Ext : result'[e] = "error" <=> result[e] = "error"
  <2>1. /\ \A p : WordsSoFar("meta", p)' = WordsSoFar("meta", p)
        /\ \A p : WordsSoFar("patch", p)' = WordsSoFar("patch", p)
    BY <1>2 DEF WordsSoFar
  <2> QED BY <1>2, <2>1 DEF WordsInv
<1>3. CASE \E e \in Ext : Recv(e)
  BY <1>1, <1>3 DEF WordsInv
<1> QED BY <1>2, <1>3, OtherSteps

-----------------------------------------------------------------------------
(* The theorems. *)

(***************************************************************************)
(* The inductive invariant of a call of Sync.                              *)
(***************************************************************************)
THEOREM SyncInvariant == Spec => [](SyncInv /\ EntriesInv /\ WordsInv)
<1>1. Init => EntriesInv /\ WordsInv
  <2> SUFFICES ASSUME Init PROVE EntriesInv /\ WordsInv
    OBVIOUS
  <2>1. \A e \in Ext : pos[e] = 0
    BY DEF Init
  <2>2. EntriesInv
    <3> SUFFICES ASSUME NEW e \in Ext, NEW k \in ListKinds
                 PROVE  InOrder(script[e], pos[e], k, changeset.lists[k], e)
      BY DEF EntriesInv
    <3>1. changeset.lists[k] = <<>>
      BY DEF Init, EmptyChangeset
    <3>2. SentIn(script[e], pos[e], k) = {} /\ KeptIn(<<>>, e) = {}
      BY <2>1 DEF SentIn, KeptIn
    <3>3. \A at \in [{} -> {}] : Placed(at, script[e], {}, <<>>, {})
      BY DEF Placed
    <3>4. [i \in {} |-> i] \in [{} -> {}]
      OBVIOUS
    <3> QED BY <3>1, <3>2, <3>3, <3>4 DEF InOrder
  <2>3. WordsInv
    <3>1. \A kind, p : WordsSoFar(kind, p) = {}
      BY <2>1 DEF WordsSoFar, LastIn
    <3>2. \A p \in Paths : changeset.meta[p] = None /\ changeset.patch[p] = None
      BY DEF Init, EmptyChangeset, NoPatch
    <3> QED BY <3>1, <3>2 DEF WordsInv, Held
  <2> QED BY <2>2, <2>3
<1>2. SyncInv /\ [Next]_vars => SyncInv'
  <2> SUFFICES ASSUME SyncInv, [Next]_vars PROVE SyncInv'
    OBVIOUS
  <2>1. GoroutineType' /\ SharedType' /\ GoroutineInv'
    BY TypeStep, GoroutineStep DEF SyncInv
  <2>2. ErrorsInv' /\ \A e \in Ext : \A f \in ToSet(loaded'[e]) : result'[f] = "error"
    BY ErrorsStep
  <2>3. OutcomeInv' /\ NotedInv' /\ BadPatchInv'
    BY OutcomeStep, NotedStep, BadPatchStep
  <2> QED BY <2>1, <2>2, <2>3 DEF SyncInv
<1> QED BY <1>1, <1>2, SyncStart, EntriesStep, WordsStep, PTL DEF Spec

(***************************************************************************)
(* Once Sync has returned without an error: every stream has been read to  *)
(* its end, and no extension has failed.                                   *)
(***************************************************************************)
LEMMA Succeeded ==
  ASSUME SyncInv, outcome \in {"ok", "applied"}
  PROVE  \A e \in Ext : /\ pc[e] = "done" /\ result[e] = "ok"
                        /\ e \in Selected => pos[e] = Len(script[e])
                        /\ e \notin Selected => pos[e] = 0
<1> USE DEF SyncInv
<1>1. \A e \in Ext : pc[e] = "done" /\ pos[e] \in Nat
  BY DEF OutcomeInv, GoroutineType
<1>2. \A e \in Ext : result[e] = "ok"
  BY <1>1 DEF OutcomeInv, ErrorsInv, GoroutineInv
<1> QED BY <1>1, <1>2 DEF GoroutineInv

(***************************************************************************)
(* The race on errs never turns a failure into a success.                  *)
(***************************************************************************)
THEOREM FailureIsReported == Spec => []ErrorIffFailed
<1>1. SyncInv => ErrorIffFailed
  <2> SUFFICES ASSUME SyncInv, Returned
               PROVE  outcome = "error" <=> \E e \in Ext : result[e] = "error"
    BY DEF ErrorIffFailed
  <2>1. (outcome = "error" <=> errs # <<>>) /\ \A e \in Ext : pc[e] = "done"
    BY DEF SyncInv, OutcomeInv, Returned
  <2>2. errs # <<>> => \E e \in Ext : result[e] = "error"
    <3> SUFFICES ASSUME errs # <<>> PROVE \E e \in Ext : result[e] = "error"
      OBVIOUS
    <3>1. errs[1] \in ToSet(errs) /\ errs[1] \in Ext
      BY EmptySeq DEF SyncInv, SharedType, ToSet
    <3> QED BY <3>1 DEF SyncInv, ErrorsInv
  <2> QED BY <2>1, <2>2 DEF SyncInv, ErrorsInv
<1> QED BY <1>1, SyncInvariant, PTL

(***************************************************************************)
(* Result.Extensions has everybody who was asked anything, and once Sync   *)
(* succeeds the selected extensions.                                       *)
(***************************************************************************)
THEOREM ExtensionsNoted == Spec => []ExtensionsComplete
<1>1. SyncInv => ExtensionsComplete
  <2> SUFFICES ASSUME SyncInv PROVE ExtensionsComplete
    OBVIOUS
  <2>1. \A e \in Ext : pos[e] > 0 => e \in ToSet(extensions)
    BY DEF SyncInv, GoroutineInv, NotedInv
  <2>2. outcome \in {"ok", "applied"} => ToSet(extensions) = Selected
    BY Succeeded, ScriptAssumption DEF SyncInv, NotedInv
  <2> QED BY <2>1, <2>2 DEF ExtensionsComplete
<1> QED BY <1>1, SyncInvariant, PTL

(***************************************************************************)
(* A merge patch that is not JSON never reaches the Deployment.            *)
(***************************************************************************)
THEOREM BadPatchStops == Spec => []BadPatchIsCaught
<1>1. SyncInv => BadPatchIsCaught
  <2> SUFFICES ASSUME SyncInv, outcome = "applied", NEW e \in Selected, NEW i \in DOMAIN script[e]
               PROVE  script[e][i].kind # "badPatch"
    BY DEF BadPatchIsCaught
  <2>1. e \in Ext /\ result[e] = "ok" /\ pos[e] = Len(script[e]) /\ ~changeset.bad
    BY Succeeded, ScriptAssumption DEF SyncInv, OutcomeInv
  <2>2. i \in 1..pos[e]
    BY <2>1, StreamType DEF SyncInv, GoroutineType
  <2> QED BY <2>1, <2>2 DEF SyncInv, BadPatchInv
<1> QED BY <1>1, SyncInvariant, PTL

(***************************************************************************)
(* However the goroutines interleave, the lists of the Changeset have the  *)
(* entries of each extension, all of them, once, and in their order.       *)
(***************************************************************************)
THEOREM EntriesArrive == Spec => []NoResponseLost
<1>1. SyncInv /\ EntriesInv => NoResponseLost
  <2> SUFFICES ASSUME SyncInv, EntriesInv, outcome = "ok",
                      NEW e \in Selected, NEW k \in ListKinds
               PROVE  LET list == changeset.lists[k]
                          sent == {i \in DOMAIN script[e] : script[e][i].kind = k}
                          kept == {n \in DOMAIN list : list[n][1] = e}
                      IN  \E at \in [sent -> kept] : Placed(at, script[e], sent, list, kept)
    BY DEF NoResponseLost, Placed
  <2>1. e \in Ext /\ pos[e] = Len(script[e])
    BY Succeeded, ScriptAssumption
  <2>2. DOMAIN script[e] = 1..pos[e]
    BY <2>1, StreamType DEF SyncInv, GoroutineType
  <2>3. DOMAIN changeset.lists[k] = 1..Len(changeset.lists[k])
    BY DEF SyncInv, SharedType, Changesets
  <2>4. InOrder(script[e], pos[e], k, changeset.lists[k], e)
    BY <2>1 DEF EntriesInv
  <2> QED BY <2>2, <2>3, <2>4 DEF InOrder, SentIn, KeptIn
<1> QED BY <1>1, SyncInvariant, PTL

(***************************************************************************)
(* A label, an annotation or a patched field of the Deployment is the last *)
(* word on it of one of the extensions, the merge patches going first.     *)
(***************************************************************************)
THEOREM LastWordStands == Spec => []LastWordWins
<1>1. SyncInv /\ WordsInv => LastWordWins
  <2> SUFFICES ASSUME SyncInv, WordsInv, outcome = "applied", NEW p \in Paths
               PROVE  \/ workload.at[p] \in LastWords("patch", p) \ {Null}
                      \/ /\ LastWords("patch", p) = {} \/ Null \in LastWords("patch", p)
                         /\ IF LastWords("meta", p) = {} THEN workload.at[p] = None
                            ELSE workload.at[p] \in LastWords("meta", p)
    BY DEF LastWordWins
  <2>1. \A e \in Ext : /\ result[e] = "ok"
                       /\ e \in Selected => pos[e] = Len(script[e])
                       /\ e \notin Selected => pos[e] = 0
    BY Succeeded
  <2>2. \A kind : WordsSoFar(kind, p) = LastWords(kind, p)
    <3> SUFFICES ASSUME NEW kind PROVE WordsSoFar(kind, p) = LastWords(kind, p)
      OBVIOUS
    <3> DEFINE Words(e) == {script[e][i].val : i \in LastIn(script[e], pos[e], kind, p)}
               Ends(e)  == {script[e][i].val : i \in {i \in DOMAIN script[e] :
                              /\ Speaks(e, i, kind, p)
                              /\ \A j \in DOMAIN script[e] : j > i => ~Speaks(e, j, kind, p)}}
    <3>1. \A e \in Ext \ Selected : Words(e) = {}
      BY <2>1 DEF LastIn
    <3>2. ASSUME NEW e \in Selected PROVE Words(e) = Ends(e)
      <4>1. DOMAIN script[e] = 1..pos[e]
        BY <2>1, StreamType, ScriptAssumption DEF SyncInv, GoroutineType
      <4> QED BY <4>1 DEF LastIn, Says, Speaks
    <3>3. /\ WordsSoFar(kind, p) = UNION {Words(e) : e \in Ext}
          /\ LastWords(kind, p) = UNION {Ends(e) : e \in Selected}
      BY DEF WordsSoFar, LastWords
    <3> HIDE DEF Words, Ends
    <3> QED BY <3>1, <3>2, <3>3, ScriptAssumption
  <2>3. /\ Held(changeset.meta[p], LastWords("meta", p))
        /\ Held(changeset.patch[p], LastWords("patch", p))
    BY <2>1, <2>2 DEF WordsInv
  <2>4. workload.at[p] = IF changeset.patch[p] \in {None, Null} THEN changeset.meta[p]
                                                             ELSE changeset.patch[p]
    BY DEF SyncInv, OutcomeInv, Apply, Rendered
  <2> QED BY <2>3, <2>4 DEF Held
<1> QED BY <1>1, SyncInvariant, PTL

-----------------------------------------------------------------------------
(* The refinement. *)

RunningNow == {e \in Ext : pc[e] # "done"}
FailedNow  == {e \in Ext : pc[e] = "done" /\ result[e] = "error"}

LEMMA AbstractStart == Init => Abstract!Init
BY DEF Init, Abstract!Init

(***************************************************************************)
(* A goroutine finishes in FanOut when wg.Done is called: for one that has *)
(* failed, with the store to errs; everything before that is a stutter.    *)
(***************************************************************************)
LEMMA AbstractStep == SyncInv /\ [Next]_vars => [Abstract!Next]_Abstract!vars
<1> SUFFICES ASSUME SyncInv, [Next]_vars
             PROVE  Abstract!Next \/ UNCHANGED Abstract!vars
  OBVIOUS
<1> USE DEF SyncInv
<1>s. ASSUME RunningNow' = RunningNow, FailedNow' = FailedNow, outcome' = outcome
      PROVE  UNCHANGED Abstract!vars
  BY <1>s DEF Abstract!vars, RunningNow, FailedNow
<1>f. ASSUME NEW e \in Ext, pc[e] # "done", RunningNow' = RunningNow \ {e},
             FailedNow' \in {FailedNow, FailedNow \cup {e}}, outcome' = outcome
      PROVE  Abstract!Next
  BY <1>f DEF Abstract!Next, Abstract!Finish, RunningNow, FailedNow
<1>1. ASSUME NEW e \in Ext, Begin(e) PROVE Abstract!Next \/ UNCHANGED Abstract!vars
  <2>1. CASE BeginCalled(e)
    <3>1. /\ pc[e] = "start" /\ outcome' = outcome /\ result' = result
          /\ pc' = [pc EXCEPT ![e] = "recv"]
      BY <1>1, <2>1, BeginCases DEF BeginCalled
    <3>2. \A f \in Ext : pc'[f] # "done" <=> pc[f] # "done"
      BY <3>1 DEF GoroutineType
    <3> QED BY <1>s, <3>1, <3>2 DEF RunningNow, FailedNow
  <2>2. CASE BeginSkipped(e)
    <3>1. /\ pc[e] = "start" /\ outcome' = outcome
          /\ pc' = [pc EXCEPT ![e] = "done"] /\ result' = [result EXCEPT ![e] = "ok"]
      BY <1>1, <2>2, BeginCases DEF BeginSkipped
    <3>2. \A f \in Ext : /\ pc'[f] # "done" <=> pc[f] # "done" /\ f # e
                         /\ f # e => result'[f] = result[f]
      BY <3>1 DEF GoroutineType
    <3>3. pc'[e] = "done" /\ result'[e] = "ok"
      BY <3>1 DEF GoroutineType
    <3> QED BY <1>f, <3>1, <3>2, <3>3 DEF RunningNow, FailedNow
  <2> QED BY <1>1, <2>1, <2>2, BeginCases
<1>2. ASSUME NEW e \in Ext, Recv(e) PROVE Abstract!Next \/ UNCHANGED Abstract!vars
  <2>1. CASE RecvEnd(e)
    <3>1. /\ pc[e] = "recv" /\ outcome' = outcome
          /\ pc' = [pc EXCEPT ![e] = "done"] /\ result' = [result EXCEPT ![e] = "ok"]
      BY <1>2, <2>1, RecvCases DEF RecvEnd
    <3>2. \A f \in Ext : /\ pc'[f] # "done" <=> pc[f] # "done" /\ f # e
                         /\ f # e => result'[f] = result[f]
      BY <3>1 DEF GoroutineType
    <3>3. pc'[e] = "done" /\ result'[e] = "ok"
      BY <3>1 DEF GoroutineType
    <3> QED BY <1>f, <3>1, <3>2, <3>3 DEF RunningNow, FailedNow
  <2>2. CASE RecvError(e)
    <3>1. /\ pc[e] = "recv" /\ outcome' = outcome
          /\ pc' = [pc EXCEPT ![e] = "load"] /\ result' = [result EXCEPT ![e] = "error"]
      BY <1>2, <2>2, RecvCases DEF RecvError
    <3>2. \A f \in Ext : /\ pc'[f] # "done" <=> pc[f] # "done"
                         /\ f # e => result'[f] = result[f]
      BY <3>1 DEF GoroutineType
    <3> QED BY <1>s, <3>1, <3>2 DEF RunningNow, FailedNow, GoroutineType
  <2>3. CASE RecvAdd(e)
    BY <1>2, <1>s, <2>3, RecvCases DEF RecvAdd, RunningNow, FailedNow
  <2> QED BY <1>2, <2>1, <2>2, <2>3, RecvCases
<1>3. ASSUME NEW e \in Ext, LoadErrs(e) PROVE UNCHANGED Abstract!vars
  BY <1>3, <1>s DEF LoadErrs, RunningNow, FailedNow, GoroutineType
<1>4. ASSUME NEW e \in Ext, StoreErrs(e) PROVE Abstract!Next
  <2>1. pc[e] = "store" /\ pc' = [pc EXCEPT ![e] = "done"] /\ result' = result
        /\ outcome' = outcome /\ result[e] = "error"
    BY <1>4 DEF StoreErrs, GoroutineInv
  <2> QED BY <1>f, <2>1 DEF RunningNow, FailedNow, GoroutineType
<1>5. CASE Return
  <2>1. RunningNow = {} /\ RunningNow' = {} /\ FailedNow' = FailedNow
    BY <1>5 DEF Return, RunningNow, FailedNow
  <2>2. FailedNow = {} <=> ~(Len(errs) > 0)
    <3>1. (Len(errs) > 0) <=> (errs # <<>>)
      BY EmptySeq DEF SharedType
    <3>2. errs # <<>> => \E e \in Ext : result[e] = "error"
      BY EmptySeq DEF SharedType, ToSet, ErrorsInv
    <3>3. \A e \in Ext : pc[e] = "done"
      BY <1>5 DEF Return
    <3> QED BY <3>1, <3>2, <3>3 DEF FailedNow, ErrorsInv
  <2>3. outcome = "none" /\ outcome' = IF FailedNow = {} THEN "ok" ELSE "error"
    BY <1>5, <2>2 DEF Return
  <2> QED BY <2>1, <2>3 DEF Abstract!Next, Abstract!Return, RunningNow, FailedNow
<1>6. CASE ApplyChangeset
  BY <1>6 DEF ApplyChangeset, Abstract!vars
<1>7. CASE UNCHANGED vars
  BY <1>7 DEF vars, Abstract!vars
<1> QED BY <1>1, <1>2, <1>3, <1>4, <1>5, <1>6, <1>7 DEF Next, Goroutine

(***************************************************************************)
(* Sync implements what its callers rely on: whatever the goroutines do to *)
(* the Changeset and to errs in between, the extensions finish one after   *)
(* the other, and the call then fails exactly when one of them has.        *)
(***************************************************************************)
THEOREM ImplementsFanOut == Spec => RefinesFanOut
<1> QED
  BY AbstractStart, AbstractStep, SyncInvariant, PTL DEF Spec, RefinesFanOut, Abstract!Spec
=============================================================================
