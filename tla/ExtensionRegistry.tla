-------------------------- MODULE ExtensionRegistry --------------------------
(***************************************************************************)
(* How an Extension object becomes an extension of the operator:           *)
(* ExtensionReconciler (internal/controller/extension_controller.go) adds  *)
(* and removes it in ExtensionManager (internal/extension/ext_manager.go), *)
(* whose generators (internal/specgen/generate_spec.go) merge its schema   *)
(* with the schema of each kind that it targets, and writes the result to  *)
(* the CRDs of the cluster.  RefreshCRD does the same for all extensions   *)
(* when the operator starts.                                               *)
(*                                                                         *)
(* A schema is the set of the paths of its properties below spec: <<a>> is *)
(* a property, <<o, c>> the property c of the object <<o>>, and so on to   *)
(* any depth.  A path is an object in every schema that has it or in none. *)
(* A map is iterated in any order.                                         *)
(***************************************************************************)
EXTENDS Naturals, Sequences, FiniteSets

Seqs == INSTANCE SequencesExt

CONSTANTS
  Ext,        \* names of extensions
  Targets,    \* the kinds: Application and Work
  Specs,      \* specs of extensions
  NoSpec,
  SpecsOf,    \* the specs that an extension may be given
  PathsOf,    \* openAPIV3Schema of a spec
  TargetsOf,  \* targets of a spec
  Always,     \* the specs with always set
  Base,       \* the base schema of a kind
  Objects,    \* the paths that are objects
  Faulty,     \* the calls that may fail
  MaxWrites,  \* writes of users
  MaxFaults,  \* failing calls
  MaxRestarts \* restarts of the operator

\* The paths there are.
Paths == (UNION {PathsOf[s] : s \in Specs}) \cup (UNION {Base[t] : t \in Targets})

ASSUME RegistryAssumption ==
  /\ Ext # {} /\ NoSpec \notin Specs
  /\ SpecsOf \in [Ext -> SUBSET Specs]
  /\ TargetsOf \in [Specs -> SUBSET Targets]
  /\ PathsOf \in [Specs -> SUBSET Paths] /\ Base \in [Targets -> SUBSET Paths]
  /\ Always \subseteq Specs
  /\ MaxWrites \in Nat /\ MaxFaults \in Nat /\ MaxRestarts \in Nat

\* The schemas there are, whose properties lie below objects of their own.
AllSchemas == {PathsOf[s] : s \in Specs} \cup {Base[t] : t \in Targets}

IsTree(P) ==
  \A p \in P :
    Len(p) > 0 /\ (Len(p) > 1 => Seqs!Front(p) \in P \cap Objects)

ASSUME SchemaAssumption == \A P \in AllSchemas : IsTree(P)

VARIABLES
  api,        \* the Extension objects of the cluster
  inflight,   \* the versions on their way to the informer
  cache,      \* the informer's copies
  crd,        \* the schemas in the CRDs of the cluster
  schema,     \* Generator.schema, per kind
  applied,    \* Generator.appliedSchemas, per kind
  registered, \* ExtensionManager.extensions: the spec registered, or NoSpec
  clashed,    \* history: an Add of this process met a field that was defined
  mode,       \* the process: "list" and "add" in RefreshCRD, then "running"
  listed,     \* what RefreshCRD has listed and not yet added
  rec,        \* the worker of the reconciler
  todo,       \* the kinds whose CRD is not yet compared
  queued,     \* the workqueue
  spent       \* writes, faults and restarts so far

cluster == <<api, inflight, cache>>
manager == <<schema, applied, registered, clashed>>
vars == <<api, inflight, cache, crd, schema, applied, registered, clashed, mode, listed,
          rec, todo, queued, spent>>

-----------------------------------------------------------------------------
(* The schema generator. *)

IsObject(p) == p \in Objects

\* Mutant: a property that exists is overwritten.
ClashesNever(sch, in) == {}

\* The properties that make Generator.add return an AlreadyDefinedError.
Clashes(sch, in) == {p \in in : ~IsObject(p) /\ p \in sch}

Below(d, p) == Seqs!IsPrefix(d, p)

\* What is left behind by an add that fails: the maps are changed in place, up
\* to the first property that clashes.  On the way down to it, some of the other
\* properties of each object were merged, each with all that is below it; an
\* object without a clash is merged whole.
PartialAdds(sch, in) ==
  LET bad == Clashes(sch, in)
      Siblings(c) == {d \in in : /\ Below(Seqs!Front(d), c) /\ ~Below(d, c)
                                 /\ \A b \in bad : ~Below(d, b)}
  IN  UNION {{sch \cup {p \in in : \E d \in done : Below(d, p)} :
                done \in SUBSET Siblings(c)} : c \in bad}

\* Generator.remove looks for objects without properties at the top level only.
Kept(p, P) == IsObject(p) /\ Len(p) = 1 => \E q \in P : Len(q) > 1 /\ q[1] = p[1]

\* The end of Generator.remove: top-level objects without properties go, no
\* matter whose they are.
Pruned(sch) == {p \in sch : Kept(p, sch)}

\* Generator.remove: a schema without properties is nothing to remove.
GenRemove(sch, in) ==
  IF in = {} THEN sch ELSE Pruned({p \in sch : IsObject(p) \/ p \notin in})

\* Mutant: Add does not remove the schema that the name had.
ClearedNot(t, e) == schema[t]

\* Generator.Add removes the schema of the same name first.
Cleared(t, e) ==
  IF applied[t][e] = NoSpec THEN schema[t]
  ELSE GenRemove(schema[t], PathsOf[applied[t][e]])

-----------------------------------------------------------------------------
(* ExtensionManager. *)

Clash(t, e, s) == Clashes(Cleared(t, e), PathsOf[s]) # {}

\* The schema of e is added to the kinds ts, and its old one is gone from them.
AddedTo(ts, e, s) ==
  [t \in Targets |-> IF t \in ts THEN Cleared(t, e) \cup PathsOf[s] ELSE schema[t]]

AppliedTo(ts, e, s) ==
  [t \in Targets |-> IF t \in ts THEN [applied[t] EXCEPT ![e] = s] ELSE applied[t]]

\* c.extensions[ext.Name] is set for each target that is done.
Registered(done, e, s) ==
  IF done = {} THEN registered ELSE [registered EXCEPT ![e] = s]

\* Add returns nil: every target is done.
AddOk(e, s) ==
  /\ \A t \in TargetsOf[s] : ~Clash(t, e, s)
  /\ schema' = AddedTo(TargetsOf[s], e, s)
  /\ applied' = AppliedTo(TargetsOf[s], e, s)
  /\ registered' = Registered(TargetsOf[s], e, s)
  /\ UNCHANGED clashed

\* Add returns an AlreadyDefinedError for the kind f, after the kinds done.
AddClash(e, s) ==
  \E f \in TargetsOf[s] : \E done \in SUBSET (TargetsOf[s] \ {f}) :
    /\ Clash(f, e, s) /\ \A t \in done : ~Clash(t, e, s)
    /\ \E sch \in PartialAdds(Cleared(f, e), PathsOf[s]) :
         schema' = [AddedTo(done, e, s) EXCEPT ![f] = sch]
    /\ applied' = [AppliedTo(done, e, s) EXCEPT ![f][e] = NoSpec]
    /\ registered' = Registered(done, e, s)
    /\ clashed' = TRUE

\* The gRPC dial or the download of the WASI image fails for the kind f, or,
\* once the schema of f is changed, the WASI module cannot be loaded.
AddFault(e, s) ==
  \E f \in TargetsOf[s], how \in Faulty \cap {"dial", "init"} :
  \E done \in SUBSET (TargetsOf[s] \ {f}) :
    LET changed == IF how = "init" THEN done \cup {f} ELSE done
    IN  /\ \A t \in changed : ~Clash(t, e, s)
        /\ schema' = AddedTo(changed, e, s)
        /\ applied' = AppliedTo(changed, e, s)
        /\ registered' = Registered(done, e, s)
        /\ UNCHANGED clashed

\* Mutant: Remove forgets the entry of the map.
RemoveKeepingEntry(e, s) ==
  /\ schema' = [t \in Targets |-> IF t \in TargetsOf[s] THEN Cleared(t, e) ELSE schema[t]]
  /\ applied' = AppliedTo(TargetsOf[s], e, NoSpec)
  /\ UNCHANGED <<registered, clashed>>

\* ExtensionManager.Remove takes the extension out of the kinds that its
\* current spec targets.
Remove(e, s) ==
  /\ schema' = [t \in Targets |-> IF t \in TargetsOf[s] THEN Cleared(t, e) ELSE schema[t]]
  /\ applied' = AppliedTo(TargetsOf[s], e, NoSpec)
  /\ registered' = [registered EXCEPT ![e] = NoSpec]
  /\ UNCHANGED clashed

-----------------------------------------------------------------------------
(* The cluster. *)

NoExt == [rv |-> 0, spec |-> NoSpec, deleting |-> FALSE, finalizer |-> FALSE,
          active |-> FALSE]
Exists(o) == o.spec # NoSpec
NoCRD == {<<"no CRD">>}

\* A write that changes nothing makes no new version.
Write(e, o) ==
  LET new == [o EXCEPT !.rv = api[e].rv + 1]
  IN  IF o = api[e] THEN UNCHANGED <<api, inflight>>
      ELSE /\ api' = [api EXCEPT ![e] = new]
           /\ inflight' = IF mode = "running"
                          THEN [inflight EXCEPT ![e] = Append(@, new)]
                          ELSE inflight

Gone(e) == [NoExt EXCEPT !.rv = api[e].rv]

\* The API server refuses an update of anything but the latest version.
Conflict(o, e) == o.rv # api[e].rv

Spend(what, limit) ==
  /\ spent[what] < limit
  /\ spent' = [spent EXCEPT ![what] = @ + 1]

\* The validating webhook refuses these specs: validateSpec.
Valid(s) == TargetsOf[s] \subseteq Targets /\ (PathsOf[s] # {} \/ s \in Always)

\* The webhook is served by the running operator, and its failurePolicy is fail.
UserCreate(e) ==
  /\ mode = "running" /\ ~Exists(api[e])
  /\ \E s \in SpecsOf[e] : Valid(s) /\ Write(e, [Gone(e) EXCEPT !.spec = s])
  /\ Spend("writes", MaxWrites)
  /\ UNCHANGED <<cache, crd, manager, mode, listed, rec, todo, queued>>

UserEdit(e) ==
  /\ mode = "running" /\ Exists(api[e])
  /\ \E s \in SpecsOf[e] \ {api[e].spec} :
       Valid(s) /\ Write(e, [api[e] EXCEPT !.spec = s])
  /\ Spend("writes", MaxWrites)
  /\ UNCHANGED <<cache, crd, manager, mode, listed, rec, todo, queued>>

UserDelete(e) ==
  /\ Exists(api[e]) /\ ~api[e].deleting
  /\ Write(e, IF api[e].finalizer THEN [api[e] EXCEPT !.deleting = TRUE] ELSE Gone(e))
  /\ Spend("writes", MaxWrites)
  /\ UNCHANGED <<cache, crd, manager, mode, listed, rec, todo, queued>>

\* The informer receives the next version and queues a request.
Deliver(e) ==
  /\ mode = "running" /\ inflight[e] # <<>>
  /\ cache' = [cache EXCEPT ![e] = Head(inflight[e])]
  /\ inflight' = [inflight EXCEPT ![e] = Tail(@)]
  /\ queued' = queued \cup {e}
  /\ UNCHANGED <<api, crd, manager, mode, listed, rec, todo, spent>>

-----------------------------------------------------------------------------
(* ExtensionReconciler.Reconcile, one action per call. *)

Idle == [pc |-> "idle", e |-> CHOOSE e \in Ext : TRUE, obj |-> NoExt]

Return == rec' = Idle /\ UNCHANGED queued

\* An error: the work queue gets the request back.
ReturnErr == rec' = Idle /\ queued' = queued \cup {rec.e}

At(pc) == mode = "running" /\ rec.pc = pc
Goto(pc, o) == rec' = [rec EXCEPT !.pc = pc, !.obj = o] /\ UNCHANGED queued

\* A call fails: the request is lost, or only its answer.
Fault(call) == call \in Faulty /\ Spend("faults", MaxFaults)

\* Get reads the informer's copy; what is missing or being deleted by others is
\* left alone.
Start ==
  /\ At("idle")
  /\ \E e \in queued :
       /\ queued' = queued \ {e}
       /\ LET o == cache[e]
              pc == CASE ~Exists(o) -> "idle"
                      [] Exists(o) /\ ~o.deleting /\ ~o.finalizer -> "finalizer"
                      [] Exists(o) /\ ~o.deleting /\ o.finalizer -> "add"
                      [] Exists(o) /\ o.deleting /\ o.finalizer -> "remove"
                      [] Exists(o) /\ o.deleting /\ ~o.finalizer -> "idle"
          IN  rec' = IF pc = "idle" THEN Idle ELSE [pc |-> pc, e |-> e, obj |-> o]
  /\ UNCHANGED <<cluster, crd, manager, mode, listed, todo, spent>>

AddFinalizer ==
  /\ At("finalizer")
  /\ \/ /\ ~Conflict(rec.obj, rec.e)
        /\ Write(rec.e, [rec.obj EXCEPT !.finalizer = TRUE])
        /\ Goto("add", api'[rec.e])
        /\ UNCHANGED spent
     \/ /\ Conflict(rec.obj, rec.e) /\ ReturnErr
        /\ UNCHANGED <<api, inflight, spent>>
     \/ /\ Fault("finalizer") /\ ReturnErr
        /\ \/ UNCHANGED <<api, inflight>>
           \/ /\ ~Conflict(rec.obj, rec.e)
              /\ Write(rec.e, [rec.obj EXCEPT !.finalizer = TRUE])
  /\ UNCHANGED <<cache, crd, manager, mode, listed, todo>>

\* An AlreadyDefinedError is logged, and the reconciler goes on.
AddExtension ==
  /\ At("add")
  /\ LET s == rec.obj.spec
     IN  \/ /\ AddOk(rec.e, s) \/ AddClash(rec.e, s)
            /\ Goto("crds", rec.obj) /\ todo' = Targets
            /\ UNCHANGED spent
         \/ /\ AddFault(rec.e, s) /\ Spend("faults", MaxFaults)
            /\ ReturnErr /\ UNCHANGED todo
  /\ UNCHANGED <<cluster, crd, mode, listed>>

\* The CRDs, with the schema of the manager in that of t, be it created
\* (createAppCRD, createWorkCRD) or updated.
WithSchema(t) == [crd EXCEPT ![t] = schema[t]]

\* Mutant: a CRD that exists is not updated.
UpdateCRDNever ==
  /\ At("crds")
  /\ \E t \in todo : todo' = todo \ {t} /\ Goto(IF todo' = {} THEN "status" ELSE "crds", rec.obj)
  /\ UNCHANGED <<cluster, crd, manager, mode, listed, spent>>

\* One turn of the loop over crds: fetch, compare, update.
UpdateCRD ==
  /\ At("crds")
  /\ \/ /\ \E t \in todo :
             /\ crd' = WithSchema(t)
             /\ todo' = todo \ {t}
        /\ Goto(IF todo' = {} THEN "status" ELSE "crds", rec.obj)
        /\ UNCHANGED spent
     \/ /\ Fault("crd") /\ ReturnErr
        /\ \E t \in todo : crd' \in {crd, WithSchema(t)}
        /\ UNCHANGED todo
  /\ UNCHANGED <<cluster, manager, mode, listed>>

WriteStatus ==
  /\ At("status")
  /\ \/ /\ ~Conflict(rec.obj, rec.e)
        /\ Write(rec.e, [rec.obj EXCEPT !.active = TRUE])
        /\ Return /\ UNCHANGED spent
     \/ /\ Conflict(rec.obj, rec.e) /\ ReturnErr
        /\ UNCHANGED <<api, inflight, spent>>
     \/ /\ Fault("status") /\ ReturnErr
        /\ \/ UNCHANGED <<api, inflight>>
           \/ /\ ~Conflict(rec.obj, rec.e)
              /\ Write(rec.e, [rec.obj EXCEPT !.active = TRUE])
  /\ UNCHANGED <<cache, crd, manager, mode, listed, todo>>

RemoveExtension ==
  /\ At("remove")
  /\ Remove(rec.e, rec.obj.spec)
  /\ Goto("unfinalize", rec.obj)
  /\ UNCHANGED <<cluster, crd, mode, listed, todo, spent>>

RemoveFinalizer ==
  /\ At("unfinalize")
  /\ \/ /\ ~Conflict(rec.obj, rec.e)
        /\ Write(rec.e, Gone(rec.e))
        /\ Return /\ UNCHANGED spent
     \/ /\ Conflict(rec.obj, rec.e) /\ ReturnErr
        /\ UNCHANGED <<api, inflight, spent>>
     \/ /\ Fault("finalizer") /\ ReturnErr
        /\ \/ UNCHANGED <<api, inflight>>
           \/ ~Conflict(rec.obj, rec.e) /\ Write(rec.e, Gone(rec.e))
  /\ UNCHANGED <<cache, crd, manager, mode, listed, todo>>

Reconcile ==
  \/ Start \/ AddFinalizer \/ AddExtension \/ UpdateCRD \/ WriteStatus
  \/ RemoveExtension \/ RemoveFinalizer

-----------------------------------------------------------------------------
(* The process: RefreshCRD, called by main before the manager starts. *)

Nothing == [e \in Ext |-> NoSpec]

\* NewExtensionManager reads the base schemas.
NewExtensionManager ==
  /\ schema' = Base
  /\ applied' = [t \in Targets |-> Nothing]
  /\ registered' = Nothing /\ clashed' = FALSE

\* main sets up the reconcilers and the webhooks, which do nothing yet: the
\* manager is started after RefreshCRD.
Setup == rec' = Idle /\ todo' = {} /\ queued' = {}

NewProcess ==
  /\ mode' = "list" /\ listed' = Nothing
  /\ NewExtensionManager /\ Setup

\* The process ends, and is started again.
Restart ==
  /\ mode = "running"
  /\ Spend("restarts", MaxRestarts)
  /\ NewProcess
  /\ UNCHANGED <<cluster, crd>>

\* main panics when RefreshCRD returns an error.
Panic == NewProcess /\ UNCHANGED <<cluster, crd>>

BootList ==
  /\ mode = "list"
  /\ \/ /\ listed' = [e \in Ext |-> api[e].spec]
        /\ mode' = "add" /\ todo' = Targets
        /\ UNCHANGED <<cluster, crd, manager, rec, queued, spent>>
     \/ Fault("list") /\ Panic

BootAdd ==
  /\ mode = "add"
  /\ \E e \in Ext :
       /\ listed[e] # NoSpec
       /\ \/ /\ AddOk(e, listed[e])
             /\ listed' = [listed EXCEPT ![e] = NoSpec]
             /\ UNCHANGED <<cluster, crd, mode, rec, todo, queued, spent>>
          \/ /\ \E t \in TargetsOf[listed[e]] : Clash(t, e, listed[e])
             /\ Panic /\ UNCHANGED spent
          \/ /\ Faulty \cap {"dial", "init"} # {}
             /\ Spend("faults", MaxFaults)
             /\ Panic

\* Mutant: the CRDs are created, and one that exists is an error.
BootCRDCreating ==
  /\ mode = "add" /\ listed = Nothing
  /\ \E t \in todo :
       \/ /\ crd[t] = NoCRD
          /\ crd' = WithSchema(t)
          /\ todo' = todo \ {t}
          /\ UNCHANGED <<cluster, manager, mode, listed, rec, queued, spent>>
       \/ /\ crd[t] # NoCRD /\ Panic /\ UNCHANGED spent

\* The CRDs are created or updated, one after the other.
BootCRD ==
  /\ mode = "add" /\ listed = Nothing
  /\ \/ /\ \E t \in todo :
             /\ crd' = WithSchema(t)
             /\ todo' = todo \ {t}
        /\ UNCHANGED <<cluster, manager, mode, listed, rec, queued, spent>>
     \/ /\ \E t \in todo : crd' \in {crd, WithSchema(t)}
        /\ Fault("crd")
        /\ NewProcess /\ UNCHANGED cluster

\* The manager starts: the informer lists the extensions, and queues each.
BootDone ==
  /\ mode = "add" /\ listed = Nothing /\ todo = {}
  /\ mode' = "running"
  /\ cache' = api
  /\ inflight' = [e \in Ext |-> <<>>]
  /\ queued' = {e \in Ext : Exists(api[e])}
  /\ UNCHANGED <<api, crd, manager, listed, rec, todo, spent>>

Boot == BootList \/ BootAdd \/ BootCRD \/ BootDone

-----------------------------------------------------------------------------
Init ==
  /\ api = [e \in Ext |-> NoExt]
  /\ inflight = [e \in Ext |-> <<>>]
  /\ cache = api
  /\ crd = [t \in Targets |-> NoCRD]
  /\ schema = Base
  /\ applied = [t \in Targets |-> Nothing]
  /\ registered = Nothing /\ clashed = FALSE
  /\ mode = "list" /\ listed = Nothing
  /\ rec = Idle /\ todo = {} /\ queued = {}
  /\ spent = [writes |-> 0, faults |-> 0, restarts |-> 0]

User == \E e \in Ext : UserCreate(e) \/ UserEdit(e) \/ UserDelete(e)

Next == User \/ (\E e \in Ext : Deliver(e)) \/ Reconcile \/ Boot \/ Restart

Spec == Init /\ [][Next]_vars

\* The worker, the informer and the start of the process make progress.
FairSpec ==
  /\ Spec
  /\ WF_vars(Reconcile) /\ WF_vars(Boot)
  /\ \A e \in Ext : WF_vars(Deliver(e))

-----------------------------------------------------------------------------
(* Properties. *)

ExtObj == [rv : Nat, spec : Specs \cup {NoSpec}, deleting : BOOLEAN,
           finalizer : BOOLEAN, active : BOOLEAN]

\* Every variable keeps its type, and the worker has an object that exists.
TypeOK ==
  /\ rec.pc # "idle" => Exists(rec.obj)
  /\ api \in [Ext -> ExtObj] /\ cache \in [Ext -> ExtObj]
  /\ inflight \in [Ext -> Seq(ExtObj)]
  /\ schema \in [Targets -> SUBSET Paths]
  /\ crd \in [Targets -> (SUBSET Paths) \cup {NoCRD}]
  /\ applied \in [Targets -> [Ext -> Specs \cup {NoSpec}]]
  /\ registered \in [Ext -> Specs \cup {NoSpec}] /\ clashed \in BOOLEAN
  /\ listed \in [Ext -> Specs \cup {NoSpec}]
  /\ mode \in {"list", "add", "running"}
  /\ rec \in [pc : {"idle", "finalizer", "add", "crds", "status", "remove", "unfinalize"},
              e : Ext, obj : ExtObj]
  /\ todo \subseteq Targets /\ queued \subseteq Ext
  /\ spent \in [writes : 0..MaxWrites, faults : 0..MaxFaults, restarts : 0..MaxRestarts]

\* What the generator of t has applied for e.
AppliedPaths(t, e) == IF applied[t][e] = NoSpec THEN {} ELSE PathsOf[applied[t][e]]

\* What the schema of t is made of.
Due(t) == Base[t] \cup UNION {AppliedPaths(t, e) : e \in Ext}

\* As long as no two extensions have defined one field, a generator's schema is
\* the base schema and the schemas it has applied: an add or a remove of one
\* extension takes nothing that belongs to another, and leaves nothing behind
\* but objects in objects, with the object at the top that they keep there.
SchemaExact ==
  ~clashed => \A t \in Targets :
    /\ Due(t) \subseteq schema[t]
    /\ \A p \in schema[t] \ Due(t) : IsObject(p) /\ Kept(p, schema[t])

\* ... and nothing at all.
NothingLeftOver == ~clashed => \A t \in Targets : schema[t] = Due(t)

\* Whatever clashes with what: no add and no remove takes a field of the base
\* schema, or of a schema that is applied.
SchemaCovers ==
  \A t \in Targets :
    Base[t] \subseteq schema[t] /\ \A e \in Ext : AppliedPaths(t, e) \subseteq schema[t]

\* Why they hold: a field that is not an object has one owner.
FieldsApart ==
  \A t \in Targets, e \in Ext : \A p \in AppliedPaths(t, e) :
    IsObject(p) \/ (p \notin Base[t] /\ \A f \in Ext \ {e} : p \notin AppliedPaths(t, f))

\* An object at the top without properties of its own is pruned with the next
\* removal; no schema has one.
OwnProperties(P) == \A p \in P : Kept(p, P)

ObjectsHaveProperties == \A P \in AllSchemas : OwnProperties(P)

Quiescent ==
  /\ mode = "running" /\ rec = Idle /\ queued = {}
  /\ \A e \in Ext : inflight[e] = <<>>

\* Served: the extension is registered with its current spec, if that has a
\* target, and its fields are in the CRDs of its targets.
Served(e) ==
  /\ TargetsOf[api[e].spec] # {} => registered[e] = api[e].spec
  /\ \A t \in TargetsOf[api[e].spec] : PathsOf[api[e].spec] \subseteq crd[t]

\* When there is nothing left to do, every extension is served and active, unless
\* two have defined one field.
QuiescentServed ==
  Quiescent /\ ~clashed => \A e \in Ext :
    Exists(api[e]) => ~api[e].deleting /\ api[e].active /\ Served(e)

\* An extension that is gone is no longer called: its finalizer holds it until
\* the manager has removed it.  (A restart registers extensions that do not
\* have it yet.)
NoGhost ==
  Quiescent /\ spent.restarts = 0 => \A e \in Ext : ~Exists(api[e]) => registered[e] = NoSpec

\* The same, restarts or not.
NeverGhost ==
  Quiescent => \A e \in Ext : ~Exists(api[e]) => registered[e] = NoSpec

\* The status of an extension is Active only when it is served.
ActiveMeansServed ==
  Quiescent => \A e \in Ext :
    Exists(api[e]) /\ ~api[e].deleting /\ api[e].active => Served(e)

\* A kind that is not, or no longer, a target of an extension has no fields of
\* it.
TargetsExact ==
  Quiescent => \A e \in Ext : Exists(api[e]) =>
    \A t \in Targets \ TargetsOf[api[e].spec] : applied[t][e] = NoSpec

\* The schema of a CRD has no field of an extension that is gone.
CRDExact == Quiescent => crd = schema

\* Every extension is served in the end, or deleted.
EventuallyServed ==
  <>[](\A e \in Ext : Exists(api[e]) => api[e].active /\ Served(e))

\* The operator starts.
OperatorStarts == (mode # "running") ~> (mode = "running")
=============================================================================
