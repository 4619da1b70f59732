----------------------- MODULE ExtensionRegistryProofs -----------------------
(***************************************************************************)
(* Proofs about ExtensionRegistry, for all extensions, schemas and bounds. *)
(***************************************************************************)
EXTENDS ExtensionRegistry, SequenceTheorems, TLAPS

-----------------------------------------------------------------------------
(* The schema generator: what Generator.Remove and Add do to one schema. *)

(***************************************************************************)
(* Generator.remove keeps a schema whose fields are not those removed, the *)
(* objects included if each of those at the top has a property.            *)
(***************************************************************************)
LEMMA RemoveKeeps ==
  ASSUME NEW sch, NEW in, NEW P, OwnProperties(P), P \subseteq sch,
         \A p \in P : IsObject(p) \/ p \notin in
  PROVE  P \subseteq GenRemove(sch, in)
<1> DEFINE left == {p \in sch : IsObject(p) \/ p \notin in}
<1>1. P \subseteq left
  OBVIOUS
<1>2. \A p \in P : Kept(p, left)
  BY <1>1 DEF OwnProperties, Kept
<1>3. P \subseteq Pruned(left)
  BY <1>1, <1>2 DEF Pruned
<1> QED BY <1>3 DEF GenRemove

(***************************************************************************)
(* Generator.remove leaves no field of the schema removed.  An object that *)
(* it leaves has at the top an object with properties, which it leaves     *)
(* too: what lies in an object is never pruned.                            *)
(***************************************************************************)
LEMMA RemoveLeaves ==
  ASSUME NEW sch, NEW in, in # {}, NEW p \in GenRemove(sch, in)
  PROVE  /\ p \in sch
         /\ IsObject(p) \/ p \notin in
         /\ Kept(p, GenRemove(sch, in))
<1> DEFINE left == {q \in sch : IsObject(q) \/ q \notin in}
<1>1. GenRemove(sch, in) = Pruned(left)
  BY DEF GenRemove
<1>2. p \in left /\ Kept(p, left)
  BY <1>1 DEF Pruned
<1>3. \A q \in left : Len(q) > 1 => q \in Pruned(left)
  <2>1. \A q \in left : Len(q) > 1 => Len(q) # 1
    OBVIOUS
  <2> QED BY <2>1 DEF Pruned, Kept
<1>4. Kept(p, Pruned(left))
  BY <1>2, <1>3 DEF Kept
<1> QED BY <1>1, <1>2, <1>4

(***************************************************************************)
(* An add that fails half-way takes nothing away.                          *)
(***************************************************************************)
LEMMA PartialAddsGrow ==
  ASSUME NEW sch, NEW in, NEW new \in PartialAdds(sch, in)
  PROVE  sch \subseteq new /\ new \subseteq sch \cup in
BY DEF PartialAdds

-----------------------------------------------------------------------------
(* Type correctness. *)

(***************************************************************************)
(* The objects and records that the actions build.                         *)
(***************************************************************************)
LEMMA NoExtType == NoExt \in ExtObj /\ ~Exists(NoExt)
BY DEF NoExt, ExtObj, Exists

LEMMA NothingType == Nothing \in [Ext -> Specs \cup {NoSpec}]
BY DEF Nothing

PCs == {"idle", "finalizer", "add", "crds", "status", "remove", "unfinalize"}
RecObj == [pc : PCs, e : Ext, obj : ExtObj]

LEMMA IdleType == Idle \in RecObj /\ Idle.pc = "idle"
<1>1. (CHOOSE e \in Ext : TRUE) \in Ext
  BY RegistryAssumption
<1> QED BY <1>1, NoExtType DEF Idle, RecObj, PCs

(***************************************************************************)
(* The paths of a schema are paths.                                        *)
(***************************************************************************)
LEMMA PathsType ==
  /\ \A s \in Specs : PathsOf[s] \subseteq Paths
  /\ \A t \in Targets : Base[t] \subseteq Paths
BY RegistryAssumption

LEMMA ClearedShrinks ==
  ASSUME NEW t, NEW e
  PROVE  Cleared(t, e) \subseteq schema[t]
BY DEF Cleared, GenRemove, Pruned

(***************************************************************************)
(* A write of an object.                                                   *)
(***************************************************************************)
LEMMA WriteType ==
  ASSUME TypeOK, NEW e \in Ext, NEW o \in ExtObj, Write(e, o)
  PROVE  /\ api' \in [Ext -> ExtObj] /\ inflight' \in [Ext -> Seq(ExtObj)]
         /\ api'[e].spec = o.spec
<1> DEFINE new == [o EXCEPT !.rv = api[e].rv + 1]
<1>a. /\ api \in [Ext -> ExtObj] /\ inflight \in [Ext -> Seq(ExtObj)]
      /\ api[e].rv + 1 \in Nat
  <2>1. api[e] \in ExtObj
    BY DEF TypeOK
  <2>2. api[e].rv \in Nat
    BY <2>1 DEF ExtObj
  <2> QED BY <2>2 DEF TypeOK
<1>1. new \in ExtObj /\ new.spec = o.spec
  <2> SUFFICES ASSUME NEW n \in Nat
               PROVE  [o EXCEPT !.rv = n] \in ExtObj /\ [o EXCEPT !.rv = n].spec = o.spec
    BY <1>a
  <2> QED BY DEF ExtObj
<1>2. CASE o = api[e]
  BY <1>2, <1>a DEF Write
<1>3. CASE o # api[e]
  <2>1. api' = [api EXCEPT ![e] = new]
    BY <1>3 DEF Write
  <2>2. inflight' \in {inflight, [inflight EXCEPT ![e] = Append(inflight[e], new)]}
    BY <1>3 DEF Write
  <2> HIDE DEF new
  <2>3. inflight[e] \in Seq(ExtObj)
    BY <1>a
  <2>4. Append(inflight[e], new) \in Seq(ExtObj)
    BY <1>1, <2>3
  <2>5. inflight' \in [Ext -> Seq(ExtObj)]
    BY <1>a, <2>2, <2>4
  <2>6. api' \in [Ext -> ExtObj] /\ api'[e] = new
    BY <1>1, <1>a, <2>1
  <2> QED BY <1>1, <2>5, <2>6
<1> QED BY <1>2, <1>3

(***************************************************************************)
(* What a call of ExtensionManager does to the generators.                 *)
(***************************************************************************)
ManagerType ==
  /\ schema \in [Targets -> SUBSET Paths]
  /\ applied \in [Targets -> [Ext -> Specs \cup {NoSpec}]]
  /\ registered \in [Ext -> Specs \cup {NoSpec}] /\ clashed \in BOOLEAN

LEMMA ManagerStepType ==
  ASSUME ManagerType, NEW e \in Ext, NEW s \in Specs,
         AddOk(e, s) \/ AddClash(e, s) \/ AddFault(e, s) \/ Remove(e, s)
  PROVE  ManagerType'
<1>1. ASSUME NEW ts
      PROVE  /\ AddedTo(ts, e, s) \in [Targets -> SUBSET Paths]
             /\ AppliedTo(ts, e, s) \in [Targets -> [Ext -> Specs \cup {NoSpec}]]
             /\ Registered(ts, e, s) \in [Ext -> Specs \cup {NoSpec}]
  <2>1. \A t \in Targets : Cleared(t, e) \cup PathsOf[s] \subseteq Paths
    BY ClearedShrinks, PathsType DEF ManagerType
  <2> QED BY <2>1 DEF AddedTo, AppliedTo, Registered, ManagerType
<1>2. CASE AddOk(e, s)
  BY <1>1, <1>2 DEF AddOk, ManagerType
<1>3. CASE AddClash(e, s)
  <2>1. PICK f \in TargetsOf[s] : \E done \in SUBSET (TargetsOf[s] \ {f}) :
          /\ \E sch \in PartialAdds(Cleared(f, e), PathsOf[s]) :
               schema' = [AddedTo(done, e, s) EXCEPT ![f] = sch]
          /\ applied' = [AppliedTo(done, e, s) EXCEPT ![f][e] = NoSpec]
          /\ registered' = Registered(done, e, s)
          /\ clashed' = TRUE
    BY <1>3 DEF AddClash
  <2>2. PICK done \in SUBSET (TargetsOf[s] \ {f}),
             sch \in PartialAdds(Cleared(f, e), PathsOf[s]) :
          /\ schema' = [AddedTo(done, e, s) EXCEPT ![f] = sch]
          /\ applied' = [AppliedTo(done, e, s) EXCEPT ![f][e] = NoSpec]
          /\ registered' = Registered(done, e, s)
          /\ clashed' = TRUE
    BY <2>1
  <2>3. f \in Targets
    BY RegistryAssumption
  <2>4. sch \subseteq Paths
    BY <2>3, PartialAddsGrow, ClearedShrinks, PathsType DEF ManagerType
  <2>5. applied' \in [Targets -> [Ext -> Specs \cup {NoSpec}]]
    BY <1>1, <2>2
  <2> QED BY <1>1, <2>2, <2>4, <2>5 DEF ManagerType
<1>4. CASE AddFault(e, s)
  BY <1>1, <1>4 DEF AddFault, ManagerType
<1>5. CASE Remove(e, s)
  <2>1. \A t \in Targets : Cleared(t, e) \subseteq Paths
    BY ClearedShrinks DEF ManagerType
  <2>2. schema' \in [Targets -> SUBSET Paths]
    BY <1>5, <2>1 DEF Remove, ManagerType
  <2>3. applied' \in [Targets -> [Ext -> Specs \cup {NoSpec}]]
    BY <1>5 DEF Remove, AppliedTo, ManagerType
  <2> QED BY <1>5, <2>2, <2>3 DEF Remove, ManagerType
<1> QED BY <1>2, <1>3, <1>4, <1>5

(***************************************************************************)
(* Every step preserves the types.                                         *)
(***************************************************************************)
ProcessType ==
  /\ listed \in [Ext -> Specs \cup {NoSpec}] /\ mode \in {"list", "add", "running"}
  /\ rec \in RecObj /\ (rec.pc # "idle" => Exists(rec.obj))
  /\ todo \subseteq Targets /\ queued \subseteq Ext

ClusterType ==
  /\ api \in [Ext -> ExtObj] /\ cache \in [Ext -> ExtObj]
  /\ inflight \in [Ext -> Seq(ExtObj)]
  /\ crd \in [Targets -> (SUBSET Paths) \cup {NoCRD}]

SpentType == spent \in [writes : 0..MaxWrites, faults : 0..MaxFaults, restarts : 0..MaxRestarts]

LEMMA TypeParts == TypeOK <=> ManagerType /\ ProcessType /\ ClusterType /\ SpentType
BY DEF TypeOK, ManagerType, ProcessType, ClusterType, SpentType, RecObj, PCs

LEMMA SpendType ==
  ASSUME SpentType
  PROVE  /\ Spend("writes", MaxWrites) => SpentType'
         /\ Spend("faults", MaxFaults) => SpentType'
         /\ Spend("restarts", MaxRestarts) => SpentType'
BY RegistryAssumption DEF Spend, SpentType

LEMMA NewProcessType ==
  ASSUME NewProcess
  PROVE  ManagerType' /\ ProcessType'
<1>1. ManagerType'
  BY PathsType, NothingType, RegistryAssumption
  DEF NewProcess, NewExtensionManager, ManagerType
<1>2. ProcessType'
  BY NothingType, IdleType DEF NewProcess, Setup, ProcessType
<1> QED BY <1>1, <1>2

LEMMA CRDType ==
  ASSUME ClusterType, ManagerType, NEW t \in Targets
  PROVE  WithSchema(t) \in [Targets -> (SUBSET Paths) \cup {NoCRD}]
BY DEF WithSchema, ClusterType, ManagerType

LEMMA FaultType ==
  ASSUME SpentType, NEW call, Fault(call)
  PROVE  SpentType'
BY SpendType DEF Fault

LEMMA ObjectsTyped ==
  ASSUME ProcessType, ClusterType
  PROVE  /\ rec.e \in Ext /\ rec.obj \in ExtObj
         /\ rec.pc # "idle" => rec.obj.spec \in Specs
         /\ \A e \in Ext : api[e] \in ExtObj /\ cache[e] \in ExtObj
<1>1. rec.e \in Ext /\ rec.obj \in ExtObj
  BY DEF ProcessType, RecObj
<1>2. rec.pc # "idle" => rec.obj.spec \in Specs
  BY <1>1 DEF ProcessType, Exists, ExtObj
<1> QED BY <1>1, <1>2 DEF ClusterType

\* The steps of the worker that end or move on.
LEMMA WorkerType ==
  ASSUME ProcessType
  PROVE  /\ (Return \/ ReturnErr) =>
              /\ rec' \in RecObj /\ (rec'.pc # "idle" => Exists(rec'.obj))
              /\ queued' \subseteq Ext
         /\ \A pc \in PCs, o \in ExtObj : Goto(pc, o) /\ Exists(o) =>
              /\ rec' \in RecObj /\ (rec'.pc # "idle" => Exists(rec'.obj))
              /\ queued' \subseteq Ext
<1>1. rec.e \in Ext /\ queued \subseteq Ext
  BY DEF ProcessType, RecObj
<1>2. ASSUME Return \/ ReturnErr
      PROVE  /\ rec' \in RecObj /\ (rec'.pc # "idle" => Exists(rec'.obj))
             /\ queued' \subseteq Ext
  BY <1>1, <1>2, IdleType DEF Return, ReturnErr
<1>3. ASSUME NEW pc \in PCs, NEW o \in ExtObj, Goto(pc, o), Exists(o)
      PROVE  /\ rec' \in RecObj /\ (rec'.pc # "idle" => Exists(rec'.obj))
             /\ queued' \subseteq Ext
  <2>1. rec' = [rec EXCEPT !.pc = pc, !.obj = o] /\ queued' = queued
    BY <1>3 DEF Goto
  <2>2. rec' \in RecObj /\ rec'.obj = o
    BY <2>1 DEF ProcessType, RecObj
  <2> QED BY <1>1, <1>3, <2>1, <2>2
<1> QED BY <1>2, <1>3

LEMMA WriteTypes ==
  ASSUME TypeOK, NEW e \in Ext, NEW o \in ExtObj, Write(e, o)
  PROVE  /\ api' \in [Ext -> ExtObj] /\ inflight' \in [Ext -> Seq(ExtObj)]
         /\ api'[e] \in ExtObj /\ (Exists(o) => Exists(api'[e]))
BY WriteType DEF Exists

LEMMA Variants ==
  ASSUME NEW o \in ExtObj
  PROVE  /\ \A s \in Specs : [o EXCEPT !.spec = s] \in ExtObj
         /\ [o EXCEPT !.deleting = TRUE] \in ExtObj
         /\ [o EXCEPT !.active = TRUE] \in ExtObj
         /\ [o EXCEPT !.finalizer = TRUE] \in ExtObj
         /\ Exists(o) => /\ Exists([o EXCEPT !.finalizer = TRUE])
                         /\ Exists([o EXCEPT !.active = TRUE])
                         /\ Exists([o EXCEPT !.deleting = TRUE])
BY DEF ExtObj, Exists

LEMMA GoneType ==
  ASSUME ClusterType, NEW e \in Ext
  PROVE  Gone(e) \in ExtObj /\ ~Exists(Gone(e))
<1>1. api[e].rv \in Nat
  BY DEF ClusterType, ExtObj
<1> QED BY <1>1 DEF Gone, NoExt, ExtObj, Exists

LEMMA UserType ==
  ASSUME TypeOK, NEW e \in Ext, UserCreate(e) \/ UserEdit(e) \/ UserDelete(e)
  PROVE  TypeOK'
<1>0. ManagerType /\ ProcessType /\ ClusterType /\ SpentType
  BY TypeParts
<1>1. \E o \in ExtObj : Write(e, o)
  <2>1. CASE UserCreate(e)
    <3>1. PICK s \in SpecsOf[e] : Write(e, [Gone(e) EXCEPT !.spec = s])
      BY <2>1 DEF UserCreate
    <3> QED BY <1>0, <3>1, GoneType, Variants, RegistryAssumption
  <2>2. CASE UserEdit(e)
    <3>1. PICK s \in SpecsOf[e] : Write(e, [api[e] EXCEPT !.spec = s])
      BY <2>2 DEF UserEdit
    <3> QED BY <1>0, <3>1, ObjectsTyped, Variants, RegistryAssumption
  <2>3. CASE UserDelete(e)
    BY <1>0, <2>3, GoneType, ObjectsTyped, Variants DEF UserDelete
  <2> QED BY <2>1, <2>2, <2>3
<1>2. api' \in [Ext -> ExtObj] /\ inflight' \in [Ext -> Seq(ExtObj)]
  BY <1>1, WriteTypes
<1>3. SpentType'
  BY <1>0, SpendType DEF UserCreate, UserEdit, UserDelete
<1>4. UNCHANGED <<cache, crd, manager, mode, listed, rec, todo, queued>>
  BY DEF UserCreate, UserEdit, UserDelete
<1>5. ManagerType' /\ ProcessType' /\ ClusterType'
  BY <1>0, <1>2, <1>4 DEF ManagerType, ProcessType, ClusterType, manager
<1> QED BY <1>3, <1>5 DEF TypeOK, ManagerType, ProcessType, ClusterType, SpentType, RecObj, PCs

LEMMA ReconcileType ==
  ASSUME TypeOK, Reconcile
  PROVE  ManagerType' /\ ProcessType' /\ ClusterType' /\ SpentType'
<1>0. ManagerType /\ ProcessType /\ ClusterType /\ SpentType
  BY TypeParts
<1> USE <1>0 DEF cluster, manager
<1>o. /\ rec.e \in Ext /\ rec.obj \in ExtObj
      /\ rec.pc # "idle" => Exists(rec.obj) /\ rec.obj.spec \in Specs
      /\ \A e \in Ext : api[e] \in ExtObj /\ cache[e] \in ExtObj
  BY ObjectsTyped DEF ProcessType
<1>1. CASE Start
  <2>1. PICK e \in queued :
          /\ queued' = queued \ {e}
          /\ LET o == cache[e]
                 pc == CASE ~Exists(o) -> "idle"
                         [] Exists(o) /\ ~o.deleting /\ ~o.finalizer -> "finalizer"
                         [] Exists(o) /\ ~o.deleting /\ o.finalizer -> "add"
                         [] Exists(o) /\ o.deleting /\ o.finalizer -> "remove"
                         [] Exists(o) /\ o.deleting /\ ~o.finalizer -> "idle"
             IN  rec' = IF pc = "idle" THEN Idle ELSE [pc |-> pc, e |-> e, obj |-> o]
    BY <1>1 DEF Start
  <2>2. e \in Ext /\ cache[e] \in ExtObj
    BY <1>o DEF ProcessType
  <2>3. \/ rec' = Idle
        \/ /\ Exists(cache[e])
           /\ \E pc \in {"finalizer", "add", "remove"} :
                rec' = [pc |-> pc, e |-> e, obj |-> cache[e]]
    <3>1. cache[e].deleting \in BOOLEAN /\ cache[e].finalizer \in BOOLEAN
      BY <2>2 DEF ExtObj
    <3> QED BY <2>1, <3>1
  <2>4. rec' \in RecObj /\ (rec'.pc # "idle" => Exists(rec'.obj))
    BY <2>2, <2>3, IdleType DEF RecObj, PCs
  <2>5. UNCHANGED <<cluster, crd, manager, mode, listed, todo, spent>>
    BY <1>1 DEF Start
  <2> QED BY <2>1, <2>4, <2>5 DEF ManagerType, ProcessType, ClusterType, SpentType
<1>2. CASE AddFinalizer
  <2>1. rec.pc # "idle"
    BY <1>2 DEF AddFinalizer, At
  <2> DEFINE o == [rec.obj EXCEPT !.finalizer = TRUE]
  <2>2. o \in ExtObj /\ Exists(o)
    BY <1>o, <2>1, Variants
  <2>3. UNCHANGED <<cache, crd, manager, mode, listed, todo>>
    BY <1>2 DEF AddFinalizer
  <2>4. /\ api' \in [Ext -> ExtObj] /\ inflight' \in [Ext -> Seq(ExtObj)]
        /\ Write(rec.e, o) => api'[rec.e] \in ExtObj /\ Exists(api'[rec.e])
    <3>1. Write(rec.e, o) => /\ api' \in [Ext -> ExtObj] /\ inflight' \in [Ext -> Seq(ExtObj)]
                             /\ api'[rec.e] \in ExtObj /\ Exists(api'[rec.e])
      BY <1>o, <2>2, WriteTypes
    <3>2. Write(rec.e, o) \/ UNCHANGED <<api, inflight>>
      BY <1>2 DEF AddFinalizer
    <3> QED BY <3>1, <3>2 DEF ClusterType
  <2>5. /\ rec' \in RecObj /\ (rec'.pc # "idle" => Exists(rec'.obj)) /\ queued' \subseteq Ext
    <3>1. (Write(rec.e, o) /\ Goto("add", api'[rec.e])) \/ ReturnErr
      BY <1>2 DEF AddFinalizer
    <3> QED BY <2>4, <3>1, WorkerType DEF PCs
  <2>6. SpentType'
    BY <1>2, FaultType DEF AddFinalizer, SpentType
  <2> QED BY <2>3, <2>4, <2>5, <2>6 DEF ManagerType, ProcessType, ClusterType
<1>3. CASE AddExtension
  <2>1. rec.pc # "idle"
    BY <1>3 DEF AddExtension, At
  <2>2. ManagerType'
    BY <1>3, <1>o, <2>1, ManagerStepType DEF AddExtension
  <2>3. /\ rec' \in RecObj /\ (rec'.pc # "idle" => Exists(rec'.obj)) /\ queued' \subseteq Ext
    <3>1. Goto("crds", rec.obj) \/ ReturnErr
      BY <1>3 DEF AddExtension
    <3> QED BY <1>o, <2>1, <3>1, WorkerType DEF PCs
  <2>4. SpentType' /\ todo' \subseteq Targets
    BY <1>3, SpendType DEF AddExtension, SpentType, ProcessType
  <2>5. UNCHANGED <<cluster, crd, mode, listed>>
    BY <1>3 DEF AddExtension
  <2> QED BY <2>2, <2>3, <2>4, <2>5 DEF ProcessType, ClusterType
<1>4. CASE UpdateCRD
  <2>1. rec.pc # "idle"
    BY <1>4 DEF UpdateCRD, At
  <2>2. /\ rec' \in RecObj /\ (rec'.pc # "idle" => Exists(rec'.obj)) /\ queued' \subseteq Ext
    <3>1. Goto("status", rec.obj) \/ Goto("crds", rec.obj) \/ ReturnErr
      BY <1>4 DEF UpdateCRD
    <3> QED BY <1>o, <2>1, <3>1, WorkerType DEF PCs
  <2>3. crd' \in [Targets -> (SUBSET Paths) \cup {NoCRD}]
    <3>1. \E t \in todo : crd' \in {crd, WithSchema(t)}
      BY <1>4 DEF UpdateCRD
    <3> QED BY <3>1, CRDType DEF ClusterType, ProcessType
  <2>4. SpentType' /\ todo' \subseteq Targets
    BY <1>4, FaultType DEF UpdateCRD, SpentType, ProcessType
  <2>5. UNCHANGED <<cluster, manager, mode, listed>>
    BY <1>4 DEF UpdateCRD
  <2> QED BY <2>2, <2>3, <2>4, <2>5 DEF ManagerType, ProcessType, ClusterType
<1>5. CASE WriteStatus
  <2>1. rec.pc # "idle"
    BY <1>5 DEF WriteStatus, At
  <2> DEFINE o == [rec.obj EXCEPT !.active = TRUE]
  <2>2. o \in ExtObj
    BY <1>o, Variants
  <2>3. UNCHANGED <<cache, crd, manager, mode, listed, todo>>
    BY <1>5 DEF WriteStatus
  <2>4. Write(rec.e, o) \/ UNCHANGED <<api, inflight>>
    BY <1>5 DEF WriteStatus
  <2>5. api' \in [Ext -> ExtObj] /\ inflight' \in [Ext -> Seq(ExtObj)]
    BY <1>o, <2>2, <2>4, WriteTypes DEF ClusterType
  <2>6. /\ rec' \in RecObj /\ (rec'.pc # "idle" => Exists(rec'.obj)) /\ queued' \subseteq Ext
    BY <1>5, WorkerType DEF WriteStatus
  <2>7. SpentType'
    BY <1>5, FaultType DEF WriteStatus, SpentType
  <2> QED BY <2>3, <2>5, <2>6, <2>7 DEF ManagerType, ProcessType, ClusterType
<1>6. CASE RemoveExtension
  <2>1. rec.pc # "idle"
    BY <1>6 DEF RemoveExtension, At
  <2>2. ManagerType'
    BY <1>6, <1>o, <2>1, ManagerStepType DEF RemoveExtension
  <2>3. /\ rec' \in RecObj /\ (rec'.pc # "idle" => Exists(rec'.obj)) /\ queued' \subseteq Ext
    BY <1>6, <1>o, <2>1, WorkerType DEF RemoveExtension, PCs
  <2>4. UNCHANGED <<cluster, crd, mode, listed, todo, spent>>
    BY <1>6 DEF RemoveExtension
  <2> QED BY <2>2, <2>3, <2>4 DEF ProcessType, ClusterType, SpentType
<1>7. CASE RemoveFinalizer
  <2>1. UNCHANGED <<cache, crd, manager, mode, listed, todo>>
    BY <1>7 DEF RemoveFinalizer
  <2>2. Write(rec.e, Gone(rec.e)) \/ UNCHANGED <<api, inflight>>
    BY <1>7 DEF RemoveFinalizer
  <2>3. api' \in [Ext -> ExtObj] /\ inflight' \in [Ext -> Seq(ExtObj)]
    BY <1>o, <2>2, GoneType, WriteTypes DEF ClusterType
  <2>4. /\ rec' \in RecObj /\ (rec'.pc # "idle" => Exists(rec'.obj)) /\ queued' \subseteq Ext
    BY <1>7, WorkerType DEF RemoveFinalizer
  <2>5. SpentType'
    BY <1>7, FaultType DEF RemoveFinalizer, SpentType
  <2> QED BY <2>1, <2>3, <2>4, <2>5 DEF ManagerType, ProcessType, ClusterType
<1> QED BY <1>1, <1>2, <1>3, <1>4, <1>5, <1>6, <1>7 DEF Reconcile

LEMMA BootType ==
  ASSUME TypeOK, Boot \/ Restart \/ \E e \in Ext : Deliver(e)
  PROVE  ManagerType' /\ ProcessType' /\ ClusterType' /\ SpentType'
<1>0. ManagerType /\ ProcessType /\ ClusterType /\ SpentType
  BY TypeParts
<1> USE <1>0 DEF cluster, manager
<1>p. Panic => ManagerType' /\ ProcessType' /\ ClusterType'
  BY NewProcessType DEF Panic, ClusterType
<1>1. CASE BootList
  <2>1. CASE Fault("list") /\ Panic
    BY <1>p, <2>1, FaultType
  <2>2. CASE /\ listed' = [e \in Ext |-> api[e].spec]
             /\ mode' = "add" /\ todo' = Targets
             /\ UNCHANGED <<cluster, crd, manager, rec, queued, spent>>
    <3>1. \A e \in Ext : api[e].spec \in Specs \cup {NoSpec}
      BY DEF ClusterType, ExtObj
    <3> QED BY <2>2, <3>1 DEF ManagerType, ProcessType, ClusterType, SpentType
  <2> QED BY <1>1, <2>1, <2>2 DEF BootList
<1>2. CASE BootAdd
  <2>1. PICK e \in Ext :
          /\ listed[e] # NoSpec
          /\ \/ /\ AddOk(e, listed[e])
                /\ listed' = [listed EXCEPT ![e] = NoSpec]
                /\ UNCHANGED <<cluster, crd, mode, rec, todo, queued, spent>>
             \/ /\ \E t \in TargetsOf[listed[e]] : Clash(t, e, listed[e])
                /\ Panic /\ UNCHANGED spent
             \/ /\ Faulty \cap {"dial", "init"} # {}
                /\ Spend("faults", MaxFaults)
                /\ Panic
    BY <1>2 DEF BootAdd
  <2>2. listed[e] \in Specs
    BY <2>1 DEF ProcessType
  <2>3. CASE /\ AddOk(e, listed[e])
             /\ listed' = [listed EXCEPT ![e] = NoSpec]
             /\ UNCHANGED <<cluster, crd, mode, rec, todo, queued, spent>>
    <3>1. ManagerType'
      BY <2>2, <2>3, ManagerStepType
    <3> QED BY <2>3, <3>1 DEF ProcessType, ClusterType, SpentType
  <2>4. CASE Panic /\ (UNCHANGED spent \/ Spend("faults", MaxFaults))
    BY <1>p, <2>4, SpendType DEF SpentType
  <2> QED BY <2>1, <2>3, <2>4
<1>3. CASE BootCRD
  <2>1. PICK t \in todo : crd' \in {crd, WithSchema(t)}
    BY <1>3 DEF BootCRD
  <2>2. crd' \in [Targets -> (SUBSET Paths) \cup {NoCRD}]
    BY <2>1, CRDType DEF ClusterType, ProcessType
  <2>3. CASE /\ todo' \subseteq todo
             /\ UNCHANGED <<cluster, manager, mode, listed, rec, queued, spent>>
    BY <2>2, <2>3 DEF ManagerType, ProcessType, ClusterType, SpentType
  <2>4. CASE Fault("crd") /\ NewProcess /\ UNCHANGED cluster
    BY <2>2, <2>4, NewProcessType, FaultType DEF ClusterType
  <2> QED BY <1>3, <2>3, <2>4 DEF BootCRD
<1>4. CASE BootDone
  BY <1>4 DEF BootDone, ManagerType, ProcessType, ClusterType, SpentType
<1>5. CASE Restart
  BY <1>5, NewProcessType, SpendType DEF Restart, ClusterType
<1>6. ASSUME NEW e \in Ext, Deliver(e)
      PROVE  ManagerType' /\ ProcessType' /\ ClusterType' /\ SpentType'
  <2>1. inflight[e] \in Seq(ExtObj) /\ inflight[e] # <<>>
    BY <1>6 DEF Deliver, ClusterType
  <2>2. Head(inflight[e]) \in ExtObj /\ Tail(inflight[e]) \in Seq(ExtObj)
    BY <2>1
  <2>3. /\ cache' = [cache EXCEPT ![e] = Head(inflight[e])]
        /\ inflight' = [inflight EXCEPT ![e] = Tail(inflight[e])]
        /\ queued' = queued \cup {e}
        /\ UNCHANGED <<api, crd, manager, mode, listed, rec, todo, spent>>
    BY <1>6 DEF Deliver
  <2> QED BY <2>2, <2>3 DEF ManagerType, ProcessType, ClusterType, SpentType
<1> QED BY <1>1, <1>2, <1>3, <1>4, <1>5, <1>6 DEF Boot

LEMMA TypeStart == Init => TypeOK
<1> SUFFICES ASSUME Init PROVE TypeOK
  OBVIOUS
<1>1. ManagerType
  BY PathsType, NothingType, RegistryAssumption DEF Init, ManagerType
<1>2. ProcessType
  BY NothingType, IdleType DEF Init, ProcessType
<1>3. ClusterType
  BY NoExtType DEF Init, ClusterType
<1>4. SpentType
  BY RegistryAssumption DEF Init, SpentType
<1> QED BY <1>1, <1>2, <1>3, <1>4, TypeParts

LEMMA TypeStep == TypeOK /\ [Next]_vars => TypeOK'
<1> SUFFICES ASSUME TypeOK, [Next]_vars PROVE TypeOK'
  OBVIOUS
<1> USE DEF TypeOK, ManagerType, ProcessType, ClusterType, SpentType, RecObj, PCs
<1>1. CASE User
  BY <1>1, UserType DEF User
<1>2. CASE Reconcile
  BY <1>2, ReconcileType
<1>3. CASE Boot \/ Restart \/ \E e \in Ext : Deliver(e)
  BY <1>3, BootType
<1>4. CASE UNCHANGED vars
  BY <1>4 DEF vars
<1> QED BY <1>1, <1>2, <1>3, <1>4 DEF Next

(***************************************************************************)
(* Every variable keeps its type, and the worker of the reconciler never   *)
(* acts on an object that it has not found.                                *)
(***************************************************************************)
THEOREM TypeCorrect == Spec => []TypeOK
<1> QED BY TypeStart, TypeStep, PTL DEF Spec

-----------------------------------------------------------------------------
(* The generator of one kind, with the schema S and the applied specs A.   *)

Assigned == [Ext -> Specs \cup {NoSpec}]
PathsAt(A, e) == IF A[e] = NoSpec THEN {} ELSE PathsOf[A[e]]
ClearedIn(S, A, e) == IF A[e] = NoSpec THEN S ELSE GenRemove(S, PathsOf[A[e]])

KindApart(t, A) ==
  \A e \in Ext : \A p \in PathsAt(A, e) :
    IsObject(p) \/ (p \notin Base[t] /\ \A f \in Ext \ {e} : p \notin PathsAt(A, f))
KindCovers(t, S, A) == Base[t] \subseteq S /\ \A e \in Ext : PathsAt(A, e) \subseteq S
KindExact(t, S, A) ==
  \A p \in S : \/ p \in Base[t] \/ \E e \in Ext : p \in PathsAt(A, e)
               \/ IsObject(p) /\ Kept(p, S)

(***************************************************************************)
(* Removing an extension takes nothing from the others, and leaves nothing *)
(* of its own but objects in an object that stays.                         *)
(***************************************************************************)
LEMMA RemoveOne ==
  ASSUME ObjectsHaveProperties,
         NEW t \in Targets, NEW S, NEW A \in Assigned, NEW e \in Ext,
         KindApart(t, A), KindCovers(t, S, A)
  PROVE  LET A0 == [A EXCEPT ![e] = NoSpec]
             S0 == ClearedIn(S, A, e)
         IN  /\ A0 \in Assigned /\ KindApart(t, A0) /\ KindCovers(t, S0, A0)
             /\ KindExact(t, S, A) => KindExact(t, S0, A0)
<1> DEFINE A0 == [A EXCEPT ![e] = NoSpec]
           S0 == ClearedIn(S, A, e)
           Others == {Base[t]} \cup {PathsAt(A, f) : f \in Ext \ {e}}
<1>1. /\ A0 \in Assigned /\ PathsAt(A0, e) = {}
      /\ \A f \in Ext \ {e} : PathsAt(A0, f) = PathsAt(A, f)
  BY DEF Assigned, PathsAt
<1>2. \A P \in Others : OwnProperties(P)
  <2>1. OwnProperties({})
    BY DEF OwnProperties
  <2>2. \A f \in Ext : PathsAt(A, f) = {} \/ PathsAt(A, f) \in AllSchemas
    BY DEF PathsAt, Assigned, AllSchemas
  <2>3. Base[t] \in AllSchemas
    BY DEF AllSchemas
  <2> QED BY <2>1, <2>2, <2>3 DEF ObjectsHaveProperties
<1>3. CASE A[e] = NoSpec
  <2>1. A0 = A /\ S0 = S
    BY <1>3 DEF Assigned, ClearedIn
  <2> QED BY <1>1, <2>1
<1>4. CASE A[e] # NoSpec
  <2> DEFINE in == PathsOf[A[e]]
  <2>1. S0 = GenRemove(S, in) /\ in = PathsAt(A, e)
    BY <1>4 DEF ClearedIn, PathsAt
  <2> HIDE DEF S0, in
  <2>2. ASSUME NEW P \in Others PROVE P \subseteq S0
    <3>1. P \subseteq S
      BY DEF KindCovers
    <3>2. \A p \in P : IsObject(p) \/ p \notin in
      BY <2>1 DEF KindApart
    <3> QED BY <1>2, <2>1, <3>1, <3>2, RemoveKeeps
  <2>3. KindCovers(t, S0, A0)
    <3>1. Base[t] \subseteq S0
      BY <2>2
    <3>2. ASSUME NEW f \in Ext \ {e} PROVE PathsAt(A0, f) \subseteq S0
      BY <1>1, <2>2
    <3> QED BY <1>1, <3>1, <3>2 DEF KindCovers
  <2>4. KindApart(t, A0)
    BY <1>1 DEF KindApart
  <2>5. ASSUME KindExact(t, S, A) PROVE KindExact(t, S0, A0)
    <3> SUFFICES ASSUME NEW p \in S0
                 PROVE  \/ p \in Base[t] \/ \E f \in Ext : p \in PathsAt(A0, f)
                        \/ IsObject(p) /\ Kept(p, S0)
      BY DEF KindExact
    <3>1. CASE in = {}
      <4>1. S0 = S
        BY <2>1, <3>1 DEF GenRemove
      <4> QED BY <1>1, <2>1, <2>5, <3>1, <4>1 DEF KindExact
    <3>2. CASE in # {}
      <4>1. p \in S /\ (IsObject(p) \/ p \notin in) /\ Kept(p, S0)
        BY <2>1, <3>2, RemoveLeaves
      <4>2. CASE IsObject(p)
        BY <4>1, <4>2
      <4>3. CASE ~IsObject(p)
        <5>1. p \in Base[t] \/ \E f \in Ext : p \in PathsAt(A, f)
          BY <2>5, <4>1, <4>3 DEF KindExact
        <5> QED BY <1>1, <2>1, <4>1, <4>3, <5>1
      <4> QED BY <4>2, <4>3
    <3> QED BY <3>1, <3>2
  <2> QED BY <1>1, <2>3, <2>4, <2>5 DEF S0
<1> QED BY <1>3, <1>4

(***************************************************************************)
(* Adding an extension that clashes with nothing.                          *)
(***************************************************************************)
LEMMA AddOne ==
  ASSUME NEW t \in Targets, NEW S, NEW A \in Assigned, NEW e \in Ext, NEW s \in Specs,
         A[e] = NoSpec, KindApart(t, A), KindCovers(t, S, A), Clashes(S, PathsOf[s]) = {}
  PROVE  LET A1 == [A EXCEPT ![e] = s]
             S1 == S \cup PathsOf[s]
         IN  /\ KindApart(t, A1) /\ KindCovers(t, S1, A1)
             /\ KindExact(t, S, A) => KindExact(t, S1, A1)
<1> DEFINE A1 == [A EXCEPT ![e] = s]
           S1 == S \cup PathsOf[s]
<1>1. /\ PathsAt(A1, e) = PathsOf[s]
      /\ \A f \in Ext \ {e} : PathsAt(A1, f) = PathsAt(A, f)
  BY RegistryAssumption DEF Assigned, PathsAt
<1>2. PathsAt(A, e) = {}
  BY DEF PathsAt
<1> HIDE DEF A1
<1>3. KindCovers(t, S1, A1)
  BY <1>1 DEF KindCovers
<1>4. KindApart(t, A1)
  <2>1. \A p \in PathsOf[s] : IsObject(p) \/ p \notin S
    BY DEF Clashes
  <2>2. \A p \in PathsOf[s] : IsObject(p) \/ (p \notin Base[t] /\ \A f \in Ext : p \notin PathsAt(A, f))
    BY <2>1 DEF KindCovers
  <2> QED BY <1>1, <2>2 DEF KindApart
<1>5. ASSUME KindExact(t, S, A) PROVE KindExact(t, S1, A1)
  <2> SUFFICES ASSUME NEW p \in S1
               PROVE  \/ p \in Base[t] \/ \E f \in Ext : p \in PathsAt(A1, f)
                      \/ IsObject(p) /\ Kept(p, S1)
    BY DEF KindExact
  <2>1. CASE p \in PathsOf[s]
    BY <1>1, <2>1
  <2>2. CASE p \in S
    <3>1. Kept(p, S) => Kept(p, S1)
      BY DEF Kept
    <3> QED BY <1>1, <1>2, <1>5, <2>2, <3>1 DEF KindExact
  <2> QED BY <2>1, <2>2
<1> QED BY <1>3, <1>4, <1>5 DEF A1

-----------------------------------------------------------------------------
(* The schemas of all kinds. *)

KindInv(t, S, A, exact) ==
  KindApart(t, A) /\ KindCovers(t, S, A) /\ (exact => KindExact(t, S, A))

SchemaInv == \A t \in Targets : KindInv(t, schema[t], applied[t], ~clashed)

(***************************************************************************)
(* The two things that ExtensionManager does to a kind.                    *)
(***************************************************************************)
LEMMA KindRemoves ==
  ASSUME ObjectsHaveProperties, ManagerType, SchemaInv,
         NEW t \in Targets, NEW e \in Ext
  PROVE  KindInv(t, Cleared(t, e), [applied[t] EXCEPT ![e] = NoSpec], ~clashed)
<1>1. applied[t] \in Assigned
  BY DEF ManagerType, Assigned
<1>2. Cleared(t, e) = ClearedIn(schema[t], applied[t], e)
  BY DEF Cleared, ClearedIn
<1> QED BY <1>1, <1>2, RemoveOne DEF SchemaInv, KindInv

LEMMA KindAdds ==
  ASSUME ObjectsHaveProperties, ManagerType, SchemaInv,
         NEW t \in Targets, NEW e \in Ext, NEW s \in Specs, ~Clash(t, e, s)
  PROVE  KindInv(t, Cleared(t, e) \cup PathsOf[s], [applied[t] EXCEPT ![e] = s], ~clashed)
<1> DEFINE A0 == [applied[t] EXCEPT ![e] = NoSpec]
<1>1. A0 \in Assigned /\ A0[e] = NoSpec
  BY DEF ManagerType, Assigned
<1>2. KindInv(t, Cleared(t, e), A0, ~clashed)
  BY KindRemoves
<1>3. [applied[t] EXCEPT ![e] = s] = [A0 EXCEPT ![e] = s]
  BY DEF ManagerType, Assigned
<1> HIDE DEF A0
<1>4. KindInv(t, Cleared(t, e) \cup PathsOf[s], [A0 EXCEPT ![e] = s], ~clashed)
  BY <1>1, <1>2, AddOne DEF KindInv, Clash
<1> QED BY <1>3, <1>4

LEMMA ManagerStepSchema ==
  ASSUME ObjectsHaveProperties, ManagerType, SchemaInv, NEW e \in Ext, NEW s \in Specs,
         AddOk(e, s) \/ AddClash(e, s) \/ AddFault(e, s) \/ Remove(e, s)
  PROVE  SchemaInv'
<1>0. TargetsOf[s] \subseteq Targets
  BY RegistryAssumption
<1>1. ASSUME NEW ts \in SUBSET Targets, \A t \in ts : ~Clash(t, e, s), NEW t \in Targets
      PROVE  KindInv(t, AddedTo(ts, e, s)[t], AppliedTo(ts, e, s)[t], ~clashed)
  <2>1. CASE t \in ts
    BY <1>1, <2>1, KindAdds DEF AddedTo, AppliedTo
  <2>2. CASE t \notin ts
    BY <1>1, <2>2 DEF AddedTo, AppliedTo, SchemaInv
  <2> QED BY <2>1, <2>2
<1>2. CASE AddOk(e, s)
  <2>1. /\ \A t \in TargetsOf[s] : ~Clash(t, e, s)
        /\ schema' = AddedTo(TargetsOf[s], e, s)
        /\ applied' = AppliedTo(TargetsOf[s], e, s)
        /\ clashed' = clashed
    BY <1>2 DEF AddOk
  <2> QED BY <1>0, <1>1, <2>1 DEF SchemaInv
<1>3. CASE AddClash(e, s)
  <2>1. PICK f \in TargetsOf[s] : \E done \in SUBSET (TargetsOf[s] \ {f}) :
          /\ \A t \in done : ~Clash(t, e, s)
          /\ \E sch \in PartialAdds(Cleared(f, e), PathsOf[s]) :
               schema' = [AddedTo(done, e, s) EXCEPT ![f] = sch]
          /\ applied' = [AppliedTo(done, e, s) EXCEPT ![f][e] = NoSpec]
          /\ clashed' = TRUE
    BY <1>3 DEF AddClash
  <2>2. PICK done \in SUBSET (TargetsOf[s] \ {f}),
             sch \in PartialAdds(Cleared(f, e), PathsOf[s]) :
          /\ \A t \in done : ~Clash(t, e, s)
          /\ schema' = [AddedTo(done, e, s) EXCEPT ![f] = sch]
          /\ applied' = [AppliedTo(done, e, s) EXCEPT ![f][e] = NoSpec]
          /\ clashed' = TRUE
    BY <2>1
  <2>3. f \in Targets /\ done \subseteq Targets /\ f \notin done
    BY <1>0, <2>2
  <2>4. DOMAIN AddedTo(done, e, s) = Targets /\ DOMAIN AppliedTo(done, e, s) = Targets
    BY DEF AddedTo, AppliedTo
  <2>5. ASSUME NEW t \in Targets, t # f
        PROVE  KindInv(t, schema'[t], applied'[t], ~clashed')
    <3>1. schema'[t] = AddedTo(done, e, s)[t] /\ applied'[t] = AppliedTo(done, e, s)[t]
      BY <2>2, <2>4, <2>5
    <3> QED BY <1>1, <2>2, <2>3, <3>1 DEF KindInv
  <2>6. KindInv(f, schema'[f], applied'[f], ~clashed')
    <3> DEFINE A0 == [applied[f] EXCEPT ![e] = NoSpec]
    <3>1. schema'[f] = sch /\ Cleared(f, e) \subseteq sch
      BY <2>2, <2>3, <2>4, PartialAddsGrow
    <3>2. AppliedTo(done, e, s)[f] = applied[f]
      BY <2>3 DEF AppliedTo
    <3>3. applied'[f] = A0
      BY <2>2, <2>3, <2>4, <3>2
    <3>4. KindInv(f, Cleared(f, e), A0, ~clashed)
      BY <2>3, KindRemoves
    <3> QED BY <2>2, <3>1, <3>3, <3>4 DEF KindInv, KindCovers
  <2> QED BY <2>5, <2>6 DEF SchemaInv
<1>4. CASE AddFault(e, s)
  <2>1. PICK ts \in SUBSET TargetsOf[s] :
          /\ \A t \in ts : ~Clash(t, e, s)
          /\ schema' = AddedTo(ts, e, s) /\ applied' = AppliedTo(ts, e, s)
          /\ clashed' = clashed
    BY <1>4 DEF AddFault
  <2> QED BY <1>0, <1>1, <2>1 DEF SchemaInv
<1>5. CASE Remove(e, s)
  <2>1. ASSUME NEW t \in Targets
        PROVE  KindInv(t, schema'[t], applied'[t], ~clashed')
    <3>1. CASE t \in TargetsOf[s]
      BY <1>5, <3>1, KindRemoves DEF Remove, AppliedTo
    <3>2. CASE t \notin TargetsOf[s]
      BY <1>5, <3>2 DEF Remove, AppliedTo, SchemaInv
    <3> QED BY <3>1, <3>2
  <2> QED BY <2>1 DEF SchemaInv
<1> QED BY <1>2, <1>3, <1>4, <1>5

(***************************************************************************)
(* A new process has the base schemas, and nothing applied.                *)
(***************************************************************************)
LEMMA FreshSchema ==
  ASSUME NEW t \in Targets, NEW exact
  PROVE  KindInv(t, Base[t], Nothing, exact)
<1>1. \A e \in Ext : PathsAt(Nothing, e) = {}
  BY DEF PathsAt, Nothing
<1> QED BY <1>1 DEF KindInv, KindApart, KindCovers, KindExact

LEMMA SchemaStep ==
  ASSUME ObjectsHaveProperties, TypeOK, SchemaInv, [Next]_vars
  PROVE  SchemaInv'
<1>0. ManagerType /\ ProcessType /\ ClusterType
  BY TypeParts
<1>1. CASE UNCHANGED <<schema, applied, clashed>>
  BY <1>1 DEF SchemaInv
<1>2. ASSUME NEW e \in Ext, NEW s \in Specs,
             AddOk(e, s) \/ AddClash(e, s) \/ AddFault(e, s) \/ Remove(e, s)
      PROVE  SchemaInv'
  BY <1>0, <1>2, ManagerStepSchema
<1>3. CASE NewProcess
  <2>1. \A t \in Targets : schema'[t] = Base[t] /\ applied'[t] = Nothing
    BY <1>3 DEF NewProcess, NewExtensionManager
  <2> QED BY <2>1, FreshSchema DEF SchemaInv
<1>4. CASE AddExtension
  BY <1>0, <1>2, <1>4, ObjectsTyped DEF AddExtension, At
<1>5. CASE RemoveExtension
  BY <1>0, <1>2, <1>5, ObjectsTyped DEF RemoveExtension, At
<1>6. CASE BootAdd
  <2>1. PICK e \in Ext : listed[e] # NoSpec /\ (AddOk(e, listed[e]) \/ NewProcess)
    BY <1>6 DEF BootAdd, Panic
  <2> QED BY <1>0, <1>2, <1>3, <2>1 DEF ProcessType
<1> USE DEF cluster, manager
<1>7. CASE Start \/ AddFinalizer \/ UpdateCRD \/ WriteStatus \/ RemoveFinalizer
  BY <1>1, <1>7 DEF Start, AddFinalizer, UpdateCRD, WriteStatus, RemoveFinalizer
<1>8. CASE User
  BY <1>1, <1>8 DEF User, UserCreate, UserEdit, UserDelete
<1>9. CASE \E e \in Ext : Deliver(e)
  BY <1>1, <1>9 DEF Deliver
<1>10. CASE BootList \/ BootCRD \/ BootDone \/ Restart
  BY <1>1, <1>3, <1>10 DEF BootList, BootCRD, BootDone, Restart, Panic
<1>11. CASE UNCHANGED vars
  BY <1>1, <1>11 DEF vars
<1> QED BY <1>4, <1>5, <1>6, <1>7, <1>8, <1>9, <1>10, <1>11 DEF Next, Reconcile, Boot

(***************************************************************************)
(* The invariant of the generators: the applied schemas and the base       *)
(* schema have no field in common, all of them are in the schema, and as   *)
(* long as nothing has clashed nothing else is but objects in an object    *)
(* with properties.                                                        *)
(***************************************************************************)
THEOREM SchemaInvariant ==
  ASSUME ObjectsHaveProperties
  PROVE  Spec => [](TypeOK /\ SchemaInv)
<1>1. Init => SchemaInv
  BY FreshSchema DEF Init, SchemaInv
<1>2. TypeOK /\ SchemaInv /\ [Next]_vars => SchemaInv'
  BY SchemaStep
<1> QED BY <1>1, <1>2, TypeCorrect, PTL DEF Spec

LEMMA InvariantParts ==
  ASSUME TypeOK, SchemaInv
  PROVE  FieldsApart /\ SchemaCovers /\ SchemaExact
<1>1. \A t \in Targets, e \in Ext : AppliedPaths(t, e) = PathsAt(applied[t], e)
  BY DEF AppliedPaths, PathsAt
<1>2. FieldsApart
  BY <1>1 DEF SchemaInv, KindInv, KindApart, FieldsApart
<1>3. SchemaCovers
  BY <1>1 DEF SchemaInv, KindInv, KindCovers, SchemaCovers
<1>4. SchemaExact
  <2> SUFFICES ASSUME ~clashed, NEW t \in Targets
               PROVE  /\ Due(t) \subseteq schema[t]
                      /\ \A p \in schema[t] \ Due(t) : IsObject(p) /\ Kept(p, schema[t])
    BY DEF SchemaExact
  <2>1. \A p : p \in Due(t) <=> p \in Base[t] \/ \E e \in Ext : p \in PathsAt(applied[t], e)
    BY <1>1 DEF Due
  <2>2. Due(t) \subseteq schema[t]
    BY <1>1, <1>3, <2>1 DEF SchemaCovers
  <2>3. \A p \in schema[t] \ Due(t) : IsObject(p) /\ Kept(p, schema[t])
    BY <2>1 DEF SchemaInv, KindInv, KindExact
  <2> QED BY <2>2, <2>3
<1> QED BY <1>2, <1>3, <1>4

(***************************************************************************)
(* A field that is not an object belongs to one extension or to the base   *)
(* schema: Generator.add refuses it a second owner.                        *)
(***************************************************************************)
THEOREM FieldsStayApart ==
  ASSUME ObjectsHaveProperties
  PROVE  Spec => []FieldsApart
BY SchemaInvariant, InvariantParts, PTL

(***************************************************************************)
(* Generator.remove and the clean-up of its objects, and an add that fails *)
(* in the middle, never take a field of the base schema or of a schema     *)
(* that is applied.                                                        *)
(***************************************************************************)
THEOREM NothingIsTaken ==
  ASSUME ObjectsHaveProperties
  PROVE  Spec => []SchemaCovers
BY SchemaInvariant, InvariantParts, PTL

(***************************************************************************)
(* A process that has seen no clash has in each kind the base schema and   *)
(* the schemas that are applied; of those that are not, it has no field    *)
(* and no object at the top without properties: what the clean-up leaves   *)
(* behind are objects in an object, with the one at the top.               *)
(***************************************************************************)
THEOREM NothingIsLeft ==
  ASSUME ObjectsHaveProperties
  PROVE  Spec => []SchemaExact
BY SchemaInvariant, InvariantParts, PTL

-----------------------------------------------------------------------------
(* The copies of an object, and the worker of the reconciler.              *)

(***************************************************************************)
(* The inductive invariant, one conjunct per question that a step asks:    *)
(* what an object may look like, in which order its copies travel, what    *)
(* the worker knows of its own copy, what a registered extension is held   *)
(* by, and what has been done for an extension that nobody will look at    *)
(* again.                                                                  *)
(***************************************************************************)
WellFormed(o) == (o.deleting => o.finalizer) /\ (o.finalizer => Exists(o))

ObjectsWellFormed ==
  /\ \A e \in Ext : /\ WellFormed(api[e]) /\ WellFormed(cache[e])
                    /\ \A i \in 1..Len(inflight[e]) : WellFormed(inflight[e][i])
  /\ rec.pc # "idle" => WellFormed(rec.obj)

OrderedAt(e) ==
  /\ cache[e].rv <= api[e].rv
  /\ \A i \in 1..Len(inflight[e]) :
       /\ cache[e].rv < inflight[e][i].rv /\ inflight[e][i].rv <= api[e].rv
       /\ \A j \in 1..Len(inflight[e]) : i < j => inflight[e][i].rv < inflight[e][j].rv
  /\ inflight[e] = <<>> => cache[e] = api[e]
  /\ inflight[e] # <<>> => inflight[e][Len(inflight[e])] = api[e]

CopiesOrdered == mode = "running" => \A e \in Ext : OrderedAt(e)

WorkerInv ==
  rec.pc # "idle" =>
    /\ mode = "running"
    /\ rec.obj.rv <= api[rec.e].rv
    /\ rec.obj.rv = api[rec.e].rv => rec.obj = api[rec.e]
    /\ rec.pc \in {"remove", "unfinalize"} =>
         rec.obj.deleting /\ rec.obj.rv <= cache[rec.e].rv
    /\ rec.pc \notin {"remove", "unfinalize"} => ~rec.obj.deleting
    /\ rec.pc \in {"add", "crds", "status"} => rec.obj.finalizer

\* A copy that makes the worker register its extension.
Invites(o) == o.finalizer /\ ~o.deleting

HeldAt(e) ==
  /\ registered[e] # NoSpec => api[e].finalizer
  /\ Invites(cache[e]) => api[e].finalizer
  /\ \A i \in 1..Len(inflight[e]) : Invites(inflight[e][i]) => api[e].finalizer

HeldInv ==
  spent.restarts = 0 =>
    /\ mode # "running" =>
         \A e \in Ext : ~Exists(api[e]) /\ registered[e] = NoSpec /\ listed[e] = NoSpec
    /\ mode = "running" => \A e \in Ext : HeldAt(e)
    /\ rec.pc \in {"add", "crds", "status"} => api[rec.e].finalizer
    /\ rec.pc = "unfinalize" => registered[rec.e] = NoSpec

Added(e, s, rest) ==
  /\ TargetsOf[s] # {} => registered[e] = s
  /\ \A t \in TargetsOf[s] : applied[t][e] = s /\ (t \in rest \/ PathsOf[s] \subseteq crd[t])

Settled(e) == e \notin queued /\ inflight[e] = <<>> /\ ~(rec.pc # "idle" /\ rec.e = e)

ServedAt(e) ==
  Settled(e) /\ Exists(api[e]) =>
    ~api[e].deleting /\ api[e].active /\ Added(e, api[e].spec, {})

ServedInv ==
  mode = "running" /\ ~clashed =>
    /\ \A e \in Ext : ServedAt(e)
    /\ rec.pc \in {"crds", "status"} => Added(rec.e, rec.obj.spec, todo)
    /\ rec.pc = "status" => todo = {}

(***************************************************************************)
(* Sequences of copies, with one more and one less.                        *)
(***************************************************************************)
LEMMA Appended ==
  ASSUME NEW q \in Seq(ExtObj), NEW x \in ExtObj
  PROVE  /\ Len(Append(q, x)) = Len(q) + 1 /\ Append(q, x)[Len(q) + 1] = x
         /\ \A i \in 1..Len(q) : Append(q, x)[i] = q[i]
         /\ Append(q, x) # <<>> /\ Len(q) \in Nat
OBVIOUS

LEMMA Tailed ==
  ASSUME NEW q \in Seq(ExtObj), q # <<>>
  PROVE  /\ Len(q) \in Nat \ {0} /\ Len(Tail(q)) = Len(q) - 1 /\ Head(q) = q[1]
         /\ \A i \in 1..Len(q) - 1 : Tail(q)[i] = q[i + 1]
         /\ \A i \in 1..Len(q) : q[i] \in ExtObj
         /\ (Tail(q) = <<>>) <=> (Len(q) = 1)
<1>1. Len(q) \in Nat \ {0}
  OBVIOUS
<1>2. Len(Tail(q)) = Len(q) - 1 /\ Head(q) = q[1]
  OBVIOUS
<1>3. \A i \in 1..Len(q) - 1 : Tail(q)[i] = q[i + 1]
  OBVIOUS
<1>4. \A i \in 1..Len(q) : q[i] \in ExtObj
  OBVIOUS
<1>5. Tail(q) \in Seq(ExtObj)
  OBVIOUS
<1>6. (Tail(q) = <<>>) <=> (Len(Tail(q)) = 0)
  BY <1>5, EmptySeq
<1> QED BY <1>1, <1>2, <1>3, <1>4, <1>6

(***************************************************************************)
(* What Write does to the object it writes, and to the others.             *)
(***************************************************************************)
LEMMA WriteEffect ==
  ASSUME TypeOK, NEW e \in Ext, NEW o \in ExtObj, Write(e, o)
  PROVE  /\ \A f \in Ext \ {e} : api'[f] = api[f] /\ inflight'[f] = inflight[f]
         /\ \/ o = api[e] /\ api' = api /\ inflight' = inflight
            \/ /\ api'[e] \in ExtObj /\ api'[e].rv = api[e].rv + 1
               /\ api'[e].spec = o.spec /\ api'[e].deleting = o.deleting
               /\ api'[e].finalizer = o.finalizer /\ api'[e].active = o.active
               /\ mode = "running" => inflight'[e] = Append(inflight[e], api'[e])
<1>0. /\ api \in [Ext -> ExtObj] /\ inflight \in [Ext -> Seq(ExtObj)]
      /\ api[e].rv + 1 \in Nat
  <2>1. api \in [Ext -> ExtObj] /\ inflight \in [Ext -> Seq(ExtObj)]
    BY DEF TypeOK
  <2>2. api[e].rv \in Nat
    BY <2>1 DEF ExtObj
  <2> QED BY <2>1, <2>2
<1>1. CASE o = api[e]
  BY <1>1 DEF Write
<1>2. CASE o # api[e]
  <2> DEFINE new == [o EXCEPT !.rv = api[e].rv + 1]
  <2>1. /\ new \in ExtObj /\ new.rv = api[e].rv + 1 /\ new.spec = o.spec
        /\ new.deleting = o.deleting /\ new.finalizer = o.finalizer /\ new.active = o.active
    <3> SUFFICES ASSUME NEW n \in Nat
                 PROVE  LET x == [o EXCEPT !.rv = n]
                        IN  /\ x \in ExtObj /\ x.rv = n /\ x.spec = o.spec
                            /\ x.deleting = o.deleting /\ x.finalizer = o.finalizer
                            /\ x.active = o.active
      BY <1>0
    <3> QED BY DEF ExtObj
  <2>2. api' = [api EXCEPT ![e] = new]
    BY <1>2 DEF Write
  <2>3. inflight' = IF mode = "running"
                    THEN [inflight EXCEPT ![e] = Append(inflight[e], new)] ELSE inflight
    BY <1>2 DEF Write
  <2> HIDE DEF new
  <2>4. api'[e] = new /\ \A f \in Ext \ {e} : api'[f] = api[f]
    BY <1>0, <2>2
  <2>5. \A f \in Ext \ {e} : inflight'[f] = inflight[f]
    BY <1>0, <2>3
  <2>6. mode = "running" => inflight'[e] = Append(inflight[e], new)
    BY <1>0, <2>3
  <2> QED BY <2>1, <2>4, <2>5, <2>6
<1> QED BY <1>1, <1>2

(***************************************************************************)
(* What a step does to the objects of the cluster and their copies.        *)
(***************************************************************************)
LEMMA ClusterSteps ==
  ASSUME TypeOK, ObjectsWellFormed, Next
  PROVE  \/ UNCHANGED cluster /\ (mode' = mode \/ mode' # "running")
         \/ \E e \in Ext, o \in ExtObj :
              WellFormed(o) /\ Write(e, o) /\ UNCHANGED <<cache, mode>>
         \/ \E e \in Ext : Deliver(e)
         \/ BootDone
<1>0. ProcessType /\ ClusterType
  BY TypeParts
<1>o. /\ rec.e \in Ext /\ rec.obj \in ExtObj
      /\ rec.pc # "idle" => Exists(rec.obj) /\ WellFormed(rec.obj)
      /\ \A e \in Ext : api[e] \in ExtObj /\ WellFormed(api[e])
  BY <1>0, ObjectsTyped DEF ProcessType, ObjectsWellFormed
<1>v. ASSUME NEW o \in ExtObj, WellFormed(o)
      PROVE  /\ \A s \in Specs : [o EXCEPT !.spec = s] \in ExtObj /\ WellFormed([o EXCEPT !.spec = s])
             /\ o.finalizer => WellFormed([o EXCEPT !.deleting = TRUE])
             /\ Exists(o) => WellFormed([o EXCEPT !.finalizer = TRUE])
             /\ WellFormed([o EXCEPT !.active = TRUE])
  BY <1>v, RegistryAssumption DEF WellFormed, Exists, ExtObj
<1>g. \A e \in Ext : Gone(e) \in ExtObj /\ WellFormed(Gone(e))
  <2>1. \A e \in Ext : api[e].rv \in Nat
    BY <1>o DEF ExtObj
  <2> QED BY <2>1 DEF Gone, NoExt, ExtObj, WellFormed, Exists
<1>1. ASSUME NEW e \in Ext, UserCreate(e) \/ UserEdit(e) \/ UserDelete(e)
      PROVE  \E o \in ExtObj : WellFormed(o) /\ Write(e, o) /\ UNCHANGED <<cache, mode>>
  <2>1. UNCHANGED <<cache, mode>>
    BY <1>1 DEF UserCreate, UserEdit, UserDelete
  <2>2. CASE UserCreate(e)
    <3>1. PICK s \in SpecsOf[e] : Write(e, [Gone(e) EXCEPT !.spec = s])
      BY <2>2 DEF UserCreate
    <3> QED BY <1>g, <1>v, <2>1, <3>1, RegistryAssumption
  <2>3. CASE UserEdit(e)
    <3>1. PICK s \in SpecsOf[e] : Write(e, [api[e] EXCEPT !.spec = s])
      BY <2>3 DEF UserEdit
    <3> QED BY <1>o, <1>v, <2>1, <3>1, RegistryAssumption
  <2>4. CASE UserDelete(e)
    <3>1. CASE api[e].finalizer
      <4>1. Write(e, [api[e] EXCEPT !.deleting = TRUE])
        BY <2>4, <3>1 DEF UserDelete
      <4>2. [api[e] EXCEPT !.deleting = TRUE] \in ExtObj
        BY <1>o, Variants
      <4> QED BY <1>o, <1>v, <2>1, <3>1, <4>1, <4>2
    <3>2. CASE ~api[e].finalizer
      BY <1>g, <2>1, <2>4, <3>2 DEF UserDelete
    <3> QED BY <3>1, <3>2
  <2> QED BY <1>1, <2>2, <2>3, <2>4
<1>2. CASE Start \/ AddExtension \/ UpdateCRD \/ RemoveExtension
  BY <1>2 DEF Start, AddExtension, UpdateCRD, RemoveExtension
<1>3. CASE AddFinalizer
  <2>1. UNCHANGED <<cache, mode>> /\ rec.pc # "idle"
    BY <1>3 DEF AddFinalizer, At
  <2>2. [rec.obj EXCEPT !.finalizer = TRUE] \in ExtObj
    BY <1>o, Variants
  <2>3. Write(rec.e, [rec.obj EXCEPT !.finalizer = TRUE]) \/ UNCHANGED <<api, inflight>>
    BY <1>3 DEF AddFinalizer
  <2> QED BY <1>o, <1>v, <2>1, <2>2, <2>3 DEF cluster
<1>4. CASE WriteStatus
  <2>1. UNCHANGED <<cache, mode>> /\ rec.pc # "idle"
    BY <1>4 DEF WriteStatus, At
  <2>2. [rec.obj EXCEPT !.active = TRUE] \in ExtObj
    BY <1>o, Variants
  <2>3. Write(rec.e, [rec.obj EXCEPT !.active = TRUE]) \/ UNCHANGED <<api, inflight>>
    BY <1>4 DEF WriteStatus
  <2> QED BY <1>o, <1>v, <2>1, <2>2, <2>3 DEF cluster
<1>5. CASE RemoveFinalizer
  <2>1. UNCHANGED <<cache, mode>>
    BY <1>5 DEF RemoveFinalizer
  <2>2. Write(rec.e, Gone(rec.e)) \/ UNCHANGED <<api, inflight>>
    BY <1>5 DEF RemoveFinalizer
  <2> QED BY <1>o, <1>g, <2>1, <2>2 DEF cluster
<1>6. CASE BootList \/ BootAdd \/ BootCRD \/ Restart
  BY <1>6 DEF BootList, BootAdd, BootCRD, Restart, Panic, NewProcess
<1> QED BY <1>1, <1>2, <1>3, <1>4, <1>5, <1>6 DEF Next, User, Reconcile, Boot

(***************************************************************************)
(* Copies travel in the order of their versions, and the newest of them is *)
(* what the API server has.                                                *)
(***************************************************************************)
LEMMA OrderTypes ==
  ASSUME TypeOK, NEW e \in Ext
  PROVE  /\ cache[e] \in ExtObj /\ api[e] \in ExtObj /\ inflight[e] \in Seq(ExtObj)
         /\ cache[e].rv \in Nat /\ api[e].rv \in Nat /\ Len(inflight[e]) \in Nat
         /\ \A i \in 1..Len(inflight[e]) : inflight[e][i] \in ExtObj /\ inflight[e][i].rv \in Nat
<1>1. cache[e] \in ExtObj /\ api[e] \in ExtObj /\ inflight[e] \in Seq(ExtObj)
  BY DEF TypeOK
<1>2. Len(inflight[e]) \in Nat /\ \A i \in 1..Len(inflight[e]) : inflight[e][i] \in ExtObj
  BY <1>1
<1>3. \A o \in ExtObj : o.rv \in Nat
  BY DEF ExtObj
<1> QED BY <1>1, <1>2, <1>3

LEMMA OrderAppended ==
  ASSUME TypeOK, NEW e \in Ext, OrderedAt(e),
         api'[e] \in ExtObj, api'[e].rv = api[e].rv + 1, cache' = cache,
         inflight'[e] = Append(inflight[e], api'[e])
  PROVE  OrderedAt(e)'
<1> DEFINE q == inflight[e]  x == api'[e]  n == Len(inflight[e])
<1>1. /\ n \in Nat /\ Len(inflight'[e]) = n + 1 /\ inflight'[e] # <<>>
      /\ inflight'[e][n + 1] = x /\ \A i \in 1..n : inflight'[e][i] = q[i]
  BY OrderTypes, Appended
<1>2. /\ cache[e].rv \in Nat /\ api[e].rv \in Nat /\ x.rv = api[e].rv + 1
      /\ \A i \in 1..n : q[i].rv \in Nat
  BY OrderTypes
<1>3. /\ cache[e].rv <= api[e].rv
      /\ \A i \in 1..n : cache[e].rv < q[i].rv /\ q[i].rv <= api[e].rv
      /\ \A i, j \in 1..n : i < j => q[i].rv < q[j].rv
  BY DEF OrderedAt
<1> HIDE DEF q, x, n
<1>4. ASSUME NEW i \in 1..n + 1
      PROVE  /\ cache[e].rv < inflight'[e][i].rv /\ inflight'[e][i].rv <= x.rv
             /\ \A j \in 1..n + 1 : i < j => inflight'[e][i].rv < inflight'[e][j].rv
  <2>1. CASE i \in 1..n
    <3>1. ASSUME NEW j \in 1..n + 1, i < j
          PROVE  inflight'[e][i].rv < inflight'[e][j].rv
      <4>1. CASE j \in 1..n
        BY <1>1, <1>3, <2>1, <3>1, <4>1
      <4>2. CASE j = n + 1
        <5>1. inflight'[e][i] = q[i] /\ inflight'[e][j] = x
          BY <1>1, <2>1, <4>2
        <5>2. q[i].rv <= api[e].rv /\ q[i].rv \in Nat
          BY <1>2, <1>3, <2>1
        <5> QED BY <1>2, <5>1, <5>2
      <4>3. j \in 1..n \/ j = n + 1
        BY <1>1
      <4> QED BY <4>1, <4>2, <4>3
    <3>2. inflight'[e][i] = q[i] /\ q[i].rv <= api[e].rv /\ cache[e].rv < q[i].rv
      BY <1>1, <1>3, <2>1
    <3>3. q[i].rv <= x.rv
      BY <1>2, <2>1, <3>2
    <3> QED BY <3>1, <3>2, <3>3
  <2>2. CASE i = n + 1
    <3>1. inflight'[e][i] = x
      BY <1>1, <2>2
    <3>2. cache[e].rv < x.rv /\ x.rv <= x.rv
      BY <1>2, <1>3
    <3>3. \A j \in 1..n + 1 : ~(i < j)
      BY <1>1, <2>2
    <3> QED BY <3>1, <3>2, <3>3
  <2> QED BY <1>1, <2>1, <2>2
<1>5. cache'[e].rv <= x.rv
  BY <1>2, <1>3
<1> QED BY <1>1, <1>4, <1>5 DEF OrderedAt, x, q, n

LEMMA OrderTailed ==
  ASSUME TypeOK, NEW e \in Ext, OrderedAt(e), inflight[e] # <<>>, api' = api,
         cache'[e] = Head(inflight[e]), inflight'[e] = Tail(inflight[e])
  PROVE  OrderedAt(e)'
<1> DEFINE q == inflight[e]  n == Len(inflight[e])
<1>1. /\ n \in Nat \ {0} /\ Len(inflight'[e]) = n - 1 /\ cache'[e] = q[1]
      /\ \A i \in 1..n - 1 : inflight'[e][i] = q[i + 1]
      /\ (inflight'[e] = <<>>) <=> (n = 1)
  BY OrderTypes, Tailed
<1>2. /\ \A i \in 1..n : q[i].rv \in Nat
      /\ api[e].rv \in Nat
  BY OrderTypes
<1>3. /\ \A i \in 1..n : q[i].rv <= api[e].rv
      /\ \A i, j \in 1..n : i < j => q[i].rv < q[j].rv
      /\ q[n] = api[e]
  BY DEF OrderedAt
<1> HIDE DEF q, n
<1>4. ASSUME NEW i \in 1..n - 1
      PROVE  /\ cache'[e].rv < inflight'[e][i].rv /\ inflight'[e][i].rv <= api[e].rv
             /\ \A j \in 1..n - 1 : i < j => inflight'[e][i].rv < inflight'[e][j].rv
  BY <1>1, <1>2, <1>3
<1>5. cache'[e].rv <= api[e].rv
  BY <1>1, <1>3
<1>6. inflight'[e] = <<>> => cache'[e] = api[e]
  BY <1>1, <1>3
<1>7. ASSUME inflight'[e] # <<>> PROVE inflight'[e][n - 1] = api[e]
  <2>1. n - 1 \in 1..n - 1 /\ (n - 1) + 1 = n
    BY <1>1, <1>7
  <2>2. inflight'[e][n - 1] = q[(n - 1) + 1]
    BY <1>1, <2>1
  <2> QED BY <1>3, <2>1, <2>2
<1> QED BY <1>1, <1>4, <1>5, <1>6, <1>7 DEF OrderedAt, q, n

LEMMA CopiesStep ==
  ASSUME TypeOK, ObjectsWellFormed, CopiesOrdered, [Next]_vars
  PROVE  CopiesOrdered'
<1>1. CASE UNCHANGED cluster /\ (mode' = mode \/ mode' # "running")
  BY <1>1 DEF CopiesOrdered, OrderedAt, cluster
<1>2. ASSUME NEW e \in Ext, NEW o \in ExtObj, Write(e, o), UNCHANGED <<cache, mode>>
      PROVE  CopiesOrdered'
  <2> SUFFICES ASSUME mode = "running", NEW f \in Ext PROVE OrderedAt(f)'
    BY <1>2 DEF CopiesOrdered
  <2>0. OrderedAt(f)
    BY DEF CopiesOrdered
  <2>1. CASE f # e
    <3>1. api'[f] = api[f] /\ inflight'[f] = inflight[f]
      BY <1>2, <2>1, WriteEffect
    <3> QED BY <1>2, <2>0, <3>1 DEF OrderedAt
  <2>2. CASE f = e
    <3>1. CASE api' = api /\ inflight' = inflight
      BY <1>2, <2>0, <3>1 DEF OrderedAt
    <3>2. CASE /\ api'[e] \in ExtObj /\ api'[e].rv = api[e].rv + 1
               /\ inflight'[e] = Append(inflight[e], api'[e])
      BY <1>2, <2>0, <2>2, <3>2, OrderAppended
    <3> QED BY <1>2, <3>1, <3>2, WriteEffect
  <2> QED BY <2>1, <2>2
<1>3. ASSUME NEW e \in Ext, Deliver(e) PROVE CopiesOrdered'
  <2> SUFFICES ASSUME NEW f \in Ext PROVE OrderedAt(f)'
    BY DEF CopiesOrdered
  <2>0. OrderedAt(f) /\ cache \in [Ext -> ExtObj] /\ inflight \in [Ext -> Seq(ExtObj)]
    BY <1>3 DEF CopiesOrdered, Deliver, TypeOK
  <2>1. /\ cache' = [cache EXCEPT ![e] = Head(inflight[e])] /\ api' = api
        /\ inflight' = [inflight EXCEPT ![e] = Tail(inflight[e])] /\ inflight[e] # <<>>
    BY <1>3 DEF Deliver
  <2>2. CASE f # e
    BY <2>0, <2>1, <2>2 DEF OrderedAt
  <2>3. CASE f = e
    <3>1. cache'[e] = Head(inflight[e]) /\ inflight'[e] = Tail(inflight[e])
      BY <2>0, <2>1
    <3> QED BY <2>0, <2>1, <2>3, <3>1, OrderTailed
  <2> QED BY <2>2, <2>3
<1>4. CASE BootDone
  <2> SUFFICES ASSUME NEW f \in Ext PROVE OrderedAt(f)'
    BY DEF CopiesOrdered
  <2>1. cache'[f] = api'[f] /\ inflight'[f] = <<>> /\ api'[f] = api[f] /\ api[f].rv \in Nat
    BY <1>4, OrderTypes DEF BootDone
  <2>2. Len(inflight'[f]) = 0
    BY <2>1
  <2> QED BY <2>1, <2>2 DEF OrderedAt
<1>5. CASE UNCHANGED vars
  BY <1>1, <1>5 DEF vars, cluster
<1> QED BY <1>1, <1>2, <1>3, <1>4, <1>5, ClusterSteps

LEMMA WellFormedStep ==
  ASSUME TypeOK, ObjectsWellFormed, [Next]_vars
  PROVE  \A e \in Ext : /\ WellFormed(api[e])' /\ WellFormed(cache[e])'
                        /\ \A i \in 1..Len(inflight'[e]) : WellFormed(inflight'[e][i])
<1> SUFFICES ASSUME NEW f \in Ext
             PROVE  /\ WellFormed(api'[f]) /\ WellFormed(cache'[f])
                    /\ \A i \in 1..Len(inflight'[f]) : WellFormed(inflight'[f][i])
  OBVIOUS
<1>0. /\ WellFormed(api[f]) /\ WellFormed(cache[f])
      /\ \A i \in 1..Len(inflight[f]) : WellFormed(inflight[f][i])
  BY DEF ObjectsWellFormed
<1>1. CASE UNCHANGED cluster
  BY <1>0, <1>1 DEF cluster
<1>2. ASSUME NEW e \in Ext, NEW o \in ExtObj, WellFormed(o), Write(e, o), UNCHANGED cache
      PROVE  /\ WellFormed(api'[f]) /\ WellFormed(cache'[f])
             /\ \A i \in 1..Len(inflight'[f]) : WellFormed(inflight'[f][i])
  <2>1. CASE api'[f] = api[f] /\ inflight'[f] = inflight[f]
    BY <1>0, <1>2, <2>1
  <2>2. CASE f = e /\ ~(api' = api /\ inflight' = inflight)
    <3>1. /\ api'[e] \in ExtObj
          /\ api'[e].spec = o.spec /\ api'[e].deleting = o.deleting
          /\ api'[e].finalizer = o.finalizer
          /\ mode = "running" => inflight'[e] = Append(inflight[e], api'[e])
      BY <1>2, <2>2, WriteEffect
    <3>2. WellFormed(api'[e])
      BY <1>2, <3>1 DEF WellFormed, Exists
    <3>3. inflight'[e] = inflight[e] \/ inflight'[e] = Append(inflight[e], api'[e])
      BY <1>2, <3>1 DEF Write
    <3>4. CASE inflight'[e] = Append(inflight[e], api'[e])
      <4>1. /\ Len(inflight[e]) \in Nat /\ Len(inflight'[e]) = Len(inflight[e]) + 1
            /\ inflight'[e][Len(inflight[e]) + 1] = api'[e]
            /\ \A i \in 1..Len(inflight[e]) : inflight'[e][i] = inflight[e][i]
        BY <3>1, <3>4, OrderTypes, Appended
      <4>2. \A i \in 1..Len(inflight[e]) + 1 :
              i \in 1..Len(inflight[e]) \/ i = Len(inflight[e]) + 1
        BY <4>1
      <4> QED BY <1>0, <1>2, <2>2, <3>2, <4>1, <4>2
    <3> QED BY <1>0, <1>2, <2>2, <3>2, <3>3, <3>4
  <2> QED BY <1>2, <2>1, <2>2, WriteEffect
<1>3. ASSUME NEW e \in Ext, Deliver(e)
      PROVE  /\ WellFormed(api'[f]) /\ WellFormed(cache'[f])
             /\ \A i \in 1..Len(inflight'[f]) : WellFormed(inflight'[f][i])
  <2>1. /\ cache' = [cache EXCEPT ![e] = Head(inflight[e])] /\ api' = api
        /\ inflight' = [inflight EXCEPT ![e] = Tail(inflight[e])] /\ inflight[e] # <<>>
        /\ cache \in [Ext -> ExtObj] /\ inflight \in [Ext -> Seq(ExtObj)]
    BY <1>3 DEF Deliver, TypeOK
  <2>2. CASE f # e
    BY <1>0, <2>1, <2>2
  <2>3. CASE f = e
    <3>1. /\ Len(inflight[e]) \in Nat \ {0} /\ Len(inflight'[e]) = Len(inflight[e]) - 1
          /\ cache'[e] = inflight[e][1]
          /\ \A i \in 1..Len(inflight[e]) - 1 : inflight'[e][i] = inflight[e][i + 1]
      BY <2>1, OrderTypes, Tailed
    <3> QED BY <1>0, <2>1, <2>3, <3>1
  <2> QED BY <2>2, <2>3
<1>4. CASE BootDone
  BY <1>0, <1>4 DEF BootDone
<1>5. CASE UNCHANGED vars
  BY <1>1, <1>5 DEF vars, cluster
<1> QED BY <1>1, <1>2, <1>3, <1>4, <1>5, ClusterSteps

LEMMA NewestCopy ==
  ASSUME TypeOK, NEW e \in Ext, OrderedAt(e), cache[e].rv = api[e].rv
  PROVE  cache[e] = api[e] /\ inflight[e] = <<>>
<1>1. CASE inflight[e] = <<>>
  BY <1>1 DEF OrderedAt
<1>2. CASE inflight[e] # <<>>
  <2>1. Len(inflight[e]) \in 1..Len(inflight[e])
    BY <1>2, OrderTypes, EmptySeq
  <2>2. cache[e].rv < api[e].rv
    BY <1>2, <2>1 DEF OrderedAt
  <2> QED BY <2>2, OrderTypes
<1> QED BY <1>1, <1>2

(***************************************************************************)
(* The copy that the worker holds is the object of the API server, or one  *)
(* of its older versions.                                                  *)
(***************************************************************************)
LEMMA WorkerStep ==
  ASSUME TypeOK, ObjectsWellFormed, CopiesOrdered, WorkerInv, [Next]_vars
  PROVE  WorkerInv' /\ (rec'.pc # "idle" => WellFormed(rec'.obj))
<1> DEFINE Goal == WorkerInv' /\ (rec'.pc # "idle" => WellFormed(rec'.obj))
<1>0. ProcessType /\ ClusterType
  BY TypeParts
<1>o. rec \in RecObj /\ rec.e \in Ext /\ rec.obj \in ExtObj /\ rec.obj.rv \in Nat
  <2>1. rec \in RecObj /\ rec.e \in Ext /\ rec.obj \in ExtObj
    BY <1>0 DEF ProcessType, RecObj
  <2> QED BY <2>1 DEF ExtObj
<1>i. ASSUME rec' = Idle \/ rec'.pc = "idle" PROVE Goal
  BY <1>i, IdleType DEF WorkerInv
<1>k. ASSUME rec.pc # "idle"
      PROVE  /\ mode = "running" /\ WellFormed(rec.obj)
             /\ rec.obj.rv <= api[rec.e].rv
             /\ rec.obj.rv = api[rec.e].rv => rec.obj = api[rec.e]
             /\ rec.pc \in {"remove", "unfinalize"} =>
                  rec.obj.deleting /\ rec.obj.rv <= cache[rec.e].rv
             /\ rec.pc \notin {"remove", "unfinalize"} => ~rec.obj.deleting
             /\ rec.pc \in {"add", "crds", "status"} => rec.obj.finalizer
  BY <1>k DEF WorkerInv, ObjectsWellFormed
<1>g. ASSUME rec.pc # "idle", NEW pc \in PCs, Goto(pc, rec.obj), UNCHANGED <<cluster, mode>>,
             \/ rec.pc = "add" /\ pc = "crds"
             \/ rec.pc = "crds" /\ pc \in {"crds", "status"}
             \/ rec.pc = "remove" /\ pc = "unfinalize"
      PROVE  Goal
  <2>1. rec' = [rec EXCEPT !.pc = pc, !.obj = rec.obj]
    BY <1>g DEF Goto
  <2>2. rec'.pc = pc /\ rec'.e = rec.e /\ rec'.obj = rec.obj
    BY <1>o, <2>1 DEF RecObj
  <2>3. api' = api /\ cache' = cache /\ mode' = mode
    BY <1>g DEF cluster
  <2> QED BY <1>g, <1>k, <2>2, <2>3 DEF WorkerInv
<1>1. CASE User
  <2>1. PICK e \in Ext : UserCreate(e) \/ UserEdit(e) \/ UserDelete(e)
    BY <1>1 DEF User
  <2>2. rec' = rec /\ mode' = mode /\ cache' = cache
    BY <2>1 DEF UserCreate, UserEdit, UserDelete
  <2>3. \A f \in Ext : api'[f] = api[f] \/ (api'[f] \in ExtObj /\ api'[f].rv = api[f].rv + 1)
    <3>1. CASE UNCHANGED cluster
      BY <3>1 DEF cluster
    <3>2. ASSUME NEW d \in Ext, NEW o \in ExtObj, Write(d, o)
          PROVE  \A f \in Ext : api'[f] = api[f] \/ (api'[f] \in ExtObj /\ api'[f].rv = api[f].rv + 1)
      BY <3>2, WriteEffect
    <3>3. CASE \E d \in Ext : Deliver(d)
      BY <3>3 DEF Deliver
    <3>4. CASE BootDone
      BY <3>4 DEF BootDone
    <3> QED BY <1>1, <3>1, <3>2, <3>3, <3>4, ClusterSteps DEF Next
  <2>4. SUFFICES ASSUME rec.pc # "idle" PROVE Goal
    BY <1>i, <2>2
  <2>5. api[rec.e].rv \in Nat
    BY <1>o, OrderTypes
  <2>6. /\ rec.obj.rv <= api'[rec.e].rv
        /\ rec.obj.rv = api'[rec.e].rv => rec.obj = api'[rec.e]
    <3>1. CASE api'[rec.e] = api[rec.e]
      BY <1>k, <2>4, <3>1
    <3>2. CASE api'[rec.e].rv = api[rec.e].rv + 1
      BY <1>k, <1>o, <2>4, <2>5, <3>2
    <3> QED BY <1>o, <2>3, <3>1, <3>2
  <2> QED BY <1>k, <2>2, <2>4, <2>6 DEF WorkerInv
<1>2. CASE Start
  <2>1. PICK e \in queued :
          LET o == cache[e]
              pc == CASE ~Exists(o) -> "idle"
                      [] Exists(o) /\ ~o.deleting /\ ~o.finalizer -> "finalizer"
                      [] Exists(o) /\ ~o.deleting /\ o.finalizer -> "add"
                      [] Exists(o) /\ o.deleting /\ o.finalizer -> "remove"
                      [] Exists(o) /\ o.deleting /\ ~o.finalizer -> "idle"
          IN  rec' = IF pc = "idle" THEN Idle ELSE [pc |-> pc, e |-> e, obj |-> o]
    BY <1>2 DEF Start
  <2>2. e \in Ext /\ cache[e] \in ExtObj /\ cache[e].deleting \in BOOLEAN
        /\ cache[e].finalizer \in BOOLEAN /\ cache[e].rv \in Nat
    <3>1. e \in Ext /\ cache[e] \in ExtObj
      BY <1>0 DEF ProcessType, ClusterType
    <3> QED BY <3>1 DEF ExtObj
  <2>3. /\ mode = "running" /\ mode' = mode /\ api' = api /\ cache' = cache
        /\ OrderedAt(e) /\ WellFormed(cache[e])
    BY <1>2, <2>2 DEF Start, At, cluster, CopiesOrdered, ObjectsWellFormed
  <2>4. cache[e].rv <= api[e].rv /\ (cache[e].rv = api[e].rv => cache[e] = api[e])
    BY <2>2, <2>3, NewestCopy DEF OrderedAt
  <2>5. \/ rec' = Idle
        \/ /\ rec' = [pc |-> "finalizer", e |-> e, obj |-> cache[e]]
           /\ ~cache[e].deleting
        \/ /\ rec' = [pc |-> "add", e |-> e, obj |-> cache[e]]
           /\ ~cache[e].deleting /\ cache[e].finalizer
        \/ /\ rec' = [pc |-> "remove", e |-> e, obj |-> cache[e]]
           /\ cache[e].deleting /\ cache[e].finalizer
    BY <2>1, <2>2
  <2>6. CASE rec' # Idle
    <3>1. /\ rec'.e = e /\ rec'.obj = cache[e] /\ rec'.pc \in {"finalizer", "add", "remove"}
          /\ rec'.pc = "remove" <=> cache[e].deleting
          /\ rec'.pc = "add" => cache[e].finalizer
      BY <2>5, <2>6
    <3>2. cache[e].rv <= cache[e].rv
      BY <2>2
    <3> QED BY <2>3, <2>4, <3>1, <3>2 DEF WorkerInv
  <2> QED BY <1>i, <2>6
<1>3. CASE AddFinalizer
  <2>1. ReturnErr \/ (Goto("add", api'[rec.e]) /\ Write(rec.e, [rec.obj EXCEPT !.finalizer = TRUE]))
    BY <1>3 DEF AddFinalizer
  <2>2. CASE ReturnErr
    BY <1>i, <2>2 DEF ReturnErr
  <2>3. CASE Goto("add", api'[rec.e]) /\ Write(rec.e, [rec.obj EXCEPT !.finalizer = TRUE])
    <3> DEFINE o == [rec.obj EXCEPT !.finalizer = TRUE]
    <3>1. rec.pc = "finalizer" /\ mode' = "running" /\ Exists(rec.obj)
      BY <1>0, <1>3 DEF AddFinalizer, At, ProcessType
    <3>2. o \in ExtObj /\ o.finalizer /\ ~o.deleting /\ Exists(o)
      BY <1>k, <1>o, <3>1 DEF ExtObj, Exists
    <3>3. rec' = [rec EXCEPT !.pc = "add", !.obj = api'[rec.e]]
      BY <2>3 DEF Goto
    <3>4. rec'.pc = "add" /\ rec'.e = rec.e /\ rec'.obj = api'[rec.e]
      BY <1>o, <3>3 DEF RecObj
    <3>w. Write(rec.e, o)
      BY <2>3
    <3> HIDE DEF o
    <3>5. /\ api'[rec.e] \in ExtObj
          /\ api'[rec.e].finalizer = o.finalizer /\ api'[rec.e].deleting = o.deleting
          /\ api'[rec.e].spec = o.spec
      <4>1. CASE o = api[rec.e] /\ api' = api
        BY <3>2, <4>1
      <4> QED BY <1>o, <3>2, <3>w, <4>1, WriteEffect
    <3>6. api'[rec.e].rv <= api'[rec.e].rv
      BY <3>5 DEF ExtObj
    <3> QED BY <3>1, <3>2, <3>4, <3>5, <3>6 DEF WorkerInv, WellFormed, Exists
  <2> QED BY <2>1, <2>2, <2>3
<1>4. CASE AddExtension
  BY <1>g, <1>i, <1>4 DEF AddExtension, At, ReturnErr, PCs
<1>5. CASE UpdateCRD
  <2>1. ReturnErr \/ Goto("status", rec.obj) \/ Goto("crds", rec.obj)
    BY <1>5 DEF UpdateCRD
  <2> QED BY <1>g, <1>i, <1>5, <2>1 DEF UpdateCRD, At, ReturnErr, PCs
<1>6. CASE RemoveExtension
  BY <1>g, <1>6 DEF RemoveExtension, At, PCs
<1>7. CASE WriteStatus \/ RemoveFinalizer
  BY <1>i, <1>7 DEF WriteStatus, RemoveFinalizer, Return, ReturnErr
<1>8. ASSUME NEW e \in Ext, Deliver(e) PROVE Goal
  <2>1. rec' = rec /\ mode' = mode /\ api' = api /\ OrderedAt(e) /\ inflight[e] # <<>>
        /\ cache' = [cache EXCEPT ![e] = Head(inflight[e])]
    BY <1>8 DEF Deliver, CopiesOrdered
  <2>2. \A f \in Ext : cache[f].rv <= cache'[f].rv
    <3> SUFFICES ASSUME NEW f \in Ext PROVE cache[f].rv <= cache'[f].rv
      OBVIOUS
    <3>1. cache[f].rv \in Nat /\ cache \in [Ext -> ExtObj]
      BY OrderTypes DEF TypeOK
    <3>2. CASE f # e
      BY <2>1, <3>1, <3>2
    <3>3. CASE f = e
      <4>1. Len(inflight[e]) \in Nat \ {0} /\ Head(inflight[e]) = inflight[e][1]
        BY <2>1, OrderTypes, Tailed
      <4>2. cache[e].rv < inflight[e][1].rv /\ inflight[e][1].rv \in Nat
        BY <2>1, <4>1, OrderTypes DEF OrderedAt
      <4>3. cache'[e] = inflight[e][1]
        BY <2>1, <3>1, <4>1
      <4> QED BY <3>1, <3>3, <4>2, <4>3
    <3> QED BY <3>2, <3>3
  <2>3. \A f \in Ext : cache[f].rv \in Nat /\ cache'[f].rv \in Nat
    <3>1. TypeOK'
      BY TypeStep
    <3> QED BY <3>1 DEF TypeOK, ExtObj
  <2>4. rec.pc \in {"remove", "unfinalize"} => rec.obj.rv <= cache'[rec.e].rv
    <3>1. rec.pc \in {"remove", "unfinalize"} => rec.obj.rv <= cache[rec.e].rv
      BY <1>k
    <3> QED BY <1>o, <2>2, <2>3, <3>1
  <2> QED BY <1>k, <2>1, <2>4 DEF WorkerInv
<1>9. CASE BootList \/ BootAdd \/ BootCRD \/ BootDone
  <2>1. mode # "running"
    BY <1>9 DEF BootList, BootAdd, BootCRD, BootDone
  <2>2. rec' = rec \/ rec' = Idle
    BY <1>9 DEF BootList, BootAdd, BootCRD, BootDone, Panic, NewProcess, Setup
  <2> QED BY <1>i, <1>k, <2>1, <2>2
<1>10. CASE Restart
  BY <1>i, <1>10 DEF Restart, NewProcess, Setup
<1>11. CASE UNCHANGED vars
  <2>1. rec' = rec /\ mode' = mode /\ UNCHANGED cluster
    BY <1>11 DEF vars, cluster
  <2> QED BY <1>k, <2>1 DEF WorkerInv, cluster
<1> QED
  BY <1>1, <1>2, <1>3, <1>4, <1>5, <1>6, <1>7, <1>8, <1>9, <1>10, <1>11
  DEF Next, Reconcile, Boot

-----------------------------------------------------------------------------
(* Extensions that are gone.                                               *)

LEMMA SpendCases ==
  ASSUME TypeOK, [Next]_vars, spent'.restarts = 0
  PROVE  spent.restarts = 0 /\ ~Restart
<1>0. /\ SpentType /\ spent.restarts \in Nat
      /\ DOMAIN spent = {"writes", "faults", "restarts"}
  BY TypeParts, RegistryAssumption DEF SpentType
<1>1. ~Restart
  <2> SUFFICES ASSUME Restart PROVE FALSE
    OBVIOUS
  <2>1. spent' = [spent EXCEPT !["restarts"] = spent["restarts"] + 1]
    BY DEF Restart, Spend
  <2> QED BY <1>0, <2>1
<1>2. CASE Spend("writes", MaxWrites) \/ Spend("faults", MaxFaults)
  BY <1>0, <1>1, <1>2 DEF Spend
<1>3. CASE UNCHANGED spent
  BY <1>1, <1>3
<1>4. \/ Spend("writes", MaxWrites) \/ Spend("faults", MaxFaults) \/ UNCHANGED spent
      \/ Restart
  <2>1. CASE User
    BY <2>1 DEF User, UserCreate, UserEdit, UserDelete
  <2>2. CASE Reconcile
    BY <2>2 DEF Reconcile, Start, AddFinalizer, AddExtension, UpdateCRD, WriteStatus,
               RemoveExtension, RemoveFinalizer, Fault
  <2>3. CASE Boot
    BY <2>3 DEF Boot, BootList, BootAdd, BootCRD, BootDone, Fault
  <2>4. CASE \E e \in Ext : Deliver(e)
    BY <2>4 DEF Deliver
  <2> QED BY <2>1, <2>2, <2>3, <2>4 DEF Next, vars
<1> QED BY <1>1, <1>2, <1>3, <1>4

(***************************************************************************)
(* A write keeps the finalizer, or nothing depends on it.                  *)
(***************************************************************************)
LEMMA HeldWrite ==
  ASSUME TypeOK, NEW e \in Ext, NEW o \in ExtObj, Write(e, o), mode = "running",
         \/ o.finalizer
         \/ /\ registered[e] = NoSpec /\ ~Invites(cache[e])
            /\ \A i \in 1..Len(inflight[e]) : ~Invites(inflight[e][i]),
         cache' = cache, registered' = registered, \A f \in Ext : HeldAt(f)
  PROVE  \A f \in Ext : HeldAt(f)'
<1> SUFFICES ASSUME NEW f \in Ext PROVE HeldAt(f)'
  OBVIOUS
<1>1. CASE api'[f] = api[f] /\ inflight'[f] = inflight[f]
  BY <1>1 DEF HeldAt
<1>2. CASE /\ f = e /\ api'[e].finalizer = o.finalizer
           /\ api'[e] \in ExtObj /\ inflight'[e] = Append(inflight[e], api'[e])
  <2>1. /\ Len(inflight[e]) \in Nat /\ Len(inflight'[e]) = Len(inflight[e]) + 1
        /\ inflight'[e][Len(inflight[e]) + 1] = api'[e]
        /\ \A i \in 1..Len(inflight[e]) : inflight'[e][i] = inflight[e][i]
    BY <1>2, OrderTypes, Appended
  <2>2. CASE o.finalizer
    BY <1>2, <2>2 DEF HeldAt
  <2>3. CASE ~o.finalizer
    <3>1. ~Invites(api'[e])
      BY <1>2, <2>3 DEF Invites
    <3>2. \A i \in 1..Len(inflight[e]) + 1 :
            i \in 1..Len(inflight[e]) \/ i = Len(inflight[e]) + 1
      BY <2>1
    <3>3. \A i \in 1..Len(inflight'[e]) : ~Invites(inflight'[e][i])
      BY <2>1, <2>3, <3>1, <3>2
    <3> QED BY <1>2, <2>3, <3>3 DEF HeldAt
  <2> QED BY <2>2, <2>3
<1> QED BY <1>1, <1>2, WriteEffect

LEMMA HeldOrNothing ==
  ASSUME TypeOK, NEW e \in Ext, HeldAt(e), ~api[e].finalizer
  PROVE  /\ registered[e] = NoSpec /\ ~Invites(cache[e])
         /\ \A i \in 1..Len(inflight[e]) : ~Invites(inflight[e][i])
BY DEF HeldAt

(***************************************************************************)
(* As long as there has been no restart, an extension that is registered   *)
(* has its finalizer, and so is not gone.                                  *)
(***************************************************************************)
LEMMA HeldStep ==
  ASSUME TypeOK, ObjectsWellFormed, CopiesOrdered, WorkerInv, HeldInv, [Next]_vars
  PROVE  HeldInv'
<1> SUFFICES ASSUME spent'.restarts = 0 PROVE HeldInv'
  BY DEF HeldInv
<1>0. /\ ManagerType /\ ProcessType /\ ClusterType
      /\ spent.restarts = 0 /\ ~Restart
  BY TypeParts, SpendCases
<1>o. rec \in RecObj /\ rec.e \in Ext /\ rec.obj \in ExtObj
  BY <1>0 DEF ProcessType, RecObj
<1>d. ASSUME mode # "running"
      PROVE  /\ \A e \in Ext : ~Exists(api[e]) /\ registered[e] = NoSpec /\ listed[e] = NoSpec
             /\ rec.pc = "idle"
             /\ \A e \in Ext : ~Invites(api[e]) /\ api[e].spec = NoSpec
  <2>1. /\ \A e \in Ext : ~Exists(api[e]) /\ registered[e] = NoSpec /\ listed[e] = NoSpec
        /\ rec.pc = "idle"
    BY <1>0, <1>d DEF HeldInv, WorkerInv
  <2> QED BY <2>1 DEF Invites, ObjectsWellFormed, WellFormed, Exists
<1>n. ASSUME mode # "running", NewProcess, api' = api PROVE HeldInv'
  <2>1. /\ \A e \in Ext : registered'[e] = NoSpec /\ listed'[e] = NoSpec
        /\ mode' = "list" /\ rec' = Idle
    BY <1>n DEF NewProcess, NewExtensionManager, Setup, Nothing
  <2> QED BY <1>d, <1>n, <2>1, IdleType DEF HeldInv, Exists
<1>r. ASSUME mode = "running"
      PROVE  /\ \A e \in Ext : HeldAt(e)
             /\ rec.pc \in {"add", "crds", "status"} => api[rec.e].finalizer
             /\ rec.pc = "unfinalize" => registered[rec.e] = NoSpec
  BY <1>0, <1>r DEF HeldInv
<1>k. ASSUME mode = "running", mode' = mode, \A e \in Ext : HeldAt(e)',
             \/ rec'.pc \notin {"add", "crds", "status", "unfinalize"}
             \/ /\ rec'.pc \in {"add", "crds", "status"} => api'[rec'.e].finalizer
                /\ rec'.pc = "unfinalize" => registered'[rec'.e] = NoSpec
      PROVE  HeldInv'
  BY <1>k DEF HeldInv
<1>i. Idle.pc = "idle"
  BY IdleType
<1>1. CASE User
  <2>1. PICK e \in Ext : UserCreate(e) \/ UserEdit(e) \/ UserDelete(e)
    BY <1>1 DEF User
  <2>2. CASE mode # "running"
    BY <1>d, <2>1, <2>2 DEF UserCreate, UserEdit, UserDelete
  <2>3. CASE mode = "running"
    <3>1. /\ rec' = rec /\ mode' = mode /\ cache' = cache /\ registered' = registered
      BY <2>1 DEF UserCreate, UserEdit, UserDelete, manager
    <3>2. \E o \in ExtObj : Write(e, o) /\ (o.finalizer \/ ~api[e].finalizer)
      <4>1. CASE UserCreate(e)
        <5>1. PICK s \in SpecsOf[e] : Write(e, [Gone(e) EXCEPT !.spec = s])
          BY <4>1 DEF UserCreate
        <5>2. ~api[e].finalizer
          BY <4>1 DEF UserCreate, ObjectsWellFormed, WellFormed
        <5> QED BY <1>0, <5>1, <5>2, GoneType, Variants, RegistryAssumption
      <4>2. CASE UserEdit(e)
        <5>1. PICK s \in SpecsOf[e] : Write(e, [api[e] EXCEPT !.spec = s])
          BY <4>2 DEF UserEdit
        <5>2. [api[e] EXCEPT !.spec = s] \in ExtObj
          BY <1>0, ObjectsTyped, Variants, RegistryAssumption
        <5>3. [api[e] EXCEPT !.spec = s].finalizer = api[e].finalizer
          BY <1>0, ObjectsTyped DEF ExtObj
        <5>4. api[e].finalizer \in BOOLEAN
          BY <1>0, ObjectsTyped DEF ExtObj
        <5> QED BY <5>1, <5>2, <5>3, <5>4
      <4>3. CASE UserDelete(e)
        <5>1. CASE api[e].finalizer
          <6>1. Write(e, [api[e] EXCEPT !.deleting = TRUE])
            BY <4>3, <5>1 DEF UserDelete
          <6>2. /\ [api[e] EXCEPT !.deleting = TRUE] \in ExtObj
                /\ [api[e] EXCEPT !.deleting = TRUE].finalizer
            BY <1>0, <5>1, ObjectsTyped DEF ExtObj
          <6> QED BY <6>1, <6>2
        <5>2. CASE ~api[e].finalizer
          BY <1>0, <4>3, <5>2, GoneType DEF UserDelete
        <5> QED BY <5>1, <5>2
      <4> QED BY <2>1, <4>1, <4>2, <4>3
    <3>3. PICK o \in ExtObj : Write(e, o) /\ (o.finalizer \/ ~api[e].finalizer)
      BY <3>2
    <3>4. \A f \in Ext : HeldAt(f)'
      BY <1>r, <2>3, <3>1, <3>3, HeldOrNothing, HeldWrite
    <3>5. rec.pc \in {"add", "crds", "status"} => api'[rec.e].finalizer
      <4>1. CASE api'[rec.e] = api[rec.e]
        BY <1>r, <2>3, <4>1
      <4>2. CASE rec.e = e /\ api'[e].finalizer = o.finalizer
        BY <1>r, <2>3, <3>3, <4>2
      <4> QED BY <1>o, <3>3, <4>1, <4>2, WriteEffect
    <3> QED BY <1>k, <1>r, <2>3, <3>1, <3>4, <3>5
  <2> QED BY <2>2, <2>3
<1>2. CASE Start
  <2>1. /\ mode = "running" /\ mode' = mode /\ api' = api /\ cache' = cache
        /\ inflight' = inflight /\ registered' = registered
    BY <1>2 DEF Start, At, cluster, manager
  <2>2. \A e \in Ext : HeldAt(e)'
    BY <1>r, <2>1 DEF HeldAt
  <2>3. PICK e \in queued :
          LET o == cache[e]
              pc == CASE ~Exists(o) -> "idle"
                      [] Exists(o) /\ ~o.deleting /\ ~o.finalizer -> "finalizer"
                      [] Exists(o) /\ ~o.deleting /\ o.finalizer -> "add"
                      [] Exists(o) /\ o.deleting /\ o.finalizer -> "remove"
                      [] Exists(o) /\ o.deleting /\ ~o.finalizer -> "idle"
          IN  rec' = IF pc = "idle" THEN Idle ELSE [pc |-> pc, e |-> e, obj |-> o]
    BY <1>2 DEF Start
  <2>4. e \in Ext /\ cache[e].deleting \in BOOLEAN /\ cache[e].finalizer \in BOOLEAN
    BY <1>0 DEF ProcessType, ClusterType, ExtObj
  <2>5. \/ rec'.pc \in {"idle", "finalizer", "remove"}
        \/ rec'.pc = "add" /\ rec'.e = e /\ Invites(cache[e])
    BY <1>i, <2>3, <2>4 DEF Invites
  <2>6. CASE rec'.pc = "add" /\ rec'.e = e /\ Invites(cache[e])
    <3>1. api'[e].finalizer
      BY <1>r, <2>1, <2>4, <2>6 DEF HeldAt
    <3> QED BY <1>k, <2>1, <2>2, <2>6, <3>1
  <2> QED BY <1>k, <2>1, <2>2, <2>5, <2>6
<1>3. CASE AddFinalizer
  <2> DEFINE o == [rec.obj EXCEPT !.finalizer = TRUE]
  <2>1. /\ mode = "running" /\ mode' = mode /\ cache' = cache /\ registered' = registered
        /\ rec.pc = "finalizer"
    BY <1>3 DEF AddFinalizer, At, manager
  <2>2. o \in ExtObj /\ o.finalizer
    BY <1>o DEF ExtObj
  <2>3. CASE ReturnErr /\ UNCHANGED <<api, inflight>>
    <3>1. \A e \in Ext : HeldAt(e)'
      BY <1>r, <2>1, <2>3 DEF HeldAt
    <3> QED BY <1>i, <1>k, <2>1, <2>3, <3>1 DEF ReturnErr
  <2>4. CASE Write(rec.e, o) /\ (ReturnErr \/ Goto("add", api'[rec.e]))
    <3> HIDE DEF o
    <3>1. \A e \in Ext : HeldAt(e)'
      BY <1>o, <1>r, <2>1, <2>2, <2>4, HeldWrite
    <3>2. CASE ReturnErr
      BY <1>i, <1>k, <2>1, <3>1, <3>2 DEF ReturnErr
    <3>3. CASE Goto("add", api'[rec.e])
      <4>1. rec' = [rec EXCEPT !.pc = "add", !.obj = api'[rec.e]]
        BY <3>3 DEF Goto
      <4>2. rec'.pc = "add" /\ rec'.e = rec.e
        BY <1>o, <4>1 DEF RecObj
      <4>3. api'[rec.e].finalizer
        <5>1. CASE o = api[rec.e] /\ api' = api
          BY <2>2, <5>1
        <5> QED BY <1>o, <2>2, <2>4, <5>1, WriteEffect
      <4> QED BY <1>k, <2>1, <3>1, <4>2, <4>3
    <3> QED BY <2>4, <3>2, <3>3
  <2> QED BY <1>3, <2>3, <2>4 DEF AddFinalizer
<1>4. CASE AddExtension
  <2>1. /\ mode = "running" /\ mode' = mode /\ api' = api /\ cache' = cache
        /\ inflight' = inflight /\ rec.pc = "add"
    BY <1>4 DEF AddExtension, At, cluster
  <2>2. \A e \in Ext \ {rec.e} : registered'[e] = registered[e]
    <3> DEFINE s == rec.obj.spec
    <3>1. \E done : registered' = Registered(done, rec.e, s)
      BY <1>4 DEF AddExtension, AddOk, AddClash, AddFault
    <3>2. registered' = registered \/ registered' = [registered EXCEPT ![rec.e] = s]
      BY <3>1 DEF Registered
    <3> QED BY <1>0, <3>2 DEF ManagerType
  <2>3. \A e \in Ext : HeldAt(e)'
    BY <1>r, <2>1, <2>2 DEF HeldAt
  <2>4. CASE Goto("crds", rec.obj)
    <3>1. rec' = [rec EXCEPT !.pc = "crds", !.obj = rec.obj]
      BY <2>4 DEF Goto
    <3>2. rec'.pc = "crds" /\ rec'.e = rec.e
      BY <1>o, <3>1 DEF RecObj
    <3> QED BY <1>k, <1>r, <2>1, <2>3, <3>2
  <2>5. CASE ReturnErr
    BY <1>i, <1>k, <2>1, <2>3, <2>5 DEF ReturnErr
  <2> QED BY <1>4, <2>4, <2>5 DEF AddExtension
<1>5. CASE UpdateCRD
  <2>1. /\ mode = "running" /\ mode' = mode /\ api' = api /\ cache' = cache
        /\ inflight' = inflight /\ registered' = registered /\ rec.pc = "crds"
    BY <1>5 DEF UpdateCRD, At, cluster, manager
  <2>2. \A e \in Ext : HeldAt(e)'
    BY <1>r, <2>1 DEF HeldAt
  <2>3. ASSUME NEW pc \in {"crds", "status"}, Goto(pc, rec.obj) PROVE HeldInv'
    <3>1. rec' = [rec EXCEPT !.pc = pc, !.obj = rec.obj]
      BY <2>3 DEF Goto
    <3>2. rec'.pc = pc /\ rec'.e = rec.e
      BY <1>o, <3>1 DEF RecObj
    <3> QED BY <1>k, <1>r, <2>1, <2>2, <3>2
  <2>4. CASE ReturnErr
    BY <1>i, <1>k, <2>1, <2>2, <2>4 DEF ReturnErr
  <2>5. ReturnErr \/ Goto("status", rec.obj) \/ Goto("crds", rec.obj)
    BY <1>5 DEF UpdateCRD
  <2> QED BY <2>3, <2>4, <2>5
<1>6. CASE WriteStatus
  <2> DEFINE o == [rec.obj EXCEPT !.active = TRUE]
  <2>1. /\ mode = "running" /\ mode' = mode /\ cache' = cache /\ registered' = registered
        /\ rec' = Idle
    BY <1>6 DEF WriteStatus, At, manager, Return, ReturnErr
  <2>2. o \in ExtObj /\ o.finalizer
    <3>1. rec.obj.finalizer
      BY <1>6 DEF WriteStatus, At, WorkerInv
    <3> QED BY <1>o, <3>1 DEF ExtObj
  <2>3. \A e \in Ext : HeldAt(e)'
    <3>1. CASE UNCHANGED <<api, inflight>>
      BY <1>r, <2>1, <3>1 DEF HeldAt
    <3>2. CASE Write(rec.e, o)
      <4> HIDE DEF o
      <4> QED BY <1>o, <1>r, <2>1, <2>2, <3>2, HeldWrite
    <3> QED BY <1>6, <3>1, <3>2 DEF WriteStatus
  <2> QED BY <1>i, <1>k, <2>1, <2>3
<1>7. CASE RemoveExtension
  <2>1. /\ mode = "running" /\ mode' = mode /\ api' = api /\ cache' = cache
        /\ inflight' = inflight /\ registered' = [registered EXCEPT ![rec.e] = NoSpec]
        /\ rec' = [rec EXCEPT !.pc = "unfinalize", !.obj = rec.obj]
    BY <1>7 DEF RemoveExtension, At, cluster, Remove, Goto
  <2>2. /\ registered'[rec.e] = NoSpec
        /\ \A e \in Ext \ {rec.e} : registered'[e] = registered[e]
    BY <1>0, <1>o, <2>1 DEF ManagerType
  <2>3. \A e \in Ext : HeldAt(e)'
    BY <1>r, <2>1, <2>2 DEF HeldAt
  <2>4. rec'.pc = "unfinalize" /\ rec'.e = rec.e
    BY <1>o, <2>1 DEF RecObj
  <2> QED BY <1>k, <2>1, <2>2, <2>3, <2>4
<1>8. CASE RemoveFinalizer
  <2>1. /\ mode = "running" /\ mode' = mode /\ cache' = cache /\ registered' = registered
        /\ rec' = Idle /\ rec.pc = "unfinalize"
    BY <1>8 DEF RemoveFinalizer, At, manager, Return, ReturnErr
  <2>2. \A e \in Ext : HeldAt(e)'
    <3>1. CASE UNCHANGED <<api, inflight>>
      BY <1>r, <2>1, <3>1 DEF HeldAt
    <3>2. CASE ~Conflict(rec.obj, rec.e) /\ Write(rec.e, Gone(rec.e))
      <4>1. /\ rec.obj.rv = api[rec.e].rv /\ rec.obj = api[rec.e] /\ rec.obj.deleting
            /\ rec.obj.rv <= cache[rec.e].rv /\ OrderedAt(rec.e)
        BY <1>o, <2>1, <3>2 DEF Conflict, WorkerInv, CopiesOrdered
      <4>2. cache[rec.e] = api[rec.e] /\ inflight[rec.e] = <<>>
        <5>1. cache[rec.e].rv = api[rec.e].rv
          BY <1>o, <4>1, OrderTypes DEF OrderedAt
        <5> QED BY <1>o, <4>1, <5>1, NewestCopy
      <4>3. /\ registered[rec.e] = NoSpec /\ ~Invites(cache[rec.e])
            /\ \A i \in 1..Len(inflight[rec.e]) : ~Invites(inflight[rec.e][i])
        BY <1>r, <2>1, <4>1, <4>2, EmptySeq DEF Invites
      <4> QED BY <1>0, <1>o, <1>r, <2>1, <3>2, <4>3, GoneType, HeldWrite
    <3> QED BY <1>8, <3>1, <3>2 DEF RemoveFinalizer
  <2> QED BY <1>i, <1>k, <2>1, <2>2
<1>9. ASSUME NEW e \in Ext, Deliver(e) PROVE HeldInv'
  <2>1. /\ mode = "running" /\ mode' = mode /\ api' = api /\ registered' = registered
        /\ rec' = rec /\ inflight[e] # <<>>
        /\ cache' = [cache EXCEPT ![e] = Head(inflight[e])]
        /\ inflight' = [inflight EXCEPT ![e] = Tail(inflight[e])]
    BY <1>9 DEF Deliver, manager
  <2>2. \A f \in Ext : HeldAt(f)'
    <3> SUFFICES ASSUME NEW f \in Ext PROVE HeldAt(f)'
      OBVIOUS
    <3>0. cache \in [Ext -> ExtObj] /\ inflight \in [Ext -> Seq(ExtObj)] /\ HeldAt(f)
      BY <1>0, <1>r, <2>1 DEF ClusterType
    <3>1. CASE f # e
      BY <2>1, <3>0, <3>1 DEF HeldAt
    <3>2. CASE f = e
      <4>1. /\ Len(inflight[e]) \in Nat \ {0} /\ Len(inflight'[e]) = Len(inflight[e]) - 1
            /\ cache'[e] = inflight[e][1]
            /\ \A i \in 1..Len(inflight[e]) - 1 : inflight'[e][i] = inflight[e][i + 1]
        BY <2>1, <3>0, Tailed
      <4> QED BY <2>1, <3>0, <3>2, <4>1 DEF HeldAt
    <3> QED BY <3>1, <3>2
  <2> QED BY <1>k, <1>r, <2>1, <2>2
<1>10. CASE BootList
  <2>1. mode # "running"
    BY <1>10 DEF BootList
  <2>2. CASE /\ listed' = [e \in Ext |-> api[e].spec] /\ mode' = "add"
             /\ UNCHANGED <<cluster, crd, manager, rec, queued, spent>>
    <3>1. api' = api /\ registered' = registered /\ rec' = rec
      BY <2>2 DEF cluster, manager
    <3>2. \A e \in Ext : ~Exists(api'[e]) /\ registered'[e] = NoSpec /\ listed'[e] = NoSpec
      BY <1>d, <2>1, <2>2, <3>1
    <3>3. rec'.pc = "idle"
      BY <1>d, <2>1, <3>1
    <3> QED BY <2>2, <3>2, <3>3 DEF HeldInv, Exists
  <2>3. CASE Panic
    BY <1>n, <2>1, <2>3 DEF Panic, cluster
  <2> QED BY <1>10, <2>2, <2>3 DEF BootList
<1>11. CASE BootAdd
  BY <1>d, <1>11 DEF BootAdd
<1>12. CASE BootCRD
  <2>1. mode # "running"
    BY <1>12 DEF BootCRD
  <2>2. CASE UNCHANGED <<cluster, manager, mode, listed, rec>>
    <3>1. api' = api /\ registered' = registered /\ rec' = rec /\ mode' = mode /\ listed' = listed
      BY <2>2 DEF cluster, manager
    <3> QED BY <1>d, <2>1, <3>1 DEF HeldInv, Exists
  <2>3. CASE NewProcess /\ UNCHANGED cluster
    BY <1>n, <2>1, <2>3 DEF cluster
  <2> QED BY <1>12, <2>2, <2>3 DEF BootCRD
<1>13. CASE BootDone
  <2>1. /\ mode # "running" /\ mode' = "running" /\ cache' = api /\ api' = api
        /\ inflight' = [e \in Ext |-> <<>>] /\ rec' = rec /\ registered' = registered
    BY <1>13 DEF BootDone, manager
  <2>2. \A e \in Ext : HeldAt(e)'
    BY <1>d, <2>1, EmptySeq DEF HeldAt
  <2> QED BY <1>d, <2>1, <2>2 DEF HeldInv
<1>14. CASE UNCHANGED vars
  <2>1. /\ api' = api /\ cache' = cache /\ inflight' = inflight /\ registered' = registered
        /\ rec' = rec /\ mode' = mode /\ listed' = listed /\ spent' = spent
    BY <1>14 DEF vars
  <2> QED BY <2>1 DEF HeldInv, HeldAt, Exists, Invites
<1> QED
  BY <1>0, <1>1, <1>2, <1>3, <1>4, <1>5, <1>6, <1>7, <1>8, <1>9, <1>10, <1>11, <1>12,
     <1>13, <1>14 DEF Next, Reconcile, Boot

-----------------------------------------------------------------------------
(* Extensions that are served.                                             *)

(***************************************************************************)
(* A call of ExtensionManager for e leaves the other extensions alone.     *)
(***************************************************************************)
LEMMA OthersKept ==
  ASSUME ManagerType, NEW e \in Ext, NEW s \in Specs,
         AddOk(e, s) \/ AddFault(e, s) \/ Remove(e, s)
  PROVE  \A f \in Ext \ {e} :
           registered'[f] = registered[f] /\ \A t \in Targets : applied'[t][f] = applied[t][f]
<1>1. registered' = registered \/ \E x : registered' = [registered EXCEPT ![e] = x]
  BY DEF AddOk, AddFault, Remove, Registered
<1>2. \E ts, x : applied' = AppliedTo(ts, e, x)
  BY DEF AddOk, AddFault, Remove
<1>3. PICK ts, x : applied' = AppliedTo(ts, e, x)
  BY <1>2
<1>4. \A f \in Ext \ {e} : registered'[f] = registered[f]
  BY <1>1 DEF ManagerType
<1>5. \A f \in Ext \ {e}, t \in Targets : applied'[t][f] = applied[t][f]
  BY <1>3 DEF AppliedTo, ManagerType
<1> QED BY <1>4, <1>5

(***************************************************************************)
(* What has been done for an extension lasts: a CRD is only replaced by    *)
(* the schema of a generator, which has the fields of the extension.       *)
(***************************************************************************)
LEMMA AddedKept ==
  ASSUME SchemaCovers, NEW e \in Ext, NEW s \in Specs, NEW rest, Added(e, s, rest),
         registered'[e] = registered[e],
         \A t \in Targets : /\ applied'[t][e] = applied[t][e]
                            /\ crd'[t] = crd[t] \/ crd'[t] = schema[t]
  PROVE  /\ TargetsOf[s] # {} => registered'[e] = s
         /\ \A t \in TargetsOf[s] :
              applied'[t][e] = s /\ (t \in rest \/ PathsOf[s] \subseteq crd'[t])
<1>1. \A t \in TargetsOf[s] : t \in Targets
  BY RegistryAssumption
<1>2. ASSUME NEW t \in TargetsOf[s], t \notin rest PROVE PathsOf[s] \subseteq crd'[t]
  <2>1. PathsOf[s] \subseteq crd[t] /\ applied[t][e] = s
    BY <1>2 DEF Added
  <2>2. PathsOf[s] \subseteq schema[t]
    BY <1>1, <2>1, RegistryAssumption DEF SchemaCovers, AppliedPaths
  <2> QED BY <1>1, <2>1, <2>2
<1> QED BY <1>1, <1>2 DEF Added

LEMMA CRDEither ==
  ASSUME ClusterType, NEW u \in Targets, crd' = WithSchema(u)
  PROVE  crd'[u] = schema[u] /\ \A t \in Targets : crd'[t] = crd[t] \/ crd'[t] = schema[t]
BY DEF WithSchema, ClusterType

(***************************************************************************)
(* An extension that a step does not touch is served as before.            *)
(***************************************************************************)
LEMMA ServedKept ==
  ASSUME TypeOK, SchemaCovers, NEW f \in Ext, ServedAt(f),
         Settled(f)' => Settled(f), api'[f] = api[f],
         registered'[f] = registered[f],
         \A t \in Targets : /\ applied'[t][f] = applied[t][f]
                            /\ crd'[t] = crd[t] \/ crd'[t] = schema[t]
  PROVE  ServedAt(f)'
<1> SUFFICES ASSUME Settled(f)', Exists(api'[f])
             PROVE  ~api'[f].deleting /\ api'[f].active /\ Added(f, api[f].spec, {})'
  BY DEF ServedAt
<1>1. Settled(f) /\ Exists(api[f])
  BY DEF Exists
<1>2. ~api[f].deleting /\ api[f].active /\ Added(f, api[f].spec, {})
  BY <1>1 DEF ServedAt
<1>3. api[f].spec \in Specs
  BY <1>1 DEF TypeOK, ExtObj, Exists
<1>4. LET s == api[f].spec
      IN  /\ TargetsOf[s] # {} => registered'[f] = s
          /\ \A t \in TargetsOf[s] :
               applied'[t][f] = s /\ (t \in {} \/ PathsOf[s] \subseteq crd'[t])
  BY <1>2, <1>3, AddedKept
<1> QED BY <1>2, <1>4 DEF Added

(***************************************************************************)
(* An extension that nobody will look at again is served, and the worker   *)
(* knows how far it has come with its own.                                 *)
(***************************************************************************)
LEMMA ServedStep ==
  ASSUME TypeOK, ObjectsWellFormed, CopiesOrdered, WorkerInv, SchemaCovers, ServedInv,
         [Next]_vars
  PROVE  ServedInv'
<1> SUFFICES ASSUME mode' = "running", ~clashed' PROVE ServedInv'
  BY DEF ServedInv
<1> DEFINE WorkerPart ==
             /\ rec'.pc \in {"crds", "status"} => Added(rec.e, rec.obj.spec, todo)'
             /\ rec'.pc = "status" => todo' = {}
<1> SUFFICES (\A f \in Ext : ServedAt(f)') /\ WorkerPart
  BY DEF ServedInv
<1>0. ManagerType /\ ProcessType /\ ClusterType
  BY TypeParts
<1>o. /\ rec \in RecObj /\ rec.e \in Ext /\ rec.obj \in ExtObj
      /\ rec.pc # "idle" => Exists(rec.obj) /\ rec.obj.spec \in Specs
  BY <1>0, ObjectsTyped DEF ProcessType, RecObj
<1>x. PICK x \in Ext : x = rec.e
  BY <1>o
<1>i. Idle.pc = "idle"
  BY IdleType
<1>r. ASSUME mode = "running", ~clashed
      PROVE  /\ \A e \in Ext : ServedAt(e)
             /\ rec.pc \in {"crds", "status"} => Added(rec.e, rec.obj.spec, todo)
             /\ rec.pc = "status" => todo = {}
  BY <1>r DEF ServedInv
<1>k. ASSUME NEW e \in Ext, mode = "running", ~clashed,
             registered' = registered, applied' = applied,
             \A t \in Targets : crd'[t] = crd[t] \/ crd'[t] = schema[t],
             \A f \in Ext \ {e} : api'[f] = api[f] /\ (Settled(f)' => Settled(f))
      PROVE  \A f \in Ext \ {e} : ServedAt(f)'
  BY <1>k, <1>r, ServedKept
\* A step of the worker that ends, or goes on with the same extension.
<1>w. ASSUME rec.pc # "idle", rec'.pc = "idle" \/ rec'.e = rec.e,
             NEW f \in Ext \ {rec.e}, f \in queued => f \in queued',
             inflight'[f] = inflight[f]
      PROVE  Settled(f)' => Settled(f)
  BY <1>w DEF Settled
\* An extension that is queued, or has a copy under way, is not settled.
<1>u. ASSUME NEW f \in Ext,
             f \in queued' \/ inflight'[f] # <<>> \/ (rec'.pc # "idle" /\ rec'.e = f)
      PROVE  ServedAt(f)'
  BY <1>u DEF ServedAt, Settled
<1>1. CASE User
  <2>1. PICK e \in Ext : UserCreate(e) \/ UserEdit(e) \/ UserDelete(e)
    BY <1>1 DEF User
  <2>2. /\ rec' = rec /\ mode' = mode /\ queued' = queued /\ todo' = todo /\ crd' = crd
        /\ registered' = registered /\ applied' = applied /\ clashed' = clashed
        /\ cache' = cache
    BY <2>1 DEF UserCreate, UserEdit, UserDelete, manager
  <2>3. WorkerPart
    BY <1>r, <2>2 DEF Added
  <2>4. \E o \in ExtObj : Write(e, o)
    <3>1. CASE UserCreate(e)
      BY <1>0, <3>1, GoneType, Variants, RegistryAssumption DEF UserCreate
    <3>2. CASE UserEdit(e)
      BY <1>0, <3>2, ObjectsTyped, Variants, RegistryAssumption DEF UserEdit
    <3>3. CASE UserDelete(e)
      BY <1>0, <3>3, ObjectsTyped, GoneType, Variants DEF UserDelete
    <3> QED BY <2>1, <3>1, <3>2, <3>3
  <2>5. \A f \in Ext \ {e} : api'[f] = api[f] /\ inflight'[f] = inflight[f]
    BY <2>4, WriteEffect
  <2>6. \A f \in Ext \ {e} : ServedAt(f)'
    BY <1>k, <2>2, <2>5 DEF Settled
  <2>7. ServedAt(e)'
    <3>1. CASE api' = api /\ inflight' = inflight
      BY <1>r, <2>2, <3>1 DEF ServedAt, Settled, Added, Exists
    <3>2. CASE inflight'[e] = Append(inflight[e], api'[e]) /\ api'[e] \in ExtObj
      <4>1. inflight'[e] # <<>>
        BY <3>2, OrderTypes, Appended
      <4> QED BY <1>u, <4>1
    <3> QED BY <2>2, <2>4, <3>1, <3>2, WriteEffect
  <2> QED BY <2>3, <2>6, <2>7
<1>2. CASE Start
  <2>1. /\ api' = api /\ cache' = cache /\ inflight' = inflight /\ crd' = crd
        /\ registered' = registered /\ applied' = applied /\ clashed' = clashed
        /\ mode = "running" /\ rec.pc = "idle"
    BY <1>2 DEF Start, At, cluster, manager
  <2>2. PICK e \in queued :
          /\ queued' = queued \ {e}
          /\ LET o == cache[e]
                 pc == CASE ~Exists(o) -> "idle"
                         [] Exists(o) /\ ~o.deleting /\ ~o.finalizer -> "finalizer"
                         [] Exists(o) /\ ~o.deleting /\ o.finalizer -> "add"
                         [] Exists(o) /\ o.deleting /\ o.finalizer -> "remove"
                         [] Exists(o) /\ o.deleting /\ ~o.finalizer -> "idle"
             IN  rec' = IF pc = "idle" THEN Idle ELSE [pc |-> pc, e |-> e, obj |-> o]
    BY <1>2 DEF Start
  <2>3. e \in Ext /\ cache[e].deleting \in BOOLEAN /\ cache[e].finalizer \in BOOLEAN
    BY <1>0 DEF ProcessType, ClusterType, ExtObj
  <2>4. WellFormed(cache[e])
    BY <2>3 DEF ObjectsWellFormed
  <2>5. \/ rec' = Idle /\ ~Exists(cache[e])
        \/ rec'.pc \in {"finalizer", "add", "remove"} /\ rec'.e = e
    BY <2>2, <2>3, <2>4 DEF WellFormed
  <2>6. WorkerPart
    BY <1>i, <2>5
  <2>7. \A f \in Ext \ {e} : ServedAt(f)'
    BY <1>k, <2>1, <2>2, <2>3 DEF Settled
  <2>8. ServedAt(e)'
    <3>1. CASE rec' = Idle /\ ~Exists(cache[e])
      <4>1. inflight[e] = <<>> => cache[e] = api[e]
        BY <2>1, <2>3 DEF CopiesOrdered, OrderedAt
      <4> QED BY <2>1, <3>1, <4>1 DEF ServedAt, Settled, Exists
    <3>2. CASE rec'.pc # "idle" /\ rec'.e = e
      BY <1>u, <2>3, <3>2
    <3> QED BY <2>5, <3>1, <3>2
  <2> QED BY <2>3, <2>6, <2>7, <2>8
<1>3. CASE AddFinalizer
  <2>1. /\ mode = "running" /\ cache' = cache /\ rec.pc = "finalizer" /\ crd' = crd
        /\ registered' = registered /\ applied' = applied /\ clashed' = clashed
    BY <1>3 DEF AddFinalizer, At, manager
  <2>2. \/ ReturnErr
        \/ rec' = [rec EXCEPT !.pc = "add", !.obj = api'[rec.e]] /\ queued' = queued
    BY <1>3 DEF AddFinalizer, Goto
  <2>3. \/ rec'.pc = "idle" /\ queued' = queued \cup {rec.e}
        \/ rec'.pc = "add" /\ rec'.e = rec.e /\ queued' = queued
    BY <1>i, <1>o, <2>2 DEF ReturnErr, RecObj
  <2>4. \A f \in Ext \ {rec.e} : api'[f] = api[f] /\ inflight'[f] = inflight[f]
    <3>1. [rec.obj EXCEPT !.finalizer = TRUE] \in ExtObj
      BY <1>o, Variants
    <3>2. Write(rec.e, [rec.obj EXCEPT !.finalizer = TRUE]) \/ UNCHANGED <<api, inflight>>
      BY <1>3 DEF AddFinalizer
    <3> QED BY <1>o, <3>1, <3>2, WriteEffect
  <2>5. \A f \in Ext \ {rec.e} : Settled(f)' => Settled(f)
    BY <1>w, <2>1, <2>3, <2>4
  <2>6. \A f \in Ext \ {rec.e} : ServedAt(f)'
    BY <1>k, <1>o, <2>1, <2>4, <2>5
  <2>7. ServedAt(x)'
    BY <1>u, <1>x, <2>3
  <2> QED BY <1>x, <2>3, <2>6, <2>7
<1>4. CASE AddExtension
  <2> DEFINE s == rec.obj.spec
  <2>1. /\ mode = "running" /\ api' = api /\ inflight' = inflight /\ crd' = crd
        /\ rec.pc = "add" /\ s \in Specs
    BY <1>o, <1>4 DEF AddExtension, At, cluster
  <2>2. \/ AddOk(rec.e, s) /\ Goto("crds", rec.obj) /\ todo' = Targets
        \/ AddFault(rec.e, s) /\ ReturnErr
    BY <1>4 DEF AddExtension, AddClash
  <2>3. clashed' = clashed
    BY <2>2 DEF AddOk, AddFault
  <2>4. /\ \A f \in Ext \ {rec.e} : registered'[f] = registered[f]
        /\ \A f \in Ext \ {rec.e}, t \in Targets : applied'[t][f] = applied[t][f]
    BY <1>0, <1>o, <2>1, <2>2, OthersKept
  <2>5. \/ /\ rec' = [rec EXCEPT !.pc = "crds", !.obj = rec.obj] /\ queued' = queued
        \/ rec' = Idle /\ queued' = queued \cup {rec.e}
    BY <2>2 DEF Goto, ReturnErr
  <2>6. \/ rec'.pc = "crds" /\ rec'.e = rec.e /\ rec'.obj = rec.obj /\ queued' = queued
        \/ rec'.pc = "idle" /\ queued' = queued \cup {rec.e}
    BY <1>i, <1>o, <2>5 DEF RecObj
  <2>7. ASSUME NEW f \in Ext \ {rec.e} PROVE ServedAt(f)'
    <3>1. Settled(f)' => Settled(f)
      BY <1>w, <2>1, <2>6
    <3> QED BY <1>r, <2>1, <2>3, <2>4, <3>1, ServedKept
  <2>8. ServedAt(x)'
    BY <1>u, <1>x, <2>6
  <2>9. CASE rec'.pc = "idle"
    BY <1>x, <2>7, <2>8, <2>9
  <2>10. CASE rec'.pc = "crds"
    <3>1. AddOk(rec.e, s) /\ todo' = Targets
      BY <1>i, <2>2, <2>10 DEF ReturnErr
    <3>2. \A t \in TargetsOf[s] : t \in todo' /\ t \in Targets
      BY <2>1, <3>1, RegistryAssumption
    <3>3. TargetsOf[s] # {} => registered'[rec.e] = s
      BY <1>0, <1>o, <3>1 DEF AddOk, Registered, ManagerType
    <3>4. \A t \in TargetsOf[s] : applied'[t][rec.e] = s
      BY <1>0, <1>o, <3>1, <3>2 DEF AddOk, AppliedTo, ManagerType
    <3>5. rec'.e = rec.e /\ rec'.obj = rec.obj
      BY <2>6, <2>10
    <3>6. Added(rec.e, rec.obj.spec, todo)'
      BY <3>2, <3>3, <3>4, <3>5 DEF Added
    <3> QED BY <1>x, <2>7, <2>8, <2>10, <3>6
  <2> QED BY <2>6, <2>9, <2>10
<1>5. CASE UpdateCRD
  <2> DEFINE s == rec.obj.spec
  <2>1. /\ mode = "running" /\ api' = api /\ inflight' = inflight
        /\ registered' = registered /\ applied' = applied /\ clashed' = clashed
        /\ rec.pc = "crds" /\ s \in Specs
    BY <1>o, <1>5 DEF UpdateCRD, At, cluster, manager
  <2>2. PICK t \in todo :
          /\ crd' = WithSchema(t) \/ crd' = crd
          /\ \/ /\ crd' = WithSchema(t) /\ todo' = todo \ {t}
                /\ Goto(IF todo' = {} THEN "status" ELSE "crds", rec.obj)
             \/ ReturnErr
    BY <1>5 DEF UpdateCRD
  <2>3. \A u \in Targets : crd'[u] = crd[u] \/ crd'[u] = schema[u]
    BY <1>0, <2>2, CRDEither DEF ProcessType
  <2>4. \/ /\ rec'.pc = (IF todo' = {} THEN "status" ELSE "crds")
           /\ rec'.e = rec.e /\ rec'.obj = rec.obj /\ queued' = queued
           /\ crd' = WithSchema(t) /\ todo' = todo \ {t}
        \/ rec'.pc = "idle" /\ queued' = queued \cup {rec.e}
    <3>1. CASE ReturnErr
      BY <1>i, <3>1 DEF ReturnErr
    <3>2. ASSUME NEW pc, Goto(pc, rec.obj)
          PROVE  rec'.pc = pc /\ rec'.e = rec.e /\ rec'.obj = rec.obj /\ queued' = queued
      BY <1>o, <3>2 DEF Goto, RecObj
    <3> QED BY <2>2, <3>1, <3>2
  <2>5. \A f \in Ext \ {rec.e} : Settled(f)' => Settled(f)
    BY <1>w, <2>1, <2>4
  <2>6. \A f \in Ext \ {rec.e} : ServedAt(f)'
    BY <1>k, <1>o, <2>1, <2>3, <2>5
  <2>7. ServedAt(x)'
    BY <1>u, <1>x, <2>4
  <2>8. CASE rec'.pc = "idle"
    BY <1>x, <2>6, <2>7, <2>8
  <2>9. CASE rec'.pc # "idle"
    <3>1. /\ rec'.e = rec.e /\ rec'.obj = rec.obj
          /\ crd' = WithSchema(t) /\ todo' = todo \ {t}
          /\ rec'.pc = "status" => todo' = {}
      BY <2>4, <2>9
    <3>2. Added(rec.e, s, todo)
      BY <1>r, <2>1
    <3>3. /\ TargetsOf[s] # {} => registered'[rec.e] = s
          /\ \A u \in TargetsOf[s] :
               applied'[u][rec.e] = s /\ (u \in todo \/ PathsOf[s] \subseteq crd'[u])
      BY <1>o, <2>1, <2>3, <3>2, AddedKept
    <3>4. t \in TargetsOf[s] => PathsOf[s] \subseteq crd'[t]
      <4>1. t \in Targets /\ crd'[t] = schema[t]
        BY <1>0, <3>1, CRDEither DEF ProcessType
      <4>2. t \in TargetsOf[s] => applied[t][rec.e] = s
        BY <3>2 DEF Added
      <4>3. t \in TargetsOf[s] => PathsOf[s] \subseteq schema[t]
        BY <1>o, <2>1, <4>1, <4>2, RegistryAssumption DEF SchemaCovers, AppliedPaths
      <4> QED BY <4>1, <4>3
    <3>5. Added(rec.e, rec.obj.spec, todo)'
      BY <3>1, <3>3, <3>4 DEF Added
    <3> QED BY <1>x, <2>6, <2>7, <3>1, <3>5
  <2> QED BY <2>8, <2>9
<1>6. CASE WriteStatus
  <2> DEFINE o == [rec.obj EXCEPT !.active = TRUE]
  <2>1. /\ mode = "running" /\ cache' = cache /\ crd' = crd
        /\ registered' = registered /\ applied' = applied /\ clashed' = clashed
        /\ rec.pc = "status" /\ rec' = Idle /\ todo' = todo
    BY <1>6 DEF WriteStatus, At, manager, Return, ReturnErr
  <2>2. o \in ExtObj /\ o.spec = rec.obj.spec /\ o.active /\ ~o.deleting
    <3>1. ~rec.obj.deleting
      BY <2>1 DEF WorkerInv
    <3> QED BY <1>o, <3>1 DEF ExtObj
  <2>3. \/ Write(rec.e, o) /\ queued' = queued
        \/ (Write(rec.e, o) \/ UNCHANGED <<api, inflight>>) /\ queued' = queued \cup {rec.e}
    BY <1>6 DEF WriteStatus, Return, ReturnErr
  <2> HIDE DEF o
  <2>4. \A f \in Ext \ {rec.e} : api'[f] = api[f] /\ inflight'[f] = inflight[f]
    BY <1>o, <2>2, <2>3, WriteEffect
  <2>5. \A f \in Ext \ {rec.e} : Settled(f)' => Settled(f)
    BY <1>i, <1>w, <2>1, <2>3, <2>4
  <2>6. \A f \in Ext \ {rec.e} : ServedAt(f)'
    BY <1>k, <1>o, <2>1, <2>4, <2>5
  <2>7. ServedAt(x)'
    <3>1. CASE rec.e \in queued'
      BY <1>u, <1>x, <3>1
    <3>2. CASE Write(rec.e, o) /\ o = api[rec.e] /\ api' = api
      <4>1. Added(rec.e, rec.obj.spec, {})
        BY <1>r, <2>1
      <4>2. ~api'[rec.e].deleting /\ api'[rec.e].active /\ api'[rec.e].spec = rec.obj.spec
        BY <2>2, <3>2
      <4> QED BY <1>x, <2>1, <4>1, <4>2 DEF ServedAt, Added
    <3>3. CASE inflight'[rec.e] = Append(inflight[rec.e], api'[rec.e]) /\ api'[rec.e] \in ExtObj
      <4>1. inflight'[rec.e] # <<>>
        <5>1. inflight[rec.e] \in Seq(ExtObj)
          BY <1>o, OrderTypes
        <5> QED BY <3>3, <5>1, Appended
      <4> QED BY <1>u, <1>x, <4>1
    <3> QED BY <1>o, <1>x, <2>1, <2>2, <2>3, <3>1, <3>2, <3>3, WriteEffect
  <2> QED BY <1>i, <1>x, <2>1, <2>6, <2>7
<1>7. CASE RemoveExtension
  <2>1. /\ mode = "running" /\ api' = api /\ inflight' = inflight /\ crd' = crd
        /\ rec.pc = "remove" /\ rec.obj.spec \in Specs /\ Remove(rec.e, rec.obj.spec)
        /\ rec' = [rec EXCEPT !.pc = "unfinalize", !.obj = rec.obj] /\ queued' = queued
    BY <1>o, <1>7 DEF RemoveExtension, At, cluster, Goto
  <2>2. clashed' = clashed
    BY <2>1 DEF Remove
  <2>3. rec'.pc = "unfinalize" /\ rec'.e = rec.e
    BY <1>o, <2>1 DEF RecObj
  <2>4. ASSUME NEW f \in Ext \ {rec.e} PROVE ServedAt(f)'
    <3>1. Settled(f)' => Settled(f)
      BY <1>w, <2>1, <2>3
    <3>2. registered'[f] = registered[f] /\ \A t \in Targets : applied'[t][f] = applied[t][f]
      BY <1>0, <1>o, <2>1, OthersKept
    <3> QED BY <1>r, <2>1, <2>2, <3>1, <3>2, ServedKept
  <2>5. ServedAt(x)'
    BY <1>u, <1>x, <2>3
  <2> QED BY <1>x, <2>3, <2>4, <2>5
<1>8. CASE RemoveFinalizer
  <2>1. /\ mode = "running" /\ cache' = cache /\ crd' = crd
        /\ registered' = registered /\ applied' = applied /\ clashed' = clashed
        /\ rec.pc = "unfinalize" /\ rec' = Idle
    BY <1>8 DEF RemoveFinalizer, At, manager, Return, ReturnErr
  <2>2. Gone(rec.e) \in ExtObj /\ ~Exists(Gone(rec.e))
    BY <1>0, <1>o, GoneType
  <2>3. \/ Write(rec.e, Gone(rec.e)) /\ queued' = queued
        \/ /\ Write(rec.e, Gone(rec.e)) \/ UNCHANGED <<api, inflight>>
           /\ queued' = queued \cup {rec.e}
    BY <1>8 DEF RemoveFinalizer, Return, ReturnErr
  <2>4. \A f \in Ext \ {rec.e} : api'[f] = api[f] /\ inflight'[f] = inflight[f]
    BY <1>o, <2>2, <2>3, WriteEffect
  <2>5. \A f \in Ext \ {rec.e} : Settled(f)' => Settled(f)
    BY <1>i, <1>w, <2>1, <2>3, <2>4
  <2>6. \A f \in Ext \ {rec.e} : ServedAt(f)'
    BY <1>k, <1>o, <2>1, <2>4, <2>5
  <2>7. ServedAt(x)'
    <3>1. CASE rec.e \in queued'
      BY <1>u, <1>x, <3>1
    <3>2. CASE Write(rec.e, Gone(rec.e))
      <4>1. ~Exists(api'[rec.e])
        BY <1>o, <2>2, <3>2, WriteEffect DEF Exists
      <4> QED BY <1>x, <4>1 DEF ServedAt, Exists
    <3> QED BY <1>x, <2>3, <3>1, <3>2
  <2> QED BY <1>i, <1>x, <2>1, <2>6, <2>7
<1>9. ASSUME NEW e \in Ext, Deliver(e)
      PROVE  (\A f \in Ext : ServedAt(f)') /\ WorkerPart
  <2>1. /\ mode = "running" /\ api' = api /\ crd' = crd /\ rec' = rec /\ todo' = todo
        /\ registered' = registered /\ applied' = applied /\ clashed' = clashed
        /\ inflight' = [inflight EXCEPT ![e] = Tail(inflight[e])]
        /\ queued' = queued \cup {e}
    BY <1>9 DEF Deliver, manager
  <2>2. \A f \in Ext \ {e} : inflight'[f] = inflight[f]
    BY <1>0, <2>1 DEF ClusterType
  <2>3. \A f \in Ext \ {e} : ServedAt(f)'
    BY <1>k, <2>1, <2>2 DEF Settled
  <2>4. ServedAt(e)'
    BY <1>u, <2>1
  <2>5. WorkerPart
    BY <1>r, <2>1 DEF Added
  <2> QED BY <2>3, <2>4, <2>5
<1>10. CASE BootDone
  <2>1. /\ api' = api /\ queued' = {e \in Ext : Exists(api[e])} /\ rec' = rec
        /\ rec.pc = "idle"
    BY <1>10 DEF BootDone, WorkerInv
  <2>2. \A f \in Ext : ServedAt(f)'
    BY <2>1 DEF ServedAt, Settled, Exists
  <2> QED BY <2>1, <2>2
<1>11. CASE BootList \/ BootAdd \/ BootCRD \/ Restart
  BY <1>11 DEF BootList, BootAdd, BootCRD, Restart, Panic, NewProcess
<1>12. CASE UNCHANGED vars
  <2>1. /\ api' = api /\ inflight' = inflight /\ crd' = crd /\ rec' = rec /\ todo' = todo
        /\ registered' = registered /\ applied' = applied /\ clashed' = clashed
        /\ mode' = mode /\ queued' = queued
    BY <1>12 DEF vars
  <2>2. \A f \in Ext : ServedAt(f)'
    BY <1>r, <2>1 DEF ServedAt, Settled, Added, Exists
  <2> QED BY <1>r, <2>1, <2>2 DEF Added
<1> QED
  BY <1>1, <1>2, <1>3, <1>4, <1>5, <1>6, <1>7, <1>8, <1>9, <1>10, <1>11, <1>12
  DEF Next, Reconcile, Boot

-----------------------------------------------------------------------------
(* The invariant of the registry, and what follows from it.                *)

RegistryInv ==
  TypeOK /\ ObjectsWellFormed /\ CopiesOrdered /\ WorkerInv /\ HeldInv

LEMMA RegistryStart == Init => RegistryInv /\ ServedInv
<1> SUFFICES ASSUME Init PROVE ObjectsWellFormed /\ CopiesOrdered /\ WorkerInv /\ HeldInv /\ ServedInv
  BY TypeStart DEF RegistryInv
<1>1. /\ api = [e \in Ext |-> NoExt] /\ cache = api /\ inflight = [e \in Ext |-> <<>>]
      /\ mode = "list" /\ rec.pc = "idle"
      /\ \A e \in Ext : registered[e] = NoSpec /\ listed[e] = NoSpec
  BY IdleType DEF Init, Nothing
<1>2. ~NoExt.deleting /\ ~NoExt.finalizer /\ ~Exists(NoExt)
  BY DEF NoExt, Exists
<1>3. \A e \in Ext : Len(inflight[e]) = 0
  BY <1>1
<1>4. ObjectsWellFormed
  BY <1>1, <1>2, <1>3 DEF ObjectsWellFormed, WellFormed
<1>5. CopiesOrdered /\ WorkerInv /\ ServedInv
  BY <1>1 DEF CopiesOrdered, WorkerInv, ServedInv
<1>6. HeldInv
  BY <1>1, <1>2 DEF HeldInv
<1> QED BY <1>4, <1>5, <1>6

LEMMA RegistryStep == RegistryInv /\ [Next]_vars => RegistryInv'
<1> SUFFICES ASSUME RegistryInv, [Next]_vars PROVE RegistryInv'
  OBVIOUS
<1> USE DEF RegistryInv
<1>1. TypeOK'
  BY TypeStep
<1>2. CopiesOrdered'
  BY CopiesStep
<1>3. WorkerInv' /\ (rec'.pc # "idle" => WellFormed(rec'.obj))
  BY WorkerStep
<1>4. ObjectsWellFormed'
  BY <1>3, WellFormedStep DEF ObjectsWellFormed
<1>5. HeldInv'
  BY HeldStep
<1> QED BY <1>1, <1>2, <1>3, <1>4, <1>5

THEOREM RegistryInvariant == Spec => []RegistryInv
<1> QED BY RegistryStart, RegistryStep, PTL DEF Spec

(***************************************************************************)
(* As long as the operator has not been restarted, an extension that the   *)
(* manager calls has the finalizer, and so an object: Reconcile adds it    *)
(* only once the API server has taken the finalizer, and takes the         *)
(* finalizer off only once ExtensionManager.Remove has returned.           *)
(***************************************************************************)
THEOREM RegisteredIsHeld ==
  Spec => [](mode = "running" /\ spent.restarts = 0 =>
               \A e \in Ext : registered[e] # NoSpec => api[e].finalizer /\ Exists(api[e]))
<1>1. RegistryInv => (mode = "running" /\ spent.restarts = 0 =>
        \A e \in Ext : registered[e] # NoSpec => api[e].finalizer /\ Exists(api[e]))
  BY DEF RegistryInv, HeldInv, HeldAt, ObjectsWellFormed, WellFormed
<1> QED BY <1>1, RegistryInvariant, PTL

(***************************************************************************)
(* An extension that is gone is not called, when nothing is left to do and *)
(* the operator has not been restarted.                                    *)
(***************************************************************************)
THEOREM GoneIsNotCalled == Spec => []NoGhost
<1>1. RegistryInv => NoGhost
  BY DEF RegistryInv, HeldInv, HeldAt, ObjectsWellFormed, WellFormed, NoGhost, Quiescent
<1> QED BY <1>1, RegistryInvariant, PTL

(***************************************************************************)
(* When nothing is left to do, and no two extensions have defined one      *)
(* field, every extension is active, registered with its current spec, and *)
(* its fields are in the CRDs of its targets: Reconcile, its retries after *)
(* conflicts and failing calls, and RefreshCRD after a restart, leave no   *)
(* extension half added.                                                   *)
(***************************************************************************)
THEOREM QuietMeansServed ==
  ASSUME ObjectsHaveProperties
  PROVE  Spec => []QuiescentServed
<1>1. RegistryInv /\ TypeOK /\ SchemaInv /\ ServedInv /\ [Next]_vars => ServedInv'
  BY ServedStep, InvariantParts DEF RegistryInv
<1>2. RegistryInv /\ ServedInv => QuiescentServed
  <2> SUFFICES ASSUME RegistryInv, ServedInv, Quiescent, ~clashed, NEW e \in Ext, Exists(api[e])
               PROVE  ~api[e].deleting /\ api[e].active /\ Served(e)
    BY DEF QuiescentServed
  <2>1. Settled(e) /\ ServedAt(e)
    BY IdleType DEF Quiescent, Settled, ServedInv
  <2> QED BY <2>1 DEF ServedAt, Added, Served
<1> QED BY <1>1, <1>2, RegistryStart, RegistryInvariant, SchemaInvariant, PTL DEF Spec
=============================================================================
