------------------------------ MODULE WasiCalls ------------------------------
(***************************************************************************)
(* Calls of one WASI extension: waruntime.Controller (Load, NewRunner),    *)
(* extension.WASI, whose field `instance` all calls of one object write    *)
(* and read without a lock, and waruntime.Runner, which a call therefore   *)
(* may share with another one.                                             *)
(*                                                                         *)
(* The Application reconciler has one worker, whose calls (Sync, Delete)   *)
(* follow each other; the webhooks (Default, Validate) call at any time.   *)
(* Each call has a request of its own, and makes a runner: both are named  *)
(* after the call.                                                         *)
(***************************************************************************)
EXTENDS Naturals, Sequences, FiniteSets, SequencesExt

CONSTANTS
  WorkerCalls, WebhookCalls,
  Kinds,     \* what each call may be
  Modules,   \* what an Extension may ask for: [tag, perms, exports]
  Methods,   \* resource and method: what a permission is about
  MaxLoads,  \* calls of AddWASI that load
  MaxFaults, \* ConfigMaps that cannot be read
  None

Calls == WorkerCalls \cup WebhookCalls

ASSUME CallsAssumption ==
  /\ WorkerCalls \cap WebhookCalls = {} /\ None \notin Calls
  /\ \A c \in WorkerCalls : Kinds[c] \subseteq {"sync", "delete"}
  /\ \A c \in WebhookCalls : Kinds[c] \subseteq {"default", "validate"}
  /\ \A m \in Modules : m.perms \subseteq Methods
  /\ MaxLoads \in Nat \ {0} /\ MaxFaults \in Nat

VARIABLES
  loads,     \* history: every module that Load put into its map, in order
  wanted,    \* history: every module that AddWASI had Load accept, in order
  objects,   \* the WASI objects, by their Extension; the last one is in the
             \* manager's map
  instance,  \* WASI.instance of each object
  runner,    \* the runner that each call made
  kind, pc,  \* each call
  obj, on,   \* its WASI object, and the runner it runs on
  got,       \* history: the last host call of its guest: whose request it was
             \* given, and the method it was allowed
  since,     \* history: the module that was loaded when it began ...
  asked,     \* history: ... and how often AddWASI had been called
  complained, \* history: the guests that have called validationError
  faults

guest == <<got, since, asked, complained>>
vars  == <<loads, wanted, objects, instance, runner, kind, pc, obj, on,
           guest, faults>>

Nothing  == [from |-> None, method |-> None]
NoRunner == [load |-> 0, host |-> FALSE, sync |-> None, validation |-> None, errors |-> {}]

-----------------------------------------------------------------------------
(* Loading a module. *)

\* The entry of Controller.extensions: the last load that replaced it.
Current == Len(loads)

\* Mutant: the module that is replaced stays open.
ClosedNever(i) == FALSE

\* Load closes the module it replaces.
Closed(i) == i # Current

NewWASI(m) ==
  /\ objects' = Append(objects, m)
  /\ instance' = Append(instance, None)

\* waruntime.validate: the functions that the runner calls are there, with
\* their signatures.
requiredFunctions == {"Sync", "Delete", "Defaulting", "Validate", "malloc", "free"}
Validate(m) == requiredFunctions \subseteq m.exports

\* Mutant: Controller.Load returns early if it has any version.
KnownAnyVersion(m) == loads # <<>>

\* Controller.Load returns early for a version that it has.
Known(m) == loads # <<>> /\ Last(loads).tag = m.tag

\* Load checks the exports of a module it does not have, closes the old one and
\* replaces it.
Load(m) ==
  \/ Known(m) /\ UNCHANGED loads
  \/ /\ ~Known(m) /\ Validate(m)
     /\ loads' = Append(loads, m)

\* addWASI: Load; then the new object goes into the map, both with the lock of
\* the manager held.  An archive of documentation that cannot be read fails
\* after Load.
AddWASI(m, docs) ==
  /\ Len(wanted) < MaxLoads
  /\ Load(m)
  /\ wanted' = Append(wanted, m)
  /\ IF docs THEN NewWASI(m) ELSE objects # <<>> /\ UNCHANGED <<objects, instance>>
  /\ UNCHANGED <<runner, kind, pc, obj, on, guest, faults>>

-----------------------------------------------------------------------------
(* A call, up to its guest. *)

Busy(c) == pc[c] \notin {"idle", "done"}

\* The caller takes the object out of the manager's map.
Begin(c, k) ==
  /\ pc[c] = "idle" /\ objects # <<>>
  /\ c \in WorkerCalls => ~ \E d \in WorkerCalls : Busy(d)
  /\ kind' = [kind EXCEPT ![c] = k]
  /\ obj' = [obj EXCEPT ![c] = Len(objects)]
  /\ pc' = [pc EXCEPT ![c] = "begin"]
  /\ since' = [since EXCEPT ![c] = Current]
  /\ asked' = [asked EXCEPT ![c] = Len(wanted)]
  /\ UNCHANGED <<loads, wanted, objects, instance, runner, on, got, complained, faults>>

\* Controller.NewRunner: module, version and permissions as they are now.
NewRunner(c) ==
  /\ pc[c] = "begin"
  /\ runner' = [runner EXCEPT ![c] = [NoRunner EXCEPT !.load = Current]]
  /\ pc' = [pc EXCEPT ![c] = "made"]
  /\ UNCHANGED <<loads, wanted, objects, instance, kind, obj, on, guest, faults>>

\* w.instance = the new runner ...
SetInstance(c) ==
  /\ pc[c] = "made"
  /\ instance' = [instance EXCEPT ![obj[c]] = c]
  /\ pc' = [pc EXCEPT ![c] = "set"]
  /\ UNCHANGED <<loads, wanted, objects, runner, kind, obj, on, guest, faults>>

\* Mutant: Default sets its request first, too.
GetInstanceAssigning(c) ==
  /\ pc[c] = "set"
  /\ on' = [on EXCEPT ![c] = instance[obj[c]]]
  /\ pc' = [pc EXCEPT ![c] = IF kind[c] \in {"sync", "default"} THEN "assign" ELSE "instantiate"]
  /\ UNCHANGED <<loads, wanted, objects, instance, runner, kind, obj, guest, faults>>

\* ... and w.instance again, which may be another one by now.
GetInstance(c) ==
  /\ pc[c] = "set"
  /\ on' = [on EXCEPT ![c] = instance[obj[c]]]
  /\ pc' = [pc EXCEPT ![c] = IF kind[c] = "sync" THEN "assign" ELSE "instantiate"]
  /\ UNCHANGED <<loads, wanted, objects, instance, runner, kind, obj, guest, faults>>

\* Runner.Sync sets the request before it has an instance of the module.
AssignRequest(c) ==
  /\ pc[c] = "assign"
  /\ runner' = [runner EXCEPT ![on[c]].sync = c]
  /\ pc' = [pc EXCEPT ![c] = "instantiate"]
  /\ UNCHANGED <<loads, wanted, objects, instance, kind, obj, on, guest, faults>>

\* A call returns, an answer or an error; its local variables end with it.
End(c) ==
  /\ pc' = [pc EXCEPT ![c] = "done"]
  /\ complained' = complained \ {c}
  /\ obj' = [obj EXCEPT ![c] = 0]
  /\ got' = [got EXCEPT ![c] = Nothing]
  /\ since' = [since EXCEPT ![c] = 0]
  /\ asked' = [asked EXCEPT ![c] = 0]

\* Runner.instance fails: the runtime has a host module of that name already,
\* the ConfigMap cannot be read, or the module has been closed.
InstantiateFails(c) ==
  /\ pc[c] = "instantiate"
  /\ End(c)
  /\ LET r == runner[on[c]]
     IN  \/ r.host /\ UNCHANGED <<runner, faults>>
         \/ /\ ~ r.host /\ Closed(r.load)
            /\ runner' = [runner EXCEPT ![on[c]].host = TRUE]
            /\ UNCHANGED faults
         \/ /\ ~ r.host /\ faults < MaxFaults
            /\ runner' = [runner EXCEPT ![on[c]].host = TRUE]
            /\ faults' = faults + 1
  /\ UNCHANGED <<loads, wanted, objects, instance, kind, on>>

\* The request that a guest's runner is given, by those that set it after they
\* have an instance.
WithRequest(r, c) ==
  CASE kind[c] = "sync"     -> r
    [] kind[c] = "validate" -> [r EXCEPT !.validation = c]
    [] OTHER                -> [r EXCEPT !.sync = c]

\* Mutant: a runtime may have several instances.
InstantiateAgain(c) ==
  /\ pc[c] = "instantiate"
  /\ ~ Closed(runner[on[c]].load)
  /\ runner' = [runner EXCEPT ![on[c]] = WithRequest([@ EXCEPT !.host = TRUE], c)]
  /\ pc' = [pc EXCEPT ![c] = "run"]
  /\ UNCHANGED <<loads, wanted, objects, instance, kind, obj, on, guest, faults>>

\* Runner.instance, and the assignment of the request that follows it.
Instantiate(c) ==
  /\ pc[c] = "instantiate"
  /\ ~ runner[on[c]].host /\ ~ Closed(runner[on[c]].load)
  /\ runner' = [runner EXCEPT ![on[c]] = WithRequest([@ EXCEPT !.host = TRUE], c)]
  /\ pc' = [pc EXCEPT ![c] = "run"]
  /\ UNCHANGED <<loads, wanted, objects, instance, kind, obj, on, guest, faults>>

-----------------------------------------------------------------------------
(* The guest. *)

\* getOwner and getSpec: the SyncRequest of the runner if there is one, else
\* its ValidationRequest.
GetSpec(c) ==
  /\ pc[c] = "run"
  /\ LET r == runner[on[c]]
         from == IF r.sync # None THEN r.sync ELSE r.validation
     IN  got' = [got EXCEPT ![c] = [from |-> from, method |-> None]]
  /\ UNCHANGED <<loads, wanted, objects, instance, runner, kind, pc, obj, on, since, asked, complained, faults>>

\* Runner.clientPermissions.
Permissions(r) == loads[r.load].perms

\* getResource, createResource, updateResource, deleteResource: isAllowed looks
\* at the permissions of the runner; the namespace is that of the request of a
\* Sync, without which there is a nil pointer: the host function panics.
Access(c, m) ==
  /\ pc[c] = "run"
  /\ LET r == runner[on[c]]
     IN  /\ m \in Permissions(r)
         /\ IF r.sync = None
            THEN End(c)
            ELSE /\ got' = [got EXCEPT ![c] = [from |-> r.sync, method |-> m]]
                 /\ UNCHANGED <<pc, obj, since, asked, complained>>
  /\ UNCHANGED <<loads, wanted, objects, instance, runner, kind, on, faults>>

\* validationError appends to the errors of the runner, which Validate returns.
ValidationError(c) ==
  /\ pc[c] = "run" /\ kind[c] = "validate"
  /\ runner' = [runner EXCEPT ![on[c]].errors = @ \cup {c}]
  /\ complained' = complained \cup {c}
  /\ UNCHANGED <<loads, wanted, objects, instance, kind, pc, obj, on, got, since, asked, faults>>

\* The guest's function returns, or traps.
GuestReturns(c) ==
  /\ pc[c] = "run"
  /\ End(c)
  /\ UNCHANGED <<loads, wanted, objects, instance, runner, kind, on, faults>>

-----------------------------------------------------------------------------

Init ==
  /\ loads = <<>> /\ wanted = <<>> /\ objects = <<>> /\ instance = <<>>
  /\ runner = [c \in Calls |-> NoRunner]
  /\ kind = [c \in Calls |-> None] /\ pc = [c \in Calls |-> "idle"]
  /\ obj = [c \in Calls |-> 0] /\ on = [c \in Calls |-> None]
  /\ got = [c \in Calls |-> Nothing] /\ since = [c \in Calls |-> 0]
  /\ asked = [c \in Calls |-> 0]
  /\ complained = {}
  /\ faults = 0

Call(c) ==
  \/ \E k \in Kinds[c] : Begin(c, k)
  \/ NewRunner(c) \/ SetInstance(c) \/ GetInstance(c) \/ AssignRequest(c)
  \/ Instantiate(c) \/ InstantiateFails(c)
  \/ GetSpec(c) \/ ValidationError(c) \/ (\E m \in Methods : Access(c, m))
  \/ GuestReturns(c)

Next == (\E m \in Modules, docs \in BOOLEAN : AddWASI(m, docs)) \/ (\E c \in Calls : Call(c))

Spec == Init /\ [][Next]_vars

-----------------------------------------------------------------------------
(* Properties. *)

\* Every variable keeps its type; a call that goes on has a runner.
TypeOK ==
  /\ Len(instance) = Len(objects)
  /\ ToSet(instance) \subseteq Calls \cup {None}
  /\ pc \in [Calls -> {"idle", "begin", "made", "set", "assign", "instantiate", "run", "done"}]
  /\ \A c \in Calls :
       /\ obj[c] \in 0..Len(objects)
       /\ runner[c].load \in 0..Len(loads) /\ runner[c].errors \subseteq Calls
       /\ {runner[c].sync, runner[c].validation} \subseteq Calls \cup {None}
       /\ pc[c] \in {"assign", "instantiate", "run"} => on[c] \in Calls /\ runner[on[c]].load > 0

\* In spite of the shared field, a guest of the reconciler (Sync, Delete) is only
\* ever given the request of its own call, for what it reads and for the
\* namespace in which it reads and writes resources; a guest of a webhook is
\* given another request only if a Sync ran into its runner.
ReadsOwnRequest ==
  \A c \in Calls :
    LET x == got[c].from
    IN  \/ x \in {None, c}
        \/ c \in WebhookCalls /\ x \in WorkerCalls /\ kind[x] = "sync" /\ on[x] = on[c]

\* The errors in the runner, which Validate returns when its guest does, are what
\* that guest complained of: concurrent validations never get each other's.
VerdictOwn ==
  \A c \in Calls : pc[c] = "run" /\ kind[c] = "validate" =>
    runner[on[c]].errors = complained \cap {c}

\* A call never runs a module that is older than the one that was loaded when
\* it began, although it may end up on a runner that was made earlier.
FreshModule == \A c \in Calls : pc[c] = "run" => runner[on[c]].load >= since[c]

\* The tag has stayed the same from the j-th to the i-th call of AddWASI.
SameTag(j, i) == \A k \in j..i : wanted[k].tag = wanted[j].tag

\* Load gives new permissions to calls only with a new tag; and a call may end up
\* on the runner of another one, before or after a Load.  Yet what a guest is
\* allowed lags behind the Extension only by edits that left the tag alone: it is
\* what the Extension listed at some time during the call, or before the call with
\* the tag it still had during the call.
PermissionsOfTag ==
  \A c \in Calls : got[c].method # None =>
    \E i \in asked[c]..Len(wanted) : \E j \in 1..i :
      got[c].method \in wanted[j].perms /\ SameTag(j, i)

\* Every guest is given the request of its own call.
OwnRequest == \A c \in Calls : got[c].from \in {None, c}

\* A guest only uses permissions that its Extension lists.
PermissionsCurrent ==
  \A c \in Calls : got[c].method # None => got[c].method \in objects[obj[c]].perms

\* A call fails only if the ConfigMap cannot be read or its guest does.
NoCollision ==
  \A c \in Calls : pc[c] = "instantiate" => ~ runner[on[c]].host
=============================================================================
