--------------------------- MODULE AppReconciler ---------------------------
(***************************************************************************)
(* The reconciliation of one Application: ReconcilerWrapper.Reconcile      *)
(* (internal/controller/reconciler.go) with its child AppReconciler        *)
(* (application_reconciler.go) and the calls it makes to the extensions    *)
(* through ExtensionController (ext_controller.go).                        *)
(*                                                                         *)
(* The API server holds the object, the Deployment and the Service.  The   *)
(* reconciler reads them through informer caches that lag, and writes the  *)
(* object with optimistic concurrency (resourceVersion).  One worker runs  *)
(* (MaxConcurrentReconciles is left at 1), so at most one Reconcile call   *)
(* is under way; users, the watch streams, faults and restarts interleave  *)
(* with every call that it makes.                                          *)
(*                                                                         *)
(* A "content" stands for everything a user controls of an Application     *)
(* (spec, labels, annotations).  What the code looks at is given by three  *)
(* functions of the content: its hash, its port and the root keys that are *)
(* set in its spec.                                                        *)
(***************************************************************************)
EXTENDS Naturals, FiniteSets

CONSTANTS
  Contents,    \* the contents a user may write
  NoContent,   \* "nothing there": no Deployment, nothing synced
  Hashes,      \* the values Application.Hash may return
  NoHash,      \* the empty Status.Hash of an object never reconciled
  HashOf,      \* Application.Hash, of each content (annotations excluded)
  PortOf,      \* spec.port of each content; 0 when it is not set
  Ext,         \* the Extension resources
  KeysOf,      \* the extensions that own a root key set in each content's spec
  Always,      \* the extensions with spec.always
  Wasi,        \* the extensions that are WASI modules
  AllowRevert, \* may a user go back to a hash the object had before?
  Faulty,      \* the calls that may fail, and those that may fail unnoticed
  MaxAvail     \* largest number of available replicas

CONSTANTS      \* bounds on the environment
  MaxWrites,   \* creations and edits by users
  MaxFaults,   \* calls that fail or whose answer is lost
  MaxRestarts, \* restarts of the controller process
  MaxDrops,    \* Deployments or Services deleted behind the controller's back
  MaxRollouts, \* changes of a Deployment's available replicas
  MaxChurn     \* extensions registered or unregistered

ASSUME ContentAssumption ==
  /\ NoContent \notin Contents
  /\ NoHash \notin Hashes
  /\ HashOf \in [Contents -> Hashes]
  /\ PortOf \in [Contents -> Nat]
  /\ KeysOf \in [Contents -> SUBSET Ext]
  /\ Always \subseteq Ext
  /\ Wasi \subseteq Ext

ASSUME BoundAssumption ==
  /\ AllowRevert \in BOOLEAN
  /\ MaxAvail \in Nat
  /\ {MaxWrites, MaxFaults, MaxRestarts, MaxDrops, MaxRollouts, MaxChurn} \subseteq Nat

VARIABLES
  app,        \* the Application at the API server
  inflight,   \* versions of it that the watch stream has not delivered
  cache,      \* the informer's copy
  depl, svc,  \* Deployment and Service at the API server
  cDepl, cSvc, \* their informers' copies
  ext,        \* what each extension last applied for this Application
  registered, \* the extensions ExtensionsFor returns
  queued,     \* is the object in the work queue?
  rec         \* the Reconcile call under way

VARIABLES
  seen,       \* hashes the present object has had (history)
  unnoticed,  \* extensions that failed unnoticed, until they succeed (history)
  spent       \* how much of each bound the environment has used

object   == <<app, inflight, seen>>
workload == <<depl, svc>>
caches   == <<cache, cDepl, cSvc>>
applied  == <<ext, unnoticed>>
vars == <<app, inflight, cache, depl, svc, cDepl, cSvc, ext, registered,
          queued, rec, seen, unnoticed, spent>>

-----------------------------------------------------------------------------
(* Objects. *)

\* The Application: metadata the reconciler uses, the user's content and the
\* status subresource.  A deleted object keeps the resourceVersion of its
\* deletion, so that a stale copy of it can be told from a later one.
AppObj == [exists: BOOLEAN, rv: Nat, content: Contents \cup {NoContent},
           fin: BOOLEAN, deleting: BOOLEAN, hash: Hashes \cup {NoHash},
           exts: SUBSET Ext, avail: 0..MaxAvail]

Tombstone(rv) == [exists |-> FALSE, rv |-> rv, content |-> NoContent,
                  fin |-> FALSE, deleting |-> FALSE, hash |-> NoHash,
                  exts |-> {}, avail |-> 0]

DeplObj == [content: Contents \cup {NoContent}, avail: 0..MaxAvail]
NoDepl  == [content |-> NoContent, avail |-> 0]

\* A Service is its target port; 0 is no Service.
Ports == {PortOf[c] : c \in Contents} \cup {0}

Calls == {"addFin", "removeFin", "delDepl", "delSvc", "extDelete", "extSync",
          "delOld", "svc", "depl", "status",
          "extDeleteUnnoticed", "extSyncUnnoticed", "delOldUnnoticed"}

PCs == {"idle", "addFin", "delDepl", "delSvc", "extDelete", "removeFin",
        "isModified", "extSync", "delOld", "svc", "depl", "status"}

\* A Reconcile call: where it is, the object it read, the extensions still to
\* be called in the present step, whether one of them failed,
\* Result.Extensions, and (history) which of these it has not run: their
\* Delete failed.
RecObj == [pc: PCs, v: AppObj, pending: SUBSET Ext, failed: BOOLEAN,
           ran: SUBSET Ext, kept: SUBSET Ext]

Idle == [pc |-> "idle", v |-> Tombstone(0), pending |-> {}, failed |-> FALSE,
         ran |-> {}, kept |-> {}]

Budgets == {"writes", "faults", "restarts", "drops", "rollouts", "churn"}

Limit == [writes |-> MaxWrites, faults |-> MaxFaults, restarts |-> MaxRestarts,
          drops |-> MaxDrops, rollouts |-> MaxRollouts, churn |-> MaxChurn]

Spend(b) == /\ spent[b] < Limit[b]
            /\ spent' = [spent EXCEPT ![b] = @ + 1]

\* Every write of the object gets a new resourceVersion and is put on the
\* watch stream.
Write(new) ==
  /\ app' = [new EXCEPT !.rv = app.rv + 1]
  /\ inflight' = inflight \cup {app'}

-----------------------------------------------------------------------------
(* What the reconciler decides. *)

\* The condition of ExtensionController.Sync and .Delete: the extension is
\* always called, or one of its root keys is set in the spec at hand.
ShouldRun(e, c) == e \in Always \/ e \in KeysOf[c]

\* Mutant: the hash is not compared.
IsModifiedNoHash(v) == cDepl = NoDepl \/ (PortOf[v.content] > 0 /\ cSvc = 0)

\* AppReconciler.IsModified, on the caches.
IsModified(v) ==
  \/ v.hash # HashOf[v.content]
  \/ cDepl = NoDepl
  \/ PortOf[v.content] > 0 /\ cSvc = 0

\* AppReconciler.UpdateStatus: the status after the call.  The replicas are
\* those of the Deployment in the cache, and left alone without one.
UpdateStatus(v, exts) ==
  [v EXCEPT !.hash = HashOf[v.content],
            !.exts = exts,
            !.avail = IF cDepl = NoDepl THEN @ ELSE cDepl.avail]

\* The API server refuses a write whose resourceVersion is not the stored one.
Conflict(v) == ~app.exists \/ app.rv # v.rv

-----------------------------------------------------------------------------
(* How a step of Reconcile ends. *)

Goto(pc) == rec' = [rec EXCEPT !.pc = pc] /\ UNCHANGED queued

Return == rec' = Idle /\ UNCHANGED queued

\* Mutant: an error is logged and not returned.
ReturnErrSwallowed == rec' = Idle /\ UNCHANGED queued

\* An error: the work queue gets the request back.
ReturnErr == rec' = Idle /\ queued' = TRUE

\* A call fails.  Whether it had its effect is for the caller to choose: the
\* request may be lost, or only its answer.
Fault(call) == call \in Faulty /\ Spend("faults")

\* What a call of an extension comes to.
Applied(e, c) == /\ ext' = [ext EXCEPT ![e] = c]
                 /\ unnoticed' = unnoticed \ {e}

\* It fails, with or without its effect, and the caller is told.
AppliedOrNot(e, c) == /\ ext' \in {ext, [ext EXCEPT ![e] = c]}
                      /\ UNCHANGED unnoticed

\* It fails and the caller takes it for done.
NotApplied(e) == /\ unnoticed' = unnoticed \cup {e}
                 /\ UNCHANGED ext

-----------------------------------------------------------------------------
(* Reconcile. *)

\* Reconcile is called: Get from the cache, and the early returns.
Start ==
  /\ rec.pc = "idle"
  /\ queued
  /\ queued' = FALSE
  /\ rec' = IF ~cache.exists \/ (cache.deleting /\ ~cache.fin)
            THEN Idle
            ELSE [Idle EXCEPT !.v = cache,
                              !.pc = IF cache.deleting THEN "delDepl"
                                     ELSE IF cache.fin THEN "isModified"
                                     ELSE "addFin"]
  /\ UNCHANGED <<object, workload, caches, applied, registered, spent>>

\* AddFinalizer and Update.
AddFinalizer ==
  /\ rec.pc = "addFin"
  /\ \/ /\ ~Conflict(rec.v)
        /\ Write([rec.v EXCEPT !.fin = TRUE])
        /\ Return /\ UNCHANGED spent
     \/ Conflict(rec.v) /\ ReturnErr /\ UNCHANGED <<app, inflight, spent>>
     \/ /\ Fault("addFin") /\ ReturnErr
        /\ \/ UNCHANGED <<app, inflight>>
           \/ ~Conflict(rec.v) /\ Write([rec.v EXCEPT !.fin = TRUE])
  /\ UNCHANGED <<seen, workload, caches, applied, registered>>

\* Mutant: an error of the first Delete is dropped.
DeleteDeploymentIgnoringErrors ==
  /\ rec.pc = "delDepl"
  /\ \/ depl' = NoDepl /\ Goto("delSvc") /\ UNCHANGED spent
     \/ depl' \in {depl, NoDepl} /\ Fault("delDepl") /\ Goto("delSvc")
  /\ UNCHANGED <<object, svc, caches, applied, registered>>

\* Mutant: NotFound is an error like any other.
DeleteDeploymentNotFoundFails ==
  /\ rec.pc = "delDepl"
  /\ depl' = NoDepl
  /\ IF depl = NoDepl THEN ReturnErr ELSE Goto("delSvc")
  /\ UNCHANGED <<object, svc, caches, applied, registered, spent>>

\* AppReconciler.Delete, first call; NotFound is ignored.
DeleteDeployment ==
  /\ rec.pc = "delDepl"
  /\ \/ depl' = NoDepl /\ Goto("delSvc") /\ UNCHANGED spent
     \/ depl' \in {depl, NoDepl} /\ Fault("delDepl") /\ ReturnErr
  /\ UNCHANGED <<object, svc, caches, applied, registered>>

\* AppReconciler.Delete, second call, and the choice of the extensions that
\* ExtensionController.Delete is going to call.
DeleteService ==
  /\ rec.pc = "delSvc"
  /\ \/ /\ svc' = 0 /\ UNCHANGED <<spent, queued>>
        /\ rec' = [rec EXCEPT !.pc = "extDelete",
              !.pending = {e \in registered : ShouldRun(e, rec.v.content)}]
     \/ svc' \in {svc, 0} /\ Fault("delSvc") /\ ReturnErr
  /\ UNCHANGED <<object, depl, caches, applied, registered>>

\* One of the goroutines of ExtensionController.delete calls its extension.
\* The others go on when it fails.  An Error in the DeleteResponse is dropped:
\* only the error of the call counts.
ExtDelete(e) ==
  /\ rec.pc = "extDelete"
  /\ e \in rec.pending
  /\ \/ /\ Applied(e, NoContent) /\ UNCHANGED spent
        /\ rec' = [rec EXCEPT !.pending = @ \ {e}]
     \/ /\ Fault("extDeleteUnnoticed") /\ NotApplied(e)
        /\ rec' = [rec EXCEPT !.pending = @ \ {e}]
     \/ /\ Fault("extDelete") /\ AppliedOrNot(e, NoContent)
        /\ rec' = [rec EXCEPT !.pending = @ \ {e}, !.failed = TRUE]
  /\ UNCHANGED <<object, workload, caches, registered, queued>>

\* Mutant: the errors of the extensions are not looked at.
ExtDeletedIgnoringErrors ==
  /\ rec.pc = "extDelete"
  /\ rec.pending = {}
  /\ Goto("removeFin")
  /\ UNCHANGED <<object, workload, caches, applied, registered, spent>>

\* wg.Wait returns; an error of any extension ends the call.
ExtDeleted ==
  /\ rec.pc = "extDelete"
  /\ rec.pending = {}
  /\ IF rec.failed THEN ReturnErr ELSE Goto("removeFin")
  /\ UNCHANGED <<object, workload, caches, applied, registered, spent>>

\* RemoveFinalizer and Update; NotFound is ignored.  With its last finalizer
\* gone the API server drops the object.
RemoveFinalizer ==
  /\ rec.pc = "removeFin"
  /\ \/ ~Conflict(rec.v) /\ Write(Tombstone(0)) /\ Return /\ UNCHANGED spent
     \/ ~app.exists /\ Return /\ UNCHANGED <<app, inflight, spent>>
     \/ /\ app.exists /\ Conflict(rec.v)
        /\ ReturnErr /\ UNCHANGED <<app, inflight, spent>>
     \/ /\ Fault("removeFin") /\ ReturnErr
        /\ \/ UNCHANGED <<app, inflight>>
           \/ ~Conflict(rec.v) /\ Write(Tombstone(0))
  /\ UNCHANGED <<seen, workload, caches, applied, registered>>

\* IsModified decides between the whole synchronisation, of the extensions
\* chosen by ExtensionController.Sync, and the status alone.  Sync notes an
\* extension in Result.Extensions before it calls it.
CheckModified ==
  /\ rec.pc = "isModified"
  /\ rec' = IF IsModified(rec.v)
            THEN LET run == {e \in registered : ShouldRun(e, rec.v.content)}
                 IN  [rec EXCEPT !.pc = "extSync", !.pending = run, !.ran = run]
            ELSE [rec EXCEPT !.pc = "status", !.ran = rec.v.exts]
  /\ UNCHANGED <<object, workload, caches, applied, registered, queued, spent>>

\* One of the goroutines of ExtensionController.run calls its extension.  The
\* error of a WASI guest goes to a buffered channel, after which the channel of
\* the messages is closed: Recv may take the closed channel for the end of the
\* stream before it looks at the error, and runExtension returns nil.
ExtSync(e) ==
  /\ rec.pc = "extSync"
  /\ e \in rec.pending
  /\ \/ /\ Applied(e, rec.v.content) /\ UNCHANGED spent
        /\ rec' = [rec EXCEPT !.pending = @ \ {e}]
     \/ /\ e \in Wasi /\ Fault("extSyncUnnoticed") /\ NotApplied(e)
        /\ rec' = [rec EXCEPT !.pending = @ \ {e}]
     \/ /\ Fault("extSync") /\ AppliedOrNot(e, rec.v.content)
        /\ rec' = [rec EXCEPT !.pending = @ \ {e}, !.failed = TRUE]
  /\ UNCHANGED <<object, workload, caches, registered, queued>>

\* Mutant: the errors of the extensions are not looked at.
ExtSyncedIgnoringErrors ==
  /\ rec.pc = "extSync"
  /\ rec.pending = {}
  /\ rec' = [rec EXCEPT !.pc = "delOld", !.pending = rec.v.exts \ rec.ran]
  /\ UNCHANGED <<object, workload, caches, applied, registered, queued, spent>>

\* Mutant: extensions of the last status are not deleted.
ExtSyncedKeepingOld ==
  /\ rec.pc = "extSync"
  /\ rec.pending = {}
  /\ IF rec.failed THEN ReturnErr ELSE Goto("delOld")
  /\ UNCHANGED <<object, workload, caches, applied, registered, spent>>

\* wg.Wait returns; what the last status lists and this call did not run is
\* to be deleted.
ExtSynced ==
  /\ rec.pc = "extSync"
  /\ rec.pending = {}
  /\ IF rec.failed THEN ReturnErr
     ELSE /\ rec' = [rec EXCEPT !.pc = "delOld", !.pending = rec.v.exts \ rec.ran]
          /\ UNCHANGED queued
  /\ UNCHANGED <<object, workload, caches, applied, registered, spent>>

\* DeleteExtension for one extension of the last status.  One that is not
\* registered is matched by no extension: no call, and no error.  One that
\* fails is put back in Result.Extensions, unless the failure is the Error of
\* the DeleteResponse.
DeleteOld(e) ==
  /\ rec.pc = "delOld"
  /\ e \in rec.pending
  /\ \/ /\ e \notin registered /\ UNCHANGED <<applied, spent>>
        /\ rec' = [rec EXCEPT !.pending = @ \ {e}]
     \/ /\ e \in registered /\ Applied(e, NoContent) /\ UNCHANGED spent
        /\ rec' = [rec EXCEPT !.pending = @ \ {e}]
     \/ /\ e \in registered /\ Fault("delOldUnnoticed") /\ NotApplied(e)
        /\ rec' = [rec EXCEPT !.pending = @ \ {e}]
     \/ /\ e \in registered /\ Fault("delOld") /\ AppliedOrNot(e, NoContent)
        /\ rec' = [rec EXCEPT !.pending = @ \ {e}, !.ran = @ \cup {e}, !.kept = @ \cup {e}]
  /\ UNCHANGED <<object, workload, caches, registered, queued>>

OldDeleted ==
  /\ rec.pc = "delOld"
  /\ rec.pending = {}
  /\ Goto(IF PortOf[rec.v.content] > 0 THEN "svc" ELSE "depl")
  /\ UNCHANGED <<object, workload, caches, applied, registered, spent>>

\* CreateOrUpdate, the Service: always an Update, which the API server turns
\* into a creation for a Service that is not there.  The update carries the
\* resourceVersion of the Service in the cache, if there is one.
ApplyService ==
  /\ rec.pc = "svc"
  /\ LET stale == cSvc # 0 /\ cSvc # svc
         port  == PortOf[rec.v.content]
     IN  \/ ~stale /\ svc' = port /\ Goto("depl") /\ UNCHANGED spent
         \/ stale /\ ReturnErr /\ UNCHANGED <<svc, spent>>
         \/ /\ svc' \in IF stale THEN {svc} ELSE {svc, port}
            /\ Fault("svc") /\ ReturnErr
  /\ UNCHANGED <<object, depl, caches, applied, registered>>

\* Mutant: AlreadyExists is taken for success.
ApplyDeploymentExistsIsFine ==
  /\ rec.pc = "depl"
  /\ depl' = IF (cDepl = NoDepl) = (depl = NoDepl)
             THEN [depl EXCEPT !.content = rec.v.content] ELSE depl
  /\ Goto("status")
  /\ UNCHANGED <<object, svc, caches, applied, registered, spent>>

\* CreateOrUpdate, the Deployment: an unconditional Update when the cache has
\* one, a Create otherwise.  Either is refused when the cache is wrong.
ApplyDeployment ==
  /\ rec.pc = "depl"
  /\ LET wrong == (cDepl = NoDepl) # (depl = NoDepl)
         new   == [depl EXCEPT !.content = rec.v.content]
     IN  \/ ~wrong /\ depl' = new /\ Goto("status") /\ UNCHANGED spent
         \/ wrong /\ ReturnErr /\ UNCHANGED <<depl, spent>>
         \/ /\ depl' \in IF wrong THEN {depl} ELSE {depl, new}
            /\ Fault("depl") /\ ReturnErr
  /\ UNCHANGED <<object, svc, caches, applied, registered>>

\* UpdateStatus, and Status().Update when it changed something.
WriteStatus ==
  /\ rec.pc = "status"
  /\ LET new == UpdateStatus(rec.v, rec.ran)
     IN  \/ new = rec.v /\ Return /\ UNCHANGED <<app, inflight, spent>>
         \/ /\ new # rec.v /\ ~Conflict(rec.v)
            /\ Write(new) /\ Return /\ UNCHANGED spent
         \/ /\ new # rec.v /\ Conflict(rec.v)
            /\ ReturnErr /\ UNCHANGED <<app, inflight, spent>>
         \/ /\ new # rec.v /\ Fault("status") /\ ReturnErr
            /\ \/ UNCHANGED <<app, inflight>>
               \/ ~Conflict(rec.v) /\ Write(new)
  /\ UNCHANGED <<seen, workload, caches, applied, registered>>

Reconcile ==
  \/ Start
  \/ AddFinalizer
  \/ DeleteDeployment
  \/ DeleteService
  \/ \E e \in Ext : ExtDelete(e)
  \/ ExtDeleted
  \/ RemoveFinalizer
  \/ CheckModified
  \/ \E e \in Ext : ExtSync(e)
  \/ ExtSynced
  \/ \E e \in Ext : DeleteOld(e)
  \/ OldDeleted
  \/ ApplyService
  \/ ApplyDeployment
  \/ WriteStatus

-----------------------------------------------------------------------------
(* The environment: users, watch streams, the cluster, the process. *)

\* An Application is created.
UserCreate(c) ==
  /\ ~app.exists
  /\ Spend("writes")
  /\ Write([Tombstone(0) EXCEPT !.exists = TRUE, !.content = c])
  /\ seen' = {HashOf[c]}
  /\ UNCHANGED <<workload, caches, applied, registered, queued, rec>>

\* An Application is edited, also while it is being deleted.
UserEdit(c) ==
  /\ app.exists
  /\ c # app.content
  /\ AllowRevert \/ HashOf[c] = HashOf[app.content] \/ HashOf[c] \notin seen
  /\ Spend("writes")
  /\ Write([app EXCEPT !.content = c])
  /\ seen' = seen \cup {HashOf[c]}
  /\ UNCHANGED <<workload, caches, applied, registered, queued, rec>>

\* An Application is deleted: its finalizer holds it back.
UserDelete ==
  /\ app.exists
  /\ ~app.deleting
  /\ Write(IF app.fin THEN [app EXCEPT !.deleting = TRUE] ELSE Tombstone(0))
  /\ UNCHANGED <<seen, workload, caches, applied, registered, queued, rec, spent>>

\* The informer catches up by one or more versions, and enqueues the object.
Deliver ==
  /\ \E w \in inflight :
       /\ cache' = w
       /\ inflight' = {x \in inflight : x.rv > w.rv}
  /\ queued' = TRUE
  /\ UNCHANGED <<app, seen, workload, cDepl, cSvc, applied, registered, rec, spent>>

\* SetupWithManager also watches the object's metadata, through an informer
\* of its own: the object may be enqueued before the cache has caught up.
MetadataEvent ==
  /\ cache.rv < app.rv
  /\ ~queued
  /\ queued' = TRUE
  /\ UNCHANGED <<object, workload, caches, applied, registered, rec, spent>>

\* The informers of Deployments and Services catch up.  Owns() lists neither:
\* nothing is enqueued.
CatchUpDeployment ==
  /\ cDepl # depl
  /\ cDepl' = depl
  /\ UNCHANGED <<object, workload, cache, cSvc, applied, registered, queued, rec, spent>>

CatchUpService ==
  /\ cSvc # svc
  /\ cSvc' = svc
  /\ UNCHANGED <<object, workload, cache, cDepl, applied, registered, queued, rec, spent>>

\* The cluster's deployment controller reports available replicas.
Rollout(n) ==
  /\ depl # NoDepl
  /\ n # depl.avail
  /\ Spend("rollouts")
  /\ depl' = [depl EXCEPT !.avail = n]
  /\ UNCHANGED <<object, svc, caches, applied, registered, queued, rec>>

\* Somebody deletes the Deployment, or the Service.
Drop ==
  /\ Spend("drops")
  /\ \/ depl # NoDepl /\ depl' = NoDepl /\ UNCHANGED svc
     \/ svc # 0 /\ svc' = 0 /\ UNCHANGED depl
  /\ UNCHANGED <<object, caches, applied, registered, queued, rec>>

\* An extension is added to the ExtensionManager, or removed from it.
Churn(e) ==
  /\ Spend("churn")
  /\ registered' = IF e \in registered THEN registered \ {e}
                                       ELSE registered \cup {e}
  /\ UNCHANGED <<object, workload, caches, applied, queued, rec>>

\* The process dies at any point of Reconcile and starts again: the informers
\* list, and every object listed is enqueued.
Restart ==
  /\ Spend("restarts")
  /\ cache' = app /\ inflight' = {}
  /\ cDepl' = depl /\ cSvc' = svc
  /\ queued' = app.exists
  /\ rec' = Idle
  /\ UNCHANGED <<app, seen, workload, applied, registered>>

Environment ==
  \/ \E c \in Contents : UserCreate(c) \/ UserEdit(c)
  \/ UserDelete
  \/ Deliver
  \/ MetadataEvent
  \/ CatchUpDeployment
  \/ CatchUpService
  \/ \E n \in 0..MaxAvail : Rollout(n)
  \/ Drop
  \/ \E e \in Ext : Churn(e)
  \/ Restart

-----------------------------------------------------------------------------
Init ==
  /\ app = Tombstone(0) /\ inflight = {} /\ cache = Tombstone(0)
  /\ depl = NoDepl /\ svc = 0 /\ cDepl = NoDepl /\ cSvc = 0
  /\ ext = [e \in Ext |-> NoContent]
  /\ registered = Ext
  /\ queued = FALSE
  /\ rec = Idle
  /\ seen = {} /\ unnoticed = {}
  /\ spent = [b \in Budgets |-> 0]

Next == Reconcile \/ Environment

Spec == Init /\ [][Next]_vars

\* The worker goes on while there is work, and the informers catch up.  Users,
\* faults, drops and restarts are under no obligation.
Fairness ==
  /\ WF_vars(Reconcile)
  /\ WF_vars(Deliver)
  /\ WF_vars(CatchUpDeployment)
  /\ WF_vars(CatchUpService)

FairSpec == Spec /\ Fairness

-----------------------------------------------------------------------------
(* Properties. *)

\* Every variable keeps its type.
TypeOK ==
  /\ app \in AppObj
  /\ inflight \subseteq AppObj
  /\ cache \in AppObj
  /\ depl \in DeplObj /\ cDepl \in DeplObj
  /\ svc \in Nat /\ cSvc \in Nat
  /\ ext \in [Ext -> Contents \cup {NoContent}]
  /\ registered \subseteq Ext
  /\ queued \in BOOLEAN
  /\ rec \in RecObj
  /\ seen \subseteq Hashes
  /\ unnoticed \subseteq Ext
  /\ spent \in [Budgets -> Nat]

\* A Deployment or a Service of the Application is never left without an
\* object that carries the finalizer, so that a later reconcile still deletes
\* it: neither a stale cache, nor a conflict, nor a lost answer, nor a restart
\* in the middle of Reconcile lets the object go first.
NoOrphanWorkload ==
  depl # NoDepl \/ svc # 0 => app.exists /\ app.fin

-----------------------------------------------------------------------------
(* Why NoOrphanWorkload and HashMeansDeployed hold: the inductive invariant. *)

SyncPCs   == {"isModified", "extSync", "delOld", "svc", "depl", "status"}
DeletePCs == {"delDepl", "delSvc", "extDelete", "removeFin"}

\* The copies of the object: the Reconcile call's is not newer than the
\* cache's, the cache's is older than those in flight and not newer than the
\* server's, and two copies with one resourceVersion are equal.
CopiesOrdered ==
  /\ rec.pc # "idle" => /\ rec.v.rv <= cache.rv
                        /\ rec.v.rv = cache.rv => rec.v = cache
  /\ cache.rv <= app.rv /\ (cache.rv = app.rv => cache = app)
  /\ \A w \in inflight : /\ cache.rv < w.rv /\ w.rv <= app.rv
                         /\ w.rv = app.rv => w = app

\* A copy with a content for every object that exists, none for the others.
WellFormed(w) == IF w.exists THEN w.content \in Contents
                 ELSE ~w.fin /\ ~w.deleting /\ w.hash = NoHash

CopiesWellFormed ==
  /\ WellFormed(app) /\ WellFormed(cache)
  /\ \A w \in inflight : WellFormed(w)
  /\ rec.pc # "idle" => rec.v.exists /\ WellFormed(rec.v)

\* Whoever holds a copy that has the finalizer and is not being deleted knows
\* that the object is still there, with its finalizer.
Held(w) == w.fin /\ ~w.deleting => app.exists /\ app.fin

FinalizerHeld ==
  /\ Held(cache) /\ Held(rec.v)
  /\ \A w \in inflight : Held(w)

\* What the branches of Reconcile have established at each point.
BranchFacts ==
  /\ rec.pc \in SyncPCs => rec.v.fin /\ ~rec.v.deleting
  /\ rec.pc \in DeletePCs => rec.v.fin /\ rec.v.deleting
  /\ rec.pc \in {"delSvc", "extDelete", "removeFin"} => depl = NoDepl
  /\ rec.pc \in {"extDelete", "removeFin"} => svc = 0
  /\ rec.pc = "status" => \/ rec.v.hash = HashOf[rec.v.content]
                          \/ depl = NoDepl
                          \/ depl.content = rec.v.content

\* The invariant that the steps of the specification preserve: the order of
\* the copies is what makes the resourceVersion check of RemoveFinalizer
\* protect against a stale cache.
IndInv == /\ CopiesOrdered /\ CopiesWellFormed /\ FinalizerHeld /\ BranchFacts
          /\ NoOrphanWorkload

-----------------------------------------------------------------------------
\* There is something, made from a content with this hash.
HasHash(c, h) == c # NoContent /\ HashOf[c] = h

\* Status.Hash changes to the hash of a content only when the Deployment at
\* the API server is the one rendered from a content of that hash (unless
\* somebody deleted it in between): IsModified takes the hash as the proof
\* that the workload is in place.
HashMeansDeployed ==
  [][app'.hash # app.hash /\ app'.hash # NoHash
       => depl = NoDepl \/ HasHash(depl.content, app'.hash)]_vars

\* ... and only when every extension that the status lists and the content
\* selects has applied that content, but for those that the status lists
\* because Reconcile could not delete them and those whose failure was taken
\* for success.
HashMeansSynced ==
  [][app'.hash # app.hash /\ app'.hash # NoHash
       => \A e \in app'.exts \ (rec.kept \cup unnoticed) :
            ShouldRun(e, app'.content) => HasHash(ext[e], app'.hash)]_vars

\* ... without the first exception.  An extension that is unregistered while it
\* is listed, and registered again after Sync has chosen whom to call, is taken
\* for one that is not used any more: it is told to delete, and when that fails
\* it stays listed for a content that it has not got.
ListedMeansSynced ==
  [][app'.hash # app.hash /\ app'.hash # NoHash
       => \A e \in app'.exts \ unnoticed :
            ShouldRun(e, app'.content) => HasHash(ext[e], app'.hash)]_vars

\* ... without the second.  A WASI guest that fails may have written nothing,
\* and the hash says that it has.
FailureMeansNoHash ==
  [][app'.hash # app.hash /\ app'.hash # NoHash
       => \A e \in app'.exts \ rec.kept :
            ShouldRun(e, app'.content) => HasHash(ext[e], app'.hash)]_vars

\* Nothing is waiting to be done.
Quiescent == /\ rec.pc = "idle" /\ ~queued /\ inflight = {}
             /\ cDepl = depl /\ cSvc = svc

\* What a reconcile is for: the workload and the selected extensions are at
\* the user's content, up to what the hash sees, and the status says so.  An
\* extension that failed unnoticed is only listed.
Converged ==
  LET h == HashOf[app.content]
  IN  /\ app.fin /\ app.hash = h
      /\ HasHash(depl.content, h)
      /\ PortOf[app.content] > 0 => svc = PortOf[app.content]
      /\ \A e \in registered :
           ShouldRun(e, app.content)
             => e \in app.exts /\ (HasHash(ext[e], h) \/ e \in unnoticed)

\* A hash tells contents apart as far as the port and the root keys go: both are
\* in the spec, which is hashed, and two specs with one hash are left out.
HashTells ==
  \A c, d \in Contents :
    HashOf[c] = HashOf[d] => PortOf[c] = PortOf[d] /\ KeysOf[c] = KeysOf[d]

\* No wake-up is lost: when no work is left, the object is either gone or
\* converged, and never stuck in deletion.
QuiescentConverged ==
  Quiescent => ~app.exists \/ (~app.deleting /\ Converged)

\* ... and every selected extension has applied the content.  A guest whose
\* failure was taken for success is not called again: the hash is up to date.
QuiescentSynced ==
  Quiescent /\ app.exists
    => \A e \in registered :
         ShouldRun(e, app.content) => HasHash(ext[e], HashOf[app.content])

\* When an Application is gone, every extension that is always called has been
\* told to delete what it made for it, and has, unless it refused in its
\* response.
GoneMeansAlwaysDeleted ==
  ~app.exists => \A e \in Always : ext[e] = NoContent \/ e \in unnoticed

\* ... without exception.  An extension that refuses in its response does not
\* hold the object back.
RefusalHoldsBack ==
  ~app.exists => \A e \in Always : ext[e] = NoContent

\* ... and so has every extension.
GoneMeansDeleted ==
  ~app.exists => \A e \in Ext : ext[e] = NoContent

\* A reconcile that is retried ends: the workload follows the user's last
\* write for good.
EventuallyConverged == <>[](app.exists /\ ~app.deleting => Converged)

\* A deletion goes through.
DeletionCompletes == app.exists /\ app.deleting ~> ~app.exists

\* An extension that is in use no more, and still has something, is told to
\* delete it sooner or later.
UnusedIsDeleted ==
  \A e \in Ext :
    <>[](app.exists /\ ~app.deleting /\ ~ShouldRun(e, app.content)
          => ext[e] = NoContent)

\* ... at least when the status still lists it: Reconcile deletes the listed
\* extensions that it did not run, and lists the ones whose Delete failed.
ListedUnusedIsDeleted ==
  \A e \in Ext :
    (app.exists /\ e \in app.exts /\ ~ShouldRun(e, app.content))
      ~> (~app.exists \/ app.deleting \/ ShouldRun(e, app.content)
            \/ ext[e] = NoContent)
=============================================================================
