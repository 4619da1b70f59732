------------------------ MODULE AppReconcilerProofs ------------------------
(***************************************************************************)
(* Proofs about AppReconciler, for all contents, extensions and bounds.    *)
(***************************************************************************)
EXTENDS AppReconciler, TLAPS

\* What a call of an extension comes to is expanded wherever it is used.
USE DEF applied, Applied, AppliedOrNot, NotApplied

(***************************************************************************)
(* The objects that the actions build have the types they should have.     *)
(***************************************************************************)
LEMMA TombstoneType ==
  ASSUME NEW n \in Nat
  PROVE  /\ Tombstone(n) \in AppObj
         /\ WellFormed(Tombstone(n))
         /\ ~Tombstone(n).fin /\ ~Tombstone(n).exists
         /\ Tombstone(n).hash = NoHash
BY BoundAssumption DEF Tombstone, AppObj, WellFormed

(***************************************************************************)
(* Nothing is expected of a Reconcile call that is not under way.          *)
(***************************************************************************)
LEMMA IdleType == /\ Idle \in RecObj /\ Idle.pc = "idle" /\ Idle.v = Tombstone(0)
BY TombstoneType DEF Idle, RecObj, PCs

(***************************************************************************)
(* A write of the object puts a copy newer than all others at the server   *)
(* and on the watch stream, and leaves the order of the copies as it was.  *)
(***************************************************************************)
LEMMA WriteOrder ==
  ASSUME TypeOK, CopiesOrdered, NEW new \in AppObj, Write(new)
  PROVE  /\ app' = [new EXCEPT !.rv = app.rv + 1]
         /\ app' \in AppObj
         /\ app'.rv = app.rv + 1
         /\ inflight' = inflight \cup {app'}
         /\ inflight' \subseteq AppObj
         /\ cache.rv < app'.rv
         /\ \A w \in inflight' : /\ cache.rv < w.rv /\ w.rv <= app'.rv
                                 /\ w.rv = app'.rv => w = app'
<1>1. app.rv \in Nat /\ cache.rv \in Nat /\ \A w \in inflight : w.rv \in Nat
  BY DEF TypeOK, AppObj
<1>2. app' = [new EXCEPT !.rv = app.rv + 1] /\ inflight' = inflight \cup {app'}
  BY DEF Write
<1>3. app' \in AppObj /\ app'.rv = app.rv + 1
  BY <1>1, <1>2 DEF AppObj
<1>4. inflight' \subseteq AppObj
  BY <1>2, <1>3 DEF TypeOK
<1>5. cache.rv < app'.rv
  BY <1>1, <1>3 DEF CopiesOrdered
<1>6. ASSUME NEW w \in inflight'
      PROVE  /\ cache.rv < w.rv /\ w.rv <= app'.rv
             /\ w.rv = app'.rv => w = app'
  <2>1. CASE w \in inflight
    BY <1>1, <1>3, <2>1 DEF CopiesOrdered
  <2>2. CASE w = app'
    BY <1>1, <1>3, <1>5, <2>2
  <2> QED BY <1>2, <2>1, <2>2
<1> QED BY <1>2, <1>3, <1>4, <1>5, <1>6

(***************************************************************************)
(* A write that passes the resourceVersion check starts from the object    *)
(* that the server has, and the cache has caught up with it.               *)
(***************************************************************************)
LEMMA NoConflictMeansCurrent ==
  ASSUME TypeOK, IndInv, rec.pc # "idle", ~Conflict(rec.v)
  PROVE  rec.v = app /\ cache = app /\ inflight = {} /\ app.exists
<1>1. /\ rec.v.rv \in Nat /\ cache.rv \in Nat /\ app.rv \in Nat
      /\ \A w \in inflight : w.rv \in Nat
  BY DEF TypeOK, AppObj, RecObj
<1>2. app.exists /\ app.rv = rec.v.rv
  BY DEF Conflict
<1>3. cache = app /\ rec.v = cache
  BY <1>1, <1>2 DEF IndInv, CopiesOrdered
<1>4. inflight = {}
  BY <1>1, <1>2, <1>3 DEF IndInv, CopiesOrdered
<1> QED BY <1>2, <1>3, <1>4

(***************************************************************************)
(* The extension sets of a Reconcile record.                               *)
(***************************************************************************)
LEMMA RecSets ==
  ASSUME NEW r \in RecObj
  PROVE  /\ r.pending \subseteq Ext /\ r.ran \subseteq Ext /\ r.kept \subseteq Ext
         /\ r.v.exts \subseteq Ext
<1>1. /\ r.pending \in SUBSET Ext /\ r.ran \in SUBSET Ext /\ r.kept \in SUBSET Ext
      /\ r.v \in AppObj
  BY DEF RecObj
<1>2. r.v.exts \in SUBSET Ext
  BY <1>1 DEF AppObj
<1> QED BY <1>1, <1>2

(***************************************************************************)
(* Type correctness is preserved, given the inductive invariant (which     *)
(* says that an object being reconciled has a content).                    *)
(***************************************************************************)
LEMMA TypeStep ==
  ASSUME TypeOK, IndInv, [Next]_vars
  PROVE  TypeOK'
<1> USE ContentAssumption, BoundAssumption
<1>a. ASSUME NEW new \in AppObj, Write(new)
      PROVE  app' \in AppObj /\ inflight' \subseteq AppObj
  BY <1>a DEF Write, TypeOK, AppObj
<1>b. ASSUME NEW b \in Budgets, Spend(b)
      PROVE  spent' \in [Budgets -> Nat]
  BY <1>b DEF Spend, TypeOK
<1>c. ASSUME NEW call, Fault(call) PROVE spent' \in [Budgets -> Nat]
  BY <1>b, <1>c DEF Fault, Budgets
<1>d. ASSUME rec' = Idle PROVE rec' \in RecObj
  BY <1>d, IdleType
<1>e. ASSUME NEW pc \in PCs, Goto(pc) PROVE rec' \in RecObj /\ queued' \in BOOLEAN
  BY <1>e DEF Goto, TypeOK, RecObj
<1>f. ASSUME Return \/ ReturnErr PROVE rec' \in RecObj /\ queued' \in BOOLEAN
  BY <1>d, <1>f DEF Return, ReturnErr, TypeOK
<1>1. CASE Start
  <2>1. rec' \in RecObj
    BY <1>1, IdleType DEF Start, TypeOK, RecObj, PCs
  <2> QED BY <1>1, <2>1 DEF Start, TypeOK, object, workload, caches
<1>2. CASE AddFinalizer
  <2>1. [rec.v EXCEPT !.fin = TRUE] \in AppObj
    BY DEF TypeOK, RecObj, AppObj
  <2>2. rec' \in RecObj /\ queued' \in BOOLEAN
    BY <1>2, <1>f DEF AddFinalizer
  <2>3. app' \in AppObj /\ inflight' \subseteq AppObj
    BY <1>2, <1>a, <2>1 DEF AddFinalizer, TypeOK
  <2>4. spent' \in [Budgets -> Nat]
    BY <1>2, <1>c DEF AddFinalizer, TypeOK
  <2> QED BY <1>2, <2>2, <2>3, <2>4 DEF AddFinalizer, TypeOK, workload, caches
<1>3. CASE DeleteDeployment
  <2>1. rec' \in RecObj /\ queued' \in BOOLEAN
    BY <1>3, <1>e, <1>f DEF DeleteDeployment, PCs
  <2>2. spent' \in [Budgets -> Nat]
    BY <1>3, <1>c DEF DeleteDeployment, TypeOK
  <2>3. depl' \in DeplObj
    BY <1>3 DEF DeleteDeployment, TypeOK, NoDepl, DeplObj
  <2> QED BY <1>3, <2>1, <2>2, <2>3 DEF DeleteDeployment, TypeOK, object, caches
<1>4. CASE DeleteService
  <2>1. rec' \in RecObj /\ queued' \in BOOLEAN
    <3>1. CASE ReturnErr
      BY <3>1, <1>f
    <3>2. CASE ~ReturnErr
      <4> DEFINE S == {e \in registered : ShouldRun(e, rec.v.content)}
      <4>1. S \in SUBSET Ext
        BY DEF TypeOK
      <4>2. rec' = [rec EXCEPT !.pc = "extDelete", !.pending = S] /\ queued' = queued
        BY <1>4, <3>2 DEF DeleteService
      <4> HIDE DEF S
      <4> QED BY <4>1, <4>2 DEF TypeOK, RecObj, PCs
    <3> QED BY <3>1, <3>2
  <2>2. spent' \in [Budgets -> Nat]
    BY <1>4, <1>c DEF DeleteService, TypeOK
  <2> QED BY <1>4, <2>1, <2>2 DEF DeleteService, TypeOK, object, caches
<1>5. ASSUME NEW e \in Ext, ExtDelete(e) PROVE TypeOK'
  <2>1. spent' \in [Budgets -> Nat]
    BY <1>5, <1>c DEF ExtDelete, TypeOK
  <2>2. rec' \in RecObj
    <3> DEFINE S == rec.pending \ {e}
    <3>1. S \in SUBSET Ext
      BY RecSets DEF TypeOK
    <3>2. \/ rec' = [rec EXCEPT !.pending = S]
          \/ rec' = [rec EXCEPT !.pending = S, !.failed = TRUE]
      BY <1>5 DEF ExtDelete
    <3> HIDE DEF S
    <3> QED BY <3>1, <3>2 DEF TypeOK, RecObj
  <2>3. ext' \in [Ext -> Contents \cup {NoContent}] /\ unnoticed' \subseteq Ext
    BY <1>5 DEF ExtDelete, TypeOK
  <2> QED BY <1>5, <2>1, <2>2, <2>3 DEF ExtDelete, TypeOK, object, workload, caches
<1>6. CASE ExtDeleted
  <2>1. rec' \in RecObj /\ queued' \in BOOLEAN
    BY <1>6, <1>e, <1>f DEF ExtDeleted, PCs
  <2> QED BY <1>6, <2>1 DEF ExtDeleted, TypeOK, object, workload, caches
<1>7. CASE RemoveFinalizer
  <2>1. rec' \in RecObj /\ queued' \in BOOLEAN
    BY <1>7, <1>f DEF RemoveFinalizer
  <2>2. app' \in AppObj /\ inflight' \subseteq AppObj
    BY <1>7, <1>a, TombstoneType DEF RemoveFinalizer, TypeOK
  <2>3. spent' \in [Budgets -> Nat]
    BY <1>7, <1>c DEF RemoveFinalizer, TypeOK
  <2> QED BY <1>7, <2>1, <2>2, <2>3 DEF RemoveFinalizer, TypeOK, workload, caches
<1>8. CASE CheckModified
  <2>1. rec' \in RecObj
    BY <1>8 DEF CheckModified, TypeOK, RecObj, PCs, AppObj
  <2> QED BY <1>8, <2>1 DEF CheckModified, TypeOK, object, workload, caches
<1>9. ASSUME NEW e \in Ext, ExtSync(e) PROVE TypeOK'
  <2>1. spent' \in [Budgets -> Nat]
    BY <1>9, <1>c DEF ExtSync, TypeOK
  <2>2. rec' \in RecObj
    <3> DEFINE S == rec.pending \ {e}
    <3>1. S \in SUBSET Ext
      BY RecSets DEF TypeOK
    <3>2. \/ rec' = [rec EXCEPT !.pending = S]
          \/ rec' = [rec EXCEPT !.pending = S, !.failed = TRUE]
      BY <1>9 DEF ExtSync
    <3> HIDE DEF S
    <3> QED BY <3>1, <3>2 DEF TypeOK, RecObj
  <2>3. rec.v.content \in Contents \cup {NoContent}
    BY DEF TypeOK, RecObj, AppObj
  <2>4. ext' \in [Ext -> Contents \cup {NoContent}] /\ unnoticed' \subseteq Ext
    BY <1>9, <2>3 DEF ExtSync, TypeOK
  <2> QED BY <1>9, <2>1, <2>2, <2>4 DEF ExtSync, TypeOK, object, workload, caches
<1>10. CASE ExtSynced
  <2>1. rec' \in RecObj /\ queued' \in BOOLEAN
    <3>1. CASE ReturnErr
      BY <3>1, <1>f
    <3>2. CASE ~ReturnErr
      <4> DEFINE S == rec.v.exts \ rec.ran
      <4>1. S \in SUBSET Ext
        BY RecSets DEF TypeOK
      <4>2. rec' = [rec EXCEPT !.pc = "delOld", !.pending = S] /\ queued' = queued
        BY <1>10, <3>2 DEF ExtSynced
      <4> HIDE DEF S
      <4> QED BY <4>1, <4>2 DEF TypeOK, RecObj, PCs
    <3> QED BY <3>1, <3>2
  <2> QED BY <1>10, <2>1 DEF ExtSynced, TypeOK, object, workload, caches
<1>11. ASSUME NEW e \in Ext, DeleteOld(e) PROVE TypeOK'
  <2>1. spent' \in [Budgets -> Nat]
    BY <1>11, <1>c DEF DeleteOld, TypeOK
  <2>2. rec' \in RecObj
    <3> DEFINE S == rec.pending \ {e}
               R == rec.ran \cup {e}
               K == rec.kept \cup {e}
    <3>1. S \in SUBSET Ext /\ R \in SUBSET Ext /\ K \in SUBSET Ext
      BY RecSets DEF TypeOK
    <3>2. \/ rec' = [rec EXCEPT !.pending = S]
          \/ rec' = [rec EXCEPT !.pending = S, !.ran = R, !.kept = K]
      BY <1>11 DEF DeleteOld
    <3> HIDE DEF S, R, K
    <3> QED BY <3>1, <3>2 DEF TypeOK, RecObj
  <2>3. ext' \in [Ext -> Contents \cup {NoContent}] /\ unnoticed' \subseteq Ext
    BY <1>11 DEF DeleteOld, TypeOK
  <2> QED BY <1>11, <2>1, <2>2, <2>3 DEF DeleteOld, TypeOK, object, workload, caches
<1>12. CASE OldDeleted
  <2>1. rec' \in RecObj /\ queued' \in BOOLEAN
    BY <1>12, <1>e DEF OldDeleted, PCs
  <2> QED BY <1>12, <2>1 DEF OldDeleted, TypeOK, object, workload, caches
<1>13. CASE ApplyService
  <2>1. rec' \in RecObj /\ queued' \in BOOLEAN
    BY <1>13, <1>e, <1>f DEF ApplyService, PCs
  <2>2. spent' \in [Budgets -> Nat]
    BY <1>13, <1>c DEF ApplyService, TypeOK
  <2>3. PortOf[rec.v.content] \in Nat
    BY <1>13 DEF ApplyService, IndInv, CopiesWellFormed, WellFormed
  <2>4. svc' \in Nat
    BY <1>13, <2>3 DEF ApplyService, TypeOK
  <2> QED BY <1>13, <2>1, <2>2, <2>4 DEF ApplyService, TypeOK, object, caches
<1>14. CASE ApplyDeployment
  <2>1. rec' \in RecObj /\ queued' \in BOOLEAN
    BY <1>14, <1>e, <1>f DEF ApplyDeployment, PCs
  <2>2. spent' \in [Budgets -> Nat]
    BY <1>14, <1>c DEF ApplyDeployment, TypeOK
  <2>3. [depl EXCEPT !.content = rec.v.content] \in DeplObj
    BY DEF TypeOK, RecObj, AppObj, DeplObj
  <2>4. depl' \in DeplObj
    BY <1>14, <2>3 DEF ApplyDeployment, TypeOK
  <2> QED BY <1>14, <2>1, <2>2, <2>4 DEF ApplyDeployment, TypeOK, object, caches
<1>15. CASE WriteStatus
  <2>1. rec' \in RecObj /\ queued' \in BOOLEAN
    BY <1>15, <1>f DEF WriteStatus
  <2>2. spent' \in [Budgets -> Nat]
    BY <1>15, <1>c DEF WriteStatus, TypeOK
  <2>3. HashOf[rec.v.content] \in Hashes
    BY <1>15 DEF WriteStatus, IndInv, CopiesWellFormed, WellFormed
  <2>4. UpdateStatus(rec.v, rec.ran) \in AppObj
    BY <2>3 DEF UpdateStatus, TypeOK, RecObj, AppObj, DeplObj
  <2>5. app' \in AppObj /\ inflight' \subseteq AppObj
    BY <1>15, <1>a, <2>4 DEF WriteStatus, TypeOK
  <2> QED BY <1>15, <2>1, <2>2, <2>5 DEF WriteStatus, TypeOK, workload, caches
<1>16. ASSUME NEW c \in Contents, UserCreate(c) PROVE TypeOK'
  <2>1. [Tombstone(0) EXCEPT !.exists = TRUE, !.content = c] \in AppObj
    <3>1. ASSUME NEW w \in AppObj
          PROVE  [w EXCEPT !.exists = TRUE, !.content = c] \in AppObj
      BY DEF AppObj
    <3> QED BY <3>1, TombstoneType
  <2>2. app' \in AppObj /\ inflight' \subseteq AppObj
    BY <1>16, <1>a, <2>1 DEF UserCreate
  <2>3. spent' \in [Budgets -> Nat]
    BY <1>16, <1>b DEF UserCreate, Budgets
  <2>4. seen' \subseteq Hashes
    BY <1>16 DEF UserCreate
  <2> QED BY <1>16, <2>2, <2>3, <2>4 DEF UserCreate, TypeOK, workload, caches
<1>17. ASSUME NEW c \in Contents, UserEdit(c) PROVE TypeOK'
  <2>1. [app EXCEPT !.content = c] \in AppObj
    BY DEF TypeOK, AppObj
  <2>2. app' \in AppObj /\ inflight' \subseteq AppObj
    BY <1>17, <1>a, <2>1 DEF UserEdit
  <2>3. spent' \in [Budgets -> Nat]
    BY <1>17, <1>b DEF UserEdit, Budgets
  <2>4. seen' \subseteq Hashes
    BY <1>17 DEF UserEdit, TypeOK
  <2> QED BY <1>17, <2>2, <2>3, <2>4 DEF UserEdit, TypeOK, workload, caches
<1>18. CASE UserDelete
  <2>1. [app EXCEPT !.deleting = TRUE] \in AppObj /\ Tombstone(0) \in AppObj
    BY TombstoneType DEF TypeOK, AppObj
  <2>2. app' \in AppObj /\ inflight' \subseteq AppObj
    BY <1>18, <1>a, <2>1 DEF UserDelete
  <2> QED BY <1>18, <2>2 DEF UserDelete, TypeOK, workload, caches
<1>19. CASE Deliver
  BY <1>19 DEF Deliver, TypeOK, workload
<1>20. CASE MetadataEvent
  BY <1>20 DEF MetadataEvent, TypeOK, object, workload, caches
<1>21. CASE CatchUpDeployment
  BY <1>21 DEF CatchUpDeployment, TypeOK, object, workload
<1>22. CASE CatchUpService
  BY <1>22 DEF CatchUpService, TypeOK, object, workload
<1>23. ASSUME NEW n \in 0..MaxAvail, Rollout(n) PROVE TypeOK'
  <2>1. depl' \in DeplObj
    BY <1>23 DEF Rollout, TypeOK, DeplObj
  <2>2. spent' \in [Budgets -> Nat]
    BY <1>23, <1>b DEF Rollout, Budgets
  <2> QED BY <1>23, <2>1, <2>2 DEF Rollout, TypeOK, object, caches
<1>24. CASE Drop
  <2>1. depl' \in DeplObj /\ svc' \in Nat
    BY <1>24 DEF Drop, TypeOK, DeplObj, NoDepl
  <2>2. spent' \in [Budgets -> Nat]
    BY <1>24, <1>b DEF Drop, Budgets
  <2> QED BY <1>24, <2>1, <2>2 DEF Drop, TypeOK, object, caches
<1>25. ASSUME NEW e \in Ext, Churn(e) PROVE TypeOK'
  <2>1. spent' \in [Budgets -> Nat]
    BY <1>25, <1>b DEF Churn, Budgets
  <2> QED BY <1>25, <2>1 DEF Churn, TypeOK, object, workload, caches
<1>26. CASE Restart
  <2>1. spent' \in [Budgets -> Nat] /\ rec' \in RecObj
    BY <1>26, <1>b, <1>d DEF Restart, Budgets
  <2>2. app.exists \in BOOLEAN
    BY DEF TypeOK, AppObj
  <2> QED BY <1>26, <2>1, <2>2 DEF Restart, TypeOK, workload
<1>27. CASE UNCHANGED vars
  BY <1>27 DEF vars, TypeOK
<1> QED
  BY <1>1, <1>2, <1>3, <1>4, <1>5, <1>6, <1>7, <1>8, <1>9, <1>10, <1>11, <1>12,
     <1>13, <1>14, <1>15, <1>16, <1>17, <1>18, <1>19, <1>20, <1>21, <1>22,
     <1>23, <1>24, <1>25, <1>26, <1>27
  DEF Next, Reconcile, Environment

(***************************************************************************)
(* A write that does not take the finalizer away preserves the invariant.  *)
(***************************************************************************)
LEMMA WriteKeepsInv ==
  ASSUME TypeOK, IndInv, NEW new \in AppObj, WellFormed(new), Write(new),
         UNCHANGED <<cache, depl, svc>>, rec' = rec \/ rec' = Idle,
         app.exists /\ app.fin => new.exists /\ new.fin
  PROVE  IndInv'
<1>1. CopiesOrdered
  BY DEF IndInv
<1>2. /\ app' = [new EXCEPT !.rv = app.rv + 1]
      /\ app' \in AppObj
      /\ app'.rv = app.rv + 1
      /\ inflight' = inflight \cup {app'}
      /\ cache.rv < app'.rv
      /\ \A w \in inflight' : /\ cache.rv < w.rv /\ w.rv <= app'.rv
                              /\ w.rv = app'.rv => w = app'
  BY <1>1, WriteOrder
<1>3. /\ app'.exists = new.exists /\ app'.fin = new.fin
      /\ app'.deleting = new.deleting /\ app'.content = new.content
      /\ app'.hash = new.hash
  BY <1>2 DEF AppObj
<1>4. CopiesOrdered'
  <2>1. rec'.pc # "idle" => /\ rec'.v.rv <= cache'.rv
                            /\ rec'.v.rv = cache'.rv => rec'.v = cache'
    BY <1>1, IdleType DEF CopiesOrdered
  <2>2. cache'.rv <= app'.rv /\ (cache'.rv = app'.rv => cache' = app')
    <3>1. cache.rv \in Nat /\ app'.rv \in Nat
      BY <1>2 DEF TypeOK, AppObj
    <3> QED BY <3>1, <1>2
  <2> QED BY <1>2, <2>1, <2>2 DEF CopiesOrdered
<1>5. CopiesWellFormed'
  <2>1. WellFormed(app')
    BY <1>3 DEF WellFormed
  <2>2. \A w \in inflight' : WellFormed(w)
    BY <1>2, <2>1 DEF IndInv, CopiesWellFormed
  <2>3. rec'.pc # "idle" => rec'.v.exists /\ WellFormed(rec'.v)
    BY IdleType DEF IndInv, CopiesWellFormed
  <2> QED BY <2>1, <2>2, <2>3 DEF IndInv, CopiesWellFormed, WellFormed
<1>6. FinalizerHeld'
  <2>1. app.exists /\ app.fin => app'.exists /\ app'.fin
    BY <1>3
  <2>2. app'.fin => app'.exists
    BY <1>5 DEF CopiesWellFormed, WellFormed
  <2>3. Held(rec.v) /\ Held(cache) /\ \A w \in inflight : Held(w)
    BY DEF IndInv, FinalizerHeld
  <2>4. ~rec'.v.fin \/ rec'.v = rec.v
    BY IdleType, TombstoneType
  <2> QED BY <1>2, <2>1, <2>2, <2>3, <2>4 DEF FinalizerHeld, Held
<1>7. BranchFacts'
  BY IdleType DEF IndInv, BranchFacts, SyncPCs, DeletePCs
<1>8. NoOrphanWorkload'
  BY <1>3 DEF IndInv, NoOrphanWorkload
<1> QED BY <1>4, <1>5, <1>6, <1>7, <1>8 DEF IndInv

(***************************************************************************)
(* So does the end of a Reconcile call, ...                                *)
(***************************************************************************)
LEMMA ReturnKeepsInv ==
  ASSUME TypeOK, IndInv, UNCHANGED <<app, inflight, cache>>, rec' = Idle,
         NoOrphanWorkload'
  PROVE  IndInv'
<1>1. CopiesOrdered'
  BY IdleType DEF IndInv, CopiesOrdered
<1>2. CopiesWellFormed'
  BY IdleType DEF IndInv, CopiesWellFormed, WellFormed
<1>3. FinalizerHeld'
  BY IdleType, TombstoneType DEF IndInv, FinalizerHeld, Held
<1>4. BranchFacts'
  BY IdleType DEF BranchFacts, SyncPCs, DeletePCs
<1> QED BY <1>1, <1>2, <1>3, <1>4 DEF IndInv

(***************************************************************************)
(* ... and a step of it that goes on with the same copy of the object, to  *)
(* a point whose facts hold.                                               *)
(***************************************************************************)
LEMMA MoveKeepsInv ==
  ASSUME TypeOK, IndInv, UNCHANGED <<app, inflight, cache>>,
         rec.pc # "idle" \/ rec' = rec, rec'.v = rec.v,
         NoOrphanWorkload', BranchFacts'
  PROVE  IndInv'
<1>1. CopiesOrdered'
  BY DEF IndInv, CopiesOrdered
<1>2. CopiesWellFormed'
  BY DEF IndInv, CopiesWellFormed, WellFormed
<1>3. FinalizerHeld'
  BY DEF IndInv, FinalizerHeld, Held
<1> QED BY <1>1, <1>2, <1>3 DEF IndInv

(***************************************************************************)
(* Every step preserves the inductive invariant.                           *)
(***************************************************************************)
LEMMA InvStep ==
  ASSUME TypeOK, IndInv, [Next]_vars
  PROVE  IndInv'
<1> USE ContentAssumption, BoundAssumption
<1>p. rec \in RecObj /\ rec.v \in AppObj /\ app \in AppObj /\ cache \in AppObj
  BY DEF TypeOK, RecObj
<1>q. /\ BranchFacts /\ NoOrphanWorkload /\ CopiesWellFormed /\ FinalizerHeld
      /\ CopiesOrdered
  BY DEF IndInv
<1>r. ASSUME Return \/ ReturnErr PROVE rec' = Idle
  BY <1>r DEF Return, ReturnErr
<1>s. ASSUME NEW pc, Goto(pc) PROVE rec'.pc = pc /\ rec'.v = rec.v
  BY <1>p, <1>s DEF Goto, RecObj
<1>1. CASE Start
  <2>0. UNCHANGED <<app, inflight, cache, depl, svc>>
    BY <1>1 DEF Start, object, caches, workload
  <2>1. CASE rec' = Idle
    BY <2>0, <2>1, <1>q, ReturnKeepsInv DEF NoOrphanWorkload
  <2>2. CASE rec' # Idle
    <3>1. cache.exists /\ (cache.deleting => cache.fin)
      BY <1>1, <2>2 DEF Start
    <3>2. /\ rec'.v = cache
          /\ rec'.pc = IF cache.deleting THEN "delDepl"
                       ELSE IF cache.fin THEN "isModified" ELSE "addFin"
      BY <1>1, <3>1, IdleType DEF Start, RecObj
    <3>3. CopiesOrdered'
      BY <1>p, <1>q, <2>0, <3>2 DEF CopiesOrdered, AppObj
    <3>4. CopiesWellFormed'
      BY <1>q, <2>0, <3>1, <3>2 DEF CopiesWellFormed, WellFormed
    <3>5. FinalizerHeld'
      BY <1>q, <2>0, <3>2 DEF FinalizerHeld, Held
    <3>6. BranchFacts'
      BY <3>1, <3>2 DEF BranchFacts, SyncPCs, DeletePCs
    <3>7. NoOrphanWorkload'
      BY <1>q, <2>0 DEF NoOrphanWorkload
    <3> QED BY <3>3, <3>4, <3>5, <3>6, <3>7 DEF IndInv
  <2> QED BY <2>1, <2>2
<1>2. CASE AddFinalizer
  <2> DEFINE new == [rec.v EXCEPT !.fin = TRUE]
  <2>0. rec' = Idle /\ UNCHANGED <<cache, depl, svc>> /\ rec.pc = "addFin"
    BY <1>2, <1>r DEF AddFinalizer, caches, workload
  <2>1. CASE UNCHANGED <<app, inflight>>
    BY <2>0, <2>1, <1>q, ReturnKeepsInv DEF NoOrphanWorkload
  <2>2. CASE Write(new)
    <3>1. /\ new \in AppObj /\ new.exists = rec.v.exists /\ new.fin
          /\ new.content = rec.v.content
      BY <1>p DEF AppObj
    <3>2. new.exists /\ WellFormed(new)
      BY <1>q, <2>0, <3>1 DEF CopiesWellFormed, WellFormed
    <3> HIDE DEF new
    <3> QED BY <2>0, <2>2, <3>1, <3>2, WriteKeepsInv
  <2> QED BY <1>2, <2>1, <2>2 DEF AddFinalizer
<1>3. CASE DeleteDeployment
  <2>0. /\ UNCHANGED <<app, inflight, cache, svc>> /\ depl' \in {depl, NoDepl}
        /\ rec.pc = "delDepl"
    BY <1>3 DEF DeleteDeployment, object, caches
  <2>1. NoOrphanWorkload'
    BY <1>q, <2>0 DEF NoOrphanWorkload
  <2>2. CASE Goto("delSvc") /\ depl' = NoDepl
    <3>1. BranchFacts'
      BY <1>q, <1>s, <2>0, <2>2 DEF BranchFacts, SyncPCs, DeletePCs
    <3> QED BY <1>s, <2>0, <2>1, <2>2, <3>1, MoveKeepsInv
  <2>3. CASE ReturnErr
    BY <1>r, <2>0, <2>1, <2>3, ReturnKeepsInv
  <2> QED BY <1>3, <2>2, <2>3 DEF DeleteDeployment
<1>4. CASE DeleteService
  <2>0. /\ UNCHANGED <<app, inflight, cache, depl>> /\ svc' \in {svc, 0}
        /\ rec.pc = "delSvc"
    BY <1>4 DEF DeleteService, object, caches
  <2>1. NoOrphanWorkload'
    BY <1>q, <2>0 DEF NoOrphanWorkload
  <2>2. CASE ReturnErr
    BY <1>r, <2>0, <2>1, <2>2, ReturnKeepsInv
  <2>3. CASE ~ReturnErr
    <3>1. svc' = 0 /\ rec'.pc = "extDelete" /\ rec'.v = rec.v
      BY <1>4, <1>p, <2>3 DEF DeleteService, RecObj
    <3>2. BranchFacts'
      BY <1>q, <2>0, <3>1 DEF BranchFacts, SyncPCs, DeletePCs
    <3> QED BY <2>0, <2>1, <3>1, <3>2, MoveKeepsInv
  <2> QED BY <2>2, <2>3
<1>5. ASSUME NEW e \in Ext, ExtDelete(e) PROVE IndInv'
  <2>0. /\ UNCHANGED <<app, inflight, cache, depl, svc>> /\ rec.pc = "extDelete"
    BY <1>5 DEF ExtDelete, object, caches, workload
  <2>1. rec'.pc = rec.pc /\ rec'.v = rec.v
    BY <1>5, <1>p DEF ExtDelete, RecObj
  <2>2. BranchFacts' /\ NoOrphanWorkload'
    BY <1>q, <2>0, <2>1 DEF BranchFacts, NoOrphanWorkload
  <2> QED BY <2>0, <2>1, <2>2, MoveKeepsInv
<1>6. CASE ExtDeleted
  <2>0. /\ UNCHANGED <<app, inflight, cache, depl, svc>> /\ rec.pc = "extDelete"
    BY <1>6 DEF ExtDeleted, object, caches, workload
  <2>1. NoOrphanWorkload'
    BY <1>q, <2>0 DEF NoOrphanWorkload
  <2>2. CASE ReturnErr
    BY <1>r, <2>0, <2>1, <2>2, ReturnKeepsInv
  <2>3. CASE Goto("removeFin")
    <3>1. BranchFacts'
      BY <1>q, <1>s, <2>0, <2>3 DEF BranchFacts, SyncPCs, DeletePCs
    <3> QED BY <1>s, <2>0, <2>1, <2>3, <3>1, MoveKeepsInv
  <2> QED BY <1>6, <2>2, <2>3 DEF ExtDeleted
<1>7. CASE RemoveFinalizer
  <2>0. /\ rec' = Idle /\ UNCHANGED <<cache, depl, svc>> /\ rec.pc = "removeFin"
        /\ depl = NoDepl /\ svc = 0 /\ rec.v.deleting
    BY <1>7, <1>q, <1>r
    DEF RemoveFinalizer, caches, workload, BranchFacts, DeletePCs
  <2>1. CASE UNCHANGED <<app, inflight>>
    BY <2>0, <2>1, <1>q, ReturnKeepsInv DEF NoOrphanWorkload
  <2>2. CASE ~Conflict(rec.v) /\ Write(Tombstone(0))
    <3>1. rec.v = app /\ cache = app /\ inflight = {}
      BY <2>0, <2>2, NoConflictMeansCurrent
    <3>2. Tombstone(0) \in AppObj
      BY TombstoneType
    <3>3. /\ app' = [Tombstone(0) EXCEPT !.rv = app.rv + 1]
          /\ app' \in AppObj /\ app'.rv = app.rv + 1 /\ inflight' = {app'}
          /\ cache.rv < app'.rv
          /\ \A w \in inflight' : /\ cache.rv < w.rv /\ w.rv <= app'.rv
                                  /\ w.rv = app'.rv => w = app'
      BY <1>q, <2>2, <3>1, <3>2, WriteOrder
    <3>4. ~app'.exists /\ ~app'.fin /\ ~app'.deleting /\ app'.hash = NoHash
      BY <3>3 DEF Tombstone
    <3>5. CopiesOrdered'
      <4>1. cache.rv \in Nat /\ app'.rv \in Nat
        BY <1>p, <3>3 DEF AppObj
      <4> QED BY <2>0, <3>3, <4>1, IdleType DEF CopiesOrdered
    <3>6. CopiesWellFormed'
      BY <1>q, <2>0, <3>3, <3>4, IdleType DEF CopiesWellFormed, WellFormed
    <3>7. FinalizerHeld'
      BY <2>0, <3>1, <3>3, <3>4, IdleType, TombstoneType DEF FinalizerHeld, Held
    <3>8. BranchFacts'
      BY <2>0, IdleType DEF BranchFacts, SyncPCs, DeletePCs
    <3>9. NoOrphanWorkload'
      BY <2>0 DEF NoOrphanWorkload
    <3> QED BY <3>5, <3>6, <3>7, <3>8, <3>9 DEF IndInv
  <2> QED BY <1>7, <2>1, <2>2 DEF RemoveFinalizer
<1>8. CASE CheckModified
  <2>0. /\ UNCHANGED <<app, inflight, cache, depl, svc>> /\ rec.pc = "isModified"
    BY <1>8 DEF CheckModified, object, caches, workload
  <2>1. /\ rec'.v = rec.v
        /\ \/ rec'.pc = "extSync"
           \/ rec'.pc = "status" /\ rec.v.hash = HashOf[rec.v.content]
    BY <1>8, <1>p DEF CheckModified, IsModified, RecObj
  <2>2. BranchFacts' /\ NoOrphanWorkload'
    BY <1>q, <2>0, <2>1 DEF BranchFacts, NoOrphanWorkload, SyncPCs, DeletePCs
  <2> QED BY <2>0, <2>1, <2>2, MoveKeepsInv
<1>9. ASSUME NEW e \in Ext, ExtSync(e) PROVE IndInv'
  <2>0. /\ UNCHANGED <<app, inflight, cache, depl, svc>> /\ rec.pc = "extSync"
    BY <1>9 DEF ExtSync, object, caches, workload
  <2>1. rec'.pc = rec.pc /\ rec'.v = rec.v
    BY <1>9, <1>p DEF ExtSync, RecObj
  <2>2. BranchFacts' /\ NoOrphanWorkload'
    BY <1>q, <2>0, <2>1 DEF BranchFacts, NoOrphanWorkload
  <2> QED BY <2>0, <2>1, <2>2, MoveKeepsInv
<1>10. CASE ExtSynced
  <2>0. /\ UNCHANGED <<app, inflight, cache, depl, svc>> /\ rec.pc = "extSync"
    BY <1>10 DEF ExtSynced, object, caches, workload
  <2>1. NoOrphanWorkload'
    BY <1>q, <2>0 DEF NoOrphanWorkload
  <2>2. CASE ReturnErr
    BY <1>r, <2>0, <2>1, <2>2, ReturnKeepsInv
  <2>3. CASE ~ReturnErr
    <3>1. rec'.pc = "delOld" /\ rec'.v = rec.v
      BY <1>10, <1>p, <2>3 DEF ExtSynced, RecObj
    <3>2. BranchFacts'
      BY <1>q, <2>0, <3>1 DEF BranchFacts, SyncPCs, DeletePCs
    <3> QED BY <2>0, <2>1, <3>1, <3>2, MoveKeepsInv
  <2> QED BY <2>2, <2>3
<1>11. ASSUME NEW e \in Ext, DeleteOld(e) PROVE IndInv'
  <2>0. /\ UNCHANGED <<app, inflight, cache, depl, svc>> /\ rec.pc = "delOld"
    BY <1>11 DEF DeleteOld, object, caches, workload
  <2>1. rec'.pc = rec.pc /\ rec'.v = rec.v
    BY <1>11, <1>p DEF DeleteOld, RecObj
  <2>2. BranchFacts' /\ NoOrphanWorkload'
    BY <1>q, <2>0, <2>1 DEF BranchFacts, NoOrphanWorkload
  <2> QED BY <2>0, <2>1, <2>2, MoveKeepsInv
<1>12. CASE OldDeleted
  <2>0. /\ UNCHANGED <<app, inflight, cache, depl, svc>> /\ rec.pc = "delOld"
    BY <1>12 DEF OldDeleted, object, caches, workload
  <2>1. rec'.pc \in {"svc", "depl"} /\ rec'.v = rec.v
    BY <1>12, <1>s DEF OldDeleted
  <2>2. BranchFacts' /\ NoOrphanWorkload'
    BY <1>q, <2>0, <2>1 DEF BranchFacts, NoOrphanWorkload, SyncPCs, DeletePCs
  <2> QED BY <2>0, <2>1, <2>2, MoveKeepsInv
<1>13. CASE ApplyService
  <2>0. UNCHANGED <<app, inflight, cache, depl>> /\ rec.pc = "svc"
    BY <1>13 DEF ApplyService, object, caches
  <2>1. app.exists /\ app.fin
    BY <1>q, <2>0 DEF BranchFacts, SyncPCs, FinalizerHeld, Held
  <2>2. NoOrphanWorkload'
    BY <2>0, <2>1 DEF NoOrphanWorkload
  <2>3. CASE ReturnErr
    BY <1>r, <2>0, <2>2, <2>3, ReturnKeepsInv
  <2>4. CASE Goto("depl")
    <3>1. BranchFacts'
      BY <1>q, <1>s, <2>0, <2>4 DEF BranchFacts, SyncPCs, DeletePCs
    <3> QED BY <1>s, <2>0, <2>2, <2>4, <3>1, MoveKeepsInv
  <2> QED BY <1>13, <2>3, <2>4 DEF ApplyService
<1>14. CASE ApplyDeployment
  <2>0. UNCHANGED <<app, inflight, cache, svc>> /\ rec.pc = "depl"
    BY <1>14 DEF ApplyDeployment, object, caches
  <2>1. app.exists /\ app.fin
    BY <1>q, <2>0 DEF BranchFacts, SyncPCs, FinalizerHeld, Held
  <2>2. NoOrphanWorkload'
    BY <2>0, <2>1 DEF NoOrphanWorkload
  <2>3. CASE ReturnErr
    BY <1>r, <2>0, <2>2, <2>3, ReturnKeepsInv
  <2>4. CASE ~ReturnErr
    <3>1. Goto("status") /\ depl' = [depl EXCEPT !.content = rec.v.content]
      BY <1>14, <2>4 DEF ApplyDeployment
    <3>2. depl'.content = rec.v.content
      BY <3>1 DEF TypeOK, DeplObj
    <3>3. BranchFacts'
      BY <1>q, <1>s, <2>0, <3>1, <3>2 DEF BranchFacts, SyncPCs, DeletePCs
    <3> QED BY <1>s, <2>0, <2>2, <3>1, <3>3, MoveKeepsInv
  <2> QED BY <2>3, <2>4
<1>15. CASE WriteStatus
  <2> DEFINE new == UpdateStatus(rec.v, rec.ran)
  <2>0. rec' = Idle /\ UNCHANGED <<cache, depl, svc>> /\ rec.pc = "status"
    BY <1>15, <1>r DEF WriteStatus, caches, workload
  <2>1. CASE UNCHANGED <<app, inflight>>
    BY <2>0, <2>1, <1>q, ReturnKeepsInv DEF NoOrphanWorkload
  <2>2. CASE Write(new)
    <3>1. rec.v.exists /\ rec.v.content \in Contents /\ rec.v.fin
      BY <1>q, <2>0
      DEF CopiesWellFormed, WellFormed, BranchFacts, SyncPCs
    <3>2. HashOf[rec.v.content] \in Hashes
      BY <3>1
    <3>3. /\ new \in AppObj /\ new.exists = rec.v.exists /\ new.fin = rec.v.fin
          /\ new.content = rec.v.content
      BY <1>p, <3>2 DEF UpdateStatus, TypeOK, RecObj, AppObj, DeplObj
    <3>4. WellFormed(new)
      BY <3>1, <3>3 DEF WellFormed
    <3> HIDE DEF new
    <3> QED BY <2>0, <2>2, <3>1, <3>3, <3>4, WriteKeepsInv
  <2> QED BY <1>15, <2>1, <2>2 DEF WriteStatus
<1>16. ASSUME NEW c \in Contents, UserCreate(c) PROVE IndInv'
  <2> DEFINE new == [Tombstone(0) EXCEPT !.exists = TRUE, !.content = c]
  <2>1. new \in AppObj /\ new.exists /\ new.content = c
    <3>1. ASSUME NEW w \in AppObj
          PROVE  /\ [w EXCEPT !.exists = TRUE, !.content = c] \in AppObj
                 /\ [w EXCEPT !.exists = TRUE, !.content = c].exists
                 /\ [w EXCEPT !.exists = TRUE, !.content = c].content = c
      BY DEF AppObj
    <3> QED BY <3>1, TombstoneType
  <2>2. WellFormed(new)
    BY <2>1 DEF WellFormed
  <2>3. ~app.exists /\ Write(new) /\ UNCHANGED <<cache, depl, svc, rec>>
    BY <1>16 DEF UserCreate, workload, caches
  <2> HIDE DEF new
  <2> QED BY <2>1, <2>2, <2>3, WriteKeepsInv
<1>17. ASSUME NEW c \in Contents, UserEdit(c) PROVE IndInv'
  <2> DEFINE new == [app EXCEPT !.content = c]
  <2>1. /\ new \in AppObj /\ new.exists = app.exists /\ new.content = c
        /\ new.fin = app.fin
    BY <1>p DEF AppObj
  <2>2. app.exists /\ Write(new) /\ UNCHANGED <<cache, depl, svc, rec>>
    BY <1>17 DEF UserEdit, workload, caches
  <2>3. WellFormed(new)
    BY <2>1, <2>2 DEF WellFormed
  <2> HIDE DEF new
  <2> QED BY <2>1, <2>2, <2>3, WriteKeepsInv
<1>18. CASE UserDelete
  <2> DEFINE new == IF app.fin THEN [app EXCEPT !.deleting = TRUE] ELSE Tombstone(0)
  <2>1. app.exists /\ Write(new) /\ UNCHANGED <<cache, depl, svc, rec>>
    BY <1>18 DEF UserDelete, workload, caches
  <2>2. CASE app.fin
    <3>1. /\ new \in AppObj /\ new.exists = app.exists
          /\ new.content = app.content /\ new.fin = app.fin
      BY <1>p, <2>2 DEF AppObj
    <3>2. WellFormed(new)
      BY <1>q, <2>1, <3>1 DEF CopiesWellFormed, WellFormed
    <3> HIDE DEF new
    <3> QED BY <2>1, <3>1, <3>2, WriteKeepsInv
  <2>3. CASE ~app.fin
    <3>1. new \in AppObj /\ WellFormed(new)
      BY <2>3, TombstoneType
    <3> HIDE DEF new
    <3> QED BY <2>1, <2>3, <3>1, WriteKeepsInv
  <2> QED BY <2>2, <2>3
<1>19. CASE Deliver
  <2>1. PICK w \in inflight : cache' = w /\ inflight' = {x \in inflight : x.rv > w.rv}
    BY <1>19 DEF Deliver
  <2>2. UNCHANGED <<app, depl, svc, rec>>
    BY <1>19 DEF Deliver, workload
  <2>3. CopiesOrdered'
    <3>1. /\ app.rv \in Nat /\ cache.rv \in Nat /\ rec.v.rv \in Nat
          /\ \A x \in inflight : x.rv \in Nat
      BY <1>p DEF TypeOK, AppObj
    <3> QED BY <1>q, <2>1, <2>2, <3>1 DEF CopiesOrdered
  <2>4. CopiesWellFormed'
    BY <1>q, <2>1, <2>2 DEF CopiesWellFormed, WellFormed
  <2>5. FinalizerHeld'
    BY <1>q, <2>1, <2>2 DEF FinalizerHeld, Held
  <2>6. BranchFacts' /\ NoOrphanWorkload'
    BY <1>q, <2>2 DEF BranchFacts, NoOrphanWorkload
  <2> QED BY <2>3, <2>4, <2>5, <2>6 DEF IndInv
<1>20. CASE \/ MetadataEvent \/ CatchUpDeployment \/ CatchUpService
            \/ \E e \in Ext : Churn(e)
            \/ UNCHANGED vars
  <2>1. UNCHANGED <<app, inflight, cache, depl, svc, rec>>
    BY <1>20 DEF MetadataEvent, CatchUpDeployment, CatchUpService, Churn, vars,
                 object, workload, caches
  <2>2. BranchFacts' /\ NoOrphanWorkload'
    BY <1>q, <2>1 DEF BranchFacts, NoOrphanWorkload
  <2> QED BY <2>1, <2>2, MoveKeepsInv
<1>21. ASSUME NEW n \in 0..MaxAvail, Rollout(n) PROVE IndInv'
  <2>1. /\ UNCHANGED <<app, inflight, cache, svc, rec>> /\ depl # NoDepl
        /\ depl' = [depl EXCEPT !.avail = n]
    BY <1>21 DEF Rollout, object, caches
  <2>2. depl'.content = depl.content
    BY <2>1 DEF TypeOK, DeplObj
  <2>3. BranchFacts' /\ NoOrphanWorkload'
    BY <1>q, <2>1, <2>2 DEF BranchFacts, NoOrphanWorkload
  <2> QED BY <2>1, <2>3, MoveKeepsInv
<1>22. CASE Drop
  <2>1. /\ UNCHANGED <<app, inflight, cache, rec>>
        /\ depl' \in {depl, NoDepl} /\ svc' \in {svc, 0}
    BY <1>22 DEF Drop, object, caches
  <2>2. BranchFacts' /\ NoOrphanWorkload'
    BY <1>q, <2>1 DEF BranchFacts, NoOrphanWorkload
  <2> QED BY <2>1, <2>2, MoveKeepsInv
<1>23. CASE Restart
  <2>1. /\ UNCHANGED <<app, depl, svc>> /\ cache' = app /\ inflight' = {}
        /\ rec' = Idle
    BY <1>23 DEF Restart, workload
  <2>2. CopiesOrdered'
    BY <1>p, <2>1, IdleType DEF CopiesOrdered, AppObj
  <2>3. CopiesWellFormed'
    BY <1>q, <2>1, IdleType DEF CopiesWellFormed, WellFormed
  <2>4. FinalizerHeld'
    BY <1>q, <2>1, IdleType, TombstoneType
    DEF FinalizerHeld, Held, CopiesWellFormed, WellFormed
  <2>5. BranchFacts' /\ NoOrphanWorkload'
    BY <1>q, <2>1, IdleType DEF BranchFacts, NoOrphanWorkload, SyncPCs, DeletePCs
  <2> QED BY <2>2, <2>3, <2>4, <2>5 DEF IndInv
<1> QED
  BY <1>1, <1>2, <1>3, <1>4, <1>5, <1>6, <1>7, <1>8, <1>9, <1>10, <1>11, <1>12,
     <1>13, <1>14, <1>15, <1>16, <1>17, <1>18, <1>19, <1>20, <1>21, <1>22, <1>23
  DEF Next, Reconcile, Environment

(***************************************************************************)
(* The initial state satisfies both invariants.                            *)
(***************************************************************************)
LEMMA InvInit ==
  ASSUME Init
  PROVE  TypeOK /\ IndInv
<1> USE ContentAssumption, BoundAssumption
<1>1. TypeOK
  <2>1. Tombstone(0) \in AppObj /\ Idle \in RecObj /\ NoDepl \in DeplObj
    BY IdleType, TombstoneType DEF NoDepl, DeplObj
  <2>2. ext \in [Ext -> Contents \cup {NoContent}] /\ spent \in [Budgets -> Nat]
    BY DEF Init
  <2> QED BY <2>1, <2>2 DEF Init, TypeOK
<1>2. CopiesOrdered /\ CopiesWellFormed
  BY IdleType, TombstoneType DEF Init, CopiesOrdered, CopiesWellFormed, Tombstone
<1>3. FinalizerHeld /\ BranchFacts /\ NoOrphanWorkload
  BY IdleType, TombstoneType
  DEF Init, FinalizerHeld, Held, BranchFacts, NoOrphanWorkload, SyncPCs, DeletePCs
<1> QED BY <1>1, <1>2, <1>3 DEF IndInv

(***************************************************************************)
(* The variables keep their types: whatever users, faults and restarts do, *)
(* Reconcile never builds an object outside the API's types.               *)
(***************************************************************************)
THEOREM TypeCorrect == Spec => []TypeOK
<1>1. Init => TypeOK /\ IndInv
  BY InvInit
<1>2. TypeOK /\ IndInv /\ [Next]_vars => (TypeOK /\ IndInv)'
  BY TypeStep, InvStep
<1> QED BY <1>1, <1>2, PTL DEF Spec

(***************************************************************************)
(* The inductive invariant holds.                                          *)
(***************************************************************************)
THEOREM InductiveInvariant == Spec => [](TypeOK /\ IndInv)
<1>1. Init => TypeOK /\ IndInv
  BY InvInit
<1>2. TypeOK /\ IndInv /\ [Next]_vars => (TypeOK /\ IndInv)'
  BY TypeStep, InvStep
<1> QED BY <1>1, <1>2, PTL DEF Spec

(***************************************************************************)
(* No Deployment or Service outlives the Application's finalizer.          *)
(***************************************************************************)
THEOREM NoOrphans == Spec => []NoOrphanWorkload
<1>1. TypeOK /\ IndInv => NoOrphanWorkload
  BY DEF IndInv
<1> QED BY <1>1, InductiveInvariant, PTL

(***************************************************************************)
(* Status.Hash never gets ahead of the Deployment: IsModified may take an  *)
(* equal hash for a workload that was put in place.                        *)
(***************************************************************************)
THEOREM HashHonest == Spec => HashMeansDeployed
<1> USE ContentAssumption, BoundAssumption
<1> DEFINE Honest == app'.hash # app.hash /\ app'.hash # NoHash
                       => depl = NoDepl \/ HasHash(depl.content, app'.hash)
<1>1. ASSUME TypeOK, IndInv, [Next]_vars PROVE [Honest]_vars
  <2>0. rec \in RecObj /\ rec.v \in AppObj /\ app \in AppObj
    BY <1>1 DEF TypeOK, RecObj
  <2>1. CASE AddFinalizer
    <3>1. CASE UNCHANGED app
      BY <3>1
    <3>2. CASE ~Conflict(rec.v) /\ Write([rec.v EXCEPT !.fin = TRUE])
      <4>1. rec.v = app
        BY <1>1, <2>1, <3>2, NoConflictMeansCurrent DEF AddFinalizer
      <4>2. app'.hash = rec.v.hash
        BY <2>0, <3>2 DEF Write, AppObj
      <4> QED BY <4>1, <4>2
    <3> QED BY <2>1, <3>1, <3>2 DEF AddFinalizer
  <2>2. CASE RemoveFinalizer
    <3>1. CASE UNCHANGED app
      BY <3>1
    <3>2. CASE Write(Tombstone(0))
      BY <3>2 DEF Write, Tombstone
    <3> QED BY <2>2, <3>1, <3>2 DEF RemoveFinalizer
  <2>3. CASE WriteStatus
    <3>1. CASE UNCHANGED app
      BY <3>1
    <3>2. CASE ~Conflict(rec.v) /\ Write(UpdateStatus(rec.v, rec.ran))
      <4>1. rec.v = app
        BY <1>1, <2>3, <3>2, NoConflictMeansCurrent DEF WriteStatus
      <4>2. app'.hash = HashOf[rec.v.content]
        BY <2>0, <3>2 DEF Write, UpdateStatus, AppObj
      <4>3. rec.v.content \in Contents
        BY <1>1, <2>3 DEF WriteStatus, IndInv, CopiesWellFormed, WellFormed
      <4>4. \/ rec.v.hash = HashOf[rec.v.content]
            \/ depl = NoDepl
            \/ depl.content = rec.v.content
        BY <1>1, <2>3 DEF WriteStatus, IndInv, BranchFacts
      <4> QED BY <4>1, <4>2, <4>3, <4>4 DEF HasHash
    <3> QED BY <2>3, <3>1, <3>2 DEF WriteStatus
  <2>4. ASSUME NEW c \in Contents, UserCreate(c) PROVE Honest
    BY <2>4 DEF UserCreate, Write, Tombstone
  <2>5. ASSUME NEW c \in Contents, UserEdit(c) PROVE Honest
    BY <2>0, <2>5 DEF UserEdit, Write, AppObj
  <2>6. CASE UserDelete
    BY <2>0, <2>6 DEF UserDelete, Write, Tombstone, AppObj
  <2>7. CASE UNCHANGED app
    BY <2>7
  <2> QED
    BY <1>1, <2>1, <2>2, <2>3, <2>4, <2>5, <2>6, <2>7
    DEF Next, Reconcile, Environment, Start, DeleteDeployment, DeleteService,
        ExtDelete, ExtDeleted, CheckModified, ExtSync, ExtSynced, DeleteOld,
        OldDeleted, ApplyService, ApplyDeployment, Deliver, MetadataEvent,
        CatchUpDeployment, CatchUpService, Rollout, Drop, Churn, Restart,
        object, vars
<1> QED BY <1>1, InductiveInvariant, PTL DEF Spec, HashMeansDeployed

-----------------------------------------------------------------------------
(* What the extensions have been told. *)

(***************************************************************************)
(* In a Reconcile call that synchronises, the extensions that it has run   *)
(* have the content it read: none of them is in the list of those to be    *)
(* deleted.  The status alone is only written for an object that has its   *)
(* hash already.                                                           *)
(***************************************************************************)
SyncedInv ==
  /\ rec.pc \in {"idle", "isModified", "extSync"} => rec.kept = {}
  /\ rec.pc = "extSync" /\ ~rec.failed =>
       \A e \in rec.ran \ rec.pending : (ext[e] = rec.v.content \/ e \in unnoticed)
  /\ rec.pc = "delOld" =>
       \A e \in rec.ran \ rec.kept : (ext[e] = rec.v.content \/ e \in unnoticed) /\ e \notin rec.pending
  /\ rec.pc \in {"svc", "depl", "status"} /\ rec.v.hash # HashOf[rec.v.content] =>
       \A e \in rec.ran \ rec.kept : (ext[e] = rec.v.content \/ e \in unnoticed)

LEMMA SyncedStep ==
  ASSUME TypeOK, SyncedInv, [Next]_vars
  PROVE  SyncedInv'
<1>0. /\ rec \in RecObj /\ rec.pc \in PCs /\ ext \in [Ext -> Contents \cup {NoContent}]
      /\ rec.pending \subseteq Ext /\ rec.ran \subseteq Ext
  <2>1. rec \in RecObj /\ ext \in [Ext -> Contents \cup {NoContent}]
    BY DEF TypeOK
  <2> QED BY <2>1, RecSets DEF RecObj
<1>a. Idle.pc = "idle" /\ Idle.kept = {} /\ Idle.failed = FALSE
  BY DEF Idle
<1>b. ASSUME rec' = Idle PROVE SyncedInv'
  BY <1>a, <1>b DEF SyncedInv
\* A step to a point at which nothing is claimed.
<1>c. ASSUME rec'.pc \in PCs \ {"idle", "isModified", "extSync", "delOld", "svc", "depl", "status"}
      PROVE  SyncedInv'
  BY <1>c DEF SyncedInv
\* A step on from the deletions, which leaves the extensions alone.
<1>d. ASSUME NEW p \in {"svc", "depl", "status"}, Goto(p), UNCHANGED <<ext, unnoticed>>,
             rec.pc \in {"delOld", "svc", "depl"}
      PROVE  SyncedInv'
  <2>1. rec'.pc = p /\ rec'.v = rec.v /\ rec'.ran = rec.ran /\ rec'.kept = rec.kept
    BY <1>0, <1>d DEF Goto, RecObj
  <2> QED BY <1>d, <2>1 DEF SyncedInv
<1>1. CASE Start
  <2>1. CASE rec' = Idle
    BY <1>b, <2>1
  <2>2. CASE rec' # Idle
    <3> DEFINE p == IF cache.deleting THEN "delDepl" ELSE IF cache.fin THEN "isModified" ELSE "addFin"
    <3>1. rec' = [Idle EXCEPT !.v = cache, !.pc = p]
      BY <1>1, <2>2 DEF Start
    <3>2. p \in {"delDepl", "isModified", "addFin"}
      OBVIOUS
    <3> HIDE DEF p
    <3>3. rec'.pc \in {"delDepl", "isModified", "addFin"} /\ rec'.kept = {}
      BY <3>1, <3>2 DEF Idle
    <3> QED BY <3>3 DEF SyncedInv
  <2> QED BY <2>1, <2>2
<1>2. CASE AddFinalizer \/ RemoveFinalizer \/ WriteStatus \/ Restart
  BY <1>2, <1>b DEF AddFinalizer, RemoveFinalizer, WriteStatus, Restart, Return, ReturnErr
<1>3. CASE DeleteDeployment
  <2>1. rec' = Idle \/ Goto("delSvc")
    BY <1>3 DEF DeleteDeployment, ReturnErr
  <2>2. Goto("delSvc") => rec'.pc = "delSvc"
    BY <1>0 DEF Goto, RecObj
  <2> QED BY <1>b, <1>c, <2>1, <2>2 DEF PCs
<1>4. CASE DeleteService
  <2>1. rec' = Idle \/ rec'.pc = "extDelete"
    BY <1>0, <1>4 DEF DeleteService, ReturnErr, RecObj
  <2> QED BY <1>b, <1>c, <2>1 DEF PCs
<1>5. ASSUME NEW e \in Ext, ExtDelete(e) PROVE SyncedInv'
  <2>1. rec'.pc = "extDelete"
    BY <1>0, <1>5 DEF ExtDelete, RecObj
  <2> QED BY <1>c, <2>1 DEF PCs
<1>6. CASE ExtDeleted
  <2>1. rec' = Idle \/ Goto("removeFin")
    BY <1>6 DEF ExtDeleted, ReturnErr
  <2>2. Goto("removeFin") => rec'.pc = "removeFin"
    BY <1>0 DEF Goto, RecObj
  <2> QED BY <1>b, <1>c, <2>1, <2>2 DEF PCs
<1>7. CASE CheckModified
  <2>1. CASE IsModified(rec.v)
    <3> DEFINE run == {e \in registered : ShouldRun(e, rec.v.content)}
    <3>1. rec' = [rec EXCEPT !.pc = "extSync", !.pending = run, !.ran = run] /\ rec.kept = {}
      BY <1>7, <2>1 DEF CheckModified, SyncedInv
    <3> HIDE DEF run
    <3>2. rec'.pc = "extSync" /\ rec'.ran = run /\ rec'.pending = run /\ rec'.kept = {}
      BY <1>0, <3>1 DEF RecObj
    <3> QED BY <3>2 DEF SyncedInv
  <2>2. CASE ~IsModified(rec.v)
    <3>1. rec' = [rec EXCEPT !.pc = "status", !.ran = rec.v.exts]
      BY <1>7, <2>2 DEF CheckModified
    <3>2. rec'.pc = "status" /\ rec'.v = rec.v
      BY <1>0, <3>1 DEF RecObj
    <3>3. rec.v.hash = HashOf[rec.v.content]
      BY <2>2 DEF IsModified
    <3> QED BY <3>2, <3>3 DEF SyncedInv
  <2> QED BY <2>1, <2>2
<1>8. ASSUME NEW e \in Ext, ExtSync(e) PROVE SyncedInv'
  <2>1. /\ rec.pc = "extSync" /\ rec.kept = {}
        /\ ~rec.failed => \A d \in rec.ran \ rec.pending : (ext[d] = rec.v.content \/ d \in unnoticed)
    BY <1>8 DEF ExtSync, SyncedInv
  <2>2. CASE /\ Applied(e, rec.v.content) \/ NotApplied(e)
             /\ rec' = [rec EXCEPT !.pending = @ \ {e}]
    <3>1. /\ rec'.pc = "extSync" /\ rec'.kept = {} /\ rec'.failed = rec.failed /\ rec'.v = rec.v
          /\ rec'.ran = rec.ran /\ rec'.pending = rec.pending \ {e}
      BY <1>0, <2>1, <2>2 DEF RecObj
    <3>2. ~rec.failed => \A d \in rec'.ran \ rec'.pending : (ext'[d] = rec.v.content \/ d \in unnoticed')
      BY <1>0, <2>1, <2>2, <3>1
    <3> QED BY <3>1, <3>2 DEF SyncedInv
  <2>3. CASE rec' = [rec EXCEPT !.pending = @ \ {e}, !.failed = TRUE]
    <3>1. rec'.pc = "extSync" /\ rec'.kept = {} /\ rec'.failed
      BY <1>0, <2>1, <2>3 DEF RecObj
    <3> QED BY <3>1 DEF SyncedInv
  <2> QED BY <1>8, <2>2, <2>3 DEF ExtSync
<1>9. CASE ExtSynced
  <2>1. CASE rec' = Idle
    BY <1>b, <2>1
  <2>2. CASE rec' # Idle
    <3> DEFINE old == rec.v.exts \ rec.ran
    <3>1. /\ rec' = [rec EXCEPT !.pc = "delOld", !.pending = old] /\ UNCHANGED <<ext, unnoticed>>
          /\ rec.pc = "extSync" /\ ~rec.failed /\ rec.pending = {}
      BY <1>9, <2>2 DEF ExtSynced, ReturnErr
    <3>2. \A e \in rec.ran : e \notin old
      OBVIOUS
    <3> HIDE DEF old
    <3>3. /\ rec'.pc = "delOld" /\ rec'.v = rec.v /\ rec'.ran = rec.ran /\ rec'.kept = rec.kept
          /\ rec'.pending = old
      BY <1>0, <3>1 DEF RecObj
    <3>4. \A e \in rec.ran : (ext[e] = rec.v.content \/ e \in unnoticed)
      BY <3>1 DEF SyncedInv
    <3> QED BY <3>1, <3>2, <3>3, <3>4 DEF SyncedInv
  <2> QED BY <2>1, <2>2
<1>10. ASSUME NEW e \in Ext, DeleteOld(e) PROVE SyncedInv'
  <2>1. /\ rec.pc = "delOld" /\ e \in rec.pending
        /\ \A d \in rec.ran \ rec.kept : (ext[d] = rec.v.content \/ d \in unnoticed) /\ d \notin rec.pending
    BY <1>10 DEF DeleteOld, SyncedInv
  <2>2. \A d \in Ext \ {e} : ext'[d] = ext[d]
    BY <1>0, <1>10 DEF DeleteOld
  <2>u. unnoticed \ {e} \subseteq unnoticed'
    BY <1>10 DEF DeleteOld
  <2>3. /\ rec'.pc = "delOld" /\ rec'.v = rec.v /\ rec'.pending = rec.pending \ {e}
        /\ \/ rec'.ran = rec.ran /\ rec'.kept = rec.kept
           \/ rec'.ran = rec.ran \cup {e} /\ rec'.kept = rec.kept \cup {e}
    BY <1>0, <1>10, <2>1 DEF DeleteOld, RecObj
  <2>4. \A d \in rec'.ran \ rec'.kept : d \in rec.ran \ rec.kept /\ d # e /\ d \in Ext
    BY <1>0, <2>1, <2>3
  <2>5. \A d \in rec'.ran \ rec'.kept : /\ ext'[d] = rec'.v.content \/ d \in unnoticed'
                                        /\ d \notin rec'.pending
    BY <2>1, <2>2, <2>u, <2>3, <2>4
  <2> QED BY <2>3, <2>5 DEF SyncedInv
<1>11. CASE OldDeleted
  BY <1>11, <1>d DEF OldDeleted
<1>12. CASE ApplyService
  BY <1>12, <1>b, <1>d DEF ApplyService, ReturnErr
<1>13. CASE ApplyDeployment
  BY <1>13, <1>b, <1>d DEF ApplyDeployment, ReturnErr
<1>14. CASE UNCHANGED <<rec, ext, unnoticed>>
  BY <1>14 DEF SyncedInv
<1>15. CASE Environment \/ UNCHANGED vars
  <2>1. CASE \E c \in Contents : UserCreate(c) \/ UserEdit(c)
    BY <1>14, <2>1 DEF UserCreate, UserEdit
  <2>2. CASE UserDelete \/ Deliver \/ MetadataEvent \/ CatchUpDeployment \/ CatchUpService \/ Drop
    BY <1>14, <2>2 DEF UserDelete, Deliver, MetadataEvent, CatchUpDeployment, CatchUpService, Drop
  <2>3. CASE (\E n \in 0..MaxAvail : Rollout(n)) \/ (\E e \in Ext : Churn(e))
    BY <1>14, <2>3 DEF Rollout, Churn
  <2>4. CASE UNCHANGED vars
    BY <1>14, <2>4 DEF vars
  <2> QED BY <1>2, <1>15, <2>1, <2>2, <2>3, <2>4 DEF Environment
<1>16. CASE Reconcile
  BY <1>1, <1>2, <1>3, <1>4, <1>5, <1>6, <1>7, <1>8, <1>9, <1>10, <1>11, <1>12, <1>13, <1>16
  DEF Reconcile
<1> QED BY <1>15, <1>16 DEF Next

LEMMA SyncedInit ==
  ASSUME Init
  PROVE  SyncedInv
BY DEF Init, SyncedInv, Idle

(***************************************************************************)
(* Status.Hash never gets ahead of the extensions that were run either.    *)
(***************************************************************************)
THEOREM HashSynced == Spec => HashMeansSynced
<1> USE ContentAssumption, BoundAssumption
<1> DEFINE Synced == app'.hash # app.hash /\ app'.hash # NoHash
                       => \A e \in app'.exts \ (rec.kept \cup unnoticed) :
                            ShouldRun(e, app'.content) => HasHash(ext[e], app'.hash)
<1>1. ASSUME TypeOK, IndInv, SyncedInv, [Next]_vars PROVE [Synced]_vars
  <2>0. rec \in RecObj /\ rec.v \in AppObj /\ app \in AppObj
    BY <1>1 DEF TypeOK, RecObj
  <2>1. CASE AddFinalizer
    <3>1. CASE UNCHANGED app
      BY <3>1
    <3>2. CASE ~Conflict(rec.v) /\ Write([rec.v EXCEPT !.fin = TRUE])
      <4>1. rec.v = app
        BY <1>1, <2>1, <3>2, NoConflictMeansCurrent DEF AddFinalizer
      <4>2. app'.hash = rec.v.hash
        BY <2>0, <3>2 DEF Write, AppObj
      <4> QED BY <4>1, <4>2
    <3> QED BY <2>1, <3>1, <3>2 DEF AddFinalizer
  <2>2. CASE RemoveFinalizer
    <3>1. CASE UNCHANGED app
      BY <3>1
    <3>2. CASE Write(Tombstone(0))
      BY <3>2 DEF Write, Tombstone
    <3> QED BY <2>2, <3>1, <3>2 DEF RemoveFinalizer
  <2>3. CASE WriteStatus
    <3>1. CASE UNCHANGED app
      BY <3>1
    <3>2. CASE ~Conflict(rec.v) /\ Write(UpdateStatus(rec.v, rec.ran))
      <4>1. rec.v = app /\ rec.pc = "status"
        BY <1>1, <2>3, <3>2, NoConflictMeansCurrent DEF WriteStatus
      <4>2. /\ app'.hash = HashOf[rec.v.content] /\ app'.exts = rec.ran
            /\ app'.content = rec.v.content
        BY <2>0, <3>2 DEF Write, UpdateStatus, AppObj
      <4>3. rec.v.content \in Contents
        BY <1>1, <4>1 DEF IndInv, CopiesWellFormed, WellFormed
      <4>4. app'.hash # app.hash => \A e \in rec.ran \ rec.kept : (ext[e] = rec.v.content \/ e \in unnoticed)
        BY <1>1, <4>1, <4>2 DEF SyncedInv
      <4> QED BY <4>2, <4>3, <4>4 DEF HasHash
    <3> QED BY <2>3, <3>1, <3>2 DEF WriteStatus
  <2>4. ASSUME NEW c \in Contents, UserCreate(c) PROVE Synced
    BY <2>4 DEF UserCreate, Write, Tombstone
  <2>5. ASSUME NEW c \in Contents, UserEdit(c) PROVE Synced
    BY <2>0, <2>5 DEF UserEdit, Write, AppObj
  <2>6. CASE UserDelete
    BY <2>0, <2>6 DEF UserDelete, Write, Tombstone, AppObj
  <2>7. CASE UNCHANGED app
    BY <2>7
  <2>8. CASE Reconcile
    <3>1. CASE \E e \in Ext : ExtDelete(e) \/ ExtSync(e) \/ DeleteOld(e)
      BY <2>7, <3>1 DEF ExtDelete, ExtSync, DeleteOld, object
    <3>2. CASE \/ Start \/ DeleteDeployment \/ DeleteService \/ ExtDeleted \/ CheckModified
               \/ ExtSynced \/ OldDeleted \/ ApplyService \/ ApplyDeployment
      BY <2>7, <3>2 DEF Start, DeleteDeployment, DeleteService, ExtDeleted, CheckModified, ExtSynced,
                        OldDeleted, ApplyService, ApplyDeployment, object
    <3> QED BY <2>1, <2>2, <2>3, <2>8, <3>1, <3>2 DEF Reconcile
  <2>9. CASE Environment \/ UNCHANGED vars
    <3>1. CASE Deliver \/ MetadataEvent \/ CatchUpDeployment \/ CatchUpService \/ Drop \/ Restart
      BY <2>7, <3>1 DEF Deliver, MetadataEvent, CatchUpDeployment, CatchUpService, Drop, Restart, object
    <3>2. CASE (\E n \in 0..MaxAvail : Rollout(n)) \/ (\E e \in Ext : Churn(e))
      BY <2>7, <3>2 DEF Rollout, Churn, object
    <3>3. CASE UNCHANGED vars
      BY <2>7, <3>3 DEF vars
    <3> QED BY <2>4, <2>5, <2>6, <2>9, <3>1, <3>2, <3>3 DEF Environment
  <2> QED BY <1>1, <2>8, <2>9 DEF Next
<1>2. Init => SyncedInv
  BY SyncedInit
<1>3. TypeOK /\ SyncedInv /\ [Next]_vars => SyncedInv'
  BY SyncedStep
<1> QED BY <1>1, <1>2, <1>3, InductiveInvariant, PTL DEF Spec, HashMeansSynced

(***************************************************************************)
(* An object without our finalizer has nothing at an extension that is     *)
(* always called, and the finalizer is taken away only when all of these   *)
(* have been told to delete.                                               *)
(***************************************************************************)
DeletedInv ==
  /\ ~app.fin => \A e \in Always : (ext[e] = NoContent \/ e \in unnoticed)
  /\ rec.pc = "extDelete" /\ ~rec.failed =>
       \A e \in Always \ rec.pending : (ext[e] = NoContent \/ e \in unnoticed)
  /\ rec.pc = "removeFin" => \A e \in Always : (ext[e] = NoContent \/ e \in unnoticed)

LEMMA DeletedStep ==
  ASSUME TypeOK, IndInv, DeletedInv, Always \subseteq registered, [Next]_vars
  PROVE  DeletedInv'
<1>0. /\ rec \in RecObj /\ rec.pc \in PCs /\ ext \in [Ext -> Contents \cup {NoContent}]
      /\ rec.pending \subseteq Ext /\ Always \subseteq Ext /\ app \in AppObj /\ rec.v \in AppObj
  <2>1. rec \in RecObj /\ ext \in [Ext -> Contents \cup {NoContent}] /\ app \in AppObj
    BY DEF TypeOK
  <2> QED BY <2>1, RecSets, ContentAssumption DEF RecObj
<1>a. Idle.pc = "idle"
  BY DEF Idle
\* A step that tells no extension anything, and ends or goes elsewhere.
<1>b. ASSUME UNCHANGED <<ext, unnoticed>>, app'.fin = app.fin \/ app'.fin,
             rec'.pc \notin {"extDelete", "removeFin"} \/ rec' = rec
      PROVE  DeletedInv'
  BY <1>b DEF DeletedInv
<1>c. ASSUME NEW p, Goto(p) PROVE rec'.pc = p
  BY <1>0, <1>c DEF Goto, RecObj
<1>d. ASSUME Return \/ ReturnErr \/ rec' = Idle PROVE rec'.pc = "idle"
  BY <1>a, <1>d DEF Return, ReturnErr
\* Only synchronising tells an extension to make something: the finalizer is there.
<1>e. rec.pc \in SyncPCs => app.fin
  BY DEF IndInv, BranchFacts, FinalizerHeld, Held
<1>1. CASE Start
  <2>1. CASE rec' = Idle
    BY <1>1, <1>b, <1>d, <2>1 DEF Start, object
  <2>2. CASE rec' # Idle
    <3> DEFINE p == IF cache.deleting THEN "delDepl" ELSE IF cache.fin THEN "isModified" ELSE "addFin"
    <3>1. rec' = [Idle EXCEPT !.v = cache, !.pc = p]
      BY <1>1, <2>2 DEF Start
    <3>2. p \in {"delDepl", "isModified", "addFin"}
      OBVIOUS
    <3> HIDE DEF p
    <3>3. rec'.pc \in {"delDepl", "isModified", "addFin"}
      BY <3>1, <3>2 DEF Idle
    <3> QED BY <1>1, <1>b, <3>3 DEF Start, object
  <2> QED BY <2>1, <2>2
<1>2. CASE AddFinalizer
  <2>1. CASE UNCHANGED app
    BY <1>2, <1>b, <1>d, <2>1 DEF AddFinalizer
  <2>2. CASE Write([rec.v EXCEPT !.fin = TRUE])
    <3>1. app'.fin
      BY <1>0, <2>2 DEF Write, AppObj
    <3> QED BY <1>2, <1>b, <1>d, <3>1 DEF AddFinalizer
  <2> QED BY <1>2, <2>1, <2>2 DEF AddFinalizer
<1>3. CASE DeleteDeployment
  <2>1. UNCHANGED <<ext, unnoticed, app>> /\ (ReturnErr \/ Goto("delSvc"))
    BY <1>3 DEF DeleteDeployment, object
  <2>2. rec'.pc \in {"idle", "delSvc"}
    BY <1>c, <1>d, <2>1
  <2> QED BY <1>b, <2>1, <2>2
<1>4. CASE DeleteService
  <2>1. CASE ReturnErr
    BY <1>4, <1>b, <1>d, <2>1 DEF DeleteService, object
  <2>2. CASE ~ReturnErr
    <3> DEFINE chosen == {e \in registered : ShouldRun(e, rec.v.content)}
    <3>1. rec' = [rec EXCEPT !.pc = "extDelete", !.pending = chosen] /\ UNCHANGED <<app, ext, unnoticed>>
      BY <1>4, <2>2 DEF DeleteService, object
    <3>2. Always \subseteq chosen
      BY DEF ShouldRun
    <3> HIDE DEF chosen
    <3>3. rec'.pc = "extDelete" /\ rec'.pending = chosen
      BY <1>0, <3>1 DEF RecObj
    <3> QED BY <3>1, <3>2, <3>3 DEF DeletedInv
  <2> QED BY <2>1, <2>2
<1>5. ASSUME NEW e \in Ext, ExtDelete(e) PROVE DeletedInv'
  <2>1. UNCHANGED app /\ rec.pc = "extDelete"
    BY <1>5 DEF ExtDelete, object
  <2>2. /\ rec'.pc = "extDelete" /\ rec'.pending = rec.pending \ {e}
        /\ rec'.failed \/ (rec'.failed = rec.failed /\ (ext'[e] = NoContent \/ e \in unnoticed'))
    BY <1>0, <1>5 DEF ExtDelete, RecObj
  <2>3. \A d \in Ext : (ext'[d] = ext[d] /\ (d \in unnoticed => d \in unnoticed'))
                        \/ ext'[d] = NoContent
    BY <1>0, <1>5 DEF ExtDelete
  <2>4. rec'.failed \/ \A d \in Always \ rec'.pending : (ext'[d] = NoContent \/ d \in unnoticed')
    BY <1>0, <2>1, <2>2, <2>3 DEF DeletedInv
  <2> QED BY <1>0, <2>1, <2>2, <2>3, <2>4 DEF DeletedInv
<1>6. CASE ExtDeleted
  <2>1. CASE ReturnErr
    BY <1>6, <1>b, <1>d, <2>1 DEF ExtDeleted, object
  <2>2. CASE ~ReturnErr
    <3>1. /\ rec.pc = "extDelete" /\ ~rec.failed /\ rec.pending = {} /\ Goto("removeFin")
          /\ UNCHANGED <<ext, unnoticed, app>>
      BY <1>6, <2>2 DEF ExtDeleted, object
    <3> QED BY <1>c, <3>1 DEF DeletedInv
  <2> QED BY <2>1, <2>2
<1>7. CASE RemoveFinalizer
  <2>1. /\ UNCHANGED <<ext, unnoticed>> /\ rec'.pc = "idle"
        /\ \A e \in Always : (ext[e] = NoContent \/ e \in unnoticed)
    BY <1>7, <1>d DEF RemoveFinalizer, DeletedInv
  <2> QED BY <2>1 DEF DeletedInv
<1>8. CASE CheckModified
  <2>1. rec'.pc \in {"extSync", "status"}
    BY <1>0, <1>8 DEF CheckModified, RecObj
  <2> QED BY <1>8, <1>b, <2>1 DEF CheckModified, object
<1>9. ASSUME NEW e \in Ext, ExtSync(e) \/ DeleteOld(e) PROVE DeletedInv'
  <2>1. rec.pc \in {"extSync", "delOld"} /\ UNCHANGED app
    BY <1>9 DEF ExtSync, DeleteOld, object
  <2>2. rec'.pc = rec.pc
    BY <1>0, <1>9 DEF ExtSync, DeleteOld, RecObj
  <2> QED BY <1>e, <2>1, <2>2 DEF DeletedInv, SyncPCs
<1>10. CASE ExtSynced
  <2>1. rec'.pc \in {"idle", "delOld"}
    BY <1>0, <1>10, <1>d DEF ExtSynced, RecObj
  <2> QED BY <1>10, <1>b, <2>1 DEF ExtSynced, object
<1>11. CASE OldDeleted \/ ApplyService \/ ApplyDeployment
  <2>1. UNCHANGED <<ext, unnoticed, app>> /\ (ReturnErr \/ Goto("svc") \/ Goto("depl") \/ Goto("status"))
    BY <1>11 DEF OldDeleted, ApplyService, ApplyDeployment, object
  <2>2. rec'.pc \in {"idle", "svc", "depl", "status"}
    BY <1>c, <1>d, <2>1
  <2> QED BY <1>b, <2>1, <2>2
<1>12. CASE WriteStatus
  <2>1. rec.pc = "status" /\ UNCHANGED <<ext, unnoticed>> /\ rec'.pc = "idle"
    BY <1>12, <1>d DEF WriteStatus
  <2>2. CASE UNCHANGED app
    BY <1>b, <2>1, <2>2
  <2>3. CASE Write(UpdateStatus(rec.v, rec.ran))
    <3>1. rec.v.fin
      BY <2>1 DEF IndInv, BranchFacts, SyncPCs
    <3>2. app'.fin = rec.v.fin
      BY <1>0, <2>3 DEF Write, UpdateStatus, AppObj
    <3> QED BY <1>b, <2>1, <3>1, <3>2
  <2> QED BY <1>12, <2>2, <2>3 DEF WriteStatus
<1>13. ASSUME NEW c \in Contents, UserCreate(c) PROVE DeletedInv'
  <2>1. ~app.fin
    BY <1>13 DEF UserCreate, IndInv, CopiesWellFormed, WellFormed
  <2> QED BY <1>13, <2>1 DEF UserCreate, DeletedInv
<1>14. ASSUME NEW c \in Contents, UserEdit(c) PROVE DeletedInv'
  <2>1. app'.fin = app.fin /\ UNCHANGED <<ext, unnoticed, rec>>
    BY <1>0, <1>14 DEF UserEdit, Write, AppObj
  <2> QED BY <1>b, <2>1
<1>15. CASE UserDelete
  <2>1. (app.fin => app'.fin) /\ UNCHANGED <<ext, unnoticed, rec>>
    BY <1>0, <1>15 DEF UserDelete, Write, AppObj
  <2> QED BY <2>1 DEF DeletedInv
<1>16. CASE Restart
  BY <1>16, <1>b, <1>d DEF Restart
<1>17. CASE UNCHANGED <<app, ext, unnoticed, rec>>
  BY <1>17 DEF DeletedInv
<1>18. CASE Environment \/ UNCHANGED vars
  <2>1. CASE \E c \in Contents : UserCreate(c) \/ UserEdit(c)
    BY <1>13, <1>14, <2>1
  <2>2. CASE Deliver \/ MetadataEvent \/ CatchUpDeployment \/ CatchUpService \/ Drop
    BY <1>17, <2>2 DEF Deliver, MetadataEvent, CatchUpDeployment, CatchUpService, Drop, object
  <2>3. CASE (\E n \in 0..MaxAvail : Rollout(n)) \/ (\E e \in Ext : Churn(e))
    BY <1>17, <2>3 DEF Rollout, Churn, object
  <2>4. CASE UNCHANGED vars
    BY <1>17, <2>4 DEF vars
  <2> QED BY <1>15, <1>16, <1>18, <2>1, <2>2, <2>3, <2>4 DEF Environment
<1>19. CASE Reconcile
  BY <1>1, <1>2, <1>3, <1>4, <1>5, <1>6, <1>7, <1>8, <1>9, <1>10, <1>11, <1>12, <1>19
  DEF Reconcile
<1> QED BY <1>18, <1>19 DEF Next

(***************************************************************************)
(* While the extensions that are always called stay registered, each of    *)
(* them has been told to delete what it made when the Application is gone. *)
(***************************************************************************)
THEOREM GoneIsDeleted ==
  Spec /\ [](Always \subseteq registered) => []GoneMeansAlwaysDeleted
<1>1. Init => DeletedInv
  <2> SUFFICES ASSUME Init PROVE DeletedInv
    OBVIOUS
  <2>1. \A e \in Always : (ext[e] = NoContent \/ e \in unnoticed)
    BY ContentAssumption DEF Init
  <2> QED BY <2>1 DEF Init, DeletedInv, Idle
<1>2. TypeOK /\ IndInv /\ DeletedInv /\ Always \subseteq registered /\ [Next]_vars => DeletedInv'
  BY DeletedStep
<1>3. TypeOK /\ IndInv /\ DeletedInv => GoneMeansAlwaysDeleted
  BY DEF IndInv, CopiesWellFormed, WellFormed, DeletedInv, GoneMeansAlwaysDeleted
<1> QED BY <1>1, <1>2, <1>3, InductiveInvariant, PTL DEF Spec

-----------------------------------------------------------------------------
(* Why nothing is left undone when there is no work left. *)

\* A cluster in which nobody takes things away behind the controller's back,
\* and a user who does not go back to what the hash remembers.
Calm == AllowRevert = FALSE /\ MaxDrops = 0 /\ MaxChurn = 0 /\ HashTells

\* The status says that the content is in place.
Settled == app.exists /\ ~app.deleting /\ app.hash = HashOf[app.content]

Copies     == {cache} \cup inflight \cup (IF rec.pc = "idle" THEN {} ELSE {rec.v})
Current(w) == w.exists /\ ~w.deleting /\ HashOf[w.content] = app.hash

(***************************************************************************)
(* Once the status says so, no copy that is still about has a content with *)
(* another hash: the write of the status was not refused, so that cache    *)
(* and server were one, and the user has had all hashes since but once.    *)
(***************************************************************************)
CopiesInv ==
  /\ cache = app \/ app \in inflight
  /\ \A w \in Copies \cup {app} : w.deleting => w.fin
  /\ app.exists => HashOf[app.content] \in seen
  /\ app.hash # NoHash => app.hash \in seen
  /\ Settled => \A w \in Copies : Current(w)

\* A copy that was not there before is that of a write.
LEMMA CopiesKept ==
  ASSUME CopiesInv, UNCHANGED <<app, seen>>, Copies' \subseteq Copies \cup {app},
         cache' = app \/ app \in inflight'
  PROVE  CopiesInv'
<1>1. Settled => \A w \in Copies' : Current(w)
  BY DEF CopiesInv, Settled, Current
<1> QED BY <1>1 DEF CopiesInv, Settled, Current

LEMMA CopiesOfWrite ==
  ASSUME TypeOK, CopiesOrdered, CopiesInv, NEW new \in AppObj, Write(new), UNCHANGED cache,
         rec' = rec \/ rec' = Idle, seen \subseteq seen',
         new.deleting => new.fin, new.exists => HashOf[new.content] \in seen',
         new.hash # NoHash => new.hash \in seen',
         new.exists /\ ~new.deleting /\ new.hash = HashOf[new.content] =>
           \A w \in Copies : w.exists /\ ~w.deleting /\ HashOf[w.content] = new.hash
  PROVE  CopiesInv'
<1>1. /\ app' \in AppObj /\ app'.content = new.content /\ app'.deleting = new.deleting
      /\ app'.fin = new.fin /\ app'.exists = new.exists /\ app'.hash = new.hash
      /\ inflight' = inflight \cup {app'}
  <2>1. app.rv + 1 \in Nat
    BY DEF TypeOK, AppObj
  <2> QED BY <2>1 DEF Write, AppObj
<1>2. Copies' \subseteq Copies \cup {app'}
  BY <1>1, IdleType DEF Copies
<1>3. \A w \in Copies' \cup {app'} : w.deleting => w.fin
  BY <1>1, <1>2 DEF CopiesInv
<1>4. Settled' => \A w \in Copies' : Current(w)'
  <2> SUFFICES ASSUME Settled', NEW w \in Copies' PROVE Current(w)'
    OBVIOUS
  <2>1. CASE w \in Copies
    BY <1>1, <2>1 DEF Settled, Current
  <2>2. CASE w = app'
    BY <2>2 DEF Settled, Current
  <2> QED BY <1>2, <2>1, <2>2
<1> QED BY <1>1, <1>3, <1>4 DEF CopiesInv

\* The worker's own writes: it has the object that the server has.
LEMMA CopiesOfWorker ==
  ASSUME TypeOK, IndInv, CopiesInv, rec.pc # "idle", ~Conflict(rec.v), NEW new \in AppObj,
         Write(new), UNCHANGED <<cache, seen>>, rec' = Idle,
         new.exists => /\ new.content = rec.v.content
                       /\ new.deleting = rec.v.deleting /\ (new.deleting => new.fin)
                       /\ new.hash \in {rec.v.hash, HashOf[rec.v.content]},
         ~new.exists => ~new.deleting /\ new.hash = NoHash
  PROVE  CopiesInv'
<1>1. rec.v = app /\ cache = app /\ inflight = {} /\ app.exists
  BY NoConflictMeansCurrent
<1>2. \A w \in Copies : w = app
  BY <1>1 DEF Copies
<1>3. CopiesOrdered
  BY DEF IndInv
<1>4. new.exists => HashOf[new.content] \in seen
  BY <1>1 DEF CopiesInv
<1>5. new.hash # NoHash => new.hash \in seen
  BY <1>1 DEF CopiesInv
<1>6. (new.exists /\ ~new.deleting /\ new.hash = HashOf[new.content]) =>
        \A w \in Copies : w.exists /\ ~w.deleting /\ HashOf[w.content] = new.hash
  BY <1>1, <1>2
<1>7. new.deleting => new.fin
  BY DEF AppObj
<1> QED BY <1>3, <1>4, <1>5, <1>6, <1>7, CopiesOfWrite

\* A step of the worker leaves the copies alone, but for the one it works on.
LEMMA CopiesOfStep ==
  ASSUME TypeOK, CopiesInv, UNCHANGED <<app, inflight, cache, seen>>,
         rec' = Idle \/ rec'.v = cache \/ (rec.pc # "idle" /\ rec'.v = rec.v)
  PROVE  CopiesInv'
<1>1. Copies' \subseteq Copies \cup {app}
  BY IdleType DEF Copies
<1> QED BY <1>1, CopiesKept DEF CopiesInv

LEMMA CopiesStep ==
  ASSUME TypeOK, IndInv, CopiesInv, Calm, [Next]_vars
  PROVE  CopiesInv'
<1> USE ContentAssumption, BoundAssumption
<1>0. /\ rec \in RecObj /\ rec.v \in AppObj /\ app \in AppObj /\ CopiesOrdered
      /\ rec.pc # "idle" => rec.v.exists /\ rec.v.content \in Contents
  BY DEF TypeOK, RecObj, IndInv, CopiesWellFormed, WellFormed
<1>a. ASSUME NEW p, Goto(p) PROVE rec'.v = rec.v
  BY <1>0, <1>a DEF Goto, RecObj
<1>b. ASSUME Return \/ ReturnErr PROVE rec' = Idle
  BY <1>b DEF Return, ReturnErr
<1>1. CASE Start
  <2>1. rec' = Idle \/ rec'.v = cache
    BY <1>1 DEF Start, Idle
  <2> QED BY <1>1, <2>1, CopiesOfStep DEF Start, object, caches
<1>2. CASE AddFinalizer
  <2>0. rec' = Idle /\ UNCHANGED <<cache, seen>> /\ rec.pc # "idle"
    BY <1>2, <1>b DEF AddFinalizer, caches
  <2> DEFINE new == [rec.v EXCEPT !.fin = TRUE]
  <2>1. CASE UNCHANGED <<app, inflight>>
    BY <2>0, <2>1, CopiesOfStep
  <2>2. CASE ~Conflict(rec.v) /\ Write(new)
    <3>1. /\ new \in AppObj /\ new.exists /\ new.content = rec.v.content /\ new.fin
          /\ new.deleting = rec.v.deleting /\ new.hash = rec.v.hash
      BY <1>0, <2>0 DEF AppObj
    <3> HIDE DEF new
    <3> QED BY <2>0, <2>2, <3>1, CopiesOfWorker
  <2> QED BY <1>2, <2>1, <2>2 DEF AddFinalizer
<1>3. CASE RemoveFinalizer
  <2>0. rec' = Idle /\ UNCHANGED <<cache, seen>> /\ rec.pc # "idle"
    BY <1>3, <1>b DEF RemoveFinalizer, caches
  <2>1. CASE UNCHANGED <<app, inflight>>
    BY <2>0, <2>1, CopiesOfStep
  <2>2. CASE ~Conflict(rec.v) /\ Write(Tombstone(0))
    <3>1. /\ Tombstone(0) \in AppObj /\ ~Tombstone(0).exists /\ ~Tombstone(0).deleting
          /\ Tombstone(0).hash = NoHash
      BY TombstoneType DEF Tombstone
    <3> QED BY <2>0, <2>2, <3>1, CopiesOfWorker
  <2> QED BY <1>3, <2>1, <2>2 DEF RemoveFinalizer
<1>4. CASE WriteStatus
  <2>0. rec' = Idle /\ UNCHANGED <<cache, seen>> /\ rec.pc = "status"
    BY <1>4, <1>b DEF WriteStatus, caches
  <2> DEFINE new == UpdateStatus(rec.v, rec.ran)
  <2>1. CASE UNCHANGED <<app, inflight>>
    BY <2>0, <2>1, CopiesOfStep
  <2>2. CASE ~Conflict(rec.v) /\ Write(new)
    <3>1. ~rec.v.deleting
      BY <2>0 DEF IndInv, BranchFacts, SyncPCs
    <3>2. HashOf[rec.v.content] \in Hashes
      BY <1>0, <2>0
    <3>3. /\ new \in AppObj /\ new.exists /\ new.content = rec.v.content
          /\ new.deleting = rec.v.deleting /\ new.hash = HashOf[rec.v.content]
      BY <1>0, <2>0, <3>2 DEF UpdateStatus, TypeOK, RecObj, AppObj, DeplObj
    <3> HIDE DEF new
    <3> QED BY <2>0, <2>2, <3>1, <3>3, CopiesOfWorker
  <2> QED BY <1>4, <2>1, <2>2 DEF WriteStatus
<1>5. CASE DeleteDeployment \/ ExtDeleted \/ OldDeleted \/ ApplyService \/ ApplyDeployment
  <2>1. UNCHANGED <<app, inflight, cache, seen>> /\ rec.pc # "idle"
    BY <1>5 DEF DeleteDeployment, ExtDeleted, OldDeleted, ApplyService, ApplyDeployment, object, caches
  <2>2. rec' = Idle \/ \E p : Goto(p)
    BY <1>5, <1>b DEF DeleteDeployment, ExtDeleted, OldDeleted, ApplyService, ApplyDeployment
  <2> QED BY <1>a, <2>1, <2>2, CopiesOfStep
<1>6. CASE DeleteService \/ CheckModified \/ ExtSynced
  <2>1. UNCHANGED <<app, inflight, cache, seen>> /\ rec.pc # "idle"
    BY <1>6 DEF DeleteService, CheckModified, ExtSynced, object, caches
  <2>2. rec' = Idle \/ rec'.v = rec.v
    BY <1>0, <1>6 DEF DeleteService, CheckModified, ExtSynced, ReturnErr, RecObj
  <2> QED BY <2>1, <2>2, CopiesOfStep
<1>7. ASSUME NEW e \in Ext, ExtDelete(e) \/ ExtSync(e) \/ DeleteOld(e) PROVE CopiesInv'
  <2>1. UNCHANGED <<app, inflight, cache, seen>> /\ rec.pc # "idle"
    BY <1>7 DEF ExtDelete, ExtSync, DeleteOld, object, caches
  <2>2. rec'.v = rec.v
    BY <1>0, <1>7 DEF ExtDelete, ExtSync, DeleteOld, RecObj
  <2> QED BY <2>1, <2>2, CopiesOfStep
<1>8. ASSUME NEW c \in Contents, UserCreate(c) PROVE CopiesInv'
  <2> DEFINE new == [Tombstone(0) EXCEPT !.exists = TRUE, !.content = c]
  <2>1. new \in AppObj /\ new.exists /\ new.content = c /\ ~new.deleting /\ new.hash = NoHash
    <3>1. /\ Tombstone(0) \in AppObj /\ ~Tombstone(0).deleting
          /\ Tombstone(0).hash = NoHash
      BY TombstoneType DEF Tombstone
    <3> QED BY <3>1 DEF AppObj
  <2>2. Write(new) /\ UNCHANGED <<cache, rec>> /\ seen' = {HashOf[c]} /\ ~app.exists
    BY <1>8 DEF UserCreate, caches
  <2>3. app'.exists /\ app'.content = c /\ ~app'.deleting /\ app'.hash = NoHash
    <3>1. app.rv + 1 \in Nat
      BY <1>0 DEF AppObj
    <3> QED BY <2>1, <2>2, <3>1 DEF Write, AppObj
  <2> HIDE DEF new
  <2>4. Copies' \subseteq Copies \cup {app'} /\ app' \in inflight'
    BY <2>2 DEF Write, Copies
  <2>5. HashOf[c] # NoHash
    OBVIOUS
  <2>6. ~Settled'
    BY <2>3, <2>5 DEF Settled
  <2>7. \A w \in Copies' \cup {app'} : w.deleting => w.fin
    BY <2>3, <2>4 DEF CopiesInv
  <2> QED BY <2>2, <2>3, <2>4, <2>6, <2>7 DEF CopiesInv
<1>9. ASSUME NEW c \in Contents, UserEdit(c) PROVE CopiesInv'
  <2> DEFINE new == [app EXCEPT !.content = c]
  <2>1. /\ new \in AppObj /\ new.exists = app.exists /\ new.content = c /\ new.fin = app.fin
        /\ new.deleting = app.deleting /\ new.hash = app.hash
    BY <1>0 DEF AppObj
  <2>2. /\ Write(new) /\ UNCHANGED <<cache, rec>> /\ seen' = seen \cup {HashOf[c]} /\ app.exists
        /\ HashOf[c] = HashOf[app.content] \/ HashOf[c] \notin seen
    BY <1>9 DEF UserEdit, caches, Calm
  <2>3. HashOf[c] # NoHash
    OBVIOUS
  <2> HIDE DEF new
  <2>4. new.deleting => new.fin
    BY <2>1 DEF CopiesInv
  <2>5. new.hash # NoHash => new.hash \in seen'
    BY <2>1, <2>2 DEF CopiesInv
  <2>6. new.exists /\ ~new.deleting /\ new.hash = HashOf[new.content] => Settled
    BY <2>1, <2>2, <2>3 DEF CopiesInv, Settled
  <2>7. (new.exists /\ ~new.deleting /\ new.hash = HashOf[new.content]) =>
          \A w \in Copies : w.exists /\ ~w.deleting /\ HashOf[w.content] = new.hash
    BY <2>1, <2>6 DEF CopiesInv, Current
  <2> QED BY <1>0, <2>1, <2>2, <2>4, <2>5, <2>7, CopiesOfWrite
<1>10. CASE UserDelete
  <2> DEFINE new == IF app.fin THEN [app EXCEPT !.deleting = TRUE] ELSE Tombstone(0)
  <2>1. Write(new) /\ UNCHANGED <<cache, rec, seen>> /\ app.exists
    BY <1>10 DEF UserDelete, caches
  <2>2. CASE app.fin
    <3>1. /\ new \in AppObj /\ new.exists /\ new.deleting /\ new.fin /\ new.content = app.content
          /\ new.hash = app.hash
      BY <1>0, <2>1, <2>2 DEF AppObj
    <3> HIDE DEF new
    <3> QED BY <1>0, <2>1, <3>1, CopiesOfWrite DEF CopiesInv
  <2>3. CASE ~app.fin
    <3>1. new \in AppObj /\ ~new.exists /\ ~new.deleting /\ new.hash = NoHash
      BY <2>3, TombstoneType DEF Tombstone
    <3> HIDE DEF new
    <3> QED BY <1>0, <2>1, <3>1, CopiesOfWrite
  <2> QED BY <2>2, <2>3
<1>11. CASE Deliver
  <2>1. PICK w \in inflight : cache' = w /\ inflight' = {x \in inflight : x.rv > w.rv}
    BY <1>11 DEF Deliver
  <2>2. UNCHANGED <<app, seen, rec>>
    BY <1>11 DEF Deliver
  <2>3. /\ app.rv \in Nat /\ cache.rv \in Nat /\ \A x \in inflight : x.rv \in Nat
    BY DEF TypeOK, AppObj
  <2>4. cache.rv < w.rv /\ w.rv <= app.rv /\ (w.rv = app.rv => w = app)
    BY <1>0 DEF CopiesOrdered
  <2>5. app \in inflight
    BY <2>3, <2>4 DEF CopiesInv
  <2>6. cache' = app \/ app \in inflight'
    BY <2>1, <2>3, <2>4, <2>5
  <2>7. Copies' \subseteq Copies \cup {app}
    BY <2>1, <2>2 DEF Copies
  <2> QED BY <2>2, <2>6, <2>7, CopiesKept
<1>12. CASE Restart
  <2>1. UNCHANGED <<app, seen>> /\ cache' = app /\ inflight' = {} /\ rec' = Idle
    BY <1>12 DEF Restart
  <2>2. Copies' \subseteq Copies \cup {app}
    BY <2>1, IdleType DEF Copies
  <2> QED BY <2>1, <2>2, CopiesKept
<1>13. CASE UNCHANGED <<app, inflight, cache, seen, rec>>
  BY <1>13 DEF CopiesInv, Copies, Settled, Current
<1>14. CASE Environment \/ UNCHANGED vars
  <2>1. CASE \E c \in Contents : UserCreate(c) \/ UserEdit(c)
    BY <1>8, <1>9, <2>1
  <2>2. CASE MetadataEvent \/ CatchUpDeployment \/ CatchUpService \/ Drop
    BY <1>13, <2>2 DEF MetadataEvent, CatchUpDeployment, CatchUpService, Drop, object, caches
  <2>3. CASE (\E n \in 0..MaxAvail : Rollout(n)) \/ (\E e \in Ext : Churn(e))
    BY <1>13, <2>3 DEF Rollout, Churn, object, caches
  <2>4. CASE UNCHANGED vars
    BY <1>13, <2>4 DEF vars
  <2> QED BY <1>10, <1>11, <1>12, <1>14, <2>1, <2>2, <2>3, <2>4 DEF Environment
<1>15. CASE Reconcile
  BY <1>1, <1>2, <1>3, <1>4, <1>5, <1>6, <1>7, <1>15 DEF Reconcile
<1> QED BY <1>14, <1>15 DEF Next

\* Nothing is dropped, and the extensions stay as they are.
LEMMA CalmSteps ==
  ASSUME TypeOK, Calm
  PROVE  ~Drop /\ \A e \in Ext : ~Churn(e)
<1>1. spent["drops"] \in Nat /\ spent["churn"] \in Nat
  BY DEF TypeOK, Budgets
<1>2. Limit["drops"] = 0 /\ Limit["churn"] = 0
  BY DEF Calm, Limit
<1> QED BY <1>1, <1>2 DEF Drop, Churn, Spend

(***************************************************************************)
(* What a Reconcile call that synchronises has put in place when it comes  *)
(* to write the status; the extensions that it was to call are not among   *)
(* those that it tells to delete.                                          *)
(***************************************************************************)
Chosen(c)  == {e \in registered : ShouldRun(e, c)}
StatusOnly == rec.pc = "status" /\ rec.v.hash = HashOf[rec.v.content] /\ rec.ran = rec.v.exts

RunInv ==
  /\ rec.pc = "extSync" =>
       /\ rec.ran = Chosen(rec.v.content)
       /\ ~rec.failed => \A e \in rec.ran \ rec.pending : (ext[e] = rec.v.content \/ e \in unnoticed)
  /\ rec.pc = "delOld" =>
       \A e \in Chosen(rec.v.content) :
         e \in rec.ran /\ e \notin rec.pending /\ (ext[e] = rec.v.content \/ e \in unnoticed)
  /\ rec.pc \in {"svc", "depl", "status"} /\ ~StatusOnly =>
       \A e \in Chosen(rec.v.content) : e \in rec.ran /\ (ext[e] = rec.v.content \/ e \in unnoticed)
  /\ rec.pc \in {"depl", "status"} /\ ~StatusOnly /\ PortOf[rec.v.content] > 0 =>
       svc = PortOf[rec.v.content]
  /\ rec.pc = "status" /\ ~StatusOnly => depl.content = rec.v.content

LEMMA RunStep ==
  ASSUME TypeOK, IndInv, RunInv, Calm, [Next]_vars
  PROVE  RunInv'
<1> USE ContentAssumption, BoundAssumption
<1>0. /\ rec \in RecObj /\ rec.pc \in PCs /\ ext \in [Ext -> Contents \cup {NoContent}]
      /\ rec.pending \subseteq Ext /\ rec.ran \subseteq Ext /\ registered \subseteq Ext
      /\ rec.pc # "idle" => rec.v.content \in Contents
  <2>1. /\ rec \in RecObj /\ ext \in [Ext -> Contents \cup {NoContent}] /\ registered \subseteq Ext
        /\ rec.pc # "idle" => rec.v.content \in Contents
    BY DEF TypeOK, IndInv, CopiesWellFormed, WellFormed
  <2> QED BY <2>1, RecSets DEF RecObj
\* A step to a point at which nothing is claimed.
<1>a. ASSUME rec'.pc \notin {"extSync", "delOld", "svc", "depl", "status"} PROVE RunInv'
  BY <1>a DEF RunInv, StatusOnly
<1>b. ASSUME Return \/ ReturnErr \/ rec' = Idle PROVE RunInv'
  BY <1>a, <1>b, IdleType DEF Return, ReturnErr
<1>c. ASSUME NEW p, Goto(p)
      PROVE  rec'.pc = p /\ rec'.v = rec.v /\ rec'.ran = rec.ran
  BY <1>0, <1>c DEF Goto, RecObj
<1>d. ASSUME registered' = registered, rec'.v = rec.v
      PROVE  Chosen(rec.v.content)' = Chosen(rec.v.content)
  BY <1>d DEF Chosen
<1>1. CASE Start
  <2>1. CASE rec' = Idle
    BY <1>b, <2>1
  <2>2. CASE rec' # Idle
    <3> DEFINE p == IF cache.deleting THEN "delDepl" ELSE IF cache.fin THEN "isModified" ELSE "addFin"
    <3>1. rec' = [Idle EXCEPT !.v = cache, !.pc = p]
      BY <1>1, <2>2 DEF Start
    <3>2. p \in {"delDepl", "isModified", "addFin"}
      OBVIOUS
    <3> HIDE DEF p
    <3>3. rec'.pc \in {"delDepl", "isModified", "addFin"}
      BY <3>1, <3>2 DEF Idle
    <3> QED BY <1>a, <3>3
  <2> QED BY <2>1, <2>2
<1>2. CASE AddFinalizer \/ RemoveFinalizer \/ WriteStatus \/ Restart
  BY <1>2, <1>b DEF AddFinalizer, RemoveFinalizer, WriteStatus, Restart
<1>3. CASE DeleteDeployment \/ DeleteService \/ ExtDeleted
  <2>1. rec' = Idle \/ rec'.pc \in {"delSvc", "extDelete", "removeFin"}
    BY <1>0, <1>3, <1>c DEF DeleteDeployment, DeleteService, ExtDeleted, ReturnErr, RecObj
  <2> QED BY <1>a, <1>b, <2>1
<1>4. ASSUME NEW e \in Ext, ExtDelete(e) PROVE RunInv'
  <2>1. rec'.pc = "extDelete"
    BY <1>0, <1>4 DEF ExtDelete, RecObj
  <2> QED BY <1>a, <2>1
<1>5. CASE CheckModified
  <2>1. CASE IsModified(rec.v)
    <3> DEFINE run == Chosen(rec.v.content)
    <3>1. rec' = [rec EXCEPT !.pc = "extSync", !.pending = run, !.ran = run]
      BY <1>5, <2>1 DEF CheckModified, Chosen
    <3>2. registered' = registered
      BY <1>5 DEF CheckModified
    <3> HIDE DEF run
    <3>3. rec'.pc = "extSync" /\ rec'.ran = run /\ rec'.pending = run /\ rec'.v = rec.v
      BY <1>0, <3>1 DEF RecObj
    <3>4. run = Chosen(rec.v.content)'
      BY <1>d, <3>2, <3>3 DEF run
    <3> QED BY <3>3, <3>4 DEF RunInv, StatusOnly
  <2>2. CASE ~IsModified(rec.v)
    <3>1. rec' = [rec EXCEPT !.pc = "status", !.ran = rec.v.exts]
      BY <1>5, <2>2 DEF CheckModified
    <3>2. rec'.pc = "status" /\ rec'.v = rec.v /\ rec'.ran = rec.v.exts
      BY <1>0, <3>1 DEF RecObj
    <3>3. rec.v.hash = HashOf[rec.v.content]
      BY <2>2 DEF IsModified
    <3> QED BY <3>2, <3>3 DEF RunInv, StatusOnly
  <2> QED BY <2>1, <2>2
<1>6. ASSUME NEW e \in Ext, ExtSync(e) PROVE RunInv'
  <2>1. /\ rec.pc = "extSync" /\ rec.ran = Chosen(rec.v.content) /\ registered' = registered
        /\ ~rec.failed => \A d \in rec.ran \ rec.pending : (ext[d] = rec.v.content \/ d \in unnoticed)
    BY <1>6 DEF ExtSync, RunInv
  <2>2. /\ rec'.pc = "extSync" /\ rec'.v = rec.v /\ rec'.ran = rec.ran
        /\ rec'.pending = rec.pending \ {e}
        /\ rec'.failed \/ rec'.failed = rec.failed
    BY <1>0, <1>6 DEF ExtSync, RecObj
  <2>e. rec'.failed \/ Applied(e, rec.v.content) \/ NotApplied(e)
    BY <1>0, <1>6 DEF ExtSync, RecObj
  <2>3. rec'.ran = Chosen(rec.v.content)'
    BY <1>d, <2>1, <2>2
  <2>4. ~rec'.failed => \A d \in rec'.ran \ rec'.pending : (ext'[d] = rec'.v.content \/ d \in unnoticed')
    BY <1>0, <2>1, <2>2, <2>e
  <2> QED BY <2>2, <2>3, <2>4 DEF RunInv, StatusOnly
<1>7. CASE ExtSynced
  <2>1. CASE ReturnErr
    BY <1>b, <2>1
  <2>2. CASE ~ReturnErr
    <3> DEFINE old == rec.v.exts \ rec.ran
    <3>1. /\ rec' = [rec EXCEPT !.pc = "delOld", !.pending = old] /\ UNCHANGED <<ext, unnoticed>>
          /\ rec.pc = "extSync" /\ ~rec.failed /\ rec.pending = {} /\ registered' = registered
      BY <1>7, <2>2 DEF ExtSynced
    <3>2. \A e \in rec.ran : e \notin old
      OBVIOUS
    <3> HIDE DEF old
    <3>3. /\ rec'.pc = "delOld" /\ rec'.v = rec.v /\ rec'.ran = rec.ran /\ rec'.pending = old
      BY <1>0, <3>1 DEF RecObj
    <3>4. rec.ran = Chosen(rec.v.content) /\ \A e \in rec.ran : (ext[e] = rec.v.content \/ e \in unnoticed)
      BY <3>1 DEF RunInv
    <3>5. Chosen(rec.v.content)' = rec.ran
      BY <1>d, <3>1, <3>3, <3>4
    <3> QED BY <3>1, <3>2, <3>3, <3>4, <3>5 DEF RunInv, StatusOnly
  <2> QED BY <2>1, <2>2
<1>8. ASSUME NEW e \in Ext, DeleteOld(e) PROVE RunInv'
  <2>1. /\ rec.pc = "delOld" /\ e \in rec.pending /\ registered' = registered
        /\ \A d \in Chosen(rec.v.content) :
             d \in rec.ran /\ d \notin rec.pending /\ (ext[d] = rec.v.content \/ d \in unnoticed)
    BY <1>8 DEF DeleteOld, RunInv
  <2>2. \A d \in Ext \ {e} : ext'[d] = ext[d]
    BY <1>0, <1>8 DEF DeleteOld
  <2>u. unnoticed \ {e} \subseteq unnoticed'
    BY <1>8 DEF DeleteOld
  <2>3. /\ rec'.pc = "delOld" /\ rec'.v = rec.v /\ rec'.pending = rec.pending \ {e}
        /\ rec'.ran = rec.ran \/ rec'.ran = rec.ran \cup {e}
    BY <1>0, <1>8, <2>1 DEF DeleteOld, RecObj
  <2>4. Chosen(rec.v.content)' = Chosen(rec.v.content) /\ Chosen(rec.v.content) \subseteq Ext
    BY <1>d, <1>0, <2>1, <2>3
  <2>5. \A d \in Chosen(rec.v.content) : d # e
    BY <2>1
  <2>6. \A d \in Chosen(rec.v.content)' : /\ d \in rec'.ran /\ d \notin rec'.pending
                                          /\ ext'[d] = rec'.v.content \/ d \in unnoticed'
    BY <2>1, <2>2, <2>u, <2>3, <2>4, <2>5
  <2> QED BY <2>3, <2>6 DEF RunInv, StatusOnly
<1>9. ASSUME NEW p \in {"svc", "depl"}, Goto(p), rec.pc = "delOld",
             UNCHANGED <<ext, unnoticed, svc, registered>>,
             p = "depl" => ~(PortOf[rec.v.content] > 0)
      PROVE  RunInv'
  <2>1. rec'.pc = p /\ rec'.v = rec.v /\ rec'.ran = rec.ran
    BY <1>9, <1>c
  <2>2. Chosen(rec.v.content)' = Chosen(rec.v.content)
    BY <1>d, <1>9, <2>1
  <2>3. \A e \in Chosen(rec.v.content) : e \in rec.ran /\ (ext[e] = rec.v.content \/ e \in unnoticed)
    BY <1>9 DEF RunInv
  <2> QED BY <1>9, <2>1, <2>2, <2>3 DEF RunInv
<1>10. CASE OldDeleted
  BY <1>9, <1>10 DEF OldDeleted, workload
<1>11. CASE ApplyService
  <2>1. CASE ReturnErr
    BY <1>b, <2>1
  <2>2. CASE ~ReturnErr
    <3>1. /\ Goto("depl") /\ rec.pc = "svc" /\ svc' = PortOf[rec.v.content]
          /\ UNCHANGED <<ext, unnoticed, registered>>
      BY <1>11, <2>2 DEF ApplyService
    <3>2. rec'.pc = "depl" /\ rec'.v = rec.v /\ rec'.ran = rec.ran
      BY <1>c, <3>1
    <3>3. Chosen(rec.v.content)' = Chosen(rec.v.content)
      BY <1>d, <3>1, <3>2
    <3> QED BY <3>1, <3>2, <3>3 DEF RunInv, StatusOnly
  <2> QED BY <2>1, <2>2
<1>12. CASE ApplyDeployment
  <2>1. CASE ReturnErr
    BY <1>b, <2>1
  <2>2. CASE ~ReturnErr
    <3>1. /\ Goto("status") /\ rec.pc = "depl" /\ depl' = [depl EXCEPT !.content = rec.v.content]
          /\ UNCHANGED <<ext, unnoticed, registered, svc>>
      BY <1>12, <2>2 DEF ApplyDeployment
    <3>2. rec'.pc = "status" /\ rec'.v = rec.v /\ rec'.ran = rec.ran
      BY <1>c, <3>1
    <3>3. Chosen(rec.v.content)' = Chosen(rec.v.content)
      BY <1>d, <3>1, <3>2
    <3>4. depl'.content = rec.v.content
      BY <3>1 DEF TypeOK, DeplObj
    <3> QED BY <3>1, <3>2, <3>3, <3>4 DEF RunInv, StatusOnly
  <2> QED BY <2>1, <2>2
<1>13. ASSUME UNCHANGED <<rec, ext, unnoticed, svc, registered>>, depl'.content = depl.content PROVE RunInv'
  BY <1>13 DEF RunInv, StatusOnly, Chosen
<1>14. CASE Environment \/ UNCHANGED vars
  <2>1. CASE \E c \in Contents : UserCreate(c) \/ UserEdit(c)
    BY <1>13, <2>1 DEF UserCreate, UserEdit, workload
  <2>2. CASE UserDelete \/ Deliver \/ MetadataEvent \/ CatchUpDeployment \/ CatchUpService
    BY <1>13, <2>2
    DEF UserDelete, Deliver, MetadataEvent, CatchUpDeployment, CatchUpService, workload
  <2>3. ASSUME NEW n \in 0..MaxAvail, Rollout(n) PROVE RunInv'
    <3>1. depl' = [depl EXCEPT !.avail = n] /\ UNCHANGED <<rec, ext, unnoticed, svc, registered>>
      BY <2>3 DEF Rollout
    <3>2. depl'.content = depl.content
      BY <3>1 DEF TypeOK, DeplObj
    <3> QED BY <1>13, <3>1, <3>2
  <2>4. CASE UNCHANGED vars
    BY <1>13, <2>4 DEF vars
  <2> QED BY <1>2, <1>14, <2>1, <2>2, <2>3, <2>4, CalmSteps DEF Environment
<1>15. CASE Reconcile
  BY <1>1, <1>2, <1>3, <1>4, <1>5, <1>6, <1>7, <1>8, <1>10, <1>11, <1>12, <1>15 DEF Reconcile
<1> QED BY <1>14, <1>15 DEF Next

(***************************************************************************)
(* What the status says is so.                                             *)
(***************************************************************************)
WorkInv ==
  Settled =>
    /\ HasHash(depl.content, app.hash)
    /\ PortOf[app.content] > 0 => svc = PortOf[app.content]
    /\ \A e \in Chosen(app.content) : e \in app.exts /\ (HasHash(ext[e], app.hash) \/ e \in unnoticed)

\* Contents with one hash are one for what is put in place.
LEMMA SameHash ==
  ASSUME HashTells, NEW c \in Contents, NEW d \in Contents, HashOf[c] = HashOf[d]
  PROVE  /\ PortOf[c] = PortOf[d] /\ Chosen(c) = Chosen(d)
         /\ HasHash(c, HashOf[d])
BY ContentAssumption DEF HashTells, Chosen, ShouldRun, HasHash

LEMMA WorkStep ==
  ASSUME TypeOK, IndInv, CopiesInv, RunInv, WorkInv, Calm, [Next]_vars
  PROVE  WorkInv'
<1> USE ContentAssumption, BoundAssumption
<1>0. /\ rec \in RecObj /\ app \in AppObj /\ rec.v \in AppObj /\ depl \in DeplObj
      /\ ext \in [Ext -> Contents \cup {NoContent}] /\ app.rv + 1 \in Nat
      /\ registered \subseteq Ext
      /\ app.exists => app.content \in Contents
      /\ rec.pc # "idle" => rec.v.exists /\ rec.v.content \in Contents
  BY DEF TypeOK, RecObj, AppObj, IndInv, CopiesWellFormed, WellFormed
\* The object that the worker has, when the status says that all is in place.
<1>a. ASSUME Settled, rec.pc # "idle"
      PROVE  /\ ~rec.v.deleting /\ HasHash(rec.v.content, app.hash)
             /\ PortOf[rec.v.content] = PortOf[app.content]
             /\ Chosen(rec.v.content) = Chosen(app.content)
  <2>1. ~rec.v.deleting /\ HashOf[rec.v.content] = HashOf[app.content] /\ app.hash = HashOf[app.content]
    BY <1>a DEF CopiesInv, Copies, Current, Settled
  <2> QED BY <1>0, <1>a, <2>1, SameHash DEF Calm, Settled
<1>b. rec.pc \in DeletePCs => ~Settled
  BY <1>a DEF IndInv, BranchFacts, DeletePCs
<1>c. ASSUME UNCHANGED <<app, depl, svc, ext, unnoticed, registered>> PROVE WorkInv'
  BY <1>c DEF WorkInv, Settled, Chosen
<1>d. ASSUME ~Settled' PROVE WorkInv'
  BY <1>d DEF WorkInv
<1>e. ASSUME UNCHANGED <<app, registered>>, depl'.content \in {depl.content, rec.v.content},
             svc' \in {svc, PortOf[rec.v.content]}, rec.pc # "idle",
             \A e \in Chosen(rec.v.content) :
               \/ ext'[e] = rec.v.content \/ e \in unnoticed'
               \/ ext'[e] = ext[e] /\ (e \in unnoticed => e \in unnoticed')
      PROVE  WorkInv'
  <2> SUFFICES ASSUME Settled
               PROVE  /\ HasHash(depl'.content, app.hash)
                      /\ PortOf[app.content] > 0 => svc' = PortOf[app.content]
                      /\ \A e \in Chosen(app.content) :
                           e \in app.exts /\ (HasHash(ext'[e], app.hash) \/ e \in unnoticed')
    BY <1>e DEF WorkInv, Settled, Chosen
  <2>1. /\ HasHash(depl.content, app.hash) /\ HasHash(rec.v.content, app.hash)
        /\ PortOf[rec.v.content] = PortOf[app.content]
        /\ PortOf[app.content] > 0 => svc = PortOf[app.content]
        /\ Chosen(rec.v.content) = Chosen(app.content)
        /\ \A e \in Chosen(app.content) : e \in app.exts /\ (HasHash(ext[e], app.hash) \/ e \in unnoticed)
    BY <1>a, <1>e DEF WorkInv
  <2> QED BY <1>e, <2>1
<1>1. CASE DeleteDeployment \/ DeleteService
  BY <1>1, <1>b, <1>d DEF DeleteDeployment, DeleteService, DeletePCs, object, Settled
<1>2. ASSUME NEW e \in Ext, ExtDelete(e) PROVE WorkInv'
  BY <1>2, <1>b, <1>d DEF ExtDelete, DeletePCs, object, Settled
<1>3. ASSUME NEW e \in Ext, ExtSync(e) PROVE WorkInv'
  <2>1. UNCHANGED <<app, depl, svc, registered>> /\ rec.pc = "extSync"
    BY <1>3 DEF ExtSync, object, workload
  <2>2. \A d \in Ext : \/ ext'[d] = rec.v.content \/ d \in unnoticed'
                       \/ ext'[d] = ext[d] /\ (d \in unnoticed => d \in unnoticed')
    BY <1>0, <1>3 DEF ExtSync
  <2> QED BY <1>0, <1>e, <2>1, <2>2 DEF Chosen
<1>4. ASSUME NEW e \in Ext, DeleteOld(e) PROVE WorkInv'
  <2>1. UNCHANGED <<app, depl, svc, registered>> /\ rec.pc = "delOld" /\ e \in rec.pending
    BY <1>4 DEF DeleteOld, object, workload
  <2>2. \A d \in Ext \ {e} : ext'[d] = ext[d]
    BY <1>0, <1>4 DEF DeleteOld
  <2>u. unnoticed \ {e} \subseteq unnoticed'
    BY <1>4 DEF DeleteOld
  <2>3. \A d \in Chosen(rec.v.content) : d # e /\ d \in Ext
    BY <1>0, <2>1 DEF RunInv, Chosen
  <2>4. \A d \in Chosen(rec.v.content) : ext'[d] = ext[d] /\ (d \in unnoticed => d \in unnoticed')
    BY <2>2, <2>u, <2>3
  <2> QED BY <1>e, <2>1, <2>4
<1>5. CASE ApplyService
  <2>1. /\ UNCHANGED <<app, depl, ext, unnoticed, registered>> /\ rec.pc = "svc"
        /\ svc' \in {svc, PortOf[rec.v.content]}
    BY <1>5 DEF ApplyService, object
  <2> QED BY <1>e, <2>1
<1>6. CASE ApplyDeployment
  <2>1. /\ UNCHANGED <<app, svc, ext, unnoticed, registered>> /\ rec.pc = "depl"
        /\ depl' \in {depl, [depl EXCEPT !.content = rec.v.content]}
    BY <1>6 DEF ApplyDeployment, object
  <2>2. depl'.content \in {depl.content, rec.v.content}
    BY <1>0, <2>1 DEF DeplObj
  <2> QED BY <1>e, <2>1, <2>2
<1>7. CASE AddFinalizer
  <2>0. UNCHANGED <<depl, svc, ext, unnoticed, registered>> /\ rec.pc # "idle"
    BY <1>7 DEF AddFinalizer, workload
  <2>1. CASE UNCHANGED app
    BY <1>c, <2>0, <2>1
  <2>2. CASE ~Conflict(rec.v) /\ Write([rec.v EXCEPT !.fin = TRUE])
    <3>1. rec.v = app
      BY <2>0, <2>2, NoConflictMeansCurrent
    <3>2. /\ app'.exists = app.exists /\ app'.deleting = app.deleting /\ app'.hash = app.hash
          /\ app'.content = app.content /\ app'.exts = app.exts
      BY <1>0, <2>2, <3>1 DEF Write, AppObj
    <3> QED BY <2>0, <3>2 DEF WorkInv, Settled, Chosen
  <2> QED BY <1>7, <2>1, <2>2 DEF AddFinalizer
<1>8. CASE RemoveFinalizer
  <2>1. CASE UNCHANGED app
    BY <1>8, <1>c, <2>1 DEF RemoveFinalizer, workload
  <2>2. CASE Write(Tombstone(0))
    <3>1. ~app'.exists
      BY <1>0, <2>2, TombstoneType DEF Write, AppObj
    <3> QED BY <1>d, <3>1 DEF Settled
  <2> QED BY <1>8, <2>1, <2>2 DEF RemoveFinalizer
<1>9. CASE WriteStatus
  <2>0. UNCHANGED <<depl, svc, ext, unnoticed, registered>> /\ rec.pc = "status"
    BY <1>9 DEF WriteStatus, workload
  <2>1. CASE UNCHANGED app
    BY <1>c, <2>0, <2>1
  <2>2. CASE ~Conflict(rec.v) /\ Write(UpdateStatus(rec.v, rec.ran))
    <3>1. rec.v = app /\ app.exists /\ app.content \in Contents
      BY <1>0, <2>0, <2>2, NoConflictMeansCurrent
    <3>2. ~app.deleting
      BY <2>0, <3>1 DEF IndInv, BranchFacts, SyncPCs
    <3>3. /\ app'.hash = HashOf[app.content] /\ app'.content = app.content /\ app'.exts = rec.ran
      BY <1>0, <2>2, <3>1 DEF Write, UpdateStatus, AppObj
    <3>4. CASE StatusOnly
      <4>1. Settled /\ rec.ran = app.exts /\ app'.hash = app.hash
        BY <3>1, <3>2, <3>3, <3>4 DEF StatusOnly, Settled
      <4> QED BY <2>0, <3>3, <4>1 DEF WorkInv, Chosen
    <3>5. CASE ~StatusOnly
      <4>1. /\ \A e \in Chosen(app.content) : e \in rec.ran /\ (ext[e] = app.content \/ e \in unnoticed)
            /\ PortOf[app.content] > 0 => svc = PortOf[app.content]
            /\ depl.content = app.content
        BY <2>0, <3>1, <3>5 DEF RunInv
      <4>2. HasHash(app.content, app'.hash)
        BY <3>1, <3>3 DEF HasHash
      <4> QED BY <2>0, <3>3, <4>1, <4>2 DEF WorkInv, Chosen
    <3> QED BY <3>4, <3>5
  <2> QED BY <1>9, <2>1, <2>2 DEF WriteStatus
<1>10. ASSUME NEW c \in Contents, UserCreate(c) PROVE WorkInv'
  <2>1. app'.hash = NoHash /\ app'.content = c
    BY <1>0, <1>10 DEF UserCreate, Write, Tombstone
  <2>2. HashOf[c] # NoHash
    OBVIOUS
  <2> QED BY <1>d, <2>1, <2>2 DEF Settled
<1>11. ASSUME NEW c \in Contents, UserEdit(c) PROVE WorkInv'
  <2>1. /\ app'.exists = app.exists /\ app'.deleting = app.deleting /\ app'.hash = app.hash
        /\ app'.content = c /\ app'.exts = app.exts
        /\ UNCHANGED <<depl, svc, ext, unnoticed, registered>> /\ app.exists
    BY <1>0, <1>11 DEF UserEdit, Write, AppObj, workload
  <2>2. HashOf[c] = HashOf[app.content] \/ HashOf[c] \notin seen
    BY <1>11 DEF UserEdit, Calm
  <2>3. HashOf[c] # NoHash
    OBVIOUS
  <2>4. Settled' => Settled /\ HashOf[c] = HashOf[app.content]
    BY <2>1, <2>2, <2>3 DEF Settled, CopiesInv
  <2>5. Settled' => PortOf[c] = PortOf[app.content] /\ Chosen(c) = Chosen(app.content)
    BY <1>0, <2>1, <2>4, SameHash DEF Calm
  <2>6. Chosen(app.content)' = Chosen(c)
    BY <2>1 DEF Chosen
  <2> QED BY <2>1, <2>4, <2>5, <2>6 DEF WorkInv
<1>12. CASE UserDelete
  <2>1. app'.deleting \/ ~app'.exists
    BY <1>0, <1>12, TombstoneType DEF UserDelete, Write, AppObj
  <2> QED BY <1>d, <2>1 DEF Settled
<1>13. ASSUME NEW n \in 0..MaxAvail, Rollout(n) PROVE WorkInv'
  <2>1. UNCHANGED <<app, svc, ext, unnoticed, registered>> /\ depl' = [depl EXCEPT !.avail = n]
    BY <1>13 DEF Rollout, object
  <2>2. depl'.content = depl.content
    BY <1>0, <2>1 DEF DeplObj
  <2> QED BY <2>1, <2>2 DEF WorkInv, Settled, Chosen
<1>14. CASE Deliver \/ MetadataEvent \/ CatchUpDeployment \/ CatchUpService \/ Restart
  BY <1>14, <1>c DEF Deliver, MetadataEvent, CatchUpDeployment, CatchUpService, Restart, object, workload
<1>15. CASE Start \/ ExtDeleted \/ CheckModified \/ ExtSynced \/ OldDeleted
  BY <1>15, <1>c DEF Start, ExtDeleted, CheckModified, ExtSynced, OldDeleted, object, workload
<1>16. CASE UNCHANGED vars
  BY <1>16, <1>c DEF vars
<1>17. CASE Reconcile
  BY <1>1, <1>2, <1>3, <1>4, <1>5, <1>6, <1>7, <1>8, <1>9, <1>15, <1>17 DEF Reconcile
<1>18. CASE Environment
  BY <1>10, <1>11, <1>12, <1>13, <1>14, <1>18, CalmSteps DEF Environment
<1> QED BY <1>16, <1>17, <1>18 DEF Next

(***************************************************************************)
(* Somebody will look again: the object is queued, a version of it is on   *)
(* its way, the worker has the present one, or there is nothing to do.     *)
(***************************************************************************)
WakeInv ==
  ~queued /\ inflight = {} =>
    IF rec.pc = "idle" THEN ~app.exists \/ (Settled /\ app.fin) ELSE rec.v = app

LEMMA WakeStep ==
  ASSUME TypeOK, IndInv, CopiesInv, WakeInv, [Next]_vars
  PROVE  WakeInv'
<1>0. /\ rec \in RecObj /\ app \in AppObj /\ rec.v \in AppObj
      /\ rec.pc # "idle" => rec.v.exists
  BY DEF TypeOK, RecObj, IndInv, CopiesWellFormed
<1>a. ASSUME queued' \/ inflight' # {} PROVE WakeInv'
  BY <1>a DEF WakeInv
<1>b. ASSUME UNCHANGED <<queued, inflight, app>>, rec.pc # "idle", rec'.pc # "idle", rec'.v = rec.v
      PROVE  WakeInv'
  BY <1>b DEF WakeInv
<1>c. ASSUME NEW p, p # "idle", Goto(p), UNCHANGED <<inflight, app>>, rec.pc # "idle"
      PROVE  WakeInv'
  <2>1. rec'.pc = p /\ rec'.v = rec.v /\ queued' = queued
    BY <1>0, <1>c DEF Goto, RecObj
  <2> QED BY <1>b, <1>c, <2>1
<1>d. ASSUME ReturnErr PROVE WakeInv'
  BY <1>a, <1>d DEF ReturnErr
<1>e. ASSUME NEW new, Write(new) PROVE WakeInv'
  BY <1>a, <1>e DEF Write
<1>1. CASE Start
  <2>1. CASE inflight # {}
    BY <1>1, <1>a, <2>1 DEF Start, object
  <2>2. CASE inflight = {}
    <3>1. cache = app /\ (app.deleting => app.fin) /\ UNCHANGED app
      BY <1>1, <2>2 DEF CopiesInv, Start, object
    <3>2. CASE ~app.exists
      BY <1>1, <3>1, <3>2, IdleType DEF Start, WakeInv
    <3>3. CASE app.exists
      <4> DEFINE p == IF cache.deleting THEN "delDepl" ELSE IF cache.fin THEN "isModified" ELSE "addFin"
      <4>1. rec' = [Idle EXCEPT !.v = cache, !.pc = p]
        BY <1>1, <3>1, <3>3 DEF Start
      <4>2. p # "idle"
        OBVIOUS
      <4> HIDE DEF p
      <4>3. rec'.pc = p /\ rec'.v = cache
        BY <4>1 DEF Idle
      <4> QED BY <3>1, <4>2, <4>3 DEF WakeInv
    <3> QED BY <3>2, <3>3
  <2> QED BY <2>1, <2>2
<1>2. CASE AddFinalizer
  BY <1>2, <1>d, <1>e DEF AddFinalizer
<1>3. CASE RemoveFinalizer
  <2>1. CASE ~app.exists /\ Return /\ UNCHANGED <<app, inflight, spent>>
    BY <2>1, IdleType DEF Return, WakeInv
  <2> QED BY <1>3, <1>d, <1>e, <2>1 DEF RemoveFinalizer
<1>4. CASE WriteStatus
  <2>1. CASE UpdateStatus(rec.v, rec.ran) = rec.v /\ Return /\ UNCHANGED <<app, inflight, spent>>
    <3>1. rec.pc = "status" /\ rec' = Idle /\ UNCHANGED queued
      BY <1>4, <2>1 DEF WriteStatus, Return
    <3>2. rec.v.hash = HashOf[rec.v.content]
      <4>1. UpdateStatus(rec.v, rec.ran).hash = HashOf[rec.v.content]
        BY <1>0 DEF UpdateStatus, AppObj
      <4> QED BY <2>1, <4>1
    <3>3. rec.v.exists /\ rec.v.fin /\ ~rec.v.deleting
      BY <1>0, <3>1 DEF IndInv, BranchFacts, SyncPCs
    <3>4. ~queued /\ inflight = {} => Settled /\ app.fin
      BY <3>1, <3>2, <3>3 DEF WakeInv, Settled
    <3> QED BY <2>1, <3>1, <3>4, IdleType DEF WakeInv, Settled
  <2> QED BY <1>4, <1>d, <1>e, <2>1 DEF WriteStatus
<1>5. CASE DeleteDeployment \/ ExtDeleted \/ OldDeleted \/ ApplyService \/ ApplyDeployment
  <2>1. UNCHANGED <<app, inflight>> /\ rec.pc # "idle"
    BY <1>5 DEF DeleteDeployment, ExtDeleted, OldDeleted, ApplyService, ApplyDeployment, object
  <2>2. ReturnErr \/ \E p : p # "idle" /\ Goto(p)
    BY <1>5 DEF DeleteDeployment, ExtDeleted, OldDeleted, ApplyService, ApplyDeployment
  <2> QED BY <1>c, <1>d, <2>1, <2>2
<1>6. CASE DeleteService \/ CheckModified \/ ExtSynced
  <2>1. UNCHANGED <<app, inflight>> /\ rec.pc # "idle"
    BY <1>6 DEF DeleteService, CheckModified, ExtSynced, object
  <2>2. CASE ~ReturnErr
    <3>1. UNCHANGED queued
      BY <1>6, <2>2 DEF DeleteService, CheckModified, ExtSynced
    <3>2. rec'.v = rec.v /\ rec'.pc # "idle"
      BY <1>0, <1>6, <2>2 DEF DeleteService, CheckModified, ExtSynced, RecObj
    <3> QED BY <1>b, <2>1, <3>1, <3>2
  <2> QED BY <1>d, <2>2
<1>7. ASSUME NEW e \in Ext, ExtDelete(e) \/ ExtSync(e) \/ DeleteOld(e) PROVE WakeInv'
  <2>1. UNCHANGED <<app, inflight, queued>> /\ rec.pc # "idle"
    BY <1>7 DEF ExtDelete, ExtSync, DeleteOld, object
  <2>2. rec'.v = rec.v /\ rec'.pc = rec.pc
    BY <1>0, <1>7 DEF ExtDelete, ExtSync, DeleteOld, RecObj
  <2> QED BY <1>b, <2>1, <2>2
<1>8. CASE \E c \in Contents : UserCreate(c) \/ UserEdit(c)
  BY <1>8, <1>e DEF UserCreate, UserEdit
<1>9. CASE UserDelete
  BY <1>9, <1>e DEF UserDelete
<1>10. CASE Deliver \/ MetadataEvent
  BY <1>10, <1>a DEF Deliver, MetadataEvent
<1>11. CASE Restart
  <2>1. UNCHANGED app /\ rec' = Idle /\ queued' = app.exists
    BY <1>11 DEF Restart
  <2> QED BY <2>1, IdleType DEF WakeInv
<1>12. CASE UNCHANGED <<app, inflight, queued, rec>>
  BY <1>12 DEF WakeInv, Settled
<1>13. CASE Environment \/ UNCHANGED vars
  <2>1. CASE CatchUpDeployment \/ CatchUpService \/ Drop
    BY <1>12, <2>1 DEF CatchUpDeployment, CatchUpService, Drop, object
  <2>2. CASE (\E n \in 0..MaxAvail : Rollout(n)) \/ (\E e \in Ext : Churn(e))
    BY <1>12, <2>2 DEF Rollout, Churn, object
  <2>3. CASE UNCHANGED vars
    BY <1>12, <2>3 DEF vars
  <2> QED BY <1>8, <1>9, <1>10, <1>11, <1>13, <2>1, <2>2, <2>3 DEF Environment
<1>14. CASE Reconcile
  BY <1>1, <1>2, <1>3, <1>4, <1>5, <1>6, <1>7, <1>14 DEF Reconcile
<1> QED BY <1>13, <1>14 DEF Next

\* All four.
ConvergenceInv == CopiesInv /\ RunInv /\ WorkInv /\ WakeInv

LEMMA ConvergenceInit ==
  ASSUME Init
  PROVE  ConvergenceInv
<1>1. /\ rec.pc = "idle" /\ ~queued /\ inflight = {} /\ cache = app /\ seen = {}
      /\ ~app.exists /\ ~app.deleting /\ app.hash = NoHash
  BY DEF Init, Idle, Tombstone
<1>2. ~Settled
  BY <1>1 DEF Settled
<1> QED BY <1>1, <1>2 DEF ConvergenceInv, CopiesInv, Copies, RunInv, WorkInv, WakeInv

(***************************************************************************)
(* No wake-up is lost, whatever fails or is restarted: when no work is     *)
(* left, the Application is gone, or its workload and its extensions are   *)
(* at the user's content and the status says so.                           *)
(***************************************************************************)
THEOREM NothingLeftUndone ==
  ASSUME Calm
  PROVE  Spec => []QuiescentConverged
<1>1. Init => ConvergenceInv
  BY ConvergenceInit
<1>2. TypeOK /\ IndInv /\ ConvergenceInv /\ [Next]_vars => ConvergenceInv'
  BY CopiesStep, RunStep, WorkStep, WakeStep DEF ConvergenceInv
<1>3. ConvergenceInv => QuiescentConverged
  <2> SUFFICES ASSUME ConvergenceInv, Quiescent, app.exists
               PROVE  ~app.deleting /\ Converged
    BY DEF QuiescentConverged
  <2>1. Settled /\ app.fin
    BY DEF ConvergenceInv, WakeInv, Quiescent
  <2> QED BY <2>1 DEF ConvergenceInv, WorkInv, Settled, Chosen, Converged
<1> QED BY <1>1, <1>2, <1>3, InductiveInvariant, PTL DEF Spec
=============================================================================
