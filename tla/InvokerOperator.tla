-------------------------- MODULE InvokerOperator ---------------------------
(***************************************************************************)
(* One InvokerDeployment under the operator: the API server's objects, the *)
(* manager's informer caches, the work queue, the single reconcile worker, *)
(* and the parts of the cluster that act on the same objects (users, the   *)
(* kubelet, the garbage collector).                                        *)
(*                                                                         *)
(* The worker reads only the caches and writes only to the API server.  A  *)
(* cache is behind the API server until its Sync action runs, so a pass    *)
(* may act on objects that have changed or gone.  Writes to the custom     *)
(* resource carry the resourceVersion of the copy that was read and fail   *)
(* with a conflict when it is not the latest; crSynced and fresh say       *)
(* whether the cached copy and the copy of the running pass are.  Writes   *)
(* to children carry no resourceVersion.                                   *)
(***************************************************************************)
EXTENDS ResourceReconciler

CONSTANTS MaxUid,         \* how often the resource may be (re)created
          MaxEdits,       \* how often its spec may be edited
          MaxFaults,      \* how many faults may happen
          MaxCount,       \* the upgrade counter saturates here
          MaxRevision,    \* revision numbers saturate here
          Faults,         \* the kinds of fault that may happen
          AllowRollback,  \* may an edit bring back an earlier spec?
          AllowDelete,    \* may the resource be deleted?
          AllowForeground \* ... in the foreground, after its children?

FaultKinds == {"apiError", "crash", "podGone", "podFailed"}

ASSUME BoundsAssumption ==
    /\ MaxUid \in Nat /\ MaxEdits \in Nat /\ MaxFaults \in Nat /\ MaxCount \in Nat
    /\ MaxRevision \in Nat
    /\ Faults \subseteq FaultKinds
    /\ AllowRollback \in BOOLEAN /\ AllowDelete \in BOOLEAN /\ AllowForeground \in BOOLEAN

VARIABLES
  \* The API server's objects.
  cr, pods, cms, revs,
  \* The informer caches.
  crCache, podCache, cmCache, revCache,
  crSynced,        \* crCache is the latest version of cr
  queued,          \* the resource's key is in the work queue
  \* The running pass.
  pc,              \* "idle", "acting" (reconciler.reconcile) or "syncing" (revisions)
  observed,        \* observed.cr, with NextRevision computed; Nil between passes
  observedRevs,    \* observed.revisions
  fresh,           \* observed is the latest version of cr
  cmCalls, podCalls,
  upgradeCounter,  \* ApplicationUpgradeCounter
  \* Bookkeeping of the environment.
  uid, used, edits, faults

api    == <<cr, pods, cms, revs>>
caches == <<crCache, podCache, cmCache, revCache, crSynced>>
pass   == <<pc, observed, observedRevs, fresh, cmCalls, podCalls>>
env    == <<uid, used, edits, faults>>
vars   == <<api, caches, queued, pass, upgradeCounter, env>>

Init ==
    /\ cr = Nil
    /\ pods = [p \in PodNames |-> Nil]
    /\ cms  = [e \in EntityNames |-> Nil]
    /\ revs = [n \in RevisionNames |-> Nil]
    /\ crCache = cr /\ podCache = pods /\ cmCache = cms /\ revCache = revs
    /\ crSynced = TRUE
    /\ queued = FALSE
    /\ pc = "idle" /\ observed = Nil /\ observedRevs = {} /\ fresh = FALSE
    /\ cmCalls = {} /\ podCalls = {}
    /\ upgradeCounter = 0
    /\ uid = 0 /\ used = {} /\ edits = 0 /\ faults = 0

-----------------------------------------------------------------------------
(* The worker.  A pass up to its first write is one step: what happens in    *)
(* between is covered by the lag of the caches.                              *)

(* What observe returns for the custom resource. *)
ObservedCR == [crCache EXCEPT !.status.nextRevision = generateRevisionName(crCache.spec)]

NewStatus == deriveInvokerDeploymentStatus(ObservedCR, podCache, cmCache)

(* Mutant: the write carries no resourceVersion, the last writer wins. *)
WriteCR_blind(latest, new) == cr' = new /\ crSynced' = FALSE

(* A write of the custom resource from a copy that is the latest (latest =   *)
(* TRUE) or is not.  A write that changes nothing makes no new version.      *)
WriteCR(latest, new) ==
    IF latest THEN cr' = new /\ crSynced' = (crSynced /\ new = cr)
              ELSE UNCHANGED <<cr, crSynced>>

Count == upgradeCounter' = IF CountsUpgrade(ObservedCR) /\ upgradeCounter < MaxCount
                           THEN upgradeCounter + 1 ELSE upgradeCounter

TakeKey == pc = "idle" /\ queued

(* The resource is gone: nothing to do. *)
PassNoCR ==
    /\ TakeKey
    /\ crCache = Nil
    /\ queued' = FALSE
    /\ UNCHANGED <<api, caches, pass, upgradeCounter, env>>

(* No finalizer: add it, in a write of the whole object.  The API server     *)
(* refuses a new finalizer on an object that is being deleted; then, as on a *)
(* conflict, the key is requeued.                                            *)
AddFinalizer ==
    /\ TakeKey
    /\ crCache # Nil
    /\ ~crCache.finalizer
    /\ IF crCache.deleting
       THEN UNCHANGED <<cr, crSynced>>
       ELSE WriteCR(crSynced, [crCache EXCEPT !.finalizer = TRUE,
                                              !.spec = RoundTrip(crCache.spec)])
    /\ queued' = (crCache.deleting \/ ~crSynced)
    /\ UNCHANGED <<pods, cms, revs, crCache, podCache, cmCache, revCache,
                   pass, upgradeCounter, env>>

(* Mutant: the finalizer is removed from the copy, which is never written. *)
RemoveFinalizer_unwritten ==
    /\ TakeKey
    /\ crCache # Nil
    /\ crCache.finalizer /\ crCache.deleting
    /\ queued' = FALSE
    /\ UNCHANGED <<api, caches, pass, upgradeCounter, env>>

(* Deletion was requested: remove the finalizer, in a write of the whole     *)
(* object, which lets the API server remove it unless the garbage collector  *)
(* still holds it.                                                           *)
RemoveFinalizer ==
    /\ TakeKey
    /\ crCache # Nil
    /\ crCache.finalizer /\ crCache.deleting
    /\ WriteCR(crSynced, IF crCache.foreground
                         THEN [crCache EXCEPT !.finalizer = FALSE,
                                              !.spec = RoundTrip(crCache.spec)]
                         ELSE Nil)
    /\ queued' = ~crSynced
    /\ UNCHANGED <<pods, cms, revs, crCache, podCache, cmCache, revCache,
                   pass, upgradeCounter, env>>

(* Mutant: the pass does not wait for the finalizer. *)
Managed_early(c) == c # Nil /\ ~c.deleting

Managed(c) == c # Nil /\ c.finalizer /\ ~c.deleting

(* updateStatusIfChanged: record the new status and look again later.        *)
UpdateStatus ==
    /\ TakeKey
    /\ Managed(crCache)
    /\ isStatusChanged(crCache.status, NewStatus)
    /\ WriteCR(crSynced, [crCache EXCEPT !.status = NewStatus])
    /\ Count
    /\ UNCHANGED <<pods, cms, revs, crCache, podCache, cmCache, revCache,
                   queued, pass, env>>

(* The status is stable: compute the desired state and start to act.         *)
BeginReconcile ==
    /\ TakeKey
    /\ Managed(crCache)
    /\ ~isStatusChanged(crCache.status, NewStatus)
    /\ queued' = FALSE
    /\ pc' = "acting"
    /\ observed' = ObservedCR
    /\ observedRevs' = observeRevisions(revCache)
    /\ fresh' = crSynced
    /\ cmCalls' = ConfigMapCalls(ObservedCR, cmCache)
    /\ podCalls' = PodCalls(ObservedCR, podCache)
    /\ Count
    /\ UNCHANGED <<api, caches, env>>

-----------------------------------------------------------------------------
(* reconciler.reconcile: first the calls on ConfigMaps, then those on pods,  *)
(* then the new CurrentRevision.  An error ends it, but not the pass: the    *)
(* handler logs it and goes on to syncRevisions.                             *)

AbandonReconcile == pc' = "syncing" /\ cmCalls' = {} /\ podCalls' = {}

ConfigMapAccepts(c) == CASE c.op = "create" -> cms[c.name] = Nil
                         [] c.op = "update" -> cms[c.name] # Nil
                         [] OTHER -> TRUE

ConfigMapsAfter(c) ==
    [cms EXCEPT ![c.name] =
        IF c.op = "delete" THEN Nil
        ELSE [data  |-> getDesiredConfigMaps(observed.spec)[c.rank].data,
              owner |-> observed.uid]]

ConfigMapCall ==
    /\ pc = "acting"
    /\ \E c \in NextCalls(cmCalls) :
          IF ConfigMapAccepts(c)
          THEN /\ cms' = ConfigMapsAfter(c)
               /\ cmCalls' = cmCalls \ {c}
               /\ UNCHANGED <<pc, podCalls>>
          ELSE /\ AbandonReconcile
               /\ UNCHANGED cms
    /\ UNCHANGED <<cr, pods, revs, caches, queued, observed, observedRevs, fresh,
                   upgradeCounter, env>>

NewPod(d) == [entity |-> d.entity, image |-> d.image,
              resources |-> ApiDefaulted(ResourcesRoundTrip(d.resources)),
              phase |-> "Pending", deleting |-> FALSE, owner |-> observed.uid]

PodAccepts(c) == c.op = "create" => pods[c.name] = Nil

(* A pod that is deleted stays, terminating, until the kubelet stops it;     *)
(* deleting a pod that is gone is not an error.                              *)
PodsAfter(c) ==
    [pods EXCEPT ![c.name] =
        IF c.op = "create" THEN NewPod(getDesiredStatefulEntities(observed.spec)[c.rank])
        ELSE IF @ = Nil THEN Nil ELSE [@ EXCEPT !.deleting = TRUE]]

PodCall ==
    /\ pc = "acting"
    /\ cmCalls = {}
    /\ \E c \in NextCalls(podCalls) :
          IF PodAccepts(c)
          THEN /\ pods' = PodsAfter(c)
               /\ podCalls' = podCalls \ {c}
               /\ UNCHANGED <<pc, cmCalls>>
          ELSE /\ AbandonReconcile
               /\ UNCHANGED pods
    /\ UNCHANGED <<cr, cms, revs, caches, queued, observed, observedRevs, fresh,
                   upgradeCounter, env>>

(* Mutant: CurrentRevision is set on the copy, which is never written. *)
UpdateCurrentRevision_unwritten ==
    /\ pc = "acting"
    /\ cmCalls = {} /\ podCalls = {}
    /\ AbandonReconcile
    /\ UNCHANGED <<api, caches, queued, observed, observedRevs, fresh, upgradeCounter, env>>

(* The last step of reconciler.reconcile: CurrentRevision := NextRevision.   *)
UpdateCurrentRevision ==
    /\ pc = "acting"
    /\ cmCalls = {} /\ podCalls = {}
    /\ WriteCR(fresh, [observed EXCEPT !.status.currentRevision =
                                          observed.status.nextRevision])
    /\ AbandonReconcile
    /\ UNCHANGED <<pods, cms, revs, crCache, podCache, cmCache, revCache, queued,
                   observed, observedRevs, fresh, upgradeCounter, env>>

-----------------------------------------------------------------------------
(* syncRevisions and createControllerRevision, on the revision recorded in   *)
(* the observed copy; then cleanupOldRevisions.                              *)

CurrentName == observed.status.currentRevision

RevisionKnown == CurrentName # Nil => revCache[CurrentName] # Nil

(* Mutant: the recorded spec is never found equal. *)
RevisionCurrent_never == FALSE

(* The data of a revision has been written and read back, the observed spec  *)
(* only has if the operator stored it.                                       *)
RevisionCurrent == CurrentName # Nil /\ revCache[CurrentName].data = observed.spec

(* Create if the cache has no such revision, otherwise update: the call is   *)
(* accepted if the API server agrees.                                        *)
RevisionAccepts ==
    LET n == generateRevisionName(observed.spec)
    IN  (revCache[n] = Nil) <=> (revs[n] = Nil)

(* Mutant: the revision starts its own count. *)
RevisionNumber_own ==
    LET n == generateRevisionName(observed.spec)
    IN  IF revCache[n] = Nil THEN 1 ELSE revCache[n].revision + 1

(* One more than the number of the revision that is recorded as current. *)
RevisionNumber ==
    IF CurrentName = Nil THEN 1
    ELSE IF revCache[CurrentName].revision < MaxRevision THEN revCache[CurrentName].revision + 1
    ELSE revCache[CurrentName].revision

RevisionsAfter ==
    [revs EXCEPT ![generateRevisionName(observed.spec)] =
        [data     |-> RoundTrip(observed.spec),
         revision |-> RevisionNumber,
         label    |-> RevisionLabel,
         owner    |-> observed.uid]]

EndPass == /\ pc' = "idle" /\ observed' = Nil /\ observedRevs' = {} /\ fresh' = FALSE
           /\ cmCalls' = {} /\ podCalls' = {}

(* A new process lists every kind before it starts its worker. *)
Restart ==
    /\ EndPass
    /\ crCache' = cr' /\ podCache' = pods' /\ cmCache' = cms' /\ revCache' = revs'
    /\ crSynced' = TRUE
    /\ queued' = (cr' # Nil)
    /\ upgradeCounter' = 0

(* The error is returned, so the key is requeued. *)
SyncRevisionsFails ==
    /\ pc = "syncing"
    /\ RevisionKnown => ~RevisionCurrent /\ ~RevisionAccepts
    /\ queued' = TRUE
    /\ EndPass
    /\ UNCHANGED <<api, caches, upgradeCounter, env>>

(* cleanupOldRevisions dereferences HistoryLimit: a spec without one makes   *)
(* it panic, and the process is restarted.                                   *)
SyncRevisions ==
    /\ pc = "syncing"
    /\ RevisionKnown
    /\ RevisionCurrent \/ RevisionAccepts
    /\ LET synced == IF RevisionCurrent THEN revs ELSE RevisionsAfter
           limit  == observed.spec.historyLimit
       IN  IF limit = Nil
           THEN revs' = synced /\ UNCHANGED <<cr, pods, cms>> /\ Restart
           ELSE LET excess == ExcessRevisions(observedRevs, limit)
                IN  /\ revs' = [n \in RevisionNames |-> IF n \in excess THEN Nil ELSE synced[n]]
                    /\ EndPass
                    /\ UNCHANGED <<cr, pods, cms, caches, queued, upgradeCounter>>
    /\ UNCHANGED env

-----------------------------------------------------------------------------
(* Faults.  A call that fails for any other reason than the ones above may   *)
(* or may not have been applied.  (A failed write of the status or of the    *)
(* finalizer only requeues the key.)                                         *)

Fault(kind) == kind \in Faults /\ faults < MaxFaults /\ faults' = faults + 1

FailConfigMapCall ==
    /\ Fault("apiError")
    /\ pc = "acting"
    /\ \E c \in NextCalls(cmCalls) :
          \/ UNCHANGED cms
          \/ ConfigMapAccepts(c) /\ cms' = ConfigMapsAfter(c)
    /\ AbandonReconcile
    /\ UNCHANGED <<cr, pods, revs, caches, queued, observed, observedRevs, fresh,
                   upgradeCounter, uid, used, edits>>

(* Mutant: the error of a pod call is dropped, the reconcile goes on. *)
FailPodCall_ignored ==
    /\ Fault("apiError")
    /\ pc = "acting"
    /\ cmCalls = {}
    /\ \E c \in NextCalls(podCalls) : podCalls' = podCalls \ {c}
    /\ UNCHANGED <<api, caches, queued, pc, observed, observedRevs, fresh, cmCalls,
                   upgradeCounter, uid, used, edits>>

FailPodCall ==
    /\ Fault("apiError")
    /\ pc = "acting"
    /\ cmCalls = {}
    /\ \E c \in NextCalls(podCalls) :
          \/ UNCHANGED pods
          \/ PodAccepts(c) /\ pods' = PodsAfter(c)
    /\ AbandonReconcile
    /\ UNCHANGED <<cr, cms, revs, caches, queued, observed, observedRevs, fresh,
                   upgradeCounter, uid, used, edits>>

(* The write of CurrentRevision is not applied.  (One that is applied and     *)
(* reported as failed is UpdateCurrentRevision: the error is swallowed.)      *)
FailCurrentRevision ==
    /\ Fault("apiError")
    /\ pc = "acting"
    /\ cmCalls = {} /\ podCalls = {}
    /\ AbandonReconcile
    /\ UNCHANGED <<api, caches, queued, observed, observedRevs, fresh,
                   upgradeCounter, uid, used, edits>>

FailSyncRevisions ==
    /\ Fault("apiError")
    /\ pc = "syncing"
    /\ RevisionKnown /\ ~RevisionCurrent /\ RevisionAccepts
    /\ revs' \in {revs, RevisionsAfter}
    /\ queued' = TRUE
    /\ EndPass
    /\ UNCHANGED <<cr, pods, cms, caches, upgradeCounter, uid, used, edits>>

(* The operator's process dies and another one takes over. *)
Crash ==
    /\ Fault("crash")
    /\ UNCHANGED <<api, uid, used, edits>>
    /\ Restart

(* Somebody other than the operator deletes a pod (eviction, kubectl). *)
PodGone(p) ==
    /\ Fault("podGone")
    /\ pods[p] # Nil
    /\ ~pods[p].deleting
    /\ pods' = [pods EXCEPT ![p].deleting = TRUE]
    /\ UNCHANGED <<cr, cms, revs, caches, queued, pass, upgradeCounter, uid, used, edits>>

(* A pod ends for good (its node evicts it for lack of resources). *)
PodFailed(p) ==
    /\ Fault("podFailed")
    /\ pods[p] # Nil
    /\ pods[p].phase # "Failed"
    /\ pods' = [pods EXCEPT ![p].phase = "Failed"]
    /\ UNCHANGED <<cr, cms, revs, caches, queued, pass, upgradeCounter, uid, used, edits>>

-----------------------------------------------------------------------------
(* The user. *)

CreateCR ==
    /\ cr = Nil
    /\ uid < MaxUid
    /\ \E s \in Specs :
          /\ cr' = [uid |-> uid + 1, spec |-> s, finalizer |-> FALSE,
                    deleting |-> FALSE, foreground |-> FALSE, status |-> EmptyStatus]
          /\ used' = {s}
    /\ uid' = uid + 1
    /\ crSynced' = FALSE
    /\ UNCHANGED <<pods, cms, revs, crCache, podCache, cmCache, revCache, queued,
                   pass, upgradeCounter, edits, faults>>

EditCR ==
    /\ cr # Nil
    /\ edits < MaxEdits
    /\ \E s \in Specs \ {cr.spec} :
          /\ AllowRollback \/ s \notin used
          /\ cr' = [cr EXCEPT !.spec = s]
          /\ used' = used \cup {s}
    /\ edits' = edits + 1
    /\ crSynced' = FALSE
    /\ fresh' = FALSE
    /\ UNCHANGED <<pods, cms, revs, crCache, podCache, cmCache, revCache, queued, pc,
                   observed, observedRevs, cmCalls, podCalls, upgradeCounter, uid, faults>>

(* Without any finalizer the object goes at once. *)
DeleteCR ==
    /\ AllowDelete
    /\ cr # Nil
    /\ ~cr.deleting
    /\ \E foreground \in {FALSE, AllowForeground} :
          cr' = IF cr.finalizer \/ foreground
                THEN [cr EXCEPT !.deleting = TRUE, !.foreground = foreground] ELSE Nil
    /\ crSynced' = FALSE
    /\ fresh' = FALSE
    /\ UNCHANGED <<pods, cms, revs, crCache, podCache, cmCache, revCache, queued, pc,
                   observed, observedRevs, cmCalls, podCalls, upgradeCounter, env>>

-----------------------------------------------------------------------------
(* Informers.  For(InvokerDeployment) and Owns(Pod) enqueue the key; changes *)
(* of ConfigMaps and ControllerRevisions do not.                             *)

SyncCR ==
    /\ ~crSynced
    /\ crCache' = cr
    /\ crSynced' = TRUE
    /\ queued' = TRUE
    /\ UNCHANGED <<api, podCache, cmCache, revCache, pass, upgradeCounter, env>>

SyncPods ==
    /\ podCache # pods
    /\ podCache' = pods
    /\ queued' = TRUE
    /\ UNCHANGED <<api, crCache, crSynced, cmCache, revCache, pass, upgradeCounter, env>>

SyncConfigMaps ==
    /\ cmCache # cms
    /\ cmCache' = cms
    /\ UNCHANGED <<api, crCache, crSynced, podCache, revCache, queued, pass,
                   upgradeCounter, env>>

SyncRevisionCache ==
    /\ revCache # revs
    /\ revCache' = revs
    /\ UNCHANGED <<api, crCache, crSynced, podCache, cmCache, queued, pass,
                   upgradeCounter, env>>

(* The periodic resync replays every cached object to the event handlers. *)
Resync ==
    /\ crCache # Nil
    /\ ~queued
    /\ queued' = TRUE
    /\ UNCHANGED <<api, caches, pass, upgradeCounter, env>>

-----------------------------------------------------------------------------
(* The rest of the cluster. *)

(* A pod starts once the ConfigMap it mounts exists. *)
KubeletStart(p) ==
    /\ pods[p] # Nil
    /\ pods[p].phase = "Pending" /\ ~pods[p].deleting
    /\ cms[pods[p].entity] # Nil
    /\ pods' = [pods EXCEPT ![p].phase = "Running"]
    /\ UNCHANGED <<cr, cms, revs, caches, queued, pass, upgradeCounter, env>>

KubeletStop(p) ==
    /\ pods[p] # Nil
    /\ pods[p].deleting
    /\ pods' = [pods EXCEPT ![p] = Nil]
    /\ UNCHANGED <<cr, cms, revs, caches, queued, pass, upgradeCounter, env>>

(* The garbage collector deletes the children of an owner that is gone, or   *)
(* that waits for its children to go.                                        *)
Owned(o) == o # Nil /\ cr # Nil /\ o.owner = cr.uid

Collectable(o) == o # Nil /\ (Owned(o) => cr.foreground)

CollectPod(p) ==
    /\ Collectable(pods[p])
    /\ ~pods[p].deleting
    /\ pods' = [pods EXCEPT ![p].deleting = TRUE]
    /\ UNCHANGED <<cr, cms, revs, caches, queued, pass, upgradeCounter, env>>

CollectConfigMap(e) ==
    /\ Collectable(cms[e])
    /\ cms' = [cms EXCEPT ![e] = Nil]
    /\ UNCHANGED <<cr, pods, revs, caches, queued, pass, upgradeCounter, env>>

CollectRevision(n) ==
    /\ Collectable(revs[n])
    /\ revs' = [revs EXCEPT ![n] = Nil]
    /\ UNCHANGED <<cr, pods, cms, caches, queued, pass, upgradeCounter, env>>

(* ... and then removes its own finalizer. *)
CollectCR ==
    /\ cr # Nil /\ cr.foreground
    /\ \A p \in PodNames : ~Owned(pods[p])
    /\ \A e \in EntityNames : ~Owned(cms[e])
    /\ \A n \in RevisionNames : ~Owned(revs[n])
    /\ cr' = IF cr.finalizer THEN [cr EXCEPT !.foreground = FALSE] ELSE Nil
    /\ crSynced' = FALSE
    /\ fresh' = FALSE
    /\ UNCHANGED <<pods, cms, revs, crCache, podCache, cmCache, revCache, queued, pc,
                   observed, observedRevs, cmCalls, podCalls, upgradeCounter, env>>

-----------------------------------------------------------------------------
Worker == \/ PassNoCR \/ AddFinalizer \/ RemoveFinalizer \/ UpdateStatus
          \/ BeginReconcile \/ ConfigMapCall \/ PodCall \/ UpdateCurrentRevision
          \/ SyncRevisionsFails \/ SyncRevisions

Failures == FailConfigMapCall \/ FailPodCall \/ FailCurrentRevision \/ FailSyncRevisions

Disturb == Failures \/ Crash \/ \E p \in PodNames : PodGone(p) \/ PodFailed(p)

User == CreateCR \/ EditCR \/ DeleteCR

Informers == SyncCR \/ SyncPods \/ SyncConfigMaps \/ SyncRevisionCache \/ Resync

Cluster == \/ \E p \in PodNames : KubeletStart(p) \/ KubeletStop(p) \/ CollectPod(p)
           \/ \E e \in EntityNames : CollectConfigMap(e)
           \/ \E n \in RevisionNames : CollectRevision(n)
           \/ CollectCR

Next == Worker \/ Disturb \/ User \/ Informers \/ Cluster

Spec == Init /\ [][Next]_vars

(* The worker runs, watches deliver, the resync fires, the kubelet and the   *)
(* garbage collector do their work.  Nothing obliges the user, and no fault  *)
(* has to happen.                                                            *)
Fairness ==
    /\ WF_vars(Worker)
    /\ WF_vars(SyncCR) /\ WF_vars(SyncPods)
    /\ WF_vars(SyncConfigMaps) /\ WF_vars(SyncRevisionCache)
    /\ WF_vars(Resync)
    /\ \A p \in PodNames : WF_vars(KubeletStart(p)) /\ WF_vars(KubeletStop(p))
                           /\ WF_vars(CollectPod(p))
    /\ \A e \in EntityNames : WF_vars(CollectConfigMap(e))
    /\ \A n \in RevisionNames : WF_vars(CollectRevision(n))
    /\ WF_vars(CollectCR)

FairSpec == Spec /\ Fairness

=============================================================================
