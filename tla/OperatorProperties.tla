------------------------- MODULE OperatorProperties -------------------------
(***************************************************************************)
(* What InvokerOperator is expected to guarantee.                          *)
(***************************************************************************)
EXTENDS InvokerOperator

(* Every variable has the type its Go counterpart gives it; in particular    *)
(* Status.State stays within the states deriveInvokerDeploymentStatus has a  *)
(* case for, so its "Unknown cluster state" panic is unreachable.            *)
TypeOK ==
    /\ cr \in InvokerDeployment \cup {Nil}
    /\ pods \in Table(PodNames, Pod)
    /\ cms \in Table(EntityNames, ConfigMap)
    /\ revs \in Table(RevisionNames, ControllerRevision)
    /\ crCache \in InvokerDeployment \cup {Nil}
    /\ podCache \in Table(PodNames, Pod)
    /\ cmCache \in Table(EntityNames, ConfigMap)
    /\ revCache \in Table(RevisionNames, ControllerRevision)
    /\ crSynced \in BOOLEAN
    /\ queued \in BOOLEAN
    /\ pc \in {"idle", "acting", "syncing"}
    /\ observed \in InvokerDeployment \cup {Nil}
    /\ pc # "idle" => observed # Nil
    /\ observedRevs \in SUBSET [name : RevisionNames, revision : Nat]
    /\ fresh \in BOOLEAN
    /\ cmCalls \in SUBSET Calls(EntityNames)
    /\ podCalls \in SUBSET Calls(PodNames)
    /\ \A c \in cmCalls : c.op # "delete" =>
          c.rank \in DOMAIN getDesiredConfigMaps(observed.spec)
    /\ \A c \in podCalls : c.op # "delete" =>
          c.rank \in DOMAIN getDesiredStatefulEntities(observed.spec)
    /\ upgradeCounter \in 0..MaxCount
    /\ uid \in 0..MaxUid /\ edits \in 0..MaxEdits /\ faults \in 0..MaxFaults
    /\ used \in SUBSET Specs

-----------------------------------------------------------------------------
(* The finalizer does its job: while a pass is under way the resource it     *)
(* observed still exists, under the same uid and with the finalizer, however *)
(* stale the pass's view is.  So no child is ever created for an owner that  *)
(* is gone, even if the resource is deleted, or deleted and recreated, at    *)
(* any point of a pass.                                                      *)
OwnerHeld ==
    pc # "idle" => /\ cr # Nil
                   /\ cr.uid = observed.uid
                   /\ cr.finalizer

(* Why OwnerHeld holds (its inductive form).  A copy of the resource, cached *)
(* or held by a pass, that has the finalizer and no deletion timestamp means *)
(* that the resource itself still exists: only the operator can let it go,   *)
(* and only from a copy that is the latest and is marked for deletion.       *)
LatestCopies ==
    /\ crSynced => crCache = cr
    /\ (pc = "acting" /\ fresh) =>
          /\ crSynced
          /\ cr # Nil
          /\ cr.uid = observed.uid
          /\ cr.spec = observed.spec
          /\ cr.finalizer = observed.finalizer
          /\ cr.deleting = observed.deleting
          /\ cr.foreground = observed.foreground
          /\ cr.status.currentRevision = observed.status.currentRevision

CopiesHeld == Managed(crCache) => cr # Nil /\ cr.uid = crCache.uid /\ cr.finalizer

(* A pass works from a copy that was adopted and not marked for deletion.    *)
PassAdopted ==
    pc # "idle" => /\ Managed(observed)
                   /\ observed.status.nextRevision = generateRevisionName(observed.spec)

(* The garbage collector waits for the children only of a resource whose     *)
(* deletion was requested.                                                   *)
ForegroundDeletes == cr # Nil /\ cr.foreground => cr.deleting

(* So the resource is only ever written from its latest version.             *)
WritesLatest == LatestCopies /\ PassAdopted /\ ForegroundDeletes

OwnershipInv == WritesLatest /\ CopiesHeld /\ OwnerHeld

-----------------------------------------------------------------------------
(* pod p is what the desired pod d asks for (resources are all a running pod *)
(* is compared by).                                                          *)
Matches(pod, d) == pod.entity = d.entity /\ pod.resources = ApiDefaulted(ResourcesRoundTrip(d.resources))

FaithfulPod(d) == pods[d.name] = Nil \/ pods[d.name].deleting \/ Matches(pods[d.name], d)

FaithfulConfigMap(d) == cms[d.name] = Nil \/ cms[d.name].data = d.data

(* CurrentRevision tells the truth: once the resource reports the revision   *)
(* of its own spec, every ConfigMap of that spec that exists has the spec's  *)
(* contents, and every pod of it that exists and is not being terminated has *)
(* the spec's entity and resources - no child of an older revision survives  *)
(* the rollout, whatever the caches missed and whichever calls failed.       *)
RevisionFidelity ==
    (cr # Nil /\ cr.status.currentRevision = generateRevisionName(cr.spec)) =>
        /\ \A i \in DOMAIN cr.spec.pods :
              FaithfulPod(getDesiredStatefulEntities(cr.spec)[i])
        /\ \A i \in DOMAIN cr.spec.statefulEntities :
              FaithfulConfigMap(getDesiredConfigMaps(cr.spec)[i])

(* Pods keep their entity from spec to spec. *)
StablePlacement ==
    \A s, t \in Specs : \A i \in DOMAIN s.pods, j \in DOMAIN t.pods :
        s.pods[i].name = t.pods[j].name =>
            getDesiredStatefulEntities(s)[i].entity = getDesiredStatefulEntities(t)[j].entity

(* Specs are written in the form in which they are read back. *)
CanonicalSpecs == \A s \in Specs : RoundTrip(s) = s

(* When the pod cache is never wrong about a pod, only late: the resource is *)
(* created once, its specs are canonical, pods keep their entity and nobody  *)
(* else deletes pods.                                                        *)
Tracked == /\ MaxUid = 1
           /\ StablePlacement /\ CanonicalSpecs
           /\ "podGone" \notin Faults

(* When RevisionFidelity holds: also, specs do not come back.                *)
Steady == Tracked /\ ~AllowRollback

(* Why it then holds (its inductive form): FidelityInv and its parts. *)

AtHome(p, e) ==
    \A s \in Specs : \A i \in DOMAIN s.pods :
        s.pods[i].name = p => getDesiredStatefulEntities(s)[i].entity = e

Settled == cr # Nil /\ cr.status.currentRevision = generateRevisionName(cr.spec)

(* Before the resource exists there is nothing. *)
Pristine ==
    /\ uid = 0 => /\ cr = Nil /\ crCache = Nil /\ pc = "idle"
                  /\ \A p \in PodNames : pods[p] = Nil /\ podCache[p] = Nil
    /\ cr # Nil => cr.uid = 1 /\ (cr.foreground => AllowForeground)
    /\ \A p \in PodNames : pods[p] # Nil => pods[p].owner = 1

(* A revision is only reported for a spec that was in force, so a new spec   *)
(* is not yet reported; once it is, every copy that is still in use has it.  *)
SpecsSeen ==
    /\ cr # Nil => /\ cr.spec \in used
                   /\ cr.status.currentRevision = Nil
                      \/ \E s \in used : cr.status.currentRevision = generateRevisionName(s)
    /\ Settled => /\ crCache # Nil /\ crCache.spec = cr.spec
                  /\ pc # "idle" => observed.spec = cr.spec

(* The stored resources of a pod have been defaulted. *)
IsDefaulted(r) == r.limits # Nil => r.requests # Nil /\ DOMAIN r.limits \subseteq DOMAIN r.requests

StoredPods(table) ==
    \A p \in PodNames : table[p] # Nil => AtHome(p, table[p].entity) /\ IsDefaulted(table[p].resources)

(* The garbage collector has no reason to delete pods yet, nor had before.   *)
Intact == cr # Nil /\ (cr.deleting => ~AllowForeground)

(* The cached pod and the stored pod of a name are the same pod, and a pod   *)
(* the cache has not shown yet is not being deleted.                         *)
SamePods ==
    Intact => \A p \in PodNames :
        pods[p] # Nil =>
            IF podCache[p] = Nil THEN ~pods[p].deleting
            ELSE pods[p].entity = podCache[p].entity /\ pods[p].resources = podCache[p].resources

(* A pass has at most one call per object, on the object of its rank. *)
CallsDistinct ==
    pc = "acting" =>
        /\ \A c, d \in podCalls : c.name = d.name => c = d
        /\ \A c, d \in cmCalls : c.name = d.name => c = d
        /\ \A c \in podCalls : c.op = "create" =>
              getDesiredStatefulEntities(observed.spec)[c.rank].name = c.name
        /\ \A c \in cmCalls : c.op # "delete" =>
              getDesiredConfigMaps(observed.spec)[c.rank].name = c.name

(* A pod about to be created is unknown to the cache or will be refused; a   *)
(* pod about to be deleted is known to the cache or gone.                    *)
CallsInformed ==
    (pc = "acting" /\ Intact) => \A c \in podCalls :
        /\ c.op = "create" => IF pods[c.name] = Nil THEN podCache[c.name] = Nil
                                                    ELSE ~pods[c.name].deleting
        /\ c.op # "create" => podCache[c.name] # Nil \/ pods[c.name] = Nil

(* What the cache and the calls of a pass have to do with the pods. *)
PodsInv ==
    /\ Pristine
    /\ StoredPods(pods) /\ StoredPods(podCache)
    /\ SamePods /\ CallsDistinct /\ CallsInformed

(* What a pass that may still report its revision has not got right yet, it  *)
(* has a call for.                                                           *)
CallsCover ==
    (pc = "acting" /\ fresh) =>
        /\ \A i \in DOMAIN observed.spec.pods :
              LET d == getDesiredStatefulEntities(observed.spec)[i]
              IN  FaithfulPod(d) \/ \E c \in podCalls : c.name = d.name
        /\ \A i \in DOMAIN observed.spec.statefulEntities :
              LET d == getDesiredConfigMaps(observed.spec)[i]
              IN  FaithfulConfigMap(d) \/ \E c \in cmCalls : c.name = d.name

ReportInv == SpecsSeen /\ CallsCover /\ RevisionFidelity

FidelityInv == PodsInv /\ ReportInv

-----------------------------------------------------------------------------
(* Revision numbers give the order in which cleanupOldRevisions would drop   *)
(* revisions: once the resource reports the revision of its own spec and     *)
(* that revision is recorded, none of the others has a higher number, so the *)
(* one in use is never the oldest.                                           *)
CurrentIsNewest ==
    (Settled /\ revs[cr.status.currentRevision] # Nil) =>
        \A n \in Present(revs) :
            revs[n].revision <= revs[cr.status.currentRevision].revision

(* When it holds: the resource is created once and its specs do not come     *)
(* back and are canonical.                                                   *)
Onward == MaxUid = 1 /\ ~AllowRollback /\ CanonicalSpecs

(* A number counts changes of the spec: whatever is retried, repeated or     *)
(* found unchanged after a restart, no revision gets a number beyond one per *)
(* spec the user has applied.                                                *)
NumbersCountEdits == \A n \in Present(revs) : revs[n].revision <= 1 + edits

-----------------------------------------------------------------------------
(* The operator deletes a pod only for a reason: reconciler.reconcile never  *)
(* terminates a live pod that already is what the observed spec asks for     *)
(* (a change of partitions alone must not restart pods).                     *)
DeletesPod(p) == /\ pc = "acting" /\ podCalls' # podCalls
                 /\ pods[p] # Nil /\ ~pods[p].deleting
                 /\ pods'[p] # Nil /\ pods'[p].deleting

DesiredAsIs(p, spec) ==
    \E i \in DOMAIN spec.pods :
        LET d == getDesiredStatefulEntities(spec)[i]
        IN  d.name = p /\ Matches(pods[p], d)

RestartJustified ==
    [][\A p \in PodNames : DeletesPod(p) => ~DesiredAsIs(p, observed.spec)]_vars

(* When it holds: the pod cache is never wrong, a pod that has requests has  *)
(* one for each of its limits, and deletion is in the background.            *)
WholeRequests ==
    \A s \in Specs : \A i \in DOMAIN s.pods :
        s.pods[i].resources.requests # Nil => IsDefaulted(s.pods[i].resources)

Undisturbed == Tracked /\ WholeRequests /\ ~AllowForeground

(* Why it then holds (its inductive form): from the decision of a pass to    *)
(* delete a pod until the call is made, the live pod of that name is not     *)
(* what the spec of the pass asks for.                                       *)
DeletesJustified ==
    (pc = "acting" /\ Intact) => \A c \in podCalls :
        c.op # "create" /\ pods[c.name] # Nil /\ ~pods[c.name].deleting
            => ~DesiredAsIs(c.name, observed.spec)

RestartInv == PodsInv /\ DeletesJustified

-----------------------------------------------------------------------------
(* The operator implements the contract in Rollout: CurrentRevision is only  *)
(* ever set to the revision of the spec in force at that moment, only while  *)
(* the resource is adopted and not being deleted, and an adopted resource    *)
(* only goes after its deletion was requested.  (Two ways of writing the     *)
(* same quantity make one spec.)                                             *)
Phase == IF cr = Nil THEN "absent"
         ELSE IF cr.deleting THEN "deleting"
         ELSE IF cr.finalizer THEN "managed" ELSE "fresh"

Lifecycle == INSTANCE Rollout WITH
    None    <- Nil,
    Specs   <- StoredSpecs,
    NameOf  <- generateRevisionName,
    phase   <- Phase,
    spec    <- IF cr = Nil THEN Nil ELSE RoundTrip(cr.spec),
    current <- IF cr = Nil THEN Nil ELSE cr.status.currentRevision

ImplementsRollout == Lifecycle!Spec

-----------------------------------------------------------------------------
(* The desired state is on the cluster and the status says so. *)
Deployed ==
    /\ cr # Nil
    /\ LET ds == getDesiredStatefulEntities(cr.spec)
           dc == getDesiredConfigMaps(cr.spec)
       IN  /\ Present(pods) = DesiredNames(ds)
           /\ \A i \in DOMAIN ds : /\ Matches(pods[ds[i].name], ds[i])
                                   /\ pods[ds[i].name].phase = "Running"
                                   /\ ~pods[ds[i].name].deleting
           /\ Present(cms) = DesiredNames(dc)
           /\ \A i \in DOMAIN dc : cms[dc[i].name].data = dc[i].data
    /\ cr.status.currentRevision = generateRevisionName(cr.spec)
    /\ cr.status.state = StateRunning

(* "Synchronizing resources until the desired state is reached": when users  *)
(* stop editing and faults stop, the cluster reaches the desired state of    *)
(* the last spec and stays there, or the resource is being deleted.          *)
Converges == <>[](cr # Nil /\ ~cr.deleting => Deployed)

(* Deletions complete: when users stop and faults stop, no resource is left  *)
(* waiting for its finalizers, and if there is none every child it owned has *)
(* been collected.                                                           *)
DeletionCompletes ==
    <>[](IF cr = Nil THEN Present(pods) = {} /\ Present(cms) = {} /\ Present(revs) = {}
                     ELSE ~cr.deleting)

-----------------------------------------------------------------------------
(* What the documentation says and the code does not do. *)

(* "HistoryLimit: Number of ControllerRevisions the operator will keep":     *)
(* time and again the resource owns no more revisions than its limit.        *)
HistoryEnforced ==
    []<>(cr # Nil /\ cr.spec.historyLimit # Nil =>
            Cardinality({n \in Present(revs) : revs[n].owner = cr.uid})
                <= cr.spec.historyLimit)

(* The revision that is reported as deployed is eventually recorded as a     *)
(* ControllerRevision (or no longer reported).                               *)
CurrentRevisionRecorded ==
    \A n \in RevisionNames :
        (cr # Nil /\ cr.status.currentRevision = n) ~>
            (revs[n] # Nil \/ cr = Nil \/ cr.status.currentRevision # n)

=============================================================================
