# A TLA+ model of the invoker operator

The repository is a Kubernetes operator (controller-runtime v0.15) for one custom
resource, `InvokerDeployment`. A resource lists stateful entities; the operator
keeps one ConfigMap per entity, one Pod per pod configuration and one
ControllerRevision per spec, and reports in the resource's status which revision
is deployed. This directory models that operator together with the parts of the
cluster it depends on, checks it with TLC on small instances and proves its
central properties with TLAPS for every instance.

## Inventory

| Component | State | Operations | Interacts with |
|---|---|---|---|
| API types (`api/v1alpha1/invokerdeployment_types.go`) | spec, status | – | all |
| Handler (`internal/controller/invokerdeployment_controller.go`) | one pass | `Reconcile`, finalizer, order of the phases of a pass, `SetupWithManager` | work queue, API server |
| Observer (`…_observer.go`) | what a pass observed | `observe`: resource, ConfigMaps, pods, revisions; computes `NextRevision` | informer caches |
| Converter (`…_converter.go`, `common.go`) | none | desired ConfigMaps and pods, revision name | – |
| Status updater (`…_updater.go`) | `Status` of the resource | derive, compare and write the status; `syncRevisions` | API server |
| Resource reconciler (`…_reconciler.go`) | none of its own | create, update, delete ConfigMaps and pods; write `CurrentRevision`; `cleanupOldRevisions` | API server |
| Metrics (`metrics/metrics.go`) | one counter | incremented while a status is derived | – |
| Manager process (`cmd/main.go`) | process, caches | start, restart | API server |
| Kubernetes (external) | objects, caches | API server, watches, kubelet, garbage collector | – |

### One pass

1. **Observe** from the caches. No resource: nothing to do.
2. **Finalizer.** Missing: add it and end. Deletion requested: remove it and end.
3. **Status.** Derive it; if it differs from the recorded one, write it, look
   again in five seconds.
4. **Act.** Per entity, create or (while a rollout is on) update its ConfigMap;
   delete ConfigMaps that are not desired; per pod configuration, create its pod
   or (while a rollout is on and its resources differ) delete it; delete pods that
   are not desired; write `CurrentRevision := NextRevision`. The first error ends
   this phase, is logged and dropped.
5. **Revisions.** Record the observed spec as a ControllerRevision unless the
   revision named by `CurrentRevision` already holds it; an error ends the pass
   and requeues the key. Then delete the revisions in excess of `HistoryLimit`.

A *rollout* is on while `CurrentRevision # NextRevision` in the observed copy.

### What is hard

* The worker reads caches that lag behind the API server, each kind by itself.
* Writes of the resource are conditional on its resourceVersion; writes of
  children are not, and deletions name a pod without its uid.
* Any call may fail, before or after it took effect; the process may die anywhere.
* Users edit, revert, delete and recreate the resource at any time.
* ConfigMaps and revisions are not watched.
* The API server rewrites what is stored (default requests), a write and a read
  rewrite quantities (0.5 comes back as 500m) and drop empty maps, and the operator
  compares what it wants, and what it recorded, with what is stored.
* Children carry labels that do not name their resource: two resources in one
  namespace share their children.
* Leader election is off unless it is asked for: two managers may work on one
  resource.

`PROJECT.json` lists the hazards line by line with the properties that cover them.

## Modules

| Module | Contents |
|---|---|
| `InvokerAPI` | the objects: spec, status, pod, ConfigMap, revision; the API server's defaulting |
| `Converter` | desired ConfigMaps and pods of a spec, revision names |
| `StatusUpdater` | how a status is derived and when it counts as changed |
| `ResourceReconciler` | the calls one pass makes on ConfigMaps and pods; excess revisions |
| `InvokerOperator` | the state machine: API server, caches, worker, users, cluster, faults |
| `Rollout` | abstract specification: the life of a resource and of its reported revision |
| `OperatorProperties` | properties, inductive invariants, refinement mapping |
| `Replicas` | composition: two managers, each with caches, queue and worker, on one API server |
| `SharedNamespace` | composition: two resources in one namespace, under one manager and worker |
| `MCOperator`, `MCReplicas`, `MCSharedNamespace` | the small instances TLC checks |
| `InvokerProofs` | lemmas and theorems: types, ownership, the refinement |
| `PodProofs` | lemmas and theorems: the pod cache is late but never wrong; deletions of pods are justified |
| `FidelityProofs` | lemmas and theorems: `CurrentRevision` tells the truth |
| `RevisionProofs` | lemmas and theorems: the numbers of revisions |
| `WriterProofs` | lemmas: one party that writes a resource while others look on |
| `ReplicasProofs` | theorems: the refinement with two managers |
| `NeighbourProofs` | theorems: ownership and the refinement for two resources in one namespace |

Each module EXTENDS the one above it in the chain `InvokerAPI`, `Converter`,
`StatusUpdater`, `ResourceReconciler`, `InvokerOperator`, `OperatorProperties`. The two
compositions extend `OperatorProperties`, whose variables are one of the two parties,
and instantiate it once more with the variables of the other. Of the proofs,
`FidelityProofs` extends `PodProofs`, `ReplicasProofs` and `NeighbourProofs` extend
`WriterProofs`, and all of them `InvokerProofs`.

### State and actions of `InvokerOperator`

`cr`, `pods`, `cms`, `revs` are the API server's objects by name; `crCache` and the
other `…Cache` variables are the informer caches. `crSynced` says that the cached
resource has the latest resourceVersion, `fresh` that the running pass's copy has:
together they are what optimistic concurrency depends on. `queued` is the work
queue (one key, deduplicated). `pc`, `observed`, `observedRevs`, `cmCalls`,
`podCalls` are the running pass: where it is, its copy of the resource and the
calls it has still to make. `uid`, `used`, `edits`, `faults` bound the environment.

| Action | Code |
|---|---|
| `PassNoCR`, `AddFinalizer`, `RemoveFinalizer`, `UpdateStatus` | the early returns of the handler's `reconcile` |
| `BeginReconcile` | the status is stable: desired state, decisions |
| `ConfigMapCall`, `PodCall`, `UpdateCurrentRevision` | the calls of `reconciler.reconcile`, one step each |
| `SyncRevisions`, `SyncRevisionsFails` | `syncRevisions`, `createControllerRevision`, `cleanupOldRevisions` |
| `FailConfigMapCall`, `FailPodCall`, `FailCurrentRevision`, `FailSyncRevisions` | the same calls failing, applied or not |
| `Crash`; `PodGone`, `PodFailed` | the process dies; a pod is deleted from outside or fails for good |
| `CreateCR`, `EditCR`, `DeleteCR` | the user |
| `SyncCR`, `SyncPods`, `SyncConfigMaps`, `SyncRevisionCache`, `Resync` | watches and the periodic resync; the first two enqueue the key (`For`, `Owns`) |
| `KubeletStart`, `KubeletStop`; `CollectPod`, `CollectConfigMap`, `CollectRevision`, `CollectCR` | kubelet; garbage collector |

Abstractions, and why they lose nothing the properties speak of:

* **Observing and the first write are one step.** Reads come from the caches;
  what could happen between the reads and the write is a cache that is already
  behind when the pass starts.
* **Decisions are taken at the start of phase 4.** The code takes them in the
  loops, but only from objects observed before; their effects are the calls.
* **A cache jumps to the latest state of its kind.** Intermediate versions are
  what a cache shows that jumped earlier. A resync replays cached objects.
* **Deletions of leftovers come in any order**: the code iterates over a map.
* **A failed or conflicting write of the status or of the finalizer** changes
  nothing and requeues the key; it is `WriteCR` with a copy that is not the latest,
  or a stutter.
* **Data**: an entity's images are one value, its broker address and topics another,
  a pod's partitions a third. Resources keep their maps, which may be nil, because
  the restart decision depends on them.
* **Quantities** are values with a canonical form (`Canonical`). A spec is stored as
  the user wrote it until the operator writes the whole object (`AddFinalizer`); the
  data of a revision and the resources of a pod have been through JSON
  (`RoundTrip`). Marshalling writes the canonical form, so two ways of writing a spec
  have one revision name, but `DeepEqual` in `syncRevisions` tells them apart. Revision
  numbers are kept, up to `MaxRevision`.
* **Deletion** is in the background or, with `AllowForeground`, in the foreground. Then
  the garbage collector has a finalizer of its own (`foreground`): it deletes the
  children first and lets the resource go when they are gone (`CollectCR`). Meanwhile
  the operator may already have removed its finalizer; its attempts to add it again
  (`AddFinalizer`) are refused and the key is retried. A running pass may recreate
  a child the collector has just deleted, which is then collected again.
* **`cleanupOldRevisions` deletes in one step.** Its list is empty in every
  reachable state (see `history_limit`), so the order of its deletions is moot.
* **The Secret** is left out: it is never created and its state is not compared.

Inputs are well formed (`SpecsAssumption`): names are unique and no field is missing
but `historyLimit`. Every quantity has a canonical form (`CanonicalAssumption`). The
truncated hash is injective on the specs of interest (`HashAssumption`).

### The compositions

`Replicas`: the managers share `cr`, `pods`, `cms`, `revs`; each has the rest. A step of
one manager, of a user or of the cluster that gives the resource a new version makes
the copies the other manager holds outdated (`NoticedBySecond`, `NoticedByFirst`), so
that its next write of the resource is refused; for children nothing of the kind
exists in the code. The second manager may fail and crash like the first.

`SharedNamespace`: the resources share ConfigMaps, the cache of ConfigMaps and the
worker, which takes one key at a time (`FirstWorks`, `SecondWorks`). The observer's
selector `type=statefulEntity` matches the children of both, which is why nothing in
`ConfigMapCalls` had to be changed for it: it judges, and deletes, by the cache of the
namespace. Resources and revisions of both arrive through one informer per kind.
A child is collected when neither resource is its owner.

## Runs

Bounds: `MaxUid` (creations), `MaxEdits`, `MaxFaults`, `MaxCount` (where the metric
saturates), `MaxRevision` (where revision numbers saturate; above what the
properties on numbers can reach where such a property is checked). Two edits are
enough for a pass, its cached resource and the stored resource to be of three
different specs; two creations for a pass to outlive its resource; one fault for a
failure anywhere in a rollout, followed by its recovery.

Passing:

| Run | Module | Checks | Instance |
|---|---|---|---|
| `rollout` | `MCOperator` | `TypeOK`; `RestartJustified`: no live pod that is already what the spec asks for is deleted; `RestartInv`, its inductive form | two entities; repartitioned, resized and shrunk; one edit |
| `revisions` | `MCOperator` | `RevisionFidelity`: when the reported revision is that of the spec, no child of an older spec is left; `FidelityInv`, its inductive form; `CurrentIsNewest`: no recorded revision has a higher number than the one in use; `NumbersCountEdits`: retries and repeated passes do not use up numbers | one entity, three specs, two edits, one failed call or crash |
| `lifecycle` | `MCOperator` | `OwnerHeld`: a pass's resource exists, same uid, finalizer in place; `OwnershipInv`, its inductive form; `ImplementsRollout` | deletion at any point, recreation under the same name, a pod that fails |
| `converges` | `MCOperator` | `Converges`: the cluster ends up, for good, in the desired state of the last spec | one edit, one fault; one spec has no `historyLimit`, which ends the process on every pass, and a quantity that is not canonical |
| `deletion` | `MCOperator` | `DeletionCompletes`: no resource is left waiting for its finalizers, and once it is gone no child is left; `OwnerHeld`, `ImplementsRollout` | deletion at any point, in the background or the foreground, one failed call or crash |
| `neighbours` | `MCSharedNamespace` | `BothOwnersHeld`, `BothImplementRollout`: what holds of one resource holds of each of two; `Recovers`: when one is deleted the other gets its ConfigMaps back and reports its revision | the second resource has the same entity as the first or another one, and may be deleted |
| `replicas` | `MCReplicas` | `ReplicasInv`: a copy that passes for the latest is the latest, whoever wrote last; `ImplementsRollout` | two managers, deletion at any point, one failed call or crash of either |

`lifecycle`, `deletion`, `neighbours` and `replicas` do not check for deadlock: with the
resource gone and its children collected the system rests.

Disagreements with what the documentation says, each a run TLC refutes
(`findings` in `PROJECT.json` quotes the documentation):

| Run | Property | What happens |
|---|---|---|
| `history_limit` | `HistoryEnforced` | the label key written (`invokerdeployment`) is not the one selected (`invokerDeployment`): revisions are never deleted |
| `rollback_race` | `RevisionFidelity` | an edit reverted in mid-rollout: the name of the old revision never left `CurrentRevision`, so what was written from the other spec is never corrected |
| `lost_revision` | `CurrentRevisionRecorded` | a crash between writing `CurrentRevision` and recording it: `syncRevisions` fails from then on |
| `moved_pod` | `Converges` | a pod moved to another entity is neither found nor deleted nor creatable |
| `shared_namespace` | `BothConverge` | two resources with an entity each delete each other's ConfigMap, pass after pass |

The passing run of `RevisionFidelity` stays within the conditions under which it is
proved (`Steady`): specs do not come back (`AllowRollback = FALSE`) and are canonical, the
resource is created once, pods keep their entity, and nobody else deletes pods.
`rollback_race` shows that the first is needed. So is the last: `revisions.cfg` with
`Faults = {"podGone"}` ends in a pod that was recreated from an older spec, unseen by
the pass that reports the newer one. The others are what `FidelityInv` is written for;
no run shows that the property fails without them.

`RestartJustified` has conditions too (`Undisturbed`), each of which TLC shows to be
needed but the last, when it is checked with the others kept:

* requests for all limits or for none: `rollout.cfg` with `ResourceKinds = {"cpu",
  "memory"}`, `Specs <- PartialSpecs`, `Hash <- PartialHash` deletes a pod that is right (a
  pod with requests for some of its limits always looks changed to
  `needToRestartPod`);
* canonical specs: `rollback_race.cfg` with `Specs <- PanicSpecs`, `Hash <- PanicHash`;
* one creation: the same cfg with `MaxUid = 2`, `AllowDelete = TRUE` (a pod of the old
  resource vanishes between the decision to create its successor and the call, so
  the cache goes on showing it in its successor's place);
* nobody else deletes pods: the same cfg with `Faults = {"podGone"}`, `MaxFaults = 2`;
* deletion in the background: in the foreground the collector is one who deletes
  pods. TLC found no violation with one edit; the invariant does not cover it.

Two more results the modules reproduce and no cfg keeps: `MCReplicas` with `MaxEdits = 1` and two specs violates
`RevisionFidelity`, and with deletion `OwnerHeld` (a manager may work for a resource
the other one has let go): what optimistic locking protects is the resource, not
its children.

### Fairness

`FairSpec` adds weak fairness to the worker (the queue hands out keys and a pass
goes on), to each watch (it delivers), to the resync (every ten hours by default),
to the kubelet and to the garbage collector. In `SharedNamespace` two keys compete for
one worker; the work queue is first in, first out, so a key that is in it time and
again is served: strong fairness for each resource's share of the worker. Users are not obliged to do
anything and no fault has to happen. `Converges` needs the resync: a pass that failed on a
ConfigMap or a revision is not requeued and neither kind is watched.

## Proofs

`InvokerProofs` proves, for all specs, names, bounds and faults, from
`SpecsAssumption`, `CanonicalAssumption`, `HashAssumption`, `NilAssumption` and
`BoundsAssumption`:

* **`TypeCorrect`**: `Spec => []TypeOK`. The work is in the operators: what the
  converter returns (`DesiredConfigMapType`, `DesiredPodType`), that every call of
  a pass refers to a desired object of its copy (`ConfigMapCallsType`,
  `PodCallsType`), that a status is derived within the states that have a case
  (`DerivedStatusType`).
* **`OwnershipHolds`**, **`OwnerAlwaysHeld`**: `Spec => []OwnerHeld`. `OwnerHeld`
  is not inductive: it is about passes, and a pass starts from a cached copy. The
  invariant adds that a cached copy with the finalizer and without a deletion
  timestamp stands for an existing resource (`CopiesHeld`), that a copy marked as
  the latest is the latest (`LatestCopies`), and that the garbage collector waits
  only for a resource that is being deleted (`ForegroundDeletes`). Only
  `RemoveFinalizer` takes the finalizer off, and only from a latest copy that is
  marked for deletion; the same copy is then the cached one, so no managed copy is
  left. `CollectCR` lets a resource go only without the operator's finalizer.
* **`RolloutImplemented`**: `Spec => ImplementsRollout`. This needs less: that the
  resource is only ever written from its latest version (`WritesLatest`, kept by
  `LatestStep`). The step to look at is `UpdateCurrentRevision`: the write succeeds only
  if the copy is the latest, whose spec is then the spec in force. `AddFinalizer`
  rewrites the spec in canonical form, which the mapping does not tell apart
  (`RoundTripStored`: a second round trip changes nothing).

`PodProofs` proves, from the same assumptions and `Tracked` (the resource is created
once, its specs are canonical, pods keep their entity and nobody else deletes pods):

* **`PodsTracked`**: `Spec => []PodsInv`. The operator judges pods by a cache and deletes
  them by name, without a uid. `SamePods` says why that works: a cached pod and the
  stored pod of its name have the same entity and resources. It is kept by
  `CallsInformed` (a create is accepted only if the cache does not show the pod, a
  pod to be deleted is one the cache shows) and `CallsDistinct` (one call per
  object). All but the last are given up once the collector may delete pods,
  which is when the resource is gone or is deleted while foreground deletion is
  possible (`Intact`).
* **`RestartHolds`**, **`RestartsJustified`**: `Spec => RestartJustified`, with `WholeRequests`
  and, for the latter, background deletion. The property is about the step that
  deletes a pod, the decision was taken at the start of the pass: `DeletesJustified`
  holds in between. `JustifiedBegin` establishes it, by `DefaultedIsSame` (for
  whole requests `needToRestartPod` sees through the API server's defaulting) and
  `SamePods`; `PodSteps` sorts the steps into the few kinds that matter to pods, of
  which only a call of the pass can delete a pod. Edits that come back, crashes,
  failed calls, failed pods and deletion of the resource are all allowed.

`FidelityProofs` proves, from the same assumptions and `Steady`, which is `Tracked` and
that specs do not come back:

* **`FidelityHolds`**, **`RevisionTruthful`**: `Spec => []RevisionFidelity`. Edits, crashes,
  failed calls (applied or not), failed pods and deletion of the
  resource stay. `RevisionFidelity` says nothing of
  a rollout until it is reported, so `FidelityInv` adds to `PodsInv` what holds on the way:
  whatever is not yet as the spec of an up-to-date pass asks has a call left
  (`CallsCover`), and once a revision is reported no copy with another spec is in use
  (`SpecsSeen`). `FidelityBegin` establishes `CallsCover` from the cached pods, by
  `NoRestartMeansEqual`: with defaulted resources, a pod `needToRestartPod` leaves
  alone is the pod the API server would store. `FidelityConfigMapCall` and
  `FidelityPodCall` keep it call by call, and at `FidelityCommit` no call is left.

`RevisionProofs` proves, from the assumptions of `InvokerProofs`:

* **`NumbersBounded`**: `Spec => []NumbersCountEdits`, for canonical specs. A
  revision is numbered one above the revision recorded as current, by a pass that
  may have seen neither the latest resource nor the latest revisions, and the same
  revision may be written again. The invariant (`NumbersInv`) says that a revision
  bears the name of its data (`NamedAfterData`), that no number, stored or cached,
  exceeds one more than the edits so far (`Within`), and that the copies of the resource
  have places in the sequence of edits such that what each reports as current is
  numbered accordingly (`CopiesFrom`). Without canonical specs it is false: a spec that is
  read back in another form is never found equal to its own revision, and the
  number climbs with every pass.
* **`NewestIsCurrent`**: `Spec => []CurrentIsNewest`, in the circumstances `Onward`: also,
  the resource is created once and specs do not come back. The invariant
  (`NewestInv`) says that revisions bear the name of their data, that there is nothing
  before the resource exists (`Unborn`), and that one numbering of the revision names
  accounts for everything (`Numbered`): each stored or cached revision is of a spec in use
  and bears its number (`Listed`), the spec of each copy is numbered one above what
  the copy reports as current, unless it is that (`Placed`), and no spec used so far is
  numbered above the resource's (`Highest`). A spec that comes back finds
  its revision with an old number; a resource that is created again starts from one
  while revisions of the first may still be there.
* Every step is first reduced to what it does to copies and revisions (`Moves`,
  `RevisionMoves`); the two invariants are then kept by moves, not by actions.

`ReplicasProofs` proves, from the assumptions of `InvokerProofs`:

* **`ReplicasUpToDate`**: `BothSpec => []ReplicasInv`, and
  **`ReplicasImplementRollout`**: `BothSpec => ImplementsRollout`, with any edits,
  deletions, failures and crashes of either manager. The two managers are the same
  specification over different variables, so the argument is made once, about a
  *writer*: a manager as far as it touches the resource, given by a record of its
  copies (`Views`) and by the kinds of step it can take (`WriterStep`).
  (These are in `WriterProofs`.)
  `WriterKeeps`: such a step keeps the writer's copies up to date and changes the
  resource only as `Allowed`. `BystanderKeeps`: a manager that is not moving only has to
  notice that there is a new version. `FirstIsWriter` and `SecondIsWriter` show that
  every step of either manager is a writer's, `AllowedImplements` that what a writer is
  allowed is a step of `Rollout`. Of the types only those of the resource and of its
  copies are needed (`BothInv`); what the managers do to children plays no part.

`NeighbourProofs` proves, from the same assumptions:

* **`NeighboursHeld`**: `BothSpec => []BothOwnersHeld`, and
  **`NeighboursImplementRollout`**: `BothSpec => BothImplementRollout`. The resources
  share ConfigMaps, their cache and the worker. What the worker does to either is again a writer's step
  (`FirstIsWriter`, `SecondIsWriter`); the user's part of the second resource is
  `SecondCreates` and `SecondDeletes`. `NeighbourInv` says of both what `OwnershipInv`
  says of a single resource (`Sound`), and `WriterSound`, `CreatedSound`, `DeletedSound`
  and `InformedSound` show that no kind of step spoils it. The children they take
  from each other play no part in either result, which is the point: what two
  resources in one namespace spoil is the children (`shared_namespace`), never the life
  cycle.

Model-checked only: liveness (`Converges`, `DeletionCompletes`, `Recovers`), because fairness
and ENABLED are out of the prover's reach. Every invariant and every action property
of the passing runs is also a theorem.

## Not modelled

* **Dead code**: the functions for StatefulSets, Deployments, Services, Secrets and
  Ingresses in the reconciler, converter and observer, which no caller reaches (the
  Secret is built and dropped). They are most of the lines of those files that no
  definition stands for.
* **The autoscaler**: stubs nobody imports. **Generated deep copies**, manifests, the
  scaffold of the test suite.
* **Missing fields**: each field of an entity is an optional pointer the converter
  dereferences. A spec without one ends the process before its first write to a
  child, again after every restart; there is no interleaving to explore.
* **Hash collisions and duplicate names**: the assumptions exclude them; `PROJECT.json`
  lists both as hazards.
* **Deletion, in part**: the garbage collector sees the children as they are, not
  through a cache of its own; a second delete with another policy, and orphaning,
  are left out. Two resources in one namespace are deleted in the background only.
* **Pods of two resources in one namespace**: `SharedNamespace` has ConfigMaps only, which
  keeps two resources within reach of TLC; pods are listed by the same label and
  deleted by the same rule.
* **Fields of a pod other than its resources** enter no decision (`needToRestartPod`);
  `RevisionFidelity` does not speak of them.

## Plan

1. `RevisionFidelity` for a resource that is recreated, and for pods that move: what of it
   is left, and under which invariant.
2. `RestartJustified` with foreground deletion: the pass that finds a pod the collector
   replaced seems to be stopped by the status it derives; that is not in `RestartInv`.
3. Two resources in one namespace with pods and with foreground deletion.
