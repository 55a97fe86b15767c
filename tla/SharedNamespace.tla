-------------------------- MODULE SharedNamespace ---------------------------
(***************************************************************************)
(* Two InvokerDeployments in one namespace under one operator.             *)
(*                                                                         *)
(* The observer lists ConfigMaps (and pods) by the label                   *)
(* type=statefulEntity of the namespace, so the passes of each resource    *)
(* see, judge their status by, and delete the other one's children.  The   *)
(* first resource is InvokerOperator as it stands.  The second one has its *)
(* own object, queue key, pass and revisions (whose names begin with the   *)
(* resource's name).  ConfigMaps, their cache and the uids are shared, and *)
(* so is the only worker: a pass runs to its end before the next key is    *)
(* taken.                                                                  *)
(*                                                                         *)
(* The specs here are entities without pods, which keeps two resources     *)
(* within reach of TLC: pods are listed and deleted in the same way.       *)
(* Faults, edits and deletion in the foreground are left to                *)
(* InvokerOperator.                                                        *)
(***************************************************************************)
EXTENDS OperatorProperties

CONSTANTS Specs1, Specs2  \* what the first and the second resource may ask for

ASSUME NeighbourAssumption ==
    /\ Specs1 \subseteq Specs /\ Specs2 \subseteq Specs
    /\ \A s \in Specs : s.pods = <<>> /\ s.historyLimit # Nil
    /\ ~AllowForeground

VARIABLES cr2, revs2, crCache2, revCache2, crSynced2, queued2,
          pc2, observed2, observedRevs2, fresh2, cmCalls2, podCalls2, used2, edits2

Second == INSTANCE OperatorProperties WITH
    cr <- cr2, revs <- revs2, crCache <- crCache2, revCache <- revCache2,
    crSynced <- crSynced2, queued <- queued2, pc <- pc2, observed <- observed2,
    observedRevs <- observedRevs2, fresh <- fresh2, cmCalls <- cmCalls2,
    podCalls <- podCalls2, used <- used2, edits <- edits2

(* What only one of the resources has. *)
first    == <<cr, revs, crCache, revCache, crSynced, queued, pass, used, edits>>
second   == <<cr2, revs2, crCache2, revCache2, crSynced2, queued2, pc2, observed2,
              observedRevs2, fresh2, cmCalls2, podCalls2, used2, edits2>>
bothVars == <<vars, second>>

BothInit == Init /\ Second!Init

-----------------------------------------------------------------------------
(* The one worker is with one resource at a time. *)
FirstWorks  == pc2 = "idle" /\ Worker /\ UNCHANGED second
SecondWorks == pc = "idle" /\ Second!Worker /\ UNCHANGED first

FirstCreated  == CreateCR /\ cr'.spec \in Specs1 /\ UNCHANGED second
SecondCreated == Second!CreateCR /\ cr2'.spec \in Specs2 /\ UNCHANGED first

SecondDeleted == Second!DeleteCR /\ UNCHANGED first

-----------------------------------------------------------------------------
(* One informer per kind serves both resources. *)
ResourcesInformed ==
    /\ ~(crSynced /\ crSynced2)
    /\ crCache' = cr /\ crCache2' = cr2
    /\ crSynced' = TRUE /\ crSynced2' = TRUE
    /\ queued' = (queued \/ ~crSynced)
    /\ queued2' = (queued2 \/ ~crSynced2)
    /\ UNCHANGED <<api, podCache, cmCache, revCache, pass, upgradeCounter, env, cr2, revs2,
                   revCache2, pc2, observed2, observedRevs2, fresh2, cmCalls2, podCalls2,
                   used2, edits2>>

RevisionsInformed ==
    /\ <<revCache, revCache2>> # <<revs, revs2>>
    /\ revCache' = revs /\ revCache2' = revs2
    /\ UNCHANGED <<api, crCache, crSynced, podCache, cmCache, queued, pass, upgradeCounter,
                   env, cr2, revs2, crCache2, crSynced2, queued2, pc2, observed2,
                   observedRevs2, fresh2, cmCalls2, podCalls2, used2, edits2>>

ConfigMapsInformed == SyncConfigMaps /\ UNCHANGED second

FirstResync  == Resync /\ UNCHANGED second
SecondResync == Second!Resync /\ UNCHANGED first

-----------------------------------------------------------------------------
(* A ConfigMap is kept as long as either resource is its owner. *)
ConfigMapCollected(e) ==
    CollectConfigMap(e) /\ Second!Collectable(cms[e]) /\ UNCHANGED second

SecondRevisionCollected(n) == Second!CollectRevision(n) /\ UNCHANGED first

BothNext ==
    \/ FirstWorks \/ SecondWorks
    \/ FirstCreated \/ SecondCreated \/ SecondDeleted
    \/ ResourcesInformed \/ RevisionsInformed \/ ConfigMapsInformed
    \/ FirstResync \/ SecondResync
    \/ \E e \in EntityNames : ConfigMapCollected(e)
    \/ \E n \in RevisionNames : SecondRevisionCollected(n)

BothSpec == BothInit /\ [][BothNext]_bothVars

(* The work queue is first in, first out, so a key that is queued again and  *)
(* again is not passed over for ever.                                        *)
BothFairness ==
    /\ SF_bothVars(FirstWorks) /\ SF_bothVars(SecondWorks)
    /\ WF_bothVars(ResourcesInformed) /\ WF_bothVars(RevisionsInformed)
    /\ WF_bothVars(ConfigMapsInformed)
    /\ WF_bothVars(FirstResync) /\ WF_bothVars(SecondResync)
    /\ \A e \in EntityNames : WF_bothVars(ConfigMapCollected(e))

BothFairSpec == BothSpec /\ BothFairness

-----------------------------------------------------------------------------
(* The finalizer holds each of the two while a pass works for it, and each   *)
(* of them follows the contract of Rollout, whatever becomes of the other.   *)
BothOwnersHeld == OwnerHeld /\ Second!OwnerHeld

BothImplementRollout == ImplementsRollout /\ Second!ImplementsRollout

(* "Synchronizing resources until the desired state is reached": every       *)
(* resource that is not deleted ends up with its ConfigMaps.                 *)
HasConfigMaps(spec) ==
    \A i \in DOMAIN spec.statefulEntities : cms[spec.statefulEntities[i].name] # Nil

BothConverge == <>[](/\ cr # Nil => HasConfigMaps(cr.spec)
                     /\ cr2 # Nil /\ ~cr2.deleting => HasConfigMaps(cr2.spec))

(* However much the two have destroyed of each other's, the one that is left *)
(* when the other one is deleted ends up with its ConfigMaps, its own and no *)
(* others, and reports its revision.                                         *)
Restored ==
    LET desired == getDesiredConfigMaps(cr.spec)
    IN  /\ Present(cms) = DesiredNames(desired)
        /\ \A i \in DOMAIN desired :
              cms[desired[i].name] = [data |-> desired[i].data, owner |-> cr.uid]
        /\ cr.status.currentRevision = generateRevisionName(cr.spec)

Recovers == <>[](cr2 = Nil /\ cr # Nil => Restored)

=============================================================================
