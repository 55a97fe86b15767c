--------------------------- MODULE ReplicasProofs ---------------------------
(***************************************************************************)
(* Two managers keep to the contract of Rollout, for every value of the    *)
(* constants: both are writers.                                            *)
(***************************************************************************)
EXTENDS Replicas, WriterProofs

View2 == [cache |-> crCache2, synced |-> crSynced2, pc |-> pc2,
          observed |-> observed2, fresh |-> fresh2]

(* The definitions of the second instance are those of the first.            *)
LEMMA SameDefinitions ==
    /\ \A s : Second!RoundTrip(s) = RoundTrip(s)
    /\ \A s : Second!generateRevisionName(s) = generateRevisionName(s)
    /\ \A c : Second!Managed(c) <=> Managed(c)
<1>1. ASSUME NEW s PROVE Second!RoundTrip(s) = RoundTrip(s)
      BY DEF RoundTrip, ResourcesRoundTrip, ListRoundTrip,
             Second!RoundTrip, Second!ResourcesRoundTrip, Second!ListRoundTrip
<1>2. ASSUME NEW s PROVE Second!generateRevisionName(s) = generateRevisionName(s)
      BY <1>1 DEF generateRevisionName, Second!generateRevisionName
<1>3. ASSUME NEW c PROVE Second!Managed(c) <=> Managed(c)
      BY DEF Managed, Second!Managed
<1> QED BY <1>1, <1>2, <1>3

(* The status the second manager derives.                                    *)
LEMMA SecondDescribes ==
    ASSUME crCache2 \in InvokerDeployment
    PROVE  /\ Second!NewStatus \in InvokerDeploymentStatus
           /\ Second!NewStatus.currentRevision = crCache2.status.currentRevision
<1> DEFINE c == Second!ObservedCR
           running == Second!Cardinality(Second!RunningEntities(podCache2))
           total   == Len(c.spec.statefulEntities)
           cm == IF Second!Present(cmCache2) # {} THEN Second!ComponentStateReady
                 ELSE IF c.status.configMap # "" THEN Second!ComponentStateDeleted ELSE ""
           se == IF running < Second!Cardinality(Second!ObservedEntities(podCache2))
                 THEN Second!ComponentStateNotReady ELSE Second!ComponentStateReady
           st == Second!DerivedState(c, running, total)
<1>1. c = [crCache2 EXCEPT !.status.nextRevision = generateRevisionName(crCache2.spec)]
      BY SameDefinitions DEF Second!ObservedCR
<1>2. /\ c \in InvokerDeployment /\ c.status \in InvokerDeploymentStatus
      /\ c.status.currentRevision = crCache2.status.currentRevision
  <2> HIDE DEF c
  <2>1. /\ c \in InvokerDeployment
        /\ c.status.currentRevision = crCache2.status.currentRevision
        BY <1>1, WrittenTypes
  <2> QED BY <2>1 DEF InvokerDeployment
<1> HIDE DEF c
<1>3. st \in States
      BY DEF Second!DerivedState, States, StateCreating, StateRunning, StateUpdating,
             StateReconciling, Second!StateCreating, Second!StateRunning, Second!StateUpdating,
             Second!StateReconciling
<1>4. /\ Second!ComponentStateReady \in ComponentStates
      /\ Second!ComponentStateNotReady \in ComponentStates
      /\ Second!ComponentStateDeleted \in ComponentStates
      /\ "" \in ComponentStates
      BY DEF ComponentStates, ComponentStateReady, ComponentStateNotReady, ComponentStateDeleted,
             Second!ComponentStateReady, Second!ComponentStateNotReady,
             Second!ComponentStateDeleted
<1> HIDE DEF running, total
<1>5. cm \in ComponentStates /\ se \in ComponentStates
      BY <1>4
<1>6. Second!NewStatus = [c.status EXCEPT !.conditions = TRUE, !.configMap = cm,
                                          !.statefulEntities = se, !.state = st]
      BY <1>2 DEF Second!NewStatus, Second!deriveInvokerDeploymentStatus, running, total, c,
                  InvokerDeploymentStatus
<1> HIDE DEF cm, se, st
<1> QED BY <1>2, <1>3, <1>5, <1>6 DEF InvokerDeploymentStatus

(* The steps of the second manager.                                          *)
LEMMA SecondIsWriter ==
    ASSUME crCache2 \in InvokerDeployment \cup {Nil},
           Second!Worker \/ Second!Failures \/ Second!Crash \/ Second!Informers
    PROVE  WriterStep(cr, View2, cr', View2')
<1> USE SameDefinitions DEF View2
<1>1. CASE Second!PassNoCR
      BY <1>1 DEF Second!PassNoCR, Second!api, Second!caches, Second!pass, WriterStep, GoesOn
<1>2. CASE Second!AddFinalizer
  <2>1. CASE crSynced2 /\ ~crCache2.deleting
        BY <1>2, <2>1 DEF Second!AddFinalizer, Second!TakeKey, Second!WriteCR, Second!pass,
                          WriterStep, Adopts, Writes
  <2>2. CASE ~crSynced2 \/ crCache2.deleting
        BY <1>2, <2>2 DEF Second!AddFinalizer, Second!WriteCR, Second!pass, WriterStep, GoesOn
  <2> QED BY <2>1, <2>2
<1>3. CASE Second!RemoveFinalizer
  <2>1. CASE crSynced2
        BY <1>3, <2>1 DEF Second!RemoveFinalizer, Second!TakeKey, Second!WriteCR, Second!pass,
                          WriterStep, Releases, Writes
  <2>2. CASE ~crSynced2
        BY <1>3, <2>2 DEF Second!RemoveFinalizer, Second!WriteCR, Second!pass, WriterStep, GoesOn
  <2> QED BY <2>1, <2>2
<1>4. CASE Second!UpdateStatus
  <2>1. CASE crSynced2
    <3>1. /\ Second!NewStatus \in InvokerDeploymentStatus
          /\ Second!NewStatus.currentRevision = crCache2.status.currentRevision
          BY <1>4, SecondDescribes DEF Second!UpdateStatus, Second!Managed
    <3>2. Describes(cr, View2, cr', View2')
          BY <1>4, <2>1, <3>1 DEF Second!UpdateStatus, Second!TakeKey, Second!WriteCR,
                                  Second!pass, Describes, Writes
    <3> QED BY <3>2 DEF WriterStep
  <2>2. CASE ~crSynced2
        BY <1>4, <2>2 DEF Second!UpdateStatus, Second!WriteCR, Second!pass, WriterStep, GoesOn
  <2> QED BY <2>1, <2>2
<1>5. CASE Second!BeginReconcile
      BY <1>5 DEF Second!BeginReconcile, Second!ObservedCR, Second!api, Second!caches,
                  WriterStep, Begins
<1>6. CASE Second!ConfigMapCall \/ Second!PodCall \/ Second!FailConfigMapCall
           \/ Second!FailPodCall \/ Second!FailCurrentRevision
      BY <1>6 DEF Second!ConfigMapCall, Second!PodCall, Second!FailConfigMapCall,
                  Second!FailPodCall, Second!FailCurrentRevision,
                  Second!AbandonReconcile, Second!api, Second!caches, WriterStep, GoesOn
<1>7. CASE Second!UpdateCurrentRevision
  <2>1. CASE fresh2
        BY <1>7, <2>1 DEF Second!UpdateCurrentRevision, Second!WriteCR,
                          Second!AbandonReconcile, WriterStep, Reports, Writes
  <2>2. CASE ~fresh2
        BY <1>7, <2>2 DEF Second!UpdateCurrentRevision, Second!WriteCR,
                          Second!AbandonReconcile, WriterStep, GoesOn
  <2> QED BY <2>1, <2>2
<1>8. CASE Second!SyncRevisionsFails \/ Second!FailSyncRevisions
      BY <1>8 DEF Second!SyncRevisionsFails, Second!FailSyncRevisions, Second!EndPass,
                  Second!api, Second!caches, WriterStep, Ends
<1>9. CASE Second!SyncRevisions
      BY <1>9 DEF Second!SyncRevisions, Second!Restart, Second!EndPass, Second!caches,
                  WriterStep, Ends
<1>10. CASE Second!Crash
      BY <1>10 DEF Second!Crash, Second!Restart, Second!EndPass, Second!api, WriterStep, Ends
<1>11. CASE Second!SyncCR
       BY <1>11 DEF Second!SyncCR, Second!api, Second!pass, WriterStep, Learns
<1>12. CASE Second!SyncPods \/ Second!SyncConfigMaps \/ Second!SyncRevisionCache \/ Second!Resync
       BY <1>12 DEF Second!SyncPods, Second!SyncConfigMaps, Second!SyncRevisionCache,
                    Second!Resync, Second!api, Second!caches, Second!pass,
                    WriterStep, GoesOn
<1> QED BY <1>1, <1>2, <1>3, <1>4, <1>5, <1>6, <1>7, <1>8, <1>9, <1>10, <1>11, <1>12
        DEF Second!Worker, Second!Failures, Second!Informers

-----------------------------------------------------------------------------
(* The two together. *)

(* The inductive invariant: ReplicasInv with the types it needs. *)
BothInv ==
    /\ cr \in InvokerDeployment \cup {Nil} /\ uid \in Nat /\ Requested(cr)
    /\ View1 \in Views /\ UpToDate(cr, View1)
    /\ View2 \in Views /\ UpToDate(cr, View2)

(* An empty cluster.                                                         *)
LEMMA BothStart == BothInit => BothInv /\ Lifecycle!Init
<1> SUFFICES ASSUME BothInit PROVE BothInv /\ Lifecycle!Init
    OBVIOUS
<1>1. /\ cr = Nil /\ uid = 0
      /\ crCache = Nil /\ crSynced = TRUE /\ pc = "idle" /\ observed = Nil /\ fresh = FALSE
      /\ crCache2 = Nil /\ crSynced2 = TRUE /\ pc2 = "idle" /\ observed2 = Nil /\ fresh2 = FALSE
      BY DEF BothInit, Init, Second!Init
<1>2. View1 \in Views /\ View2 \in Views
      BY <1>1 DEF View1, View2, Views
<1>3. UpToDate(cr, View1) /\ UpToDate(cr, View2)
      BY <1>1 DEF View1, View2, UpToDate
<1>4. BothInv
      BY <1>1, <1>2, <1>3 DEF BothInv, Requested
<1>5. Lifecycle!Init
      BY RolloutInit DEF BothInit
<1> QED BY <1>4, <1>5

(* Each manager, and everybody else, keeps both views up to date, and what   *)
(* they do to the resource is in the contract.                               *)
LEMMA BothStep ==
    BothInv /\ [BothNext]_bothVars =>
        BothInv' /\ (Lifecycle!Next \/ UNCHANGED Lifecycle!vars)
<1> SUFFICES ASSUME BothInv, [BothNext]_bothVars
             PROVE  BothInv' /\ (Lifecycle!Next \/ UNCHANGED Lifecycle!vars)
    OBVIOUS
<1>0. /\ cr \in InvokerDeployment \cup {Nil} /\ uid \in Nat /\ Requested(cr)
      /\ View1 \in Views /\ UpToDate(cr, View1)
      /\ View2 \in Views /\ UpToDate(cr, View2)
      /\ crCache \in InvokerDeployment \cup {Nil}
      /\ crCache2 \in InvokerDeployment \cup {Nil}
      BY DEF BothInv, Views, View1, View2
<1>1. ASSUME NoticedBySecond PROVE View2' \in Views /\ UpToDate(cr', View2')
  <2>1. Notices(cr, View2, cr', View2')
        BY <1>1 DEF NoticedBySecond, Notices, View2
  <2>2. /\ View2'.cache \in InvokerDeployment \cup {Nil} /\ View2'.synced \in BOOLEAN
        /\ View2'.pc \in {"idle", "acting", "syncing"}
        /\ View2'.observed \in InvokerDeployment \cup {Nil} /\ View2'.fresh \in BOOLEAN
        /\ UpToDate(cr', View2')
        BY <1>0, <2>1, BystanderKeeps
  <2> QED BY <2>2 DEF View2, Views
<1>2. ASSUME NoticedByFirst PROVE View1' \in Views /\ UpToDate(cr', View1')
  <2>1. Notices(cr, View1, cr', View1')
        BY <1>2 DEF NoticedByFirst, Notices, View1
  <2>2. /\ View1'.cache \in InvokerDeployment \cup {Nil} /\ View1'.synced \in BOOLEAN
        /\ View1'.pc \in {"idle", "acting", "syncing"}
        /\ View1'.observed \in InvokerDeployment \cup {Nil} /\ View1'.fresh \in BOOLEAN
        /\ UpToDate(cr', View1')
        BY <1>0, <2>1, BystanderKeeps
  <2> QED BY <2>2 DEF View1, Views
<1>3. CASE FirstWorker \/ FirstDisturbed \/ FirstInformed
  <2>1. WriterStep(cr, View1, cr', View1') /\ NoticedBySecond
        BY <1>0, <1>3, FirstIsWriter DEF FirstWorker, FirstDisturbed, FirstInformed
  <2>2. uid' = uid
        BY <1>3 DEF FirstWorker, FirstDisturbed, FirstInformed, Worker, Disturb, Failures,
                    Informers,
                    PassNoCR, AddFinalizer, RemoveFinalizer, UpdateStatus, BeginReconcile,
                    ConfigMapCall, PodCall, UpdateCurrentRevision, SyncRevisionsFails,
                    SyncRevisions,
                    FailConfigMapCall, FailPodCall, FailCurrentRevision, FailSyncRevisions, Crash,
                    PodGone, PodFailed, SyncCR, SyncPods, SyncConfigMaps, SyncRevisionCache,
                    Resync, env
  <2>3. /\ cr' \in InvokerDeployment \cup {Nil} /\ Requested(cr')
        /\ View1'.cache \in InvokerDeployment \cup {Nil} /\ View1'.synced \in BOOLEAN
        /\ View1'.pc \in {"idle", "acting", "syncing"}
        /\ View1'.observed \in InvokerDeployment \cup {Nil} /\ View1'.fresh \in BOOLEAN
        /\ UpToDate(cr', View1')
        /\ Allowed(cr, cr')
        BY <1>0, <2>1, WriterKeeps
  <2>4. View1' \in Views
        BY <2>3 DEF View1, Views
  <2> QED BY <1>0, <1>1, <2>1, <2>2, <2>3, <2>4, AllowedImplements DEF BothInv
<1>4. CASE SecondWorker \/ SecondFails \/ SecondCrashes \/ SecondInformed
  <2>1. WriterStep(cr, View2, cr', View2') /\ NoticedByFirst
        BY <1>0, <1>4, SecondIsWriter DEF SecondWorker, SecondFails, SecondCrashes, SecondInformed
  <2>2. uid' = uid
        BY <1>4 DEF SecondWorker, SecondFails, SecondCrashes, SecondInformed, Second!Worker,
                    Second!Failures, Second!Informers, Second!PassNoCR, Second!AddFinalizer,
                    Second!RemoveFinalizer, Second!UpdateStatus, Second!BeginReconcile,
                    Second!ConfigMapCall, Second!PodCall, Second!UpdateCurrentRevision,
                    Second!SyncRevisionsFails, Second!SyncRevisions, Second!FailConfigMapCall,
                    Second!FailPodCall, Second!FailCurrentRevision, Second!FailSyncRevisions,
                    Second!Crash, Second!SyncCR, Second!SyncPods, Second!SyncConfigMaps,
                    Second!SyncRevisionCache, Second!Resync, Second!env
  <2>3. /\ cr' \in InvokerDeployment \cup {Nil} /\ Requested(cr')
        /\ View2'.cache \in InvokerDeployment \cup {Nil} /\ View2'.synced \in BOOLEAN
        /\ View2'.pc \in {"idle", "acting", "syncing"}
        /\ View2'.observed \in InvokerDeployment \cup {Nil} /\ View2'.fresh \in BOOLEAN
        /\ UpToDate(cr', View2')
        /\ Allowed(cr, cr')
        BY <1>0, <2>1, WriterKeeps
  <2>4. View2' \in Views
        BY <2>3 DEF View2, Views
  <2> QED BY <1>0, <1>2, <2>1, <2>2, <2>3, <2>4, AllowedImplements DEF BothInv
<1>5. CASE Surroundings
  <2>1. CASE User
        BY <1>1, <1>5, <2>1, OthersKeep, RolloutUser DEF Surroundings, BothInv
  <2>2. CASE CollectCR
    <3>1. ForegroundDeletes
          BY <1>0 DEF Requested, ForegroundDeletes
    <3> QED BY <1>0, <1>1, <1>5, <2>2, <3>1, OthersKeep, RolloutCollect DEF Surroundings, BothInv
  <2>3. CASE Cluster /\ ~CollectCR
    <3>1. UNCHANGED <<cr, uid>> /\ UNCHANGED <<crCache, crSynced, pc, observed, fresh>>
          BY <2>3 DEF Cluster, KubeletStart, KubeletStop, CollectPod, CollectConfigMap,
                      CollectRevision, caches, pass, env
    <3>2. View1' = View1
          BY <3>1 DEF View1
    <3> QED BY <1>0, <1>1, <1>5, <3>1, <3>2, RolloutStutter DEF Surroundings, BothInv
  <2> QED BY <1>5, <2>1, <2>2, <2>3 DEF Surroundings
<1>6. CASE UNCHANGED bothVars
  <2>1. /\ UNCHANGED <<cr, uid, crCache, crSynced, pc, observed, fresh>>
        /\ UNCHANGED <<crCache2, crSynced2, pc2, observed2, fresh2>>
        BY <1>6 DEF bothVars, vars, api, caches, pass, env, Second!vars, Second!caches,
                    Second!pass
  <2>2. View1' = View1 /\ View2' = View2
        BY <2>1 DEF View1, View2
  <2> QED BY <1>0, <2>1, <2>2, RolloutStutter DEF BothInv
<1> QED BY <1>3, <1>4, <1>5, <1>6 DEF BothNext

(* Neither of two managers can write the resource from an outdated copy.     *)
THEOREM ReplicasUpToDate == BothSpec => []ReplicasInv
<1>1. BothSpec => []BothInv
      BY BothStart, BothStep, PTL DEF BothSpec
<1>2. BothInv => ReplicasInv
  <2> SUFFICES ASSUME BothInv PROVE ReplicasInv
      OBVIOUS
  <2>1. WritesLatest
        BY DEF BothInv, UpToDate, Requested, View1, WritesLatest, LatestCopies, PassAdopted,
               ForegroundDeletes
  <2>2. Second!WritesLatest
        BY SameDefinitions
        DEF BothInv, UpToDate, Requested, View2, Second!WritesLatest, Second!LatestCopies,
            Second!PassAdopted, Second!ForegroundDeletes
  <2> QED BY <2>1, <2>2 DEF ReplicasInv
<1> QED BY <1>1, <1>2, PTL

(* Two managers that work on one resource without leader election still keep *)
(* the contract: a revision is only reported while the resource is adopted   *)
(* and not being deleted, and is the one of the spec in force.               *)
THEOREM ReplicasImplementRollout == BothSpec => ImplementsRollout
<1>1. BothInv /\ [BothNext]_bothVars => [Lifecycle!Next]_(Lifecycle!vars)
      BY BothStep
<1>2. BothSpec => []BothInv
      BY BothStart, BothStep, PTL DEF BothSpec
<1> QED BY <1>1, <1>2, BothStart, PTL
        DEF BothSpec, ImplementsRollout, Lifecycle!Spec

=============================================================================
