---------------------------- MODULE FidelityProofs --------------------------
(***************************************************************************)
(* CurrentRevision tells the truth: RevisionFidelity for every value of    *)
(* the constants, in an environment that is Steady.                        *)
(***************************************************************************)
EXTENDS PodProofs

-----------------------------------------------------------------------------
(* Steps that disturb little of FidelityInv. *)

(* Steps of variables FidelityInv does not mention.                          *)
LEMMA FidelityFrame ==
    ASSUME FidelityInv,
           UNCHANGED <<cr, pods, cms, crCache, podCache, pc, observed, fresh,
                       cmCalls, podCalls, uid, used>>
    PROVE  ReportInv'
  BY DEF FidelityInv, ReportInv, SpecsSeen, Settled, CallsCover, RevisionFidelity, FaithfulPod,
         FaithfulConfigMap, Matches

(* A pass that makes no more calls.                                          *)
LEMMA FidelityPassOver ==
    ASSUME FidelityInv, UNCHANGED <<cr, pods, cms, crCache, podCache, uid, used>>,
           \/ pc' = "idle"
           \/ pc' = "syncing" /\ pc # "idle" /\ UNCHANGED observed
    PROVE  ReportInv'
<1>1. SpecsSeen'
      BY DEF FidelityInv, ReportInv, SpecsSeen, Settled
<1>2. CallsCover'
      BY DEF CallsCover
<1>3. RevisionFidelity'
      BY DEF FidelityInv, ReportInv, RevisionFidelity, FaithfulPod, FaithfulConfigMap, Matches
<1> QED BY <1>1, <1>2, <1>3 DEF ReportInv

(* A new process starts from the latest objects.                             *)
LEMMA FidelityRestart ==
    ASSUME FidelityInv, UNCHANGED <<cr, pods, cms, uid, used>>,
           pc' = "idle", crCache' = cr, podCache' = pods
    PROVE  ReportInv'
<1>1. SpecsSeen'
      BY DEF FidelityInv, ReportInv, SpecsSeen, Settled
<1>2. CallsCover'
      BY DEF CallsCover
<1>3. RevisionFidelity'
      BY DEF FidelityInv, ReportInv, RevisionFidelity, FaithfulPod, FaithfulConfigMap, Matches
<1> QED BY <1>1, <1>2, <1>3 DEF ReportInv

(* A write of the resource that leaves its spec and its reported revision.   *)
LEMMA FidelityTouched ==
    ASSUME FidelityInv,
           UNCHANGED <<pods, cms, crCache, podCache, pc, observed, cmCalls, podCalls, uid, used>>,
           fresh' => fresh,
           \/ cr' = Nil
           \/ /\ cr # Nil /\ cr'.uid = cr.uid /\ cr'.spec = cr.spec
              /\ cr'.status.currentRevision = cr.status.currentRevision
              /\ cr.deleting => cr'.deleting
    PROVE  ReportInv'
<1>1. SpecsSeen'
      BY DEF FidelityInv, ReportInv, SpecsSeen, Settled
<1>2. CallsCover'
      BY DEF FidelityInv, ReportInv, CallsCover, FaithfulPod, FaithfulConfigMap, Matches
<1>3. RevisionFidelity'
      BY DEF FidelityInv, ReportInv, RevisionFidelity, FaithfulPod, FaithfulConfigMap, Matches
<1> QED BY <1>1, <1>2, <1>3 DEF ReportInv

(* The caches catch up.                                                      *)
LEMMA FidelitySynced ==
    ASSUME FidelityInv,
           UNCHANGED <<cr, pods, cms, pc, observed, fresh, cmCalls, podCalls, uid, used>>,
           \/ crCache' = cr /\ podCache' = podCache
           \/ crCache' = crCache /\ podCache' = pods
    PROVE  ReportInv'
<1>1. SpecsSeen'
      BY DEF FidelityInv, ReportInv, SpecsSeen, Settled
<1>2. CallsCover'
      BY DEF FidelityInv, ReportInv, CallsCover, FaithfulPod, FaithfulConfigMap, Matches
<1>3. RevisionFidelity'
      BY DEF FidelityInv, ReportInv, RevisionFidelity, FaithfulPod, FaithfulConfigMap, Matches
<1> QED BY <1>1, <1>2, <1>3 DEF ReportInv

-----------------------------------------------------------------------------
(* The cluster and the user. *)

(* A pod goes or is terminated, or changes in nothing that is compared.      *)
LEMMA FidelityPodMoves ==
    ASSUME TypeOK, FidelityInv, NEW p \in PodNames, NEW x,
           pods[p] # Nil, pods' = [pods EXCEPT ![p] = x],
           UNCHANGED <<cr, cms, crCache, pc, observed, fresh, cmCalls, podCalls, used>>,
           \/ x = Nil
           \/ /\ x # Nil /\ x.entity = pods[p].entity /\ x.resources = pods[p].resources
              /\ x.deleting = pods[p].deleting \/ x.deleting
    PROVE  ReportInv'
<1>1. pods'[p] = x /\ \A q \in PodNames : q # p => pods'[q] = pods[q]
      BY DEF TypeOK, Table
<1>2. SpecsSeen'
      BY DEF FidelityInv, ReportInv, SpecsSeen, Settled
<1>3. ASSUME NEW s \in StoredSpecs, NEW i \in DOMAIN s.pods,
             FaithfulPod(getDesiredStatefulEntities(s)[i])
      PROVE  FaithfulPod(getDesiredStatefulEntities(s)[i])'
  <2>1. getDesiredStatefulEntities(s)[i].name \in PodNames
        BY DesiredPodType
  <2> QED BY <1>1, <1>3, <2>1 DEF FaithfulPod, Matches
<1>4. CallsCover'
  <2> SUFFICES ASSUME pc = "acting", fresh PROVE CallsCover'
      BY DEF CallsCover
  <2>1. observed.spec \in StoredSpecs
        BY NilAssumption DEF TypeOK, InvokerDeployment
  <2> QED BY <1>3, <2>1 DEF FidelityInv, ReportInv, CallsCover, FaithfulConfigMap
<1>5. RevisionFidelity'
  <2> SUFFICES ASSUME cr # Nil PROVE RevisionFidelity'
      BY DEF RevisionFidelity
  <2>1. cr.spec \in StoredSpecs
        BY DEF TypeOK, InvokerDeployment
  <2> QED BY <1>3, <2>1 DEF FidelityInv, ReportInv, RevisionFidelity, FaithfulConfigMap
<1> QED BY <1>2, <1>4, <1>5 DEF ReportInv

(* A ConfigMap is collected.                                                 *)
LEMMA FidelityConfigMapGone ==
    ASSUME TypeOK, FidelityInv, NEW e \in EntityNames, cms' = [cms EXCEPT ![e] = Nil],
           UNCHANGED <<cr, pods, crCache, podCache, pc, observed, fresh, cmCalls, podCalls,
                       uid, used>>
    PROVE  ReportInv'
<1>1. \A n : cms'[n] = cms[n] \/ cms'[n] = Nil
      BY DEF TypeOK, Table
<1>2. SpecsSeen'
      BY DEF FidelityInv, ReportInv, SpecsSeen, Settled
<1>3. CallsCover'
      BY <1>1 DEF FidelityInv, ReportInv, CallsCover, FaithfulPod, FaithfulConfigMap, Matches
<1>4. RevisionFidelity'
      BY <1>1 DEF FidelityInv, ReportInv, RevisionFidelity, FaithfulPod, FaithfulConfigMap, Matches
<1> QED BY <1>2, <1>3, <1>4 DEF ReportInv

(* The one creation of the resource: there is nothing yet.                   *)
LEMMA FidelityCreate ==
    ASSUME Steady, TypeOK, OwnershipInv, FidelityInv, CreateCR
    PROVE  ReportInv'
<1>1. uid = 0 /\ uid' = 1
      BY BoundsAssumption DEF CreateCR, Steady, Tracked, TypeOK
<1>2. PICK s \in Specs :
         /\ cr' = [uid |-> uid + 1, spec |-> s, finalizer |-> FALSE,
                   deleting |-> FALSE, foreground |-> FALSE, status |-> EmptyStatus]
         /\ used' = {s}
      BY DEF CreateCR
<1>3. UNCHANGED <<pods, cms, crCache, podCache, pc, observed, fresh, cmCalls, podCalls>>
      BY DEF CreateCR, pass
<1>4. cr'.uid = 1 /\ cr'.spec = s /\ cr'.status.currentRevision = Nil
  <2>1. EmptyStatus.currentRevision = Nil
        BY DEF EmptyStatus
  <2>2. cr'.uid = uid + 1 /\ cr'.spec = s /\ cr'.status = EmptyStatus
        BY <1>2
  <2>3. uid + 1 = 1
        BY <1>1
  <2> QED BY <2>1, <2>2, <2>3
<1>5. generateRevisionName(s) # Nil
      BY CanonicalForm, NilAssumption DEF Steady, Tracked
<1>6. pc = "idle" /\ \A p \in PodNames : pods[p] = Nil /\ podCache[p] = Nil
      BY <1>1 DEF FidelityInv, PodsInv, Pristine
<1>7. SpecsSeen'
      BY <1>2, <1>4, <1>5 DEF SpecsSeen, Settled
<1>8. CallsCover'
      BY <1>3, <1>6 DEF CallsCover
<1>9. RevisionFidelity'
      BY <1>4, <1>5 DEF RevisionFidelity
<1> QED BY <1>7, <1>8, <1>9 DEF ReportInv

(* A spec that was never in force is not yet reported.                       *)
LEMMA FidelityEdit ==
    ASSUME Steady, TypeOK, OwnershipInv, FidelityInv, EditCR
    PROVE  ReportInv'
<1>1. PICK s \in Specs : s \notin used /\ cr' = [cr EXCEPT !.spec = s] /\ used' = used \cup {s}
      BY DEF EditCR, Steady, Tracked
<1>2. /\ UNCHANGED <<pods, cms, crCache, podCache, pc, observed, cmCalls, podCalls, uid>>
      /\ ~fresh' /\ cr # Nil
      BY DEF EditCR
<1>3. /\ cr'.uid = cr.uid /\ cr'.spec = s /\ cr'.status = cr.status
      /\ cr'.deleting = cr.deleting
      BY <1>1, <1>2 DEF TypeOK, InvokerDeployment
<1>4. used \in SUBSET Specs
      BY DEF TypeOK
<1>5. cr.status.currentRevision # generateRevisionName(s)
  <2>1. /\ StoredSpecs = Specs
        /\ \A t \in Specs : generateRevisionName(t) = Hash[t] /\ generateRevisionName(t) # Nil
        BY CanonicalForm, NilAssumption DEF Steady, Tracked
  <2> QED BY <1>1, <1>2, <1>4, <2>1, HashAssumption DEF FidelityInv, ReportInv, SpecsSeen
<1>6. SpecsSeen'
      BY <1>1, <1>2, <1>3, <1>5 DEF FidelityInv, ReportInv, SpecsSeen, Settled
<1>7. CallsCover'
      BY <1>2, <1>3 DEF FidelityInv, ReportInv, CallsCover
<1>8. RevisionFidelity'
      BY <1>3, <1>5 DEF RevisionFidelity
<1> QED BY <1>6, <1>7, <1>8 DEF ReportInv

-----------------------------------------------------------------------------
(* The pass. *)

(* BeginReconcile: what is not right yet gets a call.                        *)
LEMMA FidelityBegin ==
    ASSUME Steady, TypeOK, OwnershipInv, FidelityInv, BeginReconcile
    PROVE  ReportInv'
<1> USE NilAssumption
<1> DEFINE c == ObservedCR
           D == getDesiredStatefulEntities(crCache.spec)
           E == getDesiredConfigMaps(crCache.spec)
<1>1. /\ Managed(crCache) /\ crCache # Nil
      /\ pc' = "acting" /\ observed' = c /\ fresh' = crSynced
      /\ cmCalls' = ConfigMapCalls(c, cmCache) /\ podCalls' = PodCalls(c, podCache)
      /\ UNCHANGED <<cr, pods, cms, crCache, podCache, uid, used>>
      BY DEF BeginReconcile, Managed, api, caches, env
<1>2. /\ c \in InvokerDeployment /\ c.spec = crCache.spec /\ crCache.spec \in Specs
      /\ c.status.currentRevision = crCache.status.currentRevision
      /\ c.status.nextRevision = generateRevisionName(crCache.spec)
      BY <1>1, ObservedType, CanonicalForm DEF InvokerDeployment, Steady, Tracked
<1>3. cr # Nil /\ (crSynced => crCache = cr /\ ~cr.deleting)
      BY <1>1 DEF OwnershipInv, WritesLatest, CopiesHeld, LatestCopies, Managed
<1>4. /\ podCache \in Table(PodNames, Pod) /\ cmCache \in Table(EntityNames, ConfigMap)
      /\ pods \in Table(PodNames, Pod)
      BY DEF TypeOK
<1> HIDE DEF c
<1>5. \A i \in DOMAIN crCache.spec.pods : PodOp(c, podCache, D[i]) # "none" =>
         \E k \in PodCalls(c, podCache) : k.name = D[i].name
      BY <1>2, <1>4, PodCallsShape
<1>6. \A i \in DOMAIN crCache.spec.statefulEntities : ConfigMapOp(c, cmCache, E[i]) # "none" =>
         \E k \in ConfigMapCalls(c, cmCache) : k.name = E[i].name
      BY <1>2, <1>4, ConfigMapCallsShape
<1>7. \A i \in DOMAIN crCache.spec.pods :
          /\ D[i].name \in PodNames /\ D[i].resources \in ResourceRequirements
          /\ ResourcesRoundTrip(D[i].resources) = D[i].resources
          /\ \A e : AtHome(D[i].name, e) => D[i].entity = e
  <2>1. crCache.spec \in StoredSpecs
        BY <1>2 DEF StoredSpecs
  <2> QED BY <1>2, <2>1, DesiredPodType, DesiredAtHome, CanonicalForm DEF Steady, Tracked
<1> HIDE DEF D, E
<1>8. \A i \in DOMAIN crCache.spec.pods :
          podCache[D[i].name] # Nil => podCache[D[i].name].entity = D[i].entity
       BY <1>7 DEF FidelityInv, PodsInv, StoredPods
<1>9. SpecsSeen'
       BY <1>1, <1>2 DEF FidelityInv, ReportInv, SpecsSeen, Settled
<1>10. CallsCover'
  <2> SUFFICES ASSUME crSynced PROVE CallsCover'
      BY <1>1 DEF CallsCover
  <2>1. crCache = cr /\ ~cr.deleting
        BY <1>3
  <2>2. ~isClusterStateUpdating(c) =>
           /\ \A i \in DOMAIN crCache.spec.pods : FaithfulPod(D[i])
           /\ \A i \in DOMAIN crCache.spec.statefulEntities : FaithfulConfigMap(E[i])
        BY <1>2, <1>3, <2>1 DEF FidelityInv, ReportInv, RevisionFidelity, isClusterStateUpdating, D, E
  <2>3. ASSUME NEW i \in DOMAIN crCache.spec.pods, PodOp(c, podCache, D[i]) = "none",
               isClusterStateUpdating(c)
        PROVE  FaithfulPod(D[i])
    <3>1. podCache[D[i].name] # Nil /\ ~needToRestartPod(D[i], podCache[D[i].name])
          BY <2>3 DEF PodOp, ObservedPod
    <3> SUFFICES ASSUME pods[D[i].name] # Nil
                 PROVE  Matches(pods[D[i].name], D[i])
        BY DEF FaithfulPod
    <3>2. /\ pods[D[i].name].entity = podCache[D[i].name].entity
          /\ pods[D[i].name].resources = podCache[D[i].name].resources
          BY <1>3, <1>7, <2>1, <3>1 DEF FidelityInv, PodsInv, SamePods, Intact
    <3>3. podCache[D[i].name].resources \in ResourceRequirements
          BY <1>4, <1>7, <3>1 DEF Table, Pod
    <3>4. IsDefaulted(podCache[D[i].name].resources)
          BY <1>7, <3>1 DEF FidelityInv, PodsInv, StoredPods
    <3>5. podCache[D[i].name].resources = ApiDefaulted(D[i].resources)
          BY <1>7, <3>1, <3>3, <3>4, NoRestartMeansEqual DEF needToRestartPod
    <3> QED BY <1>7, <1>8, <3>1, <3>2, <3>5 DEF Matches
  <2>4. ASSUME NEW i \in DOMAIN crCache.spec.pods
        PROVE  FaithfulPod(D[i]) \/ \E k \in PodCalls(c, podCache) : k.name = D[i].name
        BY <1>5, <2>2, <2>3
  <2>5. ASSUME NEW i \in DOMAIN crCache.spec.statefulEntities
        PROVE  FaithfulConfigMap(E[i]) \/ \E k \in ConfigMapCalls(c, cmCache) : k.name = E[i].name
    <3>1. ConfigMapOp(c, cmCache, E[i]) = "none" => ~isClusterStateUpdating(c)
          BY DEF ConfigMapOp
    <3> QED BY <1>6, <2>2, <3>1
  <2>6. /\ \A d : FaithfulPod(d)' <=> FaithfulPod(d)
        /\ \A d : FaithfulConfigMap(d)' <=> FaithfulConfigMap(d)
        BY <1>1 DEF FaithfulPod, FaithfulConfigMap, Matches
  <2> QED BY <1>1, <1>2, <2>4, <2>5, <2>6 DEF CallsCover, D, E, FaithfulPod, FaithfulConfigMap, Matches
<1>11. RevisionFidelity'
       BY <1>1 DEF FidelityInv, ReportInv, RevisionFidelity, FaithfulPod, FaithfulConfigMap, Matches
<1> QED BY <1>9, <1>10, <1>11 DEF ReportInv

(* A call on a ConfigMap that reached the API server, whether or not the     *)
(* pass learned of it: the ConfigMap is now what the observed spec asks for. *)
LEMMA FidelityConfigMapCall ==
    ASSUME TypeOK, OwnershipInv, FidelityInv, pc = "acting", NEW c \in cmCalls,
           cms' = ConfigMapsAfter(c),
           UNCHANGED <<cr, pods, crCache, podCache, observed, fresh, uid, used>>,
           \/ pc' = pc /\ cmCalls' = cmCalls \ {c} /\ podCalls' = podCalls
           \/ pc' = "syncing"
    PROVE  ReportInv'
<1> USE NilAssumption
<1> DEFINE E == getDesiredConfigMaps(observed.spec)
           Right(m) == cms'[m.name] = Nil \/ cms'[m.name].data = m.data
<1>1. observed \in InvokerDeployment /\ observed.spec \in StoredSpecs /\ c.name \in EntityNames
      BY DEF TypeOK, InvokerDeployment, Calls
<1>2. /\ \A n \in EntityNames : n # c.name => cms'[n] = cms[n]
      /\ cms'[c.name] = Nil \/ (c.op # "delete" /\ cms'[c.name].data = E[c.rank].data)
      BY <1>1 DEF ConfigMapsAfter, TypeOK, Table
<1>3. c.op # "delete" => c.rank \in DOMAIN observed.spec.statefulEntities /\ E[c.rank].name = c.name
      BY <1>1, DesiredConfigMapType, SpecShape DEF TypeOK, FidelityInv, PodsInv, CallsDistinct
<1>4. \A i, j \in DOMAIN observed.spec.statefulEntities : E[i].name = E[j].name => i = j
      BY <1>1, DesiredUnique
<1>5. \A i \in DOMAIN observed.spec.statefulEntities : E[i].name \in EntityNames
      BY <1>1, DesiredConfigMapType
<1> HIDE DEF E
<1>6. ASSUME NEW i \in DOMAIN observed.spec.statefulEntities
      PROVE  /\ E[i].name = c.name => Right(E[i])
             /\ FaithfulConfigMap(E[i]) => Right(E[i])
  <2>1. CASE E[i].name = c.name
        BY <1>2, <1>3, <1>4, <2>1 DEF FaithfulConfigMap
  <2>2. CASE E[i].name # c.name
        BY <1>2, <1>5, <2>2 DEF FaithfulConfigMap
  <2> QED BY <2>1, <2>2
<1>7. SpecsSeen'
      BY DEF FidelityInv, ReportInv, SpecsSeen, Settled
<1>8. CallsCover'
  <2> SUFFICES ASSUME pc' = pc, fresh, cmCalls' = cmCalls \ {c}, podCalls' = podCalls
               PROVE  CallsCover'
      BY DEF CallsCover
  <2>1. /\ \A i \in DOMAIN observed.spec.pods :
              LET d == getDesiredStatefulEntities(observed.spec)[i]
              IN  FaithfulPod(d) \/ \E k \in podCalls : k.name = d.name
        /\ \A i \in DOMAIN observed.spec.statefulEntities :
              FaithfulConfigMap(E[i]) \/ \E k \in cmCalls : k.name = E[i].name
        BY DEF FidelityInv, ReportInv, CallsCover, E
  <2>2. ASSUME NEW i \in DOMAIN observed.spec.statefulEntities
        PROVE  Right(E[i]) \/ \E k \in cmCalls' : k.name = E[i].name
        BY <1>6, <2>1
  <2> QED BY <2>1, <2>2 DEF CallsCover, E, FaithfulPod, FaithfulConfigMap, Matches
<1>9. RevisionFidelity'
  <2> SUFFICES ASSUME Settled PROVE RevisionFidelity'
      BY DEF RevisionFidelity, Settled
  <2>1. observed.spec = cr.spec
        BY DEF FidelityInv, ReportInv, SpecsSeen
  <2>2. \A i \in DOMAIN cr.spec.statefulEntities : FaithfulConfigMap(E[i])
        BY <2>1 DEF FidelityInv, ReportInv, RevisionFidelity, Settled, E
  <2>3. \A i \in DOMAIN cr.spec.statefulEntities : Right(E[i])
        BY <1>6, <2>1, <2>2
  <2> QED BY <2>1, <2>3 DEF FidelityInv, ReportInv, RevisionFidelity, Settled, E, FaithfulPod, FaithfulConfigMap, Matches
<1> QED BY <1>7, <1>8, <1>9 DEF ReportInv

(* A call on a pod that reached the API server.                              *)
LEMMA FidelityPodCall ==
    ASSUME Steady, TypeOK, OwnershipInv, FidelityInv, pc = "acting", NEW c \in podCalls,
           pods' = PodsAfter(c),
           UNCHANGED <<cr, cms, crCache, observed, fresh, used>>,
           \/ pc' = pc /\ podCalls' = podCalls \ {c} /\ cmCalls' = cmCalls
           \/ pc' = "syncing"
    PROVE  ReportInv'
<1> USE NilAssumption
<1> DEFINE D == getDesiredStatefulEntities(observed.spec)
           Right(m) == \/ pods'[m.name] = Nil \/ pods'[m.name].deleting
                       \/ Matches(pods'[m.name], m)
<1>1. /\ observed \in InvokerDeployment /\ c.name \in PodNames
      /\ observed.spec \in StoredSpecs /\ observed.spec \in Specs
      BY CanonicalForm DEF TypeOK, InvokerDeployment, Calls, Steady, Tracked
<1>2. pods \in [PodNames -> Pod \cup {Nil}]
      BY DEF TypeOK, Table
<1>3. \A n \in PodNames : n # c.name => pods'[n] = pods[n]
      BY <1>1, <1>2 DEF PodsAfter
<1>4. \A i \in DOMAIN observed.spec.pods : D[i].name \in PodNames
      BY <1>1, DesiredPodType
<1>5. ASSUME NEW i \in DOMAIN observed.spec.pods, D[i].name = c.name PROVE Right(D[i])
  <2>1. CASE c.op = "create"
    <3>1. c.rank \in DOMAIN observed.spec.pods /\ D[c.rank].name = c.name
          BY <1>1, <2>1, DesiredPodType, SpecShape DEF TypeOK, FidelityInv, PodsInv, CallsDistinct
    <3>2. i = c.rank
          BY <1>1, <1>5, <3>1, DesiredUnique
    <3>3. pods'[c.name] = NewPod(D[c.rank])
          BY <1>1, <1>2, <2>1 DEF PodsAfter
    <3>4. /\ NewPod(D[c.rank]).entity = D[c.rank].entity
          /\ NewPod(D[c.rank]).resources = ApiDefaulted(ResourcesRoundTrip(D[c.rank].resources))
          BY DEF NewPod
    <3> HIDE DEF D
    <3> QED BY <3>1, <3>2, <3>3, <3>4 DEF Matches
  <2>2. CASE c.op # "create" /\ pods[c.name] = Nil
        BY <1>1, <1>2, <1>5, <2>2 DEF PodsAfter
  <2>3. CASE c.op # "create" /\ pods[c.name] # Nil
    <3>1. pods[c.name] \in Pod /\ pods'[c.name] = [pods[c.name] EXCEPT !.deleting = TRUE]
          BY <1>1, <1>2, <2>3 DEF PodsAfter
    <3>2. pods'[c.name].deleting
          BY <3>1 DEF Pod
    <3> QED BY <1>5, <3>2
  <2> QED BY <2>1, <2>2, <2>3
<1> HIDE DEF D
<1>6. \A i \in DOMAIN observed.spec.pods : FaithfulPod(D[i]) => Right(D[i])
      BY <1>3, <1>4, <1>5 DEF FaithfulPod, Matches
<1>7. SpecsSeen'
       BY DEF FidelityInv, ReportInv, SpecsSeen, Settled
<1>8. CallsCover'
  <2> SUFFICES ASSUME pc' = pc, fresh, podCalls' = podCalls \ {c}, cmCalls' = cmCalls
               PROVE  CallsCover'
      BY DEF CallsCover
  <2>1. /\ \A i \in DOMAIN observed.spec.pods :
              FaithfulPod(D[i]) \/ \E k \in podCalls : k.name = D[i].name
        /\ \A i \in DOMAIN observed.spec.statefulEntities :
              LET d == getDesiredConfigMaps(observed.spec)[i]
              IN  FaithfulConfigMap(d) \/ \E k \in cmCalls : k.name = d.name
        BY DEF FidelityInv, ReportInv, CallsCover, D
  <2>2. ASSUME NEW i \in DOMAIN observed.spec.pods
        PROVE  Right(D[i]) \/ \E k \in podCalls' : k.name = D[i].name
        BY <1>5, <1>6, <2>1
  <2> QED BY <2>1, <2>2 DEF CallsCover, D, FaithfulPod, FaithfulConfigMap, Matches
<1>9. RevisionFidelity'
  <2> SUFFICES ASSUME Settled PROVE RevisionFidelity'
      BY DEF RevisionFidelity, Settled
  <2>1. observed.spec = cr.spec
        BY DEF FidelityInv, ReportInv, SpecsSeen
  <2>2. \A i \in DOMAIN cr.spec.pods : FaithfulPod(D[i])
        BY <2>1 DEF FidelityInv, ReportInv, RevisionFidelity, Settled, D
  <2>3. \A i \in DOMAIN cr.spec.pods : Right(D[i])
        BY <1>6, <2>1, <2>2
  <2> QED BY <2>1, <2>3 DEF FidelityInv, ReportInv, RevisionFidelity, Settled, D, FaithfulPod, FaithfulConfigMap, Matches
<1> QED BY <1>7, <1>8, <1>9 DEF ReportInv

(* UpdateCurrentRevision: a pass whose copy is still the latest has no call  *)
(* left, so everything is as its spec, which is the spec in force, asks.     *)
LEMMA FidelityCommit ==
    ASSUME TypeOK, OwnershipInv, FidelityInv, UpdateCurrentRevision, fresh
    PROVE  ReportInv'
<1> USE NilAssumption
<1>1. /\ pc = "acting" /\ pc' = "syncing" /\ cmCalls = {} /\ podCalls = {}
      /\ cr' = [observed EXCEPT !.status.currentRevision = observed.status.nextRevision]
      /\ UNCHANGED <<pods, cms, crCache, podCache, observed, uid, used>>
      BY DEF UpdateCurrentRevision, WriteCR, AbandonReconcile, env
<1>2. observed \in InvokerDeployment
      BY <1>1 DEF TypeOK
<1>3. /\ cr' \in InvokerDeployment /\ cr'.uid = observed.uid /\ cr'.spec = observed.spec
      /\ cr'.status.currentRevision = observed.status.nextRevision
      /\ cr'.deleting = observed.deleting
      BY <1>1, <1>2 DEF InvokerDeployment, InvokerDeploymentStatus
<1>4. /\ cr # Nil /\ cr.uid = observed.uid /\ cr.spec = observed.spec /\ crCache = cr
      /\ cr.deleting = observed.deleting
      /\ observed.status.nextRevision = generateRevisionName(cr.spec)
      BY <1>1 DEF OwnershipInv, WritesLatest, LatestCopies, PassAdopted, CopiesHeld
<1>5. SpecsSeen'
      BY <1>1, <1>3, <1>4 DEF FidelityInv, ReportInv, SpecsSeen, Settled
<1>6. CallsCover'
      BY <1>1 DEF CallsCover
<1>7. RevisionFidelity'
  <2>1. /\ \A i \in DOMAIN observed.spec.pods :
              FaithfulPod(getDesiredStatefulEntities(observed.spec)[i])
        /\ \A i \in DOMAIN observed.spec.statefulEntities :
              FaithfulConfigMap(getDesiredConfigMaps(observed.spec)[i])
        BY <1>1 DEF FidelityInv, ReportInv, CallsCover
  <2> QED BY <1>1, <1>3, <2>1 DEF RevisionFidelity, FaithfulPod, FaithfulConfigMap, Matches
<1> QED BY <1>5, <1>6, <1>7 DEF ReportInv

-----------------------------------------------------------------------------
(* Every step, and the theorems. *)

(* The writes of the resource other than CurrentRevision and the spec.       *)
LEMMA FidelityResource ==
    ASSUME Steady, TypeOK, OwnershipInv, FidelityInv,
           AddFinalizer \/ RemoveFinalizer \/ UpdateStatus \/ DeleteCR \/ CollectCR
    PROVE  ReportInv'
<1> USE NilAssumption
<1>1. CASE AddFinalizer
  <2>1. UNCHANGED <<pods, cms, crCache, podCache, pc, observed, fresh, cmCalls, podCalls, uid, used>>
        BY <1>1 DEF AddFinalizer, pass, env
  <2>2. CASE crSynced /\ ~crCache.deleting
    <3>1. /\ crCache = cr /\ cr \in InvokerDeployment
          /\ cr' = [cr EXCEPT !.finalizer = TRUE, !.spec = RoundTrip(cr.spec)]
          BY <1>1, <2>2 DEF AddFinalizer, WriteCR, OwnershipInv, WritesLatest, LatestCopies, TypeOK
    <3>2. RoundTrip(cr.spec) = cr.spec
          BY <3>1, CanonicalForm DEF InvokerDeployment, Steady, Tracked
    <3>3. /\ cr # Nil /\ cr'.uid = cr.uid /\ cr'.spec = cr.spec /\ cr'.status = cr.status
          /\ cr'.deleting = cr.deleting
          BY <3>1, <3>2 DEF InvokerDeployment
    <3> QED BY <2>1, <3>3, FidelityTouched
  <2>3. CASE ~crSynced \/ crCache.deleting
        BY <1>1, <2>1, <2>3, FidelityFrame DEF AddFinalizer, WriteCR
  <2> QED BY <2>2, <2>3
<1>2. CASE RemoveFinalizer
  <2>1. UNCHANGED <<pods, cms, crCache, podCache, pc, observed, fresh, cmCalls, podCalls, uid, used>>
        BY <1>2 DEF RemoveFinalizer, pass, env
  <2>2. CASE crSynced /\ crCache.foreground
    <3>1. /\ crCache = cr /\ cr \in InvokerDeployment /\ cr # Nil
          /\ cr' = [cr EXCEPT !.finalizer = FALSE, !.spec = RoundTrip(cr.spec)]
          BY <1>2, <2>2 DEF RemoveFinalizer, WriteCR, OwnershipInv, WritesLatest, LatestCopies, TypeOK
    <3>2. RoundTrip(cr.spec) = cr.spec
          BY <3>1, CanonicalForm DEF InvokerDeployment, Steady, Tracked
    <3>3. /\ cr'.uid = cr.uid /\ cr'.spec = cr.spec /\ cr'.status = cr.status
          /\ cr'.deleting = cr.deleting
          BY <3>1, <3>2, ReleasedType
    <3> QED BY <2>1, <3>1, <3>3, FidelityTouched
  <2>3. CASE ~(crSynced /\ crCache.foreground)
    <3>1. cr' = Nil \/ cr' = cr
          BY <1>2, <2>3 DEF RemoveFinalizer, WriteCR
    <3> QED BY <2>1, <3>1, FidelityTouched, FidelityFrame
  <2> QED BY <2>2, <2>3
<1>3. CASE UpdateStatus
  <2>1. UNCHANGED <<pods, cms, crCache, podCache, pc, observed, fresh, cmCalls, podCalls, uid, used>>
        BY <1>3 DEF UpdateStatus, pass, env
  <2>2. CASE crSynced
    <3>1. /\ crCache = cr /\ crCache # Nil /\ cr \in InvokerDeployment
          /\ cr' = [crCache EXCEPT !.status = NewStatus]
          BY <1>3, <2>2 DEF UpdateStatus, WriteCR, OwnershipInv, WritesLatest, LatestCopies, TypeOK, Managed
    <3>2. NewStatus.currentRevision = cr.status.currentRevision
          BY <3>1, ObservedType
    <3>3. /\ cr'.uid = cr.uid /\ cr'.spec = cr.spec /\ cr'.status = NewStatus
          /\ cr'.deleting = cr.deleting
          BY <3>1 DEF InvokerDeployment
    <3> QED BY <2>1, <3>1, <3>2, <3>3, FidelityTouched
  <2>3. CASE ~crSynced
        BY <1>3, <2>1, <2>3, FidelityFrame DEF UpdateStatus, WriteCR
  <2> QED BY <2>2, <2>3
<1>4. CASE DeleteCR
  <2>1. /\ UNCHANGED <<pods, cms, crCache, podCache, pc, observed, cmCalls, podCalls, uid, used>>
        /\ ~fresh' /\ cr # Nil /\ cr \in InvokerDeployment
        BY <1>4 DEF DeleteCR, env, TypeOK
  <2>2. \/ cr' = Nil
        \/ /\ cr'.uid = cr.uid /\ cr'.spec = cr.spec /\ cr'.status = cr.status
           /\ cr'.deleting
        BY <1>4, <2>1, DeletedType
  <2> QED BY <2>1, <2>2, FidelityTouched
<1>5. CASE CollectCR
  <2>1. /\ UNCHANGED <<pods, cms, crCache, podCache, pc, observed, cmCalls, podCalls, uid, used>>
        /\ ~fresh' /\ cr # Nil /\ cr \in InvokerDeployment
        BY <1>5 DEF CollectCR, env, TypeOK
  <2>2. \/ cr' = Nil
        \/ /\ cr'.uid = cr.uid /\ cr'.spec = cr.spec /\ cr'.status = cr.status
           /\ cr'.deleting = cr.deleting
        BY <1>5, <2>1, CollectedType
  <2> QED BY <2>1, <2>2, FidelityTouched
<1> QED BY <1>1, <1>2, <1>3, <1>4, <1>5

(* What the kubelet, an eviction for lack of resources and the garbage       *)
(* collector do to a pod.                                                    *)
LEMMA FidelityPodEvent ==
    ASSUME TypeOK, OwnershipInv, FidelityInv, NEW p \in PodNames,
           PodFailed(p) \/ KubeletStart(p) \/ KubeletStop(p) \/ CollectPod(p)
    PROVE  ReportInv'
<1>1. UNCHANGED <<cr, cms, crCache, pc, observed, fresh, cmCalls, podCalls, used>>
      BY DEF PodFailed, KubeletStart, KubeletStop, CollectPod, caches, pass, env
<1> QED BY <1>1, PodEvents, FidelityPodMoves DEF FidelityInv, PodsInv

(* Every step keeps FidelityInv.                                             *)
LEMMA FidelityStep ==
    ASSUME Steady, TypeOK, OwnershipInv, FidelityInv, [Next]_vars
    PROVE  FidelityInv'
<1>1. PodsInv'
      BY PodsStep DEF FidelityInv, Steady
<1> SUFFICES ReportInv'
    BY <1>1 DEF FidelityInv
<1>2. CASE PassNoCR \/ SyncConfigMaps \/ SyncRevisionCache \/ Resync \/ UNCHANGED vars
      BY <1>2, FidelityFrame DEF PassNoCR, SyncConfigMaps, SyncRevisionCache, Resync,
                                 vars, api, caches, pass, env
<1>3. ASSUME NEW n, CollectRevision(n) PROVE ReportInv'
      BY <1>3, FidelityFrame DEF CollectRevision, caches, pass, env
<1>4. CASE AddFinalizer \/ RemoveFinalizer \/ UpdateStatus \/ DeleteCR \/ CollectCR
      BY <1>4, FidelityResource
<1>5. CASE BeginReconcile
      BY <1>5, FidelityBegin
<1>6. CASE ConfigMapCall
  <2>1. PICK c \in cmCalls :
           \/ cms' = ConfigMapsAfter(c) /\ cmCalls' = cmCalls \ {c} /\ UNCHANGED <<pc, podCalls>>
           \/ AbandonReconcile /\ UNCHANGED cms
        BY <1>6 DEF ConfigMapCall, NextCalls
  <2>2. /\ pc = "acting"
        /\ UNCHANGED <<cr, pods, crCache, podCache, observed, fresh, uid, used>>
        BY <1>6 DEF ConfigMapCall, caches, env
  <2>3. CASE cms' = ConfigMapsAfter(c) /\ cmCalls' = cmCalls \ {c} /\ UNCHANGED <<pc, podCalls>>
        BY <2>2, <2>3, FidelityConfigMapCall
  <2>4. CASE AbandonReconcile /\ UNCHANGED cms
        BY <2>2, <2>4, FidelityPassOver DEF AbandonReconcile
  <2> QED BY <2>1, <2>3, <2>4
<1>7. CASE FailConfigMapCall
  <2>1. PICK c \in cmCalls : UNCHANGED cms \/ cms' = ConfigMapsAfter(c)
        BY <1>7 DEF FailConfigMapCall, NextCalls
  <2>2. /\ pc = "acting" /\ pc' = "syncing"
        /\ UNCHANGED <<cr, pods, crCache, podCache, observed, fresh, uid, used>>
        BY <1>7 DEF FailConfigMapCall, AbandonReconcile, caches
  <2> QED BY <2>1, <2>2, FidelityConfigMapCall, FidelityPassOver
<1>8. CASE PodCall
  <2>1. PICK c \in podCalls :
           \/ /\ PodAccepts(c) /\ pods' = PodsAfter(c)
              /\ podCalls' = podCalls \ {c} /\ UNCHANGED <<pc, cmCalls>>
           \/ AbandonReconcile /\ UNCHANGED pods
        BY <1>8 DEF PodCall, NextCalls
  <2>2. /\ pc = "acting"
        /\ UNCHANGED <<cr, cms, crCache, podCache, observed, fresh, uid, used>>
        BY <1>8 DEF PodCall, caches, env
  <2>3. CASE /\ PodAccepts(c) /\ pods' = PodsAfter(c)
             /\ podCalls' = podCalls \ {c} /\ UNCHANGED <<pc, cmCalls>>
        BY <2>2, <2>3, FidelityPodCall
  <2>4. CASE AbandonReconcile /\ UNCHANGED pods
        BY <2>2, <2>4, FidelityPassOver DEF AbandonReconcile
  <2> QED BY <2>1, <2>3, <2>4
<1>9. CASE FailPodCall
  <2>1. PICK c \in podCalls : UNCHANGED pods \/ (PodAccepts(c) /\ pods' = PodsAfter(c))
        BY <1>9 DEF FailPodCall, NextCalls
  <2>2. /\ pc = "acting" /\ pc' = "syncing"
        /\ UNCHANGED <<cr, cms, crCache, podCache, observed, fresh, uid, used>>
        BY <1>9 DEF FailPodCall, AbandonReconcile, caches
  <2> QED BY <2>1, <2>2, FidelityPodCall, FidelityPassOver
<1>10. CASE UpdateCurrentRevision \/ FailCurrentRevision
  <2>1. CASE UpdateCurrentRevision /\ fresh
        BY <2>1, FidelityCommit
  <2>2. CASE (UpdateCurrentRevision /\ ~fresh) \/ FailCurrentRevision
        BY <2>2, FidelityPassOver DEF UpdateCurrentRevision, FailCurrentRevision, WriteCR,
                                      AbandonReconcile, api, caches, env
  <2> QED BY <1>10, <2>1, <2>2
<1>11. CASE SyncRevisionsFails \/ FailSyncRevisions
       BY <1>11, FidelityPassOver DEF SyncRevisionsFails, FailSyncRevisions, EndPass, api, caches, env
<1>12. CASE SyncRevisions
  <2>1. CASE observed.spec.historyLimit = Nil
        BY <1>12, <2>1, FidelityRestart DEF SyncRevisions, Restart, EndPass, env
  <2>2. CASE observed.spec.historyLimit # Nil
        BY <1>12, <2>2, FidelityPassOver DEF SyncRevisions, EndPass, caches, env
  <2> QED BY <2>1, <2>2
<1>13. CASE Crash
       BY <1>13, FidelityRestart DEF Crash, Restart, EndPass, api
<1>14. ASSUME NEW p \in PodNames PROVE ~PodGone(p)
       BY DEF PodGone, Fault, Steady, Tracked
<1>15. ASSUME NEW p \in PodNames,
              PodFailed(p) \/ KubeletStart(p) \/ KubeletStop(p) \/ CollectPod(p)
       PROVE  ReportInv'
       BY <1>15, FidelityPodEvent
<1>16. CASE CreateCR
       BY <1>16, FidelityCreate
<1>17. CASE EditCR
       BY <1>17, FidelityEdit
<1>18. CASE SyncCR \/ SyncPods
       BY <1>18, FidelitySynced DEF SyncCR, SyncPods, api, caches, pass, env
<1>19. ASSUME NEW e \in EntityNames, CollectConfigMap(e) PROVE ReportInv'
       BY <1>19, FidelityConfigMapGone DEF CollectConfigMap, caches, pass, env
<1> QED
    BY <1>2, <1>3, <1>4, <1>5, <1>6, <1>7, <1>8, <1>9, <1>10, <1>11, <1>12, <1>13, <1>14,
       <1>15, <1>16, <1>17, <1>18, <1>19
    DEF Next, Worker, Disturb, Failures, User, Informers, Cluster

(* Nothing exists yet.                                                       *)
LEMMA FidelityInit == Init => FidelityInv
  BY PodsInit DEF Init, FidelityInv, ReportInv, SpecsSeen, Settled, CallsCover, RevisionFidelity

(* In a Steady environment a pass that may still report its revision has a   *)
(* call left for everything that is not right yet, whatever it missed.       *)
THEOREM FidelityHolds == ASSUME Steady PROVE Spec => []FidelityInv
<1>1. Spec => []TypeOK
      BY TypeCorrect
<1>2. Spec => []OwnershipInv
      BY OwnershipHolds
<1>3. TypeOK /\ OwnershipInv /\ FidelityInv /\ [Next]_vars => FidelityInv'
      BY FidelityStep
<1> QED BY <1>1, <1>2, <1>3, FidelityInit, PTL DEF Spec

(* CurrentRevision tells the truth, for every set of specs, pods, entities   *)
(* and resources, with any number of edits, crashes and failed calls:        *)
(* whenever the resource reports the revision of its own spec (written by    *)
(* reconciler.reconcile), no pod or ConfigMap of an older one is left.       *)
THEOREM RevisionTruthful == ASSUME Steady PROVE Spec => []RevisionFidelity
<1>1. FidelityInv => RevisionFidelity
      BY DEF FidelityInv, ReportInv
<1> QED BY <1>1, FidelityHolds, PTL

=============================================================================
