------------------------------ MODULE PodProofs -----------------------------
(***************************************************************************)
(* The pod cache may be late but is never wrong (PodsInv), and so no live  *)
(* pod that is already what the spec asks for is deleted                   *)
(* (RestartJustified), for every value of the constants.                   *)
(***************************************************************************)
EXTENDS InvokerProofs

-----------------------------------------------------------------------------
(* Resources: what the API server stores against what needToRestartPod says. *)

(* What the API server stores has a request for every limit. *)
LEMMA StoredIsDefaulted ==
    ASSUME NEW r \in ResourceRequirements
    PROVE  IsDefaulted(ApiDefaulted(r))
<1>1. CASE r.limits = Nil
      BY <1>1 DEF ApiDefaulted, IsDefaulted
<1>2. CASE r.limits # Nil
  <2> DEFINE requested == IF r.requests = Nil THEN {} ELSE DOMAIN r.requests
             f == [k \in requested \cup DOMAIN r.limits |->
                     IF k \in requested THEN r.requests[k] ELSE r.limits[k]]
  <2>1. ApiDefaulted(r) = [r EXCEPT !.requests = f]
        BY <1>2 DEF ApiDefaulted
  <2>2. ApiDefaulted(r).limits = r.limits /\ ApiDefaulted(r).requests = f
        BY <2>1 DEF ResourceRequirements
  <2>3. f # Nil
    <3>1. ApiDefaulted(r) \in ResourceRequirements
          BY DefaultedType
    <3>2. f \in ResourceLists
      <4>1. r.requests \in ResourceLists \cup {Nil} /\ r.limits \in ResourceLists
            BY <1>2 DEF ResourceRequirements
      <4>2. PICK L \in SUBSET ResourceKinds : r.limits \in [L -> Quantities]
            BY <4>1 DEF ResourceLists
      <4>3. requested \subseteq ResourceKinds /\ \A k \in requested : r.requests[k] \in Quantities
            BY <4>1 DEF ResourceLists
      <4>4. f \in [requested \cup L -> Quantities]
            BY <4>2, <4>3
      <4> QED BY <4>2, <4>3, <4>4 DEF ResourceLists
    <3> QED BY <3>2, NilAssumption
  <2>4. DOMAIN r.limits \subseteq DOMAIN f
        OBVIOUS
  <2> HIDE DEF f
  <2> QED BY <2>2, <2>3, <2>4 DEF IsDefaulted
<1> QED BY <1>1, <1>2

(* A pod that need not be restarted is the pod the API server would store.   *)
LEMMA NoRestartMeansEqual ==
    ASSUME NEW d \in ResourceRequirements, NEW o \in ResourceRequirements,
           IsDefaulted(o), RequestsOrLimits(d) = RequestsOrLimits(o)
    PROVE  o = ApiDefaulted(d)
<1>1. /\ d = [requests |-> d.requests, limits |-> d.limits]
      /\ o = [requests |-> o.requests, limits |-> o.limits]
      BY DEF ResourceRequirements
<1>2. d.limits = o.limits
  <2>1. RequestsOrLimits(d).limits = d.limits
        BY DEF RequestsOrLimits, ResourceRequirements
  <2>2. RequestsOrLimits(o).limits = o.limits
        BY DEF RequestsOrLimits, ResourceRequirements
  <2> QED BY <2>1, <2>2
<1>3. RequestsOrLimits(d).requests = IF d.requests = Nil THEN d.limits ELSE d.requests
      BY DEF RequestsOrLimits, ResourceRequirements
<1>4. RequestsOrLimits(o).requests = IF o.requests = Nil THEN o.limits ELSE o.requests
      BY DEF RequestsOrLimits, ResourceRequirements
<1>5. CASE d.limits = Nil
  <2>1. d.requests = o.requests
        BY <1>2, <1>3, <1>4, <1>5
  <2>2. o = d
        BY <1>1, <1>2, <2>1
  <2> QED BY <1>5, <2>2 DEF ApiDefaulted
<1>6. CASE d.limits # Nil
  <2>1. o.requests # Nil /\ DOMAIN o.limits \subseteq DOMAIN o.requests
        BY <1>2, <1>6 DEF IsDefaulted
  <2>2. o.requests = IF d.requests = Nil THEN d.limits ELSE d.requests
        BY <1>3, <1>4, <2>1
  <2> DEFINE requested == IF d.requests = Nil THEN {} ELSE DOMAIN d.requests
             f == [k \in requested \cup DOMAIN d.limits |->
                     IF k \in requested THEN d.requests[k] ELSE d.limits[k]]
  <2>3. ApiDefaulted(d) = [d EXCEPT !.requests = f]
        BY <1>6 DEF ApiDefaulted
  <2>4. \A g \in ResourceLists : g = [k \in DOMAIN g |-> g[k]]
        BY DEF ResourceLists
  <2>5. f = o.requests
    <3>1. CASE d.requests = Nil
      <4>1. d.limits \in ResourceLists
            BY <1>6 DEF ResourceRequirements
      <4>2. f = [k \in DOMAIN d.limits |-> d.limits[k]]
            BY <3>1
      <4> QED BY <2>2, <2>4, <3>1, <4>1, <4>2
    <3>2. CASE d.requests # Nil
      <4>1. d.requests \in ResourceLists
            BY <3>2 DEF ResourceRequirements
      <4>2. requested = DOMAIN d.requests /\ DOMAIN d.limits \subseteq requested
            BY <1>2, <2>1, <2>2, <3>2
      <4>3. f = [k \in DOMAIN d.requests |-> d.requests[k]]
            BY <4>2
      <4> QED BY <2>2, <2>4, <3>2, <4>1, <4>3
    <3> QED BY <3>1, <3>2
  <2> HIDE DEF f
  <2>6. ApiDefaulted(d) = [requests |-> f, limits |-> d.limits]
        BY <1>1, <2>3
  <2> QED BY <1>1, <1>2, <2>5, <2>6
<1> QED BY <1>5, <1>6

-----------------------------------------------------------------------------
(* Desired objects and the calls made for them. *)

(* In a well-formed spec a name stands for one desired object.               *)
LEMMA DesiredUnique ==
    ASSUME NEW s \in StoredSpecs
    PROVE  /\ \A i, j \in DOMAIN s.pods :
                 getDesiredStatefulEntities(s)[i].name = getDesiredStatefulEntities(s)[j].name
                    => i = j
           /\ \A i, j \in DOMAIN s.statefulEntities :
                 getDesiredConfigMaps(s)[i].name = getDesiredConfigMaps(s)[j].name => i = j
  BY DesiredPodType, DesiredConfigMapType, SpecShape DEF WellFormed

(* A desired pod is at home in its own entity, and only there.               *)
LEMMA DesiredAtHome ==
    ASSUME StablePlacement, NEW s \in Specs, NEW i \in DOMAIN s.pods
    PROVE  /\ AtHome(getDesiredStatefulEntities(s)[i].name,
                     getDesiredStatefulEntities(s)[i].entity)
           /\ \A e : AtHome(getDesiredStatefulEntities(s)[i].name, e)
                        => getDesiredStatefulEntities(s)[i].entity = e
<1>1. getDesiredStatefulEntities(s)[i].name = s.pods[i].name
      BY DesiredPodType DEF StoredSpecs
<1> QED BY <1>1 DEF StablePlacement, AtHome

(* Every call on a pod is for a desired pod or for one that is left over.    *)
LEMMA PodCallsShape ==
    ASSUME NEW c \in InvokerDeployment, NEW o \in Table(PodNames, Pod)
    PROVE  LET D == getDesiredStatefulEntities(c.spec)
           IN  /\ \A k \in PodCalls(c, o) :
                     \/ /\ k.rank \in DOMAIN c.spec.pods
                        /\ k.name = D[k.rank].name
                        /\ k.op = PodOp(c, o, D[k.rank])
                        /\ k = [rank |-> k.rank, op |-> PodOp(c, o, D[k.rank]),
                                name |-> D[k.rank].name]
                     \/ /\ k = [rank |-> Len(D) + 1, op |-> "delete", name |-> k.name]
                        /\ o[k.name] # Nil
                        /\ \A i \in DOMAIN c.spec.pods : D[i].name # k.name
               /\ \A i \in DOMAIN c.spec.pods : PodOp(c, o, D[i]) # "none" =>
                     \E k \in PodCalls(c, o) : k.name = D[i].name
<1> DEFINE D == getDesiredStatefulEntities(c.spec)
<1>1. c.spec \in StoredSpecs
      BY DEF InvokerDeployment
<1>2. DOMAIN D = DOMAIN c.spec.pods
      BY <1>1, DesiredPodType, SpecShape
<1>3. PodCalls(c, o) = {[rank |-> i, op |-> PodOp(c, o, D[i]), name |-> D[i].name] :
                           i \in {j \in DOMAIN D : PodOp(c, o, D[j]) # "none"}}
                       \cup LeftoverCalls(D, o)
      BY DEF PodCalls
<1>4. ASSUME NEW k \in LeftoverCalls(D, o)
      PROVE  /\ k = [rank |-> Len(D) + 1, op |-> "delete", name |-> k.name]
             /\ o[k.name] # Nil
             /\ \A i \in DOMAIN D : D[i].name # k.name
      BY DEF LeftoverCalls, Present, DesiredNames
<1> HIDE DEF D
<1>5. ASSUME NEW i \in DOMAIN D, PodOp(c, o, D[i]) # "none"
      PROVE  \E k \in PodCalls(c, o) : k.name = D[i].name
  <2>1. [rank |-> i, op |-> PodOp(c, o, D[i]), name |-> D[i].name] \in PodCalls(c, o)
        BY <1>3, <1>5
  <2> QED BY <2>1
<1>6. ASSUME NEW k \in PodCalls(c, o), k \notin LeftoverCalls(D, o)
      PROVE  /\ k.rank \in DOMAIN D
             /\ k.name = D[k.rank].name
             /\ k.op = PodOp(c, o, D[k.rank])
             /\ k = [rank |-> k.rank, op |-> PodOp(c, o, D[k.rank]), name |-> D[k.rank].name]
  <2>1. PICK i \in DOMAIN D : k = [rank |-> i, op |-> PodOp(c, o, D[i]), name |-> D[i].name]
        BY <1>3, <1>6
  <2> QED BY <2>1
<1> QED BY <1>2, <1>4, <1>5, <1>6 DEF D

(* The same of the calls on ConfigMaps.                                      *)
LEMMA ConfigMapCallsShape ==
    ASSUME NEW c \in InvokerDeployment, NEW o \in Table(EntityNames, ConfigMap)
    PROVE  LET D == getDesiredConfigMaps(c.spec)
           IN  /\ \A k \in ConfigMapCalls(c, o) :
                     \/ /\ k.rank \in DOMAIN c.spec.statefulEntities
                        /\ k.name = D[k.rank].name
                        /\ k.op = ConfigMapOp(c, o, D[k.rank])
                        /\ k = [rank |-> k.rank, op |-> ConfigMapOp(c, o, D[k.rank]),
                                name |-> D[k.rank].name]
                     \/ /\ k = [rank |-> Len(D) + 1, op |-> "delete", name |-> k.name]
                        /\ o[k.name] # Nil
                        /\ \A i \in DOMAIN c.spec.statefulEntities : D[i].name # k.name
               /\ \A i \in DOMAIN c.spec.statefulEntities : ConfigMapOp(c, o, D[i]) # "none" =>
                     \E k \in ConfigMapCalls(c, o) : k.name = D[i].name
<1> DEFINE D == getDesiredConfigMaps(c.spec)
<1>1. c.spec \in StoredSpecs
      BY DEF InvokerDeployment
<1>2. DOMAIN D = DOMAIN c.spec.statefulEntities
      BY <1>1, DesiredConfigMapType, SpecShape
<1>3. ConfigMapCalls(c, o) = {[rank |-> i, op |-> ConfigMapOp(c, o, D[i]), name |-> D[i].name] :
                           i \in {j \in DOMAIN D : ConfigMapOp(c, o, D[j]) # "none"}}
                       \cup LeftoverCalls(D, o)
      BY DEF ConfigMapCalls
<1>4. ASSUME NEW k \in LeftoverCalls(D, o)
      PROVE  /\ k = [rank |-> Len(D) + 1, op |-> "delete", name |-> k.name]
             /\ o[k.name] # Nil
             /\ \A i \in DOMAIN D : D[i].name # k.name
      BY DEF LeftoverCalls, Present, DesiredNames
<1> HIDE DEF D
<1>5. ASSUME NEW i \in DOMAIN D, ConfigMapOp(c, o, D[i]) # "none"
      PROVE  \E k \in ConfigMapCalls(c, o) : k.name = D[i].name
  <2>1. [rank |-> i, op |-> ConfigMapOp(c, o, D[i]), name |-> D[i].name] \in ConfigMapCalls(c, o)
        BY <1>3, <1>5
  <2> QED BY <2>1
<1>6. ASSUME NEW k \in ConfigMapCalls(c, o), k \notin LeftoverCalls(D, o)
      PROVE  /\ k.rank \in DOMAIN D
             /\ k.name = D[k.rank].name
             /\ k.op = ConfigMapOp(c, o, D[k.rank])
             /\ k = [rank |-> k.rank, op |-> ConfigMapOp(c, o, D[k.rank]), name |-> D[k.rank].name]
  <2>1. PICK i \in DOMAIN D : k = [rank |-> i, op |-> ConfigMapOp(c, o, D[i]), name |-> D[i].name]
        BY <1>3, <1>6
  <2> QED BY <2>1
<1> QED BY <1>2, <1>4, <1>5, <1>6 DEF D

-----------------------------------------------------------------------------
(* Steps that disturb little of PodsInv. *)

(* Steps of variables PodsInv does not mention.                              *)
LEMMA PodsFrame ==
    ASSUME PodsInv,
           UNCHANGED <<cr, pods, crCache, podCache, pc, observed, cmCalls, podCalls, uid>>
    PROVE  PodsInv'
  BY DEF PodsInv, Pristine, StoredPods, Intact, SamePods, CallsDistinct, CallsInformed

(* A pass that makes no more calls.                                          *)
LEMMA PodsPassOver ==
    ASSUME PodsInv, UNCHANGED <<cr, pods, crCache, podCache, uid>>,
           pc' = "idle" \/ (pc' = "syncing" /\ pc # "idle")
    PROVE  PodsInv'
<1>1. Pristine'
      BY DEF PodsInv, Pristine
<1>2. StoredPods(pods)' /\ StoredPods(podCache)' /\ SamePods'
      BY DEF PodsInv, StoredPods, SamePods, Intact
<1>3. CallsDistinct' /\ CallsInformed'
      BY DEF CallsDistinct, CallsInformed
<1> QED BY <1>1, <1>2, <1>3 DEF PodsInv

(* A new process starts from the latest objects.                             *)
LEMMA PodsRestart ==
    ASSUME PodsInv, UNCHANGED <<cr, pods, uid>>,
           pc' = "idle", crCache' = cr, podCache' = pods
    PROVE  PodsInv'
<1>1. Pristine'
      BY DEF PodsInv, Pristine
<1>2. StoredPods(pods)' /\ StoredPods(podCache)' /\ SamePods'
      BY DEF PodsInv, StoredPods, SamePods
<1>3. CallsDistinct' /\ CallsInformed'
      BY DEF CallsDistinct, CallsInformed
<1> QED BY <1>1, <1>2, <1>3 DEF PodsInv

(* A write of the resource, which never takes back its deletion.             *)
LEMMA PodsTouched ==
    ASSUME PodsInv,
           UNCHANGED <<pods, crCache, podCache, pc, observed, cmCalls, podCalls, uid>>,
           \/ cr' = Nil
           \/ /\ cr # Nil /\ cr'.uid = cr.uid /\ (cr.deleting => cr'.deleting)
              /\ cr'.foreground => cr.foreground \/ AllowForeground
    PROVE  PodsInv'
<1>1. Intact' => Intact
      BY DEF Intact
<1>2. Pristine'
      BY DEF PodsInv, Pristine
<1>3. StoredPods(pods)' /\ StoredPods(podCache)' /\ SamePods'
      BY <1>1 DEF PodsInv, StoredPods, SamePods
<1>4. CallsDistinct' /\ CallsInformed'
      BY <1>1 DEF PodsInv, CallsDistinct, CallsInformed
<1> QED BY <1>2, <1>3, <1>4 DEF PodsInv

(* The caches catch up.                                                      *)
LEMMA PodsSynced ==
    ASSUME PodsInv, UNCHANGED <<cr, pods, pc, observed, cmCalls, podCalls, uid>>,
           \/ crCache' = cr /\ podCache' = podCache
           \/ crCache' = crCache /\ podCache' = pods
    PROVE  PodsInv'
<1>1. Pristine'
      BY DEF PodsInv, Pristine
<1>2. StoredPods(pods)' /\ StoredPods(podCache)' /\ SamePods'
      BY DEF PodsInv, StoredPods, SamePods, Intact
<1>3. CallsDistinct' /\ CallsInformed'
      BY DEF PodsInv, CallsDistinct, CallsInformed, Intact
<1> QED BY <1>1, <1>2, <1>3 DEF PodsInv

(* A call on a ConfigMap.                                                    *)
LEMMA PodsConfigMapCall ==
    ASSUME PodsInv, UNCHANGED <<cr, pods, crCache, podCache, pc, observed, podCalls, uid>>,
           cmCalls' \in SUBSET cmCalls
    PROVE  PodsInv'
<1>1. Pristine'
      BY DEF PodsInv, Pristine
<1>2. StoredPods(pods)' /\ StoredPods(podCache)' /\ SamePods'
      BY DEF PodsInv, StoredPods, SamePods, Intact
<1>3. CallsDistinct' /\ CallsInformed'
      BY DEF PodsInv, CallsDistinct, CallsInformed, Intact
<1> QED BY <1>1, <1>2, <1>3 DEF PodsInv

-----------------------------------------------------------------------------
(* The cluster and the user. *)

(* A pod that is being terminated goes, or a pod changes in nothing the      *)
(* operator compares; once the collector may have a reason it may also be    *)
(* terminated.                                                               *)
LEMMA PodsMove ==
    ASSUME TypeOK, PodsInv, NEW p \in PodNames, NEW x,
           pods[p] # Nil, pods' = [pods EXCEPT ![p] = x],
           UNCHANGED <<cr, crCache, podCache, pc, observed, cmCalls, podCalls, uid>>,
           \/ x = Nil /\ pods[p].deleting
           \/ /\ x # Nil /\ x.entity = pods[p].entity /\ x.resources = pods[p].resources
              /\ x.owner = pods[p].owner
              /\ x.deleting = pods[p].deleting \/ (x.deleting /\ ~Intact)
    PROVE  PodsInv'
<1>1. pods \in [PodNames -> Pod \cup {Nil}] /\ podCalls \in SUBSET Calls(PodNames)
      BY DEF TypeOK, Table
<1>2. pods'[p] = x /\ \A q \in PodNames : q # p => pods'[q] = pods[q]
      BY <1>1
<1>3. Intact' <=> Intact
      BY DEF Intact
<1>4. Pristine'
      BY <1>1, <1>2 DEF PodsInv, Pristine
<1>5. StoredPods(pods)' /\ StoredPods(podCache)'
      BY <1>1, <1>2 DEF PodsInv, StoredPods
<1>6. SamePods'
      BY <1>1, <1>2, <1>3 DEF PodsInv, SamePods
<1>7. CallsDistinct'
      BY DEF PodsInv, CallsDistinct
<1>8. CallsInformed'
  <2> SUFFICES ASSUME pc = "acting", Intact, NEW c \in podCalls
               PROVE  /\ c.op = "create" => IF pods'[c.name] = Nil THEN podCache[c.name] = Nil
                                                                  ELSE ~pods'[c.name].deleting
                      /\ c.op # "create" => podCache[c.name] # Nil \/ pods'[c.name] = Nil
      BY <1>3 DEF CallsInformed
  <2>1. c.name \in PodNames
        BY <1>1 DEF Calls
  <2> QED BY <1>2, <2>1 DEF PodsInv, CallsInformed
<1> QED BY <1>4, <1>5, <1>6, <1>7, <1>8 DEF PodsInv

(* The one creation of the resource: there is nothing yet.                   *)
LEMMA PodsCreate ==
    ASSUME Tracked, TypeOK, PodsInv, CreateCR
    PROVE  PodsInv'
<1>1. uid = 0 /\ uid' = 1
      BY BoundsAssumption DEF CreateCR, Tracked, TypeOK
<1>2. PICK s \in Specs :
         cr' = [uid |-> uid + 1, spec |-> s, finalizer |-> FALSE,
                deleting |-> FALSE, foreground |-> FALSE, status |-> EmptyStatus]
      BY DEF CreateCR
<1>3. UNCHANGED <<pods, crCache, podCache, pc, observed, cmCalls, podCalls>>
      BY DEF CreateCR, pass
<1>4. cr'.uid = 1
      BY <1>1, <1>2
<1>5. ~cr'.foreground
      BY <1>2, Zenon
<1>6. pc = "idle" /\ \A p \in PodNames : pods[p] = Nil /\ podCache[p] = Nil
      BY <1>1 DEF PodsInv, Pristine
<1>7. Pristine'
      BY <1>1, <1>3, <1>4, <1>5, <1>6 DEF Pristine
<1>8. StoredPods(pods)' /\ StoredPods(podCache)' /\ SamePods'
      BY <1>3, <1>6 DEF StoredPods, SamePods
<1>9. CallsDistinct' /\ CallsInformed'
      BY <1>3, <1>6 DEF CallsDistinct, CallsInformed
<1> QED BY <1>7, <1>8, <1>9 DEF PodsInv

-----------------------------------------------------------------------------
(* The pass. *)

(* BeginReconcile: the calls are taken from what the pod cache shows.        *)
LEMMA PodsBegin ==
    ASSUME Tracked, TypeOK, OwnershipInv, PodsInv, BeginReconcile
    PROVE  PodsInv'
<1> USE NilAssumption
<1> DEFINE c == ObservedCR
           D == getDesiredStatefulEntities(crCache.spec)
           E == getDesiredConfigMaps(crCache.spec)
<1>1. /\ Managed(crCache) /\ crCache # Nil
      /\ pc' = "acting" /\ observed' = c
      /\ cmCalls' = ConfigMapCalls(c, cmCache) /\ podCalls' = PodCalls(c, podCache)
      /\ UNCHANGED <<cr, pods, crCache, podCache, uid>>
      BY DEF BeginReconcile, Managed, api, caches, env
<1>2. c \in InvokerDeployment /\ c.spec = crCache.spec /\ crCache.spec \in Specs
      BY <1>1, ObservedType, CanonicalForm DEF InvokerDeployment, Tracked
<1>3. cr # Nil
      BY <1>1 DEF OwnershipInv, CopiesHeld
<1>4. /\ podCache \in Table(PodNames, Pod) /\ cmCache \in Table(EntityNames, ConfigMap)
      /\ pods \in Table(PodNames, Pod)
      BY DEF TypeOK
<1> HIDE DEF c
<1>5. \A k \in PodCalls(c, podCache) :
         \/ /\ k.rank \in DOMAIN crCache.spec.pods
            /\ k.name = D[k.rank].name
            /\ k.op = PodOp(c, podCache, D[k.rank])
            /\ k = [rank |-> k.rank, op |-> PodOp(c, podCache, D[k.rank]), name |-> D[k.rank].name]
         \/ /\ k = [rank |-> Len(D) + 1, op |-> "delete", name |-> k.name]
            /\ podCache[k.name] # Nil
            /\ \A i \in DOMAIN crCache.spec.pods : D[i].name # k.name
      BY <1>2, <1>4, PodCallsShape
<1>6. \A k \in ConfigMapCalls(c, cmCache) :
         \/ /\ k.rank \in DOMAIN crCache.spec.statefulEntities
            /\ k.name = E[k.rank].name
            /\ k.op = ConfigMapOp(c, cmCache, E[k.rank])
            /\ k = [rank |-> k.rank, op |-> ConfigMapOp(c, cmCache, E[k.rank]), name |-> E[k.rank].name]
         \/ /\ k = [rank |-> Len(E) + 1, op |-> "delete", name |-> k.name]
            /\ cmCache[k.name] # Nil
            /\ \A i \in DOMAIN crCache.spec.statefulEntities : E[i].name # k.name
      BY <1>2, <1>4, ConfigMapCallsShape
<1>7. /\ \A i, j \in DOMAIN crCache.spec.pods : D[i].name = D[j].name => i = j
      /\ \A i, j \in DOMAIN crCache.spec.statefulEntities : E[i].name = E[j].name => i = j
      BY <1>2, DesiredUnique DEF StoredSpecs
<1>8. \A i \in DOMAIN crCache.spec.pods :
          /\ D[i].name \in PodNames
          /\ \A e : AtHome(D[i].name, e) => D[i].entity = e
  <2>1. crCache.spec \in StoredSpecs
        BY <1>2 DEF StoredSpecs
  <2> QED BY <1>2, <2>1, DesiredPodType, DesiredAtHome DEF Tracked
<1> HIDE DEF D, E
<1>9. \A i \in DOMAIN crCache.spec.pods :
          podCache[D[i].name] # Nil => podCache[D[i].name].entity = D[i].entity
      BY <1>8 DEF PodsInv, StoredPods
<1>10. Pristine'
       BY <1>1, <1>3 DEF PodsInv, Pristine
<1>11. StoredPods(pods)' /\ StoredPods(podCache)' /\ SamePods'
       BY <1>1 DEF PodsInv, StoredPods, SamePods, Intact
<1>12. CallsDistinct'
  <2>1. \A k, l \in PodCalls(c, podCache) : k.name = l.name => k = l
        BY <1>5, <1>7
  <2>2. \A k, l \in ConfigMapCalls(c, cmCache) : k.name = l.name => k = l
        BY <1>6, <1>7
  <2>3. ASSUME NEW k \in PodCalls(c, podCache), k.op = "create"
        PROVE  D[k.rank].name = k.name
    <3>1. k # [rank |-> Len(D) + 1, op |-> "delete", name |-> k.name]
          BY <2>3
    <3> QED BY <1>5, <3>1
  <2>4. ASSUME NEW k \in ConfigMapCalls(c, cmCache), k.op # "delete"
        PROVE  E[k.rank].name = k.name
    <3>1. k # [rank |-> Len(E) + 1, op |-> "delete", name |-> k.name]
          BY <2>4
    <3> QED BY <1>6, <3>1
  <2> QED BY <1>1, <1>2, <2>1, <2>2, <2>3, <2>4 DEF CallsDistinct, D, E
<1>13. CallsInformed'
  <2>1. ASSUME NEW k \in PodCalls(c, podCache), k.op = "create"
        PROVE  k.name \in PodNames /\ podCache[k.name] = Nil
    <3>1. k # [rank |-> Len(D) + 1, op |-> "delete", name |-> k.name]
          BY <2>1
    <3>2. /\ k.rank \in DOMAIN crCache.spec.pods /\ k.name = D[k.rank].name
          /\ PodOp(c, podCache, D[k.rank]) = "create"
          BY <1>5, <2>1, <3>1
    <3>3. ObservedPod(podCache, D[k.rank]) = Nil
          BY <3>2 DEF PodOp
    <3> QED BY <1>8, <1>9, <3>2, <3>3 DEF ObservedPod
  <2>2. ASSUME NEW k \in PodCalls(c, podCache), k.op # "create"
        PROVE  podCache[k.name] # Nil
    <3>1. CASE /\ k.rank \in DOMAIN crCache.spec.pods /\ k.name = D[k.rank].name
               /\ k.op = PodOp(c, podCache, D[k.rank])
          BY <2>2, <3>1 DEF PodOp, ObservedPod
    <3> QED BY <1>5, <3>1
  <2>3. Intact => \A k \in PodCalls(c, podCache) :
           k.op = "create" /\ pods[k.name] # Nil => ~pods[k.name].deleting
        BY <2>1 DEF PodsInv, SamePods
  <2> QED BY <1>1, <2>1, <2>2, <2>3 DEF CallsInformed, Intact
<1> QED BY <1>10, <1>11, <1>12, <1>13 DEF PodsInv

(* A call on a pod that reached the API server, whether or not the pass      *)
(* learned of it: a pod is created only where the cache shows none, and what *)
(* is deleted keeps all that is compared.                                    *)
LEMMA PodsCall ==
    ASSUME Tracked, TypeOK, OwnershipInv, PodsInv, pc = "acting", NEW c \in podCalls,
           PodAccepts(c), pods' = PodsAfter(c),
           UNCHANGED <<cr, crCache, podCache, observed, uid>>,
           \/ pc' = pc /\ podCalls' = podCalls \ {c} /\ cmCalls' = cmCalls
           \/ pc' = "syncing"
    PROVE  PodsInv'
<1> USE NilAssumption
<1> DEFINE D == getDesiredStatefulEntities(observed.spec)
<1>1. /\ observed \in InvokerDeployment /\ c.name \in PodNames
      /\ observed.spec \in StoredSpecs /\ observed.spec \in Specs
      BY CanonicalForm DEF TypeOK, InvokerDeployment, Calls, Tracked
<1>2. cr # Nil /\ cr.uid = observed.uid /\ cr.uid = 1
      BY DEF OwnershipInv, OwnerHeld, PodsInv, Pristine
<1>3. pods \in [PodNames -> Pod \cup {Nil}]
      BY DEF TypeOK, Table
<1>4. \A n \in PodNames : n # c.name => pods'[n] = pods[n]
      BY <1>1, <1>3 DEF PodsAfter
<1>5. Intact' <=> Intact
      BY DEF Intact
<1> DEFINE Fine == pods'[c.name] # Nil =>
                        /\ pods'[c.name].owner = 1
                        /\ AtHome(c.name, pods'[c.name].entity)
                        /\ IsDefaulted(pods'[c.name].resources)
                        /\ Intact =>
                              IF podCache[c.name] = Nil THEN ~pods'[c.name].deleting
                              ELSE /\ pods'[c.name].entity = podCache[c.name].entity
                                   /\ pods'[c.name].resources = podCache[c.name].resources
<1>6. ASSUME c.op = "create" PROVE Fine
  <2>1. c.rank \in DOMAIN observed.spec.pods /\ D[c.rank].name = c.name
        BY <1>1, <1>6, DesiredPodType, SpecShape DEF TypeOK, PodsInv, CallsDistinct
  <2>2. Intact => podCache[c.name] = Nil
        BY <1>6 DEF PodAccepts, PodsInv, CallsInformed
  <2>3. pods'[c.name] = NewPod(D[c.rank])
        BY <1>1, <1>3, <1>6 DEF PodsAfter
  <2>4. /\ ~pods'[c.name].deleting /\ pods'[c.name].owner = 1
        /\ pods'[c.name].entity = D[c.rank].entity
        /\ pods'[c.name].resources = ApiDefaulted(ResourcesRoundTrip(D[c.rank].resources))
    <3>1. /\ NewPod(D[c.rank]).owner = observed.uid
          /\ NewPod(D[c.rank]).entity = D[c.rank].entity
          /\ NewPod(D[c.rank]).resources = ApiDefaulted(ResourcesRoundTrip(D[c.rank].resources))
          BY DEF NewPod
    <3>2. ~NewPod(D[c.rank]).deleting
          BY Zenon DEF NewPod
    <3> QED BY <1>2, <2>3, <3>1, <3>2
  <2>5. /\ AtHome(c.name, D[c.rank].entity)
        /\ IsDefaulted(ApiDefaulted(ResourcesRoundTrip(D[c.rank].resources)))
        BY <1>1, <2>1, DesiredAtHome, DesiredPodType, ResourcesRoundTripType, StoredIsDefaulted
        DEF Tracked
  <2> HIDE DEF D
  <2> QED BY <2>2, <2>4, <2>5
<1>7. ASSUME c.op # "create" PROVE Fine
  <2>1. CASE pods[c.name] = Nil
        BY <1>1, <1>3, <1>7, <2>1 DEF PodsAfter
  <2>2. CASE pods[c.name] # Nil
    <3>1. pods[c.name] \in Pod /\ pods'[c.name] = [pods[c.name] EXCEPT !.deleting = TRUE]
          BY <1>1, <1>3, <1>7, <2>2 DEF PodsAfter
    <3>2. /\ pods'[c.name].owner = pods[c.name].owner
          /\ pods'[c.name].entity = pods[c.name].entity
          /\ pods'[c.name].resources = pods[c.name].resources
          BY <3>1 DEF Pod
    <3>3. Intact => podCache[c.name] # Nil
          BY <1>7, <2>2 DEF PodsInv, CallsInformed
    <3>4. /\ pods[c.name].owner = 1 /\ AtHome(c.name, pods[c.name].entity)
          /\ IsDefaulted(pods[c.name].resources)
          /\ Intact => /\ pods[c.name].entity = podCache[c.name].entity
                       /\ pods[c.name].resources = podCache[c.name].resources
          BY <1>1, <2>2, <3>3 DEF PodsInv, Pristine, StoredPods, SamePods
    <3> QED BY <3>2, <3>3, <3>4
  <2> QED BY <2>1, <2>2
<1>8. Fine
      BY <1>6, <1>7
<1> HIDE DEF D
<1>9. Pristine'
      BY <1>2, <1>4, <1>8 DEF PodsInv, Pristine
<1>10. StoredPods(pods)' /\ StoredPods(podCache)'
       BY <1>4, <1>8 DEF PodsInv, StoredPods
<1>11. SamePods'
       BY <1>4, <1>5, <1>8 DEF PodsInv, SamePods
<1>12. CallsDistinct'
       BY DEF PodsInv, CallsDistinct
<1>13. CallsInformed'
  <2> SUFFICES ASSUME pc' = pc, Intact, podCalls' = podCalls \ {c},
                      NEW k \in podCalls, k # c
               PROVE  /\ k.op = "create" => IF pods'[k.name] = Nil THEN podCache[k.name] = Nil
                                                                  ELSE ~pods'[k.name].deleting
                      /\ k.op # "create" => podCache[k.name] # Nil \/ pods'[k.name] = Nil
      BY <1>5 DEF CallsInformed
  <2>1. k.name # c.name
        BY DEF PodsInv, CallsDistinct
  <2>2. pods'[k.name] = pods[k.name]
        BY <1>4, <2>1 DEF TypeOK, Calls
  <2> QED BY <2>2 DEF PodsInv, CallsInformed
<1> QED BY <1>9, <1>10, <1>11, <1>12, <1>13 DEF PodsInv

-----------------------------------------------------------------------------
(* Every step keeps PodsInv. *)

(* The writes of the resource.                                               *)
LEMMA ResourceWrites ==
    ASSUME TypeOK, OwnershipInv,
           \/ AddFinalizer \/ RemoveFinalizer \/ UpdateStatus \/ EditCR \/ DeleteCR
           \/ CollectCR \/ UpdateCurrentRevision
    PROVE  \/ cr' = Nil \/ UNCHANGED cr
           \/ /\ cr # Nil /\ cr'.uid = cr.uid /\ (cr.deleting => cr'.deleting)
              /\ cr'.foreground => cr.foreground \/ AllowForeground
<1> USE NilAssumption
<1>1. CASE AddFinalizer
  <2>1. CASE crSynced /\ ~crCache.deleting
    <3>1. /\ crCache = cr /\ crCache # Nil /\ cr \in InvokerDeployment
          /\ cr' = [cr EXCEPT !.finalizer = TRUE, !.spec = RoundTrip(cr.spec)]
          BY <1>1, <2>1 DEF AddFinalizer, WriteCR, OwnershipInv, WritesLatest, LatestCopies, TypeOK
    <3>2. cr'.uid = cr.uid /\ cr'.deleting = cr.deleting /\ cr'.foreground = cr.foreground
          BY <3>1 DEF InvokerDeployment
    <3> QED BY <3>1, <3>2
  <2>2. CASE ~crSynced \/ crCache.deleting
        BY <1>1, <2>2 DEF AddFinalizer, WriteCR
  <2> QED BY <2>1, <2>2
<1>2. CASE RemoveFinalizer
  <2>1. CASE crSynced /\ crCache.foreground
    <3>1. /\ crCache = cr /\ cr \in InvokerDeployment /\ cr # Nil
          /\ cr' = [cr EXCEPT !.finalizer = FALSE, !.spec = RoundTrip(cr.spec)]
          BY <1>2, <2>1 DEF RemoveFinalizer, WriteCR, OwnershipInv, WritesLatest, LatestCopies, TypeOK
    <3>2. cr'.uid = cr.uid /\ cr'.deleting = cr.deleting /\ cr'.foreground = cr.foreground
          BY <3>1, ReleasedType
    <3> QED BY <3>1, <3>2
  <2>2. CASE ~(crSynced /\ crCache.foreground)
        BY <1>2, <2>2 DEF RemoveFinalizer, WriteCR
  <2> QED BY <2>1, <2>2
<1>3. CASE UpdateStatus
  <2>1. CASE crSynced
    <3>1. /\ crCache = cr /\ crCache # Nil /\ cr \in InvokerDeployment
          /\ cr' = [cr EXCEPT !.status = NewStatus]
          BY <1>3, <2>1 DEF UpdateStatus, WriteCR, OwnershipInv, WritesLatest, LatestCopies, TypeOK, Managed
    <3>2. cr'.uid = cr.uid /\ cr'.deleting = cr.deleting /\ cr'.foreground = cr.foreground
          BY <3>1 DEF InvokerDeployment
    <3> QED BY <3>1, <3>2
  <2>2. CASE ~crSynced
        BY <1>3, <2>2 DEF UpdateStatus, WriteCR
  <2> QED BY <2>1, <2>2
<1>4. CASE EditCR
  <2>1. PICK s \in Specs : cr' = [cr EXCEPT !.spec = s]
        BY <1>4 DEF EditCR
  <2>2. cr # Nil /\ cr \in InvokerDeployment
        BY <1>4 DEF EditCR, TypeOK
  <2>3. cr'.uid = cr.uid /\ cr'.deleting = cr.deleting /\ cr'.foreground = cr.foreground
        BY <2>1, <2>2 DEF InvokerDeployment
  <2> QED BY <2>2, <2>3
<1>5. CASE DeleteCR
  <2>1. PICK f \in {FALSE, AllowForeground} :
           cr' = IF cr.finalizer \/ f
                 THEN [cr EXCEPT !.deleting = TRUE, !.foreground = f] ELSE Nil
        BY <1>5 DEF DeleteCR
  <2>2. cr # Nil /\ cr \in InvokerDeployment /\ ~cr.deleting
        BY <1>5 DEF DeleteCR, TypeOK
  <2>3. cr' = Nil \/ cr' = [cr EXCEPT !.deleting = TRUE, !.foreground = f]
        BY <2>1
  <2>4. CASE cr' = [cr EXCEPT !.deleting = TRUE, !.foreground = f]
    <3>1. cr'.uid = cr.uid /\ cr'.foreground = f
          BY <2>2, <2>4 DEF InvokerDeployment
    <3>2. f = FALSE \/ f = AllowForeground
          OBVIOUS
    <3>3. cr'.foreground => AllowForeground
          BY <3>1, <3>2, Zenon
    <3> QED BY <2>2, <3>1, <3>3
  <2> QED BY <2>3, <2>4
<1>6. CASE CollectCR
      BY <1>6, CollectedType DEF TypeOK
<1>7. CASE UpdateCurrentRevision
  <2>1. CASE fresh
    <3>1. /\ pc = "acting" /\ observed \in InvokerDeployment
          /\ cr' = [observed EXCEPT !.status.currentRevision = observed.status.nextRevision]
          BY <1>7, <2>1 DEF UpdateCurrentRevision, WriteCR, TypeOK
    <3>2. /\ cr # Nil /\ cr.uid = observed.uid /\ cr.deleting = observed.deleting
          /\ cr.foreground = observed.foreground
          BY <2>1, <3>1 DEF OwnershipInv, WritesLatest, LatestCopies, PassAdopted, CopiesHeld
    <3>3. /\ cr'.uid = observed.uid /\ cr'.deleting = observed.deleting
          /\ cr'.foreground = observed.foreground
          BY <3>1 DEF InvokerDeployment
    <3> QED BY <3>2, <3>3
  <2>2. CASE ~fresh
        BY <1>7, <2>2 DEF UpdateCurrentRevision, WriteCR
  <2> QED BY <2>1, <2>2
<1> QED BY <1>1, <1>2, <1>3, <1>4, <1>5, <1>6, <1>7

(* What the kubelet, an eviction for lack of resources and the garbage       *)
(* collector do to a pod.                                                    *)
LEMMA PodEvents ==
    ASSUME TypeOK, OwnershipInv, Pristine, NEW p \in PodNames,
           PodFailed(p) \/ KubeletStart(p) \/ KubeletStop(p) \/ CollectPod(p)
    PROVE  /\ pods[p] # Nil
           /\ \E x : /\ pods' = [pods EXCEPT ![p] = x]
                     /\ \/ x = Nil /\ pods[p].deleting
                        \/ /\ x # Nil /\ x.entity = pods[p].entity
                           /\ x.resources = pods[p].resources /\ x.owner = pods[p].owner
                           /\ \/ x.deleting = pods[p].deleting
                              \/ x.deleting /\ ~Intact
<1> USE NilAssumption
<1>1. pods[p] # Nil
      BY DEF PodFailed, KubeletStart, KubeletStop, CollectPod, Collectable
<1>2. pods \in [PodNames -> Pod \cup {Nil}] /\ pods[p] \in Pod
      BY <1>1 DEF TypeOK, Table
<1>3. CASE KubeletStop(p)
      BY <1>1, <1>3 DEF KubeletStop
<1>4. CASE PodFailed(p) \/ KubeletStart(p)
  <2>1. PICK ph \in PodPhases : pods' = [pods EXCEPT ![p].phase = ph]
        BY <1>4 DEF PodFailed, KubeletStart, PodPhases
  <2> DEFINE x == [pods[p] EXCEPT !.phase = ph]
  <2>2. pods' = [pods EXCEPT ![p] = x]
        BY <2>1
  <2>3. /\ x \in Pod /\ x.entity = pods[p].entity /\ x.resources = pods[p].resources
        /\ x.owner = pods[p].owner /\ x.deleting = pods[p].deleting
        BY <1>2 DEF Pod
  <2> HIDE DEF x
  <2> QED BY <1>1, <2>2, <2>3
<1>5. CASE CollectPod(p)
  <2>1. cr # Nil => cr.foreground
        BY <1>1, <1>5 DEF CollectPod, Collectable, Owned, Pristine
  <2>2. ~Intact
        BY <2>1 DEF Intact, Pristine, OwnershipInv, WritesLatest, ForegroundDeletes
  <2> DEFINE x == [pods[p] EXCEPT !.deleting = TRUE]
  <2>3. pods' = [pods EXCEPT ![p] = x]
        BY <1>5 DEF CollectPod
  <2>4. /\ x \in Pod /\ x.entity = pods[p].entity /\ x.resources = pods[p].resources
        /\ x.owner = pods[p].owner /\ x.deleting
        BY <1>2 DEF Pod
  <2> HIDE DEF x
  <2> QED BY <1>1, <2>2, <2>3, <2>4
<1> QED BY <1>3, <1>4, <1>5

(* Every step keeps PodsInv.                                                 *)
LEMMA PodsStep ==
    ASSUME Tracked, TypeOK, OwnershipInv, PodsInv, [Next]_vars
    PROVE  PodsInv'
<1>1. CASE PassNoCR \/ SyncConfigMaps \/ SyncRevisionCache \/ Resync \/ UNCHANGED vars
      BY <1>1, PodsFrame DEF PassNoCR, SyncConfigMaps, SyncRevisionCache, Resync,
                             vars, api, caches, pass, env
<1>2. ASSUME NEW n, CollectRevision(n) \/ CollectConfigMap(n) PROVE PodsInv'
      BY <1>2, PodsFrame DEF CollectRevision, CollectConfigMap, caches, pass, env
<1>3. CASE AddFinalizer \/ RemoveFinalizer \/ UpdateStatus \/ EditCR \/ DeleteCR \/ CollectCR
  <2>1. UNCHANGED <<pods, crCache, podCache, pc, observed, cmCalls, podCalls, uid>>
        BY <1>3 DEF AddFinalizer, RemoveFinalizer, UpdateStatus, EditCR, DeleteCR, CollectCR,
                    pass, env
  <2> QED BY <1>3, <2>1, ResourceWrites, PodsTouched, PodsFrame
<1>4. CASE BeginReconcile
      BY <1>4, PodsBegin
<1>5. CASE ConfigMapCall
      BY <1>5, PodsConfigMapCall, PodsPassOver DEF ConfigMapCall, AbandonReconcile, caches, env
<1>6. CASE FailConfigMapCall \/ FailCurrentRevision
      BY <1>6, PodsPassOver DEF FailConfigMapCall, FailCurrentRevision, AbandonReconcile,
                                api, caches
<1>7. CASE PodCall
  <2>1. PICK c \in podCalls :
           \/ /\ PodAccepts(c) /\ pods' = PodsAfter(c)
              /\ podCalls' = podCalls \ {c} /\ UNCHANGED <<pc, cmCalls>>
           \/ AbandonReconcile /\ UNCHANGED pods
        BY <1>7 DEF PodCall, NextCalls
  <2>2. pc = "acting" /\ UNCHANGED <<cr, crCache, podCache, observed, uid>>
        BY <1>7 DEF PodCall, caches, env
  <2>3. CASE /\ PodAccepts(c) /\ pods' = PodsAfter(c)
             /\ podCalls' = podCalls \ {c} /\ UNCHANGED <<pc, cmCalls>>
        BY <2>2, <2>3, PodsCall
  <2>4. CASE AbandonReconcile /\ UNCHANGED pods
        BY <2>2, <2>4, PodsPassOver DEF AbandonReconcile
  <2> QED BY <2>1, <2>3, <2>4
<1>8. CASE FailPodCall
  <2>1. PICK c \in podCalls : UNCHANGED pods \/ (PodAccepts(c) /\ pods' = PodsAfter(c))
        BY <1>8 DEF FailPodCall, NextCalls
  <2>2. /\ pc = "acting" /\ pc' = "syncing"
        /\ UNCHANGED <<cr, crCache, podCache, observed, uid>>
        BY <1>8 DEF FailPodCall, AbandonReconcile, caches
  <2> QED BY <2>1, <2>2, PodsCall, PodsPassOver
<1>9. CASE UpdateCurrentRevision
  <2>1. /\ pc = "acting" /\ pc' = "syncing" /\ cmCalls' = {} /\ podCalls' = {}
        /\ cmCalls = {} /\ podCalls = {}
        /\ UNCHANGED <<pods, crCache, podCache, observed, uid>>
        BY <1>9 DEF UpdateCurrentRevision, AbandonReconcile, env
  <2>2. UNCHANGED cr \/ Pristine'
        BY <1>9, <2>1, ResourceWrites DEF PodsInv, Pristine
  <2>3. Intact' => Intact
        BY <1>9, ResourceWrites DEF Intact
  <2>4. UNCHANGED cr => Pristine'
        BY <2>1 DEF PodsInv, Pristine
  <2>5. StoredPods(pods)' /\ StoredPods(podCache)' /\ SamePods'
        BY <2>1, <2>3 DEF PodsInv, StoredPods, SamePods
  <2>6. CallsDistinct' /\ CallsInformed'
        BY <2>1 DEF CallsDistinct, CallsInformed
  <2> QED BY <2>2, <2>4, <2>5, <2>6 DEF PodsInv
<1>10. CASE SyncRevisionsFails \/ FailSyncRevisions
       BY <1>10, PodsPassOver DEF SyncRevisionsFails, FailSyncRevisions, EndPass, api, caches, env
<1>11. CASE SyncRevisions
  <2>1. CASE observed.spec.historyLimit = Nil
        BY <1>11, <2>1, PodsRestart DEF SyncRevisions, Restart, EndPass, env
  <2>2. CASE observed.spec.historyLimit # Nil
        BY <1>11, <2>2, PodsPassOver DEF SyncRevisions, EndPass, caches, env
  <2> QED BY <2>1, <2>2
<1>12. CASE Crash
       BY <1>12, PodsRestart DEF Crash, Restart, EndPass, api
<1>13. ASSUME NEW p \in PodNames PROVE ~PodGone(p)
       BY DEF PodGone, Fault, Tracked
<1>14. ASSUME NEW p \in PodNames,
              PodFailed(p) \/ KubeletStart(p) \/ KubeletStop(p) \/ CollectPod(p)
       PROVE  PodsInv'
  <2>1. UNCHANGED <<cr, crCache, podCache, pc, observed, cmCalls, podCalls, uid>>
        BY <1>14 DEF PodFailed, KubeletStart, KubeletStop, CollectPod, caches, pass, env
  <2> QED BY <1>14, <2>1, PodEvents, PodsMove DEF PodsInv
<1>15. CASE CreateCR
       BY <1>15, PodsCreate
<1>16. CASE SyncCR \/ SyncPods
       BY <1>16, PodsSynced DEF SyncCR, SyncPods, api, caches, pass, env
<1> QED
    BY <1>1, <1>2, <1>3, <1>4, <1>5, <1>6, <1>7, <1>8, <1>9, <1>10, <1>11, <1>12, <1>13,
       <1>14, <1>15, <1>16
    DEF Next, Worker, Disturb, Failures, User, Informers, Cluster

(* Nothing exists yet.                                                       *)
LEMMA PodsInit == Init => PodsInv
  BY DEF Init, PodsInv, Pristine, StoredPods, SamePods, Intact, CallsDistinct, CallsInformed

(* The pod cache is late but never wrong: while the garbage collector has no *)
(* reason to act, a cached pod and the stored pod of its name have the same  *)
(* entity and resources, and a call of a pass meets the pod it was meant for *)
(* - although reconciler.reconcile deletes by name, without a uid.           *)
THEOREM PodsTracked == ASSUME Tracked PROVE Spec => []PodsInv
<1>1. Spec => []TypeOK
      BY TypeCorrect
<1>2. Spec => []OwnershipInv
      BY OwnershipHolds
<1>3. TypeOK /\ OwnershipInv /\ PodsInv /\ [Next]_vars => PodsInv'
      BY PodsStep
<1> QED BY <1>1, <1>2, <1>3, PodsInit, PTL DEF Spec

-----------------------------------------------------------------------------
(* Deletions of pods are justified. *)

(* To needToRestartPod, what the API server makes of a desired pod with      *)
(* whole requests is that pod.                                               *)
LEMMA DefaultedIsSame ==
    ASSUME NEW d \in ResourceRequirements, d.requests # Nil => IsDefaulted(d)
    PROVE  RequestsOrLimits(ApiDefaulted(d)) = RequestsOrLimits(d)
<1>1. d = [requests |-> d.requests, limits |-> d.limits]
      BY DEF ResourceRequirements
<1>2. CASE d.limits = Nil
      BY <1>2 DEF ApiDefaulted
<1>3. CASE d.limits # Nil
  <2> DEFINE requested == IF d.requests = Nil THEN {} ELSE DOMAIN d.requests
             f == [k \in requested \cup DOMAIN d.limits |->
                     IF k \in requested THEN d.requests[k] ELSE d.limits[k]]
  <2>1. ApiDefaulted(d) = [d EXCEPT !.requests = f]
        BY <1>3 DEF ApiDefaulted
  <2>2. \A g \in ResourceLists : g = [k \in DOMAIN g |-> g[k]]
        BY DEF ResourceLists
  <2>3. d.limits \in ResourceLists /\ (d.requests # Nil => d.requests \in ResourceLists)
        BY <1>3 DEF ResourceRequirements
  <2>4. Nil \notin ResourceLists
        BY NilAssumption
  <2>5. f = IF d.requests = Nil THEN d.limits ELSE d.requests
    <3>1. CASE d.requests = Nil
      <4>1. f = [k \in DOMAIN d.limits |-> d.limits[k]]
            BY <3>1
      <4> QED BY <2>2, <2>3, <3>1, <4>1
    <3>2. CASE d.requests # Nil
      <4>1. requested = DOMAIN d.requests /\ DOMAIN d.limits \subseteq requested
            BY <1>3, <3>2 DEF IsDefaulted
      <4>2. f = [k \in DOMAIN d.requests |-> d.requests[k]]
            BY <4>1
      <4> QED BY <2>2, <2>3, <3>2, <4>2
    <3> QED BY <3>1, <3>2
  <2> HIDE DEF f
  <2>6. ApiDefaulted(d) = [requests |-> f, limits |-> d.limits]
        BY <1>1, <2>1
  <2>7. f # Nil
        BY <1>3, <2>3, <2>4, <2>5
  <2>8. RequestsOrLimits(ApiDefaulted(d)) = [requests |-> f, limits |-> d.limits]
        BY <2>6, <2>7 DEF RequestsOrLimits
  <2>9. RequestsOrLimits(d) = [requests |-> f, limits |-> d.limits]
    <3>1. CASE d.requests = Nil
          BY <1>1, <2>5, <3>1 DEF RequestsOrLimits
    <3>2. CASE d.requests # Nil
          BY <1>1, <2>5, <3>2 DEF RequestsOrLimits
    <3> QED BY <3>1, <3>2
  <2> QED BY <2>8, <2>9
<1> QED BY <1>2, <1>3

(* BeginReconcile: a pod is up for deletion if it is not desired, or if its  *)
(* resources, which the cache shows truly, are not the desired ones.         *)
LEMMA JustifiedBegin ==
    ASSUME Tracked, WholeRequests, TypeOK, OwnershipInv, PodsInv, BeginReconcile
    PROVE  DeletesJustified'
<1> USE NilAssumption
<1> DEFINE c == ObservedCR
           D == getDesiredStatefulEntities(crCache.spec)
<1>1. /\ Managed(crCache) /\ crCache # Nil
      /\ observed' = c /\ podCalls' = PodCalls(c, podCache)
      /\ UNCHANGED <<cr, pods>>
      BY DEF BeginReconcile, Managed, api
<1>2. c \in InvokerDeployment /\ c.spec = crCache.spec /\ crCache.spec \in Specs
      BY <1>1, ObservedType, CanonicalForm DEF InvokerDeployment, Tracked
<1>3. podCache \in Table(PodNames, Pod)
      BY DEF TypeOK
<1> HIDE DEF c
<1>4. \A k \in PodCalls(c, podCache) :
         \/ /\ k.rank \in DOMAIN crCache.spec.pods
            /\ k.name = D[k.rank].name
            /\ k.op = PodOp(c, podCache, D[k.rank])
         \/ \A i \in DOMAIN crCache.spec.pods : D[i].name # k.name
      BY <1>2, <1>3, PodCallsShape
<1>5. \A i, j \in DOMAIN crCache.spec.pods : D[i].name = D[j].name => i = j
      BY <1>2, DesiredUnique DEF StoredSpecs
<1>6. \A i \in DOMAIN crCache.spec.pods :
          /\ D[i].name \in PodNames /\ D[i].resources \in ResourceRequirements
          /\ ResourcesRoundTrip(D[i].resources) = D[i].resources
          /\ RequestsOrLimits(ApiDefaulted(D[i].resources)) = RequestsOrLimits(D[i].resources)
  <2>1. crCache.spec \in StoredSpecs
        BY <1>2 DEF StoredSpecs
  <2>2. \A i \in DOMAIN crCache.spec.pods : D[i].resources = crCache.spec.pods[i].resources
        BY <2>1, SpecShape DEF getDesiredStatefulEntities
  <2>3. \A i \in DOMAIN crCache.spec.pods :
           D[i].resources.requests # Nil => IsDefaulted(D[i].resources)
        BY <1>2, <2>2 DEF WholeRequests
  <2> QED BY <1>2, <2>1, <2>3, DesiredPodType, DefaultedIsSame, CanonicalForm DEF Tracked
<1> HIDE DEF D
<1>7. ASSUME Intact, NEW k \in PodCalls(c, podCache), k.op # "create",
             pods[k.name] # Nil,
             NEW i \in DOMAIN crCache.spec.pods, D[i].name = k.name,
             Matches(pods[k.name], D[i])
      PROVE  FALSE
  <2>1. k.rank = i /\ PodOp(c, podCache, D[i]) = k.op
        BY <1>4, <1>5, <1>7
  <2>2. podCache[k.name] # Nil
        BY <1>7, <2>1 DEF PodOp, ObservedPod
  <2>3. k.op = "none" \/ needToRestartPod(D[i], podCache[k.name])
        BY <1>7, <2>1 DEF PodOp, ObservedPod
  <2>4. k.op # "none"
    <3>1. PodCalls(c, podCache) \in SUBSET Calls(PodNames)
          BY <1>2, <1>3, PodCallsType
    <3> QED BY <1>7, <3>1 DEF Calls
  <2>5. pods[k.name].resources = podCache[k.name].resources
        BY <1>6, <1>7, <2>2 DEF PodsInv, SamePods
  <2> QED BY <1>6, <1>7, <2>3, <2>4, <2>5 DEF needToRestartPod, Matches
<1>8. Intact' <=> Intact
      BY <1>1 DEF Intact
<1>9. ASSUME Intact, NEW k \in PodCalls(c, podCache), k.op # "create", pods[k.name] # Nil
      PROVE  ~\E i \in DOMAIN crCache.spec.pods : D[i].name = k.name /\ Matches(pods[k.name], D[i])
      BY <1>7, <1>9
<1> QED BY <1>1, <1>2, <1>8, <1>9 DEF DeletesJustified, DesiredAsIs, Matches, D

-----------------------------------------------------------------------------
(* What a step does to the pods and to the calls on them.                    *)

(* The pass does not go on, and pods stay.                                   *)
PassEnds == pc' # "acting" /\ UNCHANGED pods

(* A step of something else.                                                 *)
Elsewhere == UNCHANGED <<pods, pc, observed, podCalls>> /\ (Intact' => Intact)

(* A pod goes or is terminated, or changes in nothing that is compared.      *)
PodBecomes(p, x) ==
    /\ pods[p] # Nil /\ pods' = [pods EXCEPT ![p] = x]
    /\ \/ x = Nil
       \/ x.entity = pods[p].entity /\ x.resources = pods[p].resources
          /\ (x.deleting = pods[p].deleting \/ x.deleting)

PodChanges ==
    /\ UNCHANGED <<cr, pc, observed, podCalls>>
    /\ \E p \in PodNames : \E x : PodBecomes(p, x)

(* A call of the pass reaches its pod.                                       *)
PodCalled ==
    /\ pc = "acting" /\ UNCHANGED <<cr, observed>>
    /\ \E c \in podCalls : /\ PodAccepts(c) /\ pods' = PodsAfter(c)
                           /\ \/ pc' = pc /\ podCalls' = podCalls \ {c}
                              \/ pc' = "syncing"

(* Every step is one of these or starts a pass.                              *)
LEMMA PodSteps ==
    ASSUME Tracked, TypeOK, OwnershipInv, PodsInv, [Next]_vars
    PROVE  BeginReconcile \/ PassEnds \/ Elsewhere \/ PodChanges \/ PodCalled
<1>1. CASE PassNoCR \/ SyncConfigMaps \/ SyncRevisionCache \/ Resync \/ UNCHANGED vars
           \/ SyncCR \/ SyncPods
      BY <1>1 DEF PassNoCR, SyncConfigMaps, SyncRevisionCache, Resync, SyncCR, SyncPods,
                  vars, api, caches, pass, env, Elsewhere, Intact
<1>2. ASSUME NEW n, CollectRevision(n) \/ CollectConfigMap(n) PROVE Elsewhere
      BY <1>2 DEF CollectRevision, CollectConfigMap, pass, Elsewhere, Intact
<1>3. CASE AddFinalizer \/ RemoveFinalizer \/ UpdateStatus \/ EditCR \/ DeleteCR \/ CollectCR
  <2>1. UNCHANGED <<pods, pc, observed, podCalls>>
        BY <1>3 DEF AddFinalizer, RemoveFinalizer, UpdateStatus, EditCR, DeleteCR, CollectCR,
                    pass
  <2>2. Intact' => Intact
        BY <1>3, ResourceWrites DEF Intact
  <2> QED BY <2>1, <2>2 DEF Elsewhere
<1>4. CASE ConfigMapCall
      BY <1>4 DEF ConfigMapCall, AbandonReconcile, PassEnds, Elsewhere, Intact
<1>5. CASE FailConfigMapCall \/ FailCurrentRevision \/ UpdateCurrentRevision
      BY <1>5 DEF FailConfigMapCall, FailCurrentRevision, UpdateCurrentRevision,
                  AbandonReconcile, api, PassEnds
<1>6. CASE PodCall
      BY <1>6 DEF PodCall, NextCalls, AbandonReconcile, PassEnds, PodCalled
<1>7. CASE FailPodCall
      BY <1>7 DEF FailPodCall, NextCalls, AbandonReconcile, PassEnds, PodCalled
<1>8. CASE SyncRevisionsFails \/ FailSyncRevisions \/ Crash
      BY <1>8 DEF SyncRevisionsFails, FailSyncRevisions, Crash, Restart, EndPass, api, PassEnds
<1>9. CASE SyncRevisions
  <2>1. CASE observed.spec.historyLimit = Nil
        BY <1>9, <2>1 DEF SyncRevisions, Restart, EndPass, PassEnds
  <2>2. CASE observed.spec.historyLimit # Nil
        BY <1>9, <2>2 DEF SyncRevisions, EndPass, PassEnds
  <2> QED BY <2>1, <2>2
<1>10. ASSUME NEW p \in PodNames PROVE ~PodGone(p)
       BY DEF PodGone, Fault, Tracked
<1>11. ASSUME NEW p \in PodNames,
              PodFailed(p) \/ KubeletStart(p) \/ KubeletStop(p) \/ CollectPod(p)
       PROVE  PodChanges
  <2>1. UNCHANGED <<cr, pc, observed, podCalls>>
        BY <1>11 DEF PodFailed, KubeletStart, KubeletStop, CollectPod, pass
  <2> QED BY <1>11, <2>1, PodEvents DEF PodsInv, PodChanges, PodBecomes
<1>12. CASE CreateCR
  <2>1. uid = 0
        BY <1>12, BoundsAssumption DEF CreateCR, Tracked, TypeOK
  <2>2. pc = "idle"
        BY <2>1 DEF PodsInv, Pristine
  <2> QED BY <1>12, <2>2 DEF CreateCR, pass, PassEnds
<1> QED
    BY <1>1, <1>2, <1>3, <1>4, <1>5, <1>6, <1>7, <1>8, <1>9, <1>10, <1>11, <1>12
    DEF Next, Worker, Disturb, Failures, User, Informers, Cluster

(* Every step keeps RestartInv.                                              *)
LEMMA RestartStep ==
    ASSUME Tracked, WholeRequests, TypeOK, OwnershipInv, RestartInv, [Next]_vars
    PROVE  RestartInv'
<1> USE NilAssumption
<1>1. PodsInv'
      BY PodsStep DEF RestartInv
<1> SUFFICES DeletesJustified'
    BY <1>1 DEF RestartInv
<1>2. /\ pods \in [PodNames -> Pod \cup {Nil}] /\ podCalls \in SUBSET Calls(PodNames)
      BY DEF TypeOK, Table
<1>3. CASE BeginReconcile
      BY <1>3, JustifiedBegin DEF RestartInv
<1>4. CASE PassEnds
      BY <1>4 DEF PassEnds, DeletesJustified
<1>5. CASE Elsewhere
      BY <1>5 DEF Elsewhere, RestartInv, DeletesJustified, DesiredAsIs, Matches
<1>6. CASE PodChanges
  <2>1. PICK p \in PodNames : \E x : PodBecomes(p, x)
        BY <1>6 DEF PodChanges
  <2>2. PICK x : PodBecomes(p, x)
        BY <2>1
  <2>3. UNCHANGED <<cr, pc, observed, podCalls>>
        BY <1>6 DEF PodChanges
  <2>4. \A q \in PodNames :
           \/ pods'[q] = Nil \/ pods'[q].deleting \/ pods'[q] = pods[q]
           \/ /\ pods[q] # Nil /\ pods'[q].entity = pods[q].entity
              /\ pods'[q].resources = pods[q].resources
              /\ pods'[q].deleting = pods[q].deleting
        BY <1>2, <2>2 DEF PodBecomes
  <2>5. \A c \in podCalls : c.name \in PodNames
        BY <1>2 DEF Calls
  <2>6. ASSUME NEW q \in PodNames, pods'[q] # Nil, ~pods'[q].deleting, NEW d, Matches(pods'[q], d)
        PROVE  pods[q] # Nil /\ ~pods[q].deleting /\ Matches(pods[q], d)
        BY <2>4, <2>6 DEF Matches
  <2> QED BY <2>3, <2>5, <2>6 DEF RestartInv, DeletesJustified, DesiredAsIs, Intact, Matches
<1>7. CASE PodCalled
  <2>1. PICK c \in podCalls : /\ PodAccepts(c) /\ pods' = PodsAfter(c)
                              /\ \/ pc' = pc /\ podCalls' = podCalls \ {c}
                                 \/ pc' = "syncing"
        BY <1>7 DEF PodCalled
  <2>2. pc = "acting" /\ UNCHANGED <<cr, observed>>
        BY <1>7 DEF PodCalled
  <2>3. CASE pc' = "syncing"
        BY <2>3 DEF DeletesJustified
  <2>4. CASE pc' = pc /\ podCalls' = podCalls \ {c}
    <3>1. ASSUME NEW k \in podCalls' PROVE pods'[k.name] = pods[k.name]
      <4>1. k \in podCalls /\ k.name # c.name
            BY <2>2, <2>4 DEF RestartInv, PodsInv, CallsDistinct
      <4> QED BY <1>2, <2>1, <4>1 DEF PodsAfter, Calls
    <3> QED BY <2>2, <2>4, <3>1 DEF RestartInv, DeletesJustified, DesiredAsIs, Intact, Matches
  <2> QED BY <2>1, <2>3, <2>4
<1> QED BY <1>3, <1>4, <1>5, <1>6, <1>7, PodSteps DEF RestartInv

(* Only a call that was decided on deletes a pod.                            *)
LEMMA RestartNeeded ==
    ASSUME Undisturbed, TypeOK, OwnershipInv, RestartInv, [Next]_vars,
           NEW p \in PodNames, DeletesPod(p)
    PROVE  ~DesiredAsIs(p, observed.spec)
<1> USE NilAssumption
<1>1. /\ pc = "acting" /\ podCalls' # podCalls
      /\ pods[p] # Nil /\ ~pods[p].deleting /\ pods'[p] # Nil /\ pods'[p].deleting
      BY DEF DeletesPod
<1>2. PodCalled
  <2>1. ~BeginReconcile
        BY <1>1 DEF BeginReconcile, TakeKey
  <2>2. ~PassEnds
    <3>1. pods' # pods
          BY <1>1
    <3> QED BY <3>1 DEF PassEnds
  <2>3. ~Elsewhere /\ ~PodChanges
        BY <1>1 DEF Elsewhere, PodChanges
  <2> QED BY <2>1, <2>2, <2>3, PodSteps DEF Undisturbed, RestartInv
<1>3. PICK c \in podCalls : PodAccepts(c) /\ pods' = PodsAfter(c)
      BY <1>2 DEF PodCalled
<1>4. p = c.name /\ c.op # "create"
  <2>1. pods \in [PodNames -> Pod \cup {Nil}] /\ c.name \in PodNames
        BY DEF TypeOK, Table, Calls
  <2>2. p # c.name => pods'[p] = pods[p]
        BY <1>3, <2>1 DEF PodsAfter
  <2>3. p = c.name
        BY <1>1, <2>2
  <2> QED BY <1>1, <1>3, <2>3 DEF PodAccepts
<1>5. Intact
      BY <1>1 DEF Undisturbed, OwnershipInv, OwnerHeld, Intact
<1> QED BY <1>1, <1>4, <1>5 DEF RestartInv, DeletesJustified

(* From the decision of a pass to delete a pod until the call is made, the   *)
(* live pod of that name is not what the pass asks for, whatever the caches  *)
(* miss: what reconcilePod compared is still true when it acts on it.        *)
THEOREM RestartHolds == ASSUME Tracked, WholeRequests PROVE Spec => []RestartInv
<1>1. Spec => []TypeOK
      BY TypeCorrect
<1>2. Spec => []OwnershipInv
      BY OwnershipHolds
<1>3. TypeOK /\ OwnershipInv /\ RestartInv /\ [Next]_vars => RestartInv'
      BY RestartStep
<1>4. Init => RestartInv
      BY PodsInit DEF Init, RestartInv, DeletesJustified
<1> QED BY <1>1, <1>2, <1>3, <1>4, PTL DEF Spec

(* No live pod that is already what the observed spec asks for is deleted by *)
(* reconciler.reconcile, for any specs with whole requests, with rollbacks,  *)
(* crashes, failed calls and deletion of the resource in the background.     *)
THEOREM RestartsJustified == ASSUME Undisturbed PROVE Spec => RestartJustified
<1>1. Spec => []TypeOK
      BY TypeCorrect
<1>2. Spec => []OwnershipInv
      BY OwnershipHolds
<1>3. Spec => []RestartInv
      BY RestartHolds DEF Undisturbed
<1>4. TypeOK /\ OwnershipInv /\ RestartInv /\ [Next]_vars
         => [\A p \in PodNames : DeletesPod(p) => ~DesiredAsIs(p, observed.spec)]_vars
      BY RestartNeeded
<1> QED BY <1>1, <1>2, <1>3, <1>4, PTL DEF Spec, RestartJustified

=============================================================================
