---------------------------- MODULE InvokerProofs ---------------------------
(***************************************************************************)
(* Proofs about InvokerOperator for every value of its constants.          *)
(***************************************************************************)
EXTENDS OperatorProperties, SequenceTheorems, TLAPS

-----------------------------------------------------------------------------
(* Types of the operators the actions are built from. *)

(* What is read back of a list of resources is one again, and stays the      *)
(* same when it is written and read back once more.                          *)
LEMMA ListRoundTripType ==
    ASSUME NEW l \in ResourceLists \cup {Nil}
    PROVE  /\ ListRoundTrip(l) \in ResourceLists \cup {Nil}
           /\ ListRoundTrip(ListRoundTrip(l)) = ListRoundTrip(l)
<1>1. CASE l = Nil \/ DOMAIN l = {}
      BY <1>1 DEF ListRoundTrip
<1>2. CASE l # Nil /\ DOMAIN l # {}
  <2> DEFINE f == [k \in DOMAIN l |-> Canonical[l[k]]]
  <2>1. PICK K \in SUBSET ResourceKinds : l \in [K -> Quantities]
        BY <1>2 DEF ResourceLists
  <2>2. f \in [K -> Quantities] /\ DOMAIN f = DOMAIN l
        BY <2>1, CanonicalAssumption
  <2>3. f \in ResourceLists
        BY <2>2 DEF ResourceLists
  <2>4. f # Nil
        BY <2>3, NilAssumption
  <2>5. \A k \in DOMAIN l : Canonical[f[k]] = f[k]
        BY <2>1, CanonicalAssumption
  <2>6. ListRoundTrip(l) = f
        BY <1>2 DEF ListRoundTrip
  <2> HIDE DEF f
  <2>7. ListRoundTrip(f) = [k \in DOMAIN f |-> Canonical[f[k]]]
        BY <1>2, <2>2, <2>4 DEF ListRoundTrip
  <2>8. [k \in DOMAIN f |-> Canonical[f[k]]] = [k \in DOMAIN f |-> f[k]]
        BY <2>2, <2>5
  <2>9. f = [k \in DOMAIN f |-> f[k]]
        BY <2>2
  <2> QED BY <2>3, <2>6, <2>7, <2>8, <2>9
<1> QED BY <1>1, <1>2

(* The same of the two lists of a container.                                 *)
LEMMA ResourcesRoundTripType ==
    ASSUME NEW r \in ResourceRequirements
    PROVE  /\ ResourcesRoundTrip(r) \in ResourceRequirements
           /\ ResourcesRoundTrip(ResourcesRoundTrip(r)) = ResourcesRoundTrip(r)
  BY ListRoundTripType DEF ResourcesRoundTrip, ResourceRequirements

(* What is read back of a spec differs from it in resources only, and        *)
(* reading it back again changes nothing.                                    *)
LEMMA RoundTripSpec ==
    ASSUME NEW s \in InvokerDeploymentSpec
    PROVE  /\ RoundTrip(s) \in InvokerDeploymentSpec
           /\ RoundTrip(RoundTrip(s)) = RoundTrip(s)
           /\ RoundTrip(s).statefulEntities = s.statefulEntities
           /\ RoundTrip(s).historyLimit = s.historyLimit
           /\ DOMAIN RoundTrip(s).pods = DOMAIN s.pods
           /\ \A i \in DOMAIN s.pods :
                 RoundTrip(s).pods[i] =
                   [s.pods[i] EXCEPT !.resources = ResourcesRoundTrip(s.pods[i].resources)]
<1> DEFINE ps == [i \in DOMAIN s.pods |->
                    [s.pods[i] EXCEPT !.resources = ResourcesRoundTrip(s.pods[i].resources)]]
<1>1. /\ s.pods \in Seq(PodConfig) /\ Len(s.pods) \in Nat
      /\ DOMAIN s.pods = 1 .. Len(s.pods)
      /\ \A i \in DOMAIN s.pods : s.pods[i] \in PodConfig
      BY DEF InvokerDeploymentSpec
<1>2. ASSUME NEW i \in DOMAIN s.pods
      PROVE  /\ ps[i] \in PodConfig
             /\ [ps[i] EXCEPT !.resources = ResourcesRoundTrip(ps[i].resources)] = ps[i]
  <2>1. s.pods[i] \in PodConfig /\ s.pods[i].resources \in ResourceRequirements
        BY <1>1 DEF PodConfig
  <2>2. ps[i] = [s.pods[i] EXCEPT !.resources = ResourcesRoundTrip(s.pods[i].resources)]
        OBVIOUS
  <2>3. /\ ResourcesRoundTrip(s.pods[i].resources) \in ResourceRequirements
        /\ ResourcesRoundTrip(ResourcesRoundTrip(s.pods[i].resources))
              = ResourcesRoundTrip(s.pods[i].resources)
        BY <2>1, ResourcesRoundTripType
  <2> HIDE DEF ps
  <2>4. ps[i] \in PodConfig /\ ps[i].resources = ResourcesRoundTrip(s.pods[i].resources)
        BY <2>1, <2>2, <2>3 DEF PodConfig
  <2> QED BY <2>3, <2>4 DEF PodConfig
<1>3. ps \in [1 .. Len(s.pods) -> PodConfig]
      BY <1>1, <1>2
<1>4. ps \in Seq(PodConfig)
      BY <1>1, <1>3, SeqDef
<1>5. RoundTrip(s) = [s EXCEPT !.pods = ps]
      BY DEF RoundTrip
<1>6. DOMAIN ps = DOMAIN s.pods
      OBVIOUS
<1>7. \A i \in DOMAIN s.pods :
         ps[i] = [s.pods[i] EXCEPT !.resources = ResourcesRoundTrip(s.pods[i].resources)]
      OBVIOUS
<1> HIDE DEF ps
<1>8. /\ RoundTrip(s) \in InvokerDeploymentSpec /\ RoundTrip(s).pods = ps
      /\ RoundTrip(s).statefulEntities = s.statefulEntities
      /\ RoundTrip(s).historyLimit = s.historyLimit
      BY <1>4, <1>5 DEF InvokerDeploymentSpec
<1>9. RoundTrip(RoundTrip(s)) = RoundTrip(s)
  <2> DEFINE again == [i \in DOMAIN ps |->
                         [ps[i] EXCEPT !.resources = ResourcesRoundTrip(ps[i].resources)]]
  <2>1. RoundTrip(RoundTrip(s)) = [RoundTrip(s) EXCEPT !.pods = again]
        BY <1>8 DEF RoundTrip
  <2>2. again = [i \in DOMAIN ps |-> ps[i]]
        BY <1>2, <1>6
  <2>3. ps = [i \in DOMAIN ps |-> ps[i]]
        BY <1>3
  <2>4. again = ps
        BY <2>2, <2>3
  <2> HIDE DEF again
  <2> QED BY <1>8, <2>1, <2>4 DEF InvokerDeploymentSpec
<1> QED BY <1>6, <1>7, <1>8, <1>9

(* Stored specs are closed under being written and read back. *)
LEMMA RoundTripStored ==
    ASSUME NEW s \in StoredSpecs
    PROVE  /\ RoundTrip(s) \in StoredSpecs
           /\ RoundTrip(RoundTrip(s)) = RoundTrip(s)
           /\ generateRevisionName(s) \in RevisionNames
           /\ generateRevisionName(RoundTrip(s)) = generateRevisionName(s)
<1>1. CASE s \in Specs
  <2>1. RoundTrip(s) \in StoredSpecs /\ RoundTrip(RoundTrip(s)) = RoundTrip(s)
        BY <1>1, SpecsAssumption, RoundTripSpec DEF StoredSpecs
  <2> QED BY <2>1, HashAssumption DEF generateRevisionName
<1>2. CASE s \notin Specs
  <2>1. PICK t \in Specs : s = RoundTrip(t)
        BY <1>2 DEF StoredSpecs
  <2>2. RoundTrip(s) = s
        BY <2>1, SpecsAssumption, RoundTripSpec
  <2> QED BY <2>2, HashAssumption DEF generateRevisionName
<1> QED BY <1>1, <1>2

(* Specs have the shape of the CRD and number their lists from 1. *)
LEMMA SpecShape ==
    ASSUME NEW s \in StoredSpecs
    PROVE  /\ s \in InvokerDeploymentSpec
           /\ WellFormed(s)
           /\ DOMAIN s.statefulEntities = 1 .. Len(s.statefulEntities)
           /\ DOMAIN s.pods = 1 .. Len(s.pods)
           /\ Len(s.statefulEntities) \in Nat
           /\ Len(s.pods) \in Nat
           /\ \A i \in DOMAIN s.statefulEntities : s.statefulEntities[i] \in StatefulEntity
           /\ \A i \in DOMAIN s.pods : s.pods[i] \in PodConfig
<1>1. s \in InvokerDeploymentSpec /\ WellFormed(s)
  <2>1. CASE s \in Specs
        BY <2>1, SpecsAssumption
  <2>2. CASE s \notin Specs
    <3>1. PICK t \in Specs : s = RoundTrip(t)
          BY <2>2 DEF StoredSpecs
    <3>2. /\ s \in InvokerDeploymentSpec /\ s.statefulEntities = t.statefulEntities
          /\ DOMAIN s.pods = DOMAIN t.pods
          /\ \A i \in DOMAIN t.pods : s.pods[i] =
                [t.pods[i] EXCEPT !.resources = ResourcesRoundTrip(t.pods[i].resources)]
          BY <3>1, SpecsAssumption, RoundTripSpec
    <3>3. WellFormed(t) /\ \A i \in DOMAIN t.pods : t.pods[i] \in PodConfig
          BY SpecsAssumption DEF InvokerDeploymentSpec
    <3>4. \A i \in DOMAIN t.pods :
             s.pods[i].name = t.pods[i].name /\ s.pods[i].of = t.pods[i].of
          BY <3>2, <3>3 DEF PodConfig
    <3> QED BY <3>2, <3>3, <3>4 DEF WellFormed
  <2> QED BY <2>1, <2>2
<1> QED BY <1>1 DEF InvokerDeploymentSpec

(* Specs in canonical form are stored, hashed and created as they are.       *)
LEMMA CanonicalForm ==
    ASSUME CanonicalSpecs
    PROVE  /\ StoredSpecs = Specs
           /\ \A s \in Specs : /\ RoundTrip(s) = s
                                /\ generateRevisionName(s) = Hash[s]
                                /\ generateRevisionName(s) \in RevisionNames
           /\ \A s \in Specs : \A i \in DOMAIN s.pods :
                 ResourcesRoundTrip(getDesiredStatefulEntities(s)[i].resources)
                    = getDesiredStatefulEntities(s)[i].resources
<1>1. \A s \in Specs : RoundTrip(s) = s
      BY DEF CanonicalSpecs
<1>2. StoredSpecs = Specs
      BY <1>1 DEF StoredSpecs
<1>3. \A s \in Specs : /\ generateRevisionName(s) = Hash[s]
                       /\ generateRevisionName(s) \in RevisionNames
      BY <1>1, <1>2, HashAssumption DEF generateRevisionName
<1>4. ASSUME NEW s \in Specs, NEW i \in DOMAIN s.pods
      PROVE  ResourcesRoundTrip(getDesiredStatefulEntities(s)[i].resources)
                = getDesiredStatefulEntities(s)[i].resources
  <2>1. s \in InvokerDeploymentSpec /\ s.pods[i] \in PodConfig
        BY SpecsAssumption DEF InvokerDeploymentSpec
  <2>2. s.pods[i] = [s.pods[i] EXCEPT !.resources = ResourcesRoundTrip(s.pods[i].resources)]
        BY <1>1, <2>1, RoundTripSpec
  <2>3. [s.pods[i] EXCEPT !.resources = ResourcesRoundTrip(s.pods[i].resources)].resources
           = ResourcesRoundTrip(s.pods[i].resources)
        BY <2>1 DEF PodConfig
  <2>4. s.pods[i].resources = ResourcesRoundTrip(s.pods[i].resources)
        BY <2>2, <2>3
  <2>5. getDesiredStatefulEntities(s)[i].resources = s.pods[i].resources
        BY DEF getDesiredStatefulEntities
  <2> QED BY <2>4, <2>5
<1> QED BY <1>1, <1>2, <1>3, <1>4

(* Defaulting requests from limits yields resources again. *)
LEMMA DefaultedType ==
    ASSUME NEW r \in ResourceRequirements
    PROVE  ApiDefaulted(r) \in ResourceRequirements
<1>1. CASE r.limits = Nil
      BY <1>1 DEF ApiDefaulted
<1>2. CASE r.limits # Nil
  <2> DEFINE requested == IF r.requests = Nil THEN {} ELSE DOMAIN r.requests
             f == [k \in requested \cup DOMAIN r.limits |->
                     IF k \in requested THEN r.requests[k] ELSE r.limits[k]]
  <2>1. PICK K \in SUBSET ResourceKinds : r.limits \in [K -> Quantities]
        BY <1>2 DEF ResourceRequirements, ResourceLists
  <2>2. requested \subseteq ResourceKinds /\ \A k \in requested : r.requests[k] \in Quantities
    <3>1. CASE r.requests = Nil BY <3>1
    <3>2. CASE r.requests # Nil
          BY <3>2 DEF ResourceRequirements, ResourceLists
    <3> QED BY <3>1, <3>2
  <2>3. f \in [requested \cup K -> Quantities]
        BY <2>1, <2>2
  <2>4. f \in ResourceLists
        BY <2>1, <2>2, <2>3 DEF ResourceLists
  <2>5. ApiDefaulted(r) = [r EXCEPT !.requests = f]
        BY <1>2 DEF ApiDefaulted
  <2> QED BY <2>4, <2>5 DEF ResourceRequirements
<1> QED BY <1>1, <1>2

(* A function on 1..n is a sequence of length n. *)
LEMMA SeqFromFunction ==
    ASSUME NEW T, NEW n \in Nat, NEW f \in [1..n -> T]
    PROVE  f \in Seq(T) /\ Len(f) = n
<1>1. f \in Seq(T)
      BY SeqDef
<1> QED BY <1>1, LenProperties

(* The converter's lists are typed and in the order of the spec. *)
LEMMA DesiredConfigMapType ==
    ASSUME NEW s \in StoredSpecs
    PROVE  /\ DOMAIN getDesiredConfigMaps(s) = 1 .. Len(s.statefulEntities)
           /\ Len(getDesiredConfigMaps(s)) = Len(s.statefulEntities)
           /\ \A i \in DOMAIN s.statefulEntities :
                 /\ getDesiredConfigMaps(s)[i] \in [name : EntityNames, data : ConfigMapData]
                 /\ getDesiredConfigMaps(s)[i].name = s.statefulEntities[i].name
<1>1. DOMAIN getDesiredConfigMaps(s) = 1 .. Len(s.statefulEntities)
      BY SpecShape DEF getDesiredConfigMaps
<1>2. ASSUME NEW i \in DOMAIN s.statefulEntities
      PROVE  /\ getDesiredConfigMaps(s)[i] \in [name : EntityNames, data : ConfigMapData]
             /\ getDesiredConfigMaps(s)[i].name = s.statefulEntities[i].name
  <2> DEFINE parts == {<<s.pods[j].name, s.pods[j].partitions>> :
                          j \in {k \in DOMAIN s.pods : s.pods[k].of = i}}
  <2>1. parts \in SUBSET (PodNames \X Partitions)
        BY SpecShape DEF PodConfig
  <2>2. s.statefulEntities[i] \in StatefulEntity
        BY SpecShape
  <2>3. getDesiredConfigMaps(s)[i] =
           [name |-> s.statefulEntities[i].name,
            data |-> [main |-> s.statefulEntities[i].io, partitions |-> parts]]
        BY DEF getDesiredConfigMaps
  <2> HIDE DEF parts
  <2> QED BY <2>1, <2>2, <2>3 DEF StatefulEntity, ConfigMapData
<1>3. getDesiredConfigMaps(s) \in
         [1 .. Len(s.statefulEntities) -> [name : EntityNames, data : ConfigMapData]]
      BY <1>1, <1>2, SpecShape DEF getDesiredConfigMaps
<1>4. Len(getDesiredConfigMaps(s)) = Len(s.statefulEntities)
      BY <1>3, SpecShape, SeqFromFunction
<1> QED BY <1>1, <1>2, <1>4

(* So is the list of desired pods of getDesiredStatefulEntities.             *)
LEMMA DesiredPodType ==
    ASSUME NEW s \in StoredSpecs
    PROVE  /\ DOMAIN getDesiredStatefulEntities(s) = 1 .. Len(s.pods)
           /\ Len(getDesiredStatefulEntities(s)) = Len(s.pods)
           /\ \A i \in DOMAIN s.pods :
                 /\ getDesiredStatefulEntities(s)[i] \in
                       [name : PodNames, entity : EntityNames, image : Images,
                        resources : ResourceRequirements]
                 /\ getDesiredStatefulEntities(s)[i].name = s.pods[i].name
<1> DEFINE T == [name : PodNames, entity : EntityNames, image : Images,
                 resources : ResourceRequirements]
<1>1. DOMAIN getDesiredStatefulEntities(s) = 1 .. Len(s.pods)
      BY SpecShape DEF getDesiredStatefulEntities
<1>2. ASSUME NEW i \in DOMAIN s.pods
      PROVE  /\ getDesiredStatefulEntities(s)[i] \in T
             /\ getDesiredStatefulEntities(s)[i].name = s.pods[i].name
  <2>1. s.pods[i] \in PodConfig /\ s.statefulEntities[s.pods[i].of] \in StatefulEntity
        BY SpecShape DEF WellFormed
  <2> QED BY <2>1 DEF getDesiredStatefulEntities, PodConfig, StatefulEntity
<1>3. getDesiredStatefulEntities(s) \in [1 .. Len(s.pods) -> T]
      BY <1>1, <1>2, SpecShape DEF getDesiredStatefulEntities
<1>4. Len(getDesiredStatefulEntities(s)) = Len(s.pods)
      BY <1>3, SpecShape, SeqFromFunction
<1> QED BY <1>1, <1>2, <1>4

(* The calls of a pass are typed, and the ones that carry an object have the *)
(* rank of a desired object.                                                 *)
LEMMA ConfigMapCallsType ==
    ASSUME NEW c \in InvokerDeployment, NEW o \in Table(EntityNames, ConfigMap)
    PROVE  /\ ConfigMapCalls(c, o) \in SUBSET Calls(EntityNames)
           /\ \A k \in ConfigMapCalls(c, o) : k.op # "delete" =>
                 k.rank \in DOMAIN getDesiredConfigMaps(c.spec)
<1> DEFINE desired == getDesiredConfigMaps(c.spec)
<1>1. c.spec \in StoredSpecs
      BY DEF InvokerDeployment
<1>2. /\ DOMAIN desired \subseteq Nat
      /\ Len(desired) + 1 \in Nat
      /\ \A i \in DOMAIN desired : desired[i].name \in EntityNames
      BY <1>1, DesiredConfigMapType, SpecShape
<1>3. LeftoverCalls(desired, o) \in SUBSET Calls(EntityNames)
      BY <1>2 DEF LeftoverCalls, Calls, Present, Table
<1>4. \A k \in LeftoverCalls(desired, o) : k.op = "delete"
      BY DEF LeftoverCalls
<1>5. \A i \in DOMAIN desired : ConfigMapOp(c, o, desired[i]) \in {"create", "update", "none"}
      BY DEF ConfigMapOp
<1>6. ASSUME NEW k \in ConfigMapCalls(c, o), k \notin LeftoverCalls(desired, o)
      PROVE  k \in Calls(EntityNames) /\ k.rank \in DOMAIN desired
  <2>1. PICK i \in DOMAIN desired :
           /\ ConfigMapOp(c, o, desired[i]) # "none"
           /\ k = [rank |-> i, op |-> ConfigMapOp(c, o, desired[i]), name |-> desired[i].name]
        BY <1>6 DEF ConfigMapCalls
  <2> HIDE DEF desired
  <2> QED BY <2>1, <1>2, <1>5 DEF Calls
<1> QED BY <1>3, <1>4, <1>6

(* The same of the calls on pods.                                            *)
LEMMA PodCallsType ==
    ASSUME NEW c \in InvokerDeployment, NEW o \in Table(PodNames, Pod)
    PROVE  /\ PodCalls(c, o) \in SUBSET Calls(PodNames)
           /\ \A k \in PodCalls(c, o) : k.op # "delete" =>
                 k.rank \in DOMAIN getDesiredStatefulEntities(c.spec)
<1> DEFINE desired == getDesiredStatefulEntities(c.spec)
<1>1. c.spec \in StoredSpecs
      BY DEF InvokerDeployment
<1>2. /\ DOMAIN desired \subseteq Nat
      /\ Len(desired) + 1 \in Nat
      /\ \A i \in DOMAIN desired : desired[i].name \in PodNames
      BY <1>1, DesiredPodType, SpecShape
<1>3. LeftoverCalls(desired, o) \in SUBSET Calls(PodNames)
      BY <1>2 DEF LeftoverCalls, Calls, Present, Table
<1>4. \A k \in LeftoverCalls(desired, o) : k.op = "delete"
      BY DEF LeftoverCalls
<1>5. \A i \in DOMAIN desired : PodOp(c, o, desired[i]) \in {"create", "delete", "none"}
      BY DEF PodOp
<1>6. ASSUME NEW k \in PodCalls(c, o), k \notin LeftoverCalls(desired, o)
      PROVE  k \in Calls(PodNames) /\ k.rank \in DOMAIN desired
  <2>1. PICK i \in DOMAIN desired :
           /\ PodOp(c, o, desired[i]) # "none"
           /\ k = [rank |-> i, op |-> PodOp(c, o, desired[i]), name |-> desired[i].name]
        BY <1>6 DEF PodCalls
  <2> HIDE DEF desired
  <2> QED BY <2>1, <1>2, <1>5 DEF Calls
<1> QED BY <1>3, <1>4, <1>6

(* Deriving a status never leaves the states it has a case for. *)
LEMMA DerivedStatusType ==
    ASSUME NEW c \in InvokerDeployment, NEW po, NEW co
    PROVE  deriveInvokerDeploymentStatus(c, po, co) \in InvokerDeploymentStatus
<1> DEFINE running == Cardinality(RunningEntities(po))
           total   == Len(c.spec.statefulEntities)
<1>1. c.status \in InvokerDeploymentStatus
      BY DEF InvokerDeployment
<1>2. DerivedState(c, running, total) \in States
      BY DEF DerivedState, States, StateCreating, StateRunning, StateUpdating, StateReconciling
<1> HIDE DEF running, total
<1>3. /\ ComponentStateReady \in ComponentStates
      /\ ComponentStateNotReady \in ComponentStates
      /\ ComponentStateDeleted \in ComponentStates
      /\ "" \in ComponentStates
      BY DEF ComponentStates
<1> DEFINE cm == IF Present(co) # {} THEN ComponentStateReady
                 ELSE IF c.status.configMap # "" THEN ComponentStateDeleted ELSE ""
           se == IF running < Cardinality(ObservedEntities(po))
                 THEN ComponentStateNotReady ELSE ComponentStateReady
<1>4. cm \in ComponentStates /\ se \in ComponentStates
      BY <1>3
<1>5. deriveInvokerDeploymentStatus(c, po, co) =
         [c.status EXCEPT !.conditions = TRUE, !.configMap = cm, !.statefulEntities = se,
                          !.state = DerivedState(c, running, total)]
      BY <1>1 DEF deriveInvokerDeploymentStatus, running, total, InvokerDeploymentStatus
<1> HIDE DEF cm, se
<1> QED BY <1>1, <1>2, <1>4, <1>5 DEF InvokerDeploymentStatus

(* What a pass observes and would write is an InvokerDeployment. *)
LEMMA ObservedType ==
    ASSUME TypeOK, crCache # Nil
    PROVE  /\ ObservedCR \in InvokerDeployment
           /\ ObservedCR.spec = crCache.spec
           /\ ObservedCR.uid = crCache.uid
           /\ ObservedCR.finalizer = crCache.finalizer
           /\ ObservedCR.deleting = crCache.deleting
           /\ ObservedCR.foreground = crCache.foreground
           /\ ObservedCR.status.currentRevision = crCache.status.currentRevision
           /\ ObservedCR.status.nextRevision = generateRevisionName(crCache.spec)
           /\ [crCache EXCEPT !.status = NewStatus] \in InvokerDeployment
           /\ NewStatus.currentRevision = crCache.status.currentRevision
<1>1. crCache \in InvokerDeployment
      BY DEF TypeOK
<1>2. generateRevisionName(crCache.spec) \in RevisionNames
      BY <1>1, RoundTripStored DEF InvokerDeployment
<1>3. ObservedCR \in InvokerDeployment
      BY <1>1, <1>2 DEF ObservedCR, InvokerDeployment, InvokerDeploymentStatus
<1>4. NewStatus \in InvokerDeploymentStatus
      BY <1>3, DerivedStatusType DEF NewStatus
<1>5. NewStatus.currentRevision = ObservedCR.status.currentRevision
      BY <1>3 DEF NewStatus, deriveInvokerDeploymentStatus, InvokerDeployment, InvokerDeploymentStatus
<1>6. ObservedCR.status.currentRevision = crCache.status.currentRevision
      BY <1>1 DEF ObservedCR, InvokerDeployment, InvokerDeploymentStatus
<1>7. ObservedCR.status.nextRevision = generateRevisionName(crCache.spec)
      BY <1>1 DEF ObservedCR, InvokerDeployment, InvokerDeploymentStatus
<1> QED BY <1>1, <1>3, <1>4, <1>5, <1>6, <1>7 DEF ObservedCR, InvokerDeployment

(* A resource as the user creates it. *)
LEMMA CreatedType ==
    ASSUME uid \in Nat, NEW s \in Specs
    PROVE  [uid |-> uid + 1, spec |-> s, finalizer |-> FALSE,
            deleting |-> FALSE, foreground |-> FALSE, status |-> EmptyStatus]
              \in InvokerDeployment
<1>1. EmptyStatus \in InvokerDeploymentStatus
      BY DEF EmptyStatus, InvokerDeploymentStatus, States, ComponentStates
<1> QED BY <1>1 DEF InvokerDeployment, StoredSpecs

(* An edit changes the spec and nothing else. *)
LEMMA EditedType ==
    ASSUME cr \in InvokerDeployment \cup {Nil}, EditCR
    PROVE  /\ cr \in InvokerDeployment /\ cr' \in InvokerDeployment
           /\ cr'.spec \in Specs /\ cr'.uid = cr.uid /\ cr'.finalizer = cr.finalizer
           /\ cr'.deleting = cr.deleting /\ cr'.foreground = cr.foreground
           /\ cr'.status = cr.status
<1>1. PICK s \in Specs : cr' = [cr EXCEPT !.spec = s]
      BY DEF EditCR
<1>2. cr \in InvokerDeployment /\ s \in StoredSpecs
      BY DEF EditCR, StoredSpecs
<1> QED BY <1>1, <1>2 DEF InvokerDeployment

(* A deletion marks the resource, or removes it if nothing holds it. *)
LEMMA DeletedType ==
    ASSUME cr \in InvokerDeployment \cup {Nil}, DeleteCR
    PROVE  /\ cr \in InvokerDeployment /\ ~cr.deleting
           /\ \/ cr' = Nil /\ ~cr.finalizer
              \/ /\ cr' \in InvokerDeployment /\ cr'.deleting
                 /\ cr'.uid = cr.uid /\ cr'.spec = cr.spec
                 /\ cr'.finalizer = cr.finalizer /\ cr'.status = cr.status
<1>1. cr \in InvokerDeployment /\ ~cr.deleting
      BY DEF DeleteCR
<1>2. PICK foreground \in {FALSE, AllowForeground} :
         cr' = IF cr.finalizer \/ foreground
               THEN [cr EXCEPT !.deleting = TRUE, !.foreground = foreground] ELSE Nil
      BY DEF DeleteCR
<1>3. foreground \in BOOLEAN
      BY BoundsAssumption
<1> QED BY <1>1, <1>2, <1>3 DEF InvokerDeployment

(* What is left of a resource in foreground deletion without its finalizer.  *)
LEMMA ReleasedType ==
    ASSUME NEW c \in InvokerDeployment
    PROVE  LET new == [c EXCEPT !.finalizer = FALSE, !.spec = RoundTrip(c.spec)]
           IN  /\ new \in InvokerDeployment /\ ~new.finalizer
               /\ new.uid = c.uid /\ new.spec = RoundTrip(c.spec)
               /\ RoundTrip(new.spec) = RoundTrip(c.spec)
               /\ new.deleting = c.deleting /\ new.foreground = c.foreground
               /\ new.status = c.status
<1>1. /\ c.spec \in StoredSpecs /\ RoundTrip(c.spec) \in StoredSpecs
      /\ RoundTrip(RoundTrip(c.spec)) = RoundTrip(c.spec)
      BY RoundTripStored DEF InvokerDeployment
<1> QED BY <1>1 DEF InvokerDeployment

(* The garbage collector lets the resource go, or leaves that to the         *)
(* operator.                                                                 *)
LEMMA CollectedType ==
    ASSUME cr \in InvokerDeployment \cup {Nil}, CollectCR
    PROVE  /\ cr \in InvokerDeployment /\ cr.foreground
           /\ \/ cr' = Nil /\ ~cr.finalizer
              \/ /\ cr' \in InvokerDeployment /\ ~cr'.foreground /\ cr.finalizer
                 /\ cr'.uid = cr.uid /\ cr'.spec = cr.spec /\ cr'.deleting = cr.deleting
                 /\ cr'.finalizer = cr.finalizer /\ cr'.status = cr.status
  BY DEF CollectCR, InvokerDeployment

(* What the cluster does to one pod keeps the table of pods typed. *)
LEMMA PodChangeType ==
    ASSUME NEW f \in Table(PodNames, Pod), NEW p \in PodNames, f[p] # Nil
    PROVE  /\ f[p] \in Pod
           /\ [f EXCEPT ![p].deleting = TRUE] \in Table(PodNames, Pod)
           /\ \A ph \in PodPhases : [f EXCEPT ![p].phase = ph] \in Table(PodNames, Pod)
           /\ [f EXCEPT ![p] = Nil] \in Table(PodNames, Pod)
<1>1. f[p] \in Pod
      BY DEF Table
<1>2. [f[p] EXCEPT !.deleting = TRUE] \in Pod
      BY <1>1 DEF Pod
<1>3. \A ph \in PodPhases : [f[p] EXCEPT !.phase = ph] \in Pod
      BY <1>1 DEF Pod
<1> QED BY <1>1, <1>2, <1>3 DEF Table

-----------------------------------------------------------------------------
(* Type correctness, one step per action. *)

(* An empty cluster is typed.                                                *)
LEMMA TypeInit == Init => TypeOK
<1> SUFFICES ASSUME Init
             PROVE  TypeOK
    OBVIOUS
<1> USE BoundsAssumption
<1>1. /\ pods \in Table(PodNames, Pod) /\ podCache \in Table(PodNames, Pod)
      /\ cms \in Table(EntityNames, ConfigMap) /\ cmCache \in Table(EntityNames, ConfigMap)
      /\ revs \in Table(RevisionNames, ControllerRevision)
      /\ revCache \in Table(RevisionNames, ControllerRevision)
      BY DEF Init, Table
<1>2. upgradeCounter \in 0..MaxCount /\ uid \in 0..MaxUid
      /\ edits \in 0..MaxEdits /\ faults \in 0..MaxFaults
      BY DEF Init
<1>3. crSynced \in BOOLEAN /\ queued \in BOOLEAN /\ fresh \in BOOLEAN
      BY DEF Init
<1>4. cmCalls = {} /\ podCalls = {} /\ used = {} /\ observedRevs = {}
      BY DEF Init
<1> QED BY <1>1, <1>2, <1>3, <1>4 DEF Init, TypeOK

(* Every action of the operator and of its environment keeps the types.      *)
LEMMA TypeStep == TypeOK /\ [Next]_vars => TypeOK'
<1> SUFFICES ASSUME TypeOK, [Next]_vars
             PROVE  TypeOK'
    OBVIOUS
<1> USE BoundsAssumption, NilAssumption
<1>0. ASSUME Restart
      PROVE  /\ crCache' = cr' /\ podCache' = pods' /\ cmCache' = cms' /\ revCache' = revs'
             /\ crSynced' \in BOOLEAN /\ queued' \in BOOLEAN
             /\ pc' = "idle" /\ observed' = Nil /\ observedRevs' = {} /\ fresh' = FALSE
             /\ cmCalls' = {} /\ podCalls' = {} /\ upgradeCounter' \in 0..MaxCount
  <2>1. queued' \in BOOLEAN
        BY <1>0, Zenon DEF Restart
  <2> QED BY <1>0, <2>1 DEF Restart, EndPass
<1>1. CASE PassNoCR
      BY <1>1 DEF PassNoCR, TypeOK, api, caches, pass, env
<1>2. CASE AddFinalizer
  <2>1. crCache \in InvokerDeployment
        BY <1>2 DEF AddFinalizer, TypeOK
  <2>2. RoundTrip(crCache.spec) \in StoredSpecs
        BY <2>1, RoundTripStored DEF InvokerDeployment
  <2>3. [crCache EXCEPT !.finalizer = TRUE, !.spec = RoundTrip(crCache.spec)] \in InvokerDeployment
        BY <2>1, <2>2 DEF InvokerDeployment
  <2> QED BY <1>2, <2>3 DEF AddFinalizer, WriteCR, TypeOK, pass, env
<1>3. CASE RemoveFinalizer
  <2>1. crCache \in InvokerDeployment
        BY <1>3 DEF RemoveFinalizer, TypeOK
  <2>2. [crCache EXCEPT !.finalizer = FALSE, !.spec = RoundTrip(crCache.spec)] \in InvokerDeployment
        BY <2>1, ReleasedType
  <2> QED BY <1>3, <2>2 DEF RemoveFinalizer, WriteCR, TypeOK, pass, env
<1>4. CASE UpdateStatus
  <2>1. crCache # Nil
        BY <1>4 DEF UpdateStatus, Managed
  <2>2. [crCache EXCEPT !.status = NewStatus] \in InvokerDeployment
        BY <2>1, ObservedType
  <2>3. upgradeCounter' \in 0..MaxCount
        BY <1>4 DEF UpdateStatus, Count, TypeOK
  <2> QED BY <1>4, <2>2, <2>3 DEF UpdateStatus, WriteCR, TypeOK, pass, env
<1>5. CASE BeginReconcile
  <2>1. crCache # Nil
        BY <1>5 DEF BeginReconcile, Managed
  <2>2. ObservedCR \in InvokerDeployment
        BY <2>1, ObservedType
  <2>3. upgradeCounter' \in 0..MaxCount
        BY <1>5 DEF BeginReconcile, Count, TypeOK
  <2>4. observedRevs' \in SUBSET [name : RevisionNames, revision : Nat]
        BY <1>5 DEF BeginReconcile, observeRevisions, Present, TypeOK, Table, ControllerRevision
  <2>5. cmCache \in Table(EntityNames, ConfigMap) /\ podCache \in Table(PodNames, Pod)
        BY DEF TypeOK
  <2>6. /\ cmCalls' \in SUBSET Calls(EntityNames)
        /\ \A c \in cmCalls' : c.op # "delete" =>
              c.rank \in DOMAIN getDesiredConfigMaps(observed'.spec)
        BY <1>5, <2>2, <2>5, ConfigMapCallsType DEF BeginReconcile
  <2>7. /\ podCalls' \in SUBSET Calls(PodNames)
        /\ \A c \in podCalls' : c.op # "delete" =>
              c.rank \in DOMAIN getDesiredStatefulEntities(observed'.spec)
        BY <1>5, <2>2, <2>5, PodCallsType DEF BeginReconcile
  <2> QED BY <1>5, <2>2, <2>3, <2>4, <2>6, <2>7
          DEF BeginReconcile, TypeOK, api, caches, env
<1>6. ASSUME NEW c \in NextCalls(cmCalls), pc = "acting"
      PROVE  ConfigMapsAfter(c) \in Table(EntityNames, ConfigMap)
  <2>1. c \in cmCalls /\ c \in Calls(EntityNames)
        BY <1>6 DEF NextCalls, TypeOK
  <2>2. observed \in InvokerDeployment
        BY <1>6 DEF TypeOK
  <2>3. CASE c.op = "delete"
        BY <2>1, <2>3 DEF ConfigMapsAfter, TypeOK, Table
  <2>4. CASE c.op # "delete"
    <3>1. c.rank \in DOMAIN getDesiredConfigMaps(observed.spec)
          BY <2>1, <2>4 DEF TypeOK
    <3>2. getDesiredConfigMaps(observed.spec)[c.rank].data \in ConfigMapData
          BY <2>2, <3>1, DesiredConfigMapType, SpecShape DEF InvokerDeployment
    <3>3. [data |-> getDesiredConfigMaps(observed.spec)[c.rank].data,
           owner |-> observed.uid] \in ConfigMap
          BY <2>2, <3>2 DEF InvokerDeployment, ConfigMap
    <3> QED BY <2>1, <2>4, <3>3 DEF ConfigMapsAfter, TypeOK, Table
  <2> QED BY <2>3, <2>4
<1>7. CASE ConfigMapCall
      BY <1>6, <1>7 DEF ConfigMapCall, AbandonReconcile, TypeOK, caches, env
<1>8. ASSUME NEW c \in NextCalls(podCalls), pc = "acting"
      PROVE  PodsAfter(c) \in Table(PodNames, Pod)
  <2>1. c \in podCalls /\ c \in Calls(PodNames)
        BY <1>8 DEF NextCalls, TypeOK
  <2>2. observed \in InvokerDeployment
        BY <1>8 DEF TypeOK
  <2>3. CASE c.op # "create"
    <3>1. pods \in Table(PodNames, Pod) /\ c.name \in PodNames
          BY <2>1 DEF TypeOK, Calls
    <3>2. CASE pods[c.name] = Nil
          BY <2>3, <3>1, <3>2 DEF PodsAfter, Table
    <3>3. CASE pods[c.name] # Nil
      <4>1. PodsAfter(c) = [pods EXCEPT ![c.name].deleting = TRUE]
            BY <2>3, <3>1, <3>3 DEF PodsAfter, Table
      <4> QED BY <3>1, <3>3, <4>1, PodChangeType
    <3> QED BY <3>2, <3>3
  <2>4. CASE c.op = "create"
    <3> DEFINE d == getDesiredStatefulEntities(observed.spec)[c.rank]
    <3>1. c.rank \in DOMAIN getDesiredStatefulEntities(observed.spec)
          BY <2>1, <2>4 DEF TypeOK
    <3>2. d \in [name : PodNames, entity : EntityNames, image : Images,
                 resources : ResourceRequirements]
          BY <2>2, <3>1, DesiredPodType, SpecShape DEF InvokerDeployment
    <3>3. ApiDefaulted(ResourcesRoundTrip(d.resources)) \in ResourceRequirements
          BY <3>2, DefaultedType, ResourcesRoundTripType
    <3> HIDE DEF d
    <3>4. NewPod(d) \in Pod
          BY <2>2, <3>2, <3>3 DEF NewPod, Pod, PodPhases, InvokerDeployment
    <3> QED BY <2>1, <2>4, <3>4 DEF PodsAfter, TypeOK, Table, Calls, d
  <2> QED BY <2>3, <2>4
<1>9. CASE PodCall
      BY <1>8, <1>9 DEF PodCall, AbandonReconcile, TypeOK, caches, env
<1>10. CASE UpdateCurrentRevision
  <2>1. [observed EXCEPT !.status.currentRevision = observed.status.nextRevision]
           \in InvokerDeployment
        BY <1>10 DEF UpdateCurrentRevision, TypeOK, InvokerDeployment, InvokerDeploymentStatus
  <2> QED BY <1>10, <2>1 DEF UpdateCurrentRevision, WriteCR, AbandonReconcile, TypeOK, env
<1>11. ASSUME pc = "syncing", RevisionKnown
       PROVE  RevisionsAfter \in Table(RevisionNames, ControllerRevision)
  <2>1. observed \in InvokerDeployment
        BY <1>11 DEF TypeOK
  <2>2. generateRevisionName(observed.spec) \in RevisionNames
        BY <2>1, RoundTripStored DEF InvokerDeployment
  <2>3. CurrentName # Nil => revCache[CurrentName].revision \in Nat
        BY <1>11, <2>1 DEF RevisionKnown, CurrentName, TypeOK, Table, ControllerRevision,
                           InvokerDeployment, InvokerDeploymentStatus
  <2>4. RevisionNumber \in Nat
        BY <2>3 DEF RevisionNumber
  <2>5. RoundTrip(observed.spec) \in StoredSpecs
        BY <2>1, RoundTripStored DEF InvokerDeployment
  <2>6. [data     |-> RoundTrip(observed.spec),
         revision |-> RevisionNumber,
         label    |-> RevisionLabel,
         owner    |-> observed.uid] \in ControllerRevision
        BY <2>1, <2>4, <2>5 DEF InvokerDeployment, ControllerRevision
  <2> QED BY <2>2, <2>6 DEF RevisionsAfter, TypeOK, Table
<1>12. CASE SyncRevisionsFails
       BY <1>12 DEF SyncRevisionsFails, EndPass, TypeOK, api, caches, env
<1>13. CASE SyncRevisions
  <2> DEFINE synced == IF RevisionCurrent THEN revs ELSE RevisionsAfter
  <2>1. synced \in Table(RevisionNames, ControllerRevision)
        BY <1>11, <1>13 DEF SyncRevisions, TypeOK
  <2> HIDE DEF synced
  <2>2. \A X : [n \in RevisionNames |-> IF n \in X THEN Nil ELSE synced[n]]
                  \in Table(RevisionNames, ControllerRevision)
        BY <2>1 DEF Table
  <2>3. CASE observed.spec.historyLimit = Nil
    <3>1. revs' = synced /\ UNCHANGED <<cr, pods, cms>> /\ Restart /\ UNCHANGED env
          BY <1>13, <2>3 DEF SyncRevisions, synced
    <3> QED BY <1>0, <2>1, <3>1 DEF TypeOK, env
  <2>4. CASE observed.spec.historyLimit # Nil
    <3>1. PICK X : revs' = [n \in RevisionNames |-> IF n \in X THEN Nil ELSE synced[n]]
          BY <1>13, <2>4 DEF SyncRevisions, synced
    <3>2. revs' \in Table(RevisionNames, ControllerRevision)
          BY <2>2, <3>1
    <3> QED BY <1>13, <2>4, <3>2 DEF SyncRevisions, EndPass, TypeOK, caches, env
  <2> QED BY <2>3, <2>4
<1>14. CASE FailConfigMapCall
       BY <1>6, <1>14 DEF FailConfigMapCall, Fault, AbandonReconcile, TypeOK, caches
<1>15. CASE FailPodCall
       BY <1>8, <1>15 DEF FailPodCall, Fault, AbandonReconcile, TypeOK, caches
<1>16. CASE FailCurrentRevision
       BY <1>16 DEF FailCurrentRevision, Fault, AbandonReconcile, TypeOK, api, caches
<1>17. CASE FailSyncRevisions
  <2>1. revs' \in Table(RevisionNames, ControllerRevision)
        BY <1>11, <1>17 DEF FailSyncRevisions, TypeOK
  <2>2. /\ Fault("apiError") /\ EndPass /\ queued' = TRUE
        /\ UNCHANGED <<cr, pods, cms, caches, upgradeCounter, uid, used, edits>>
        BY <1>17 DEF FailSyncRevisions
  <2>3. faults' \in 0..MaxFaults
        BY <2>2 DEF Fault, TypeOK
  <2>4. /\ pc' = "idle" /\ observed' = Nil /\ observedRevs' = {} /\ fresh' \in BOOLEAN
        /\ cmCalls' = {} /\ podCalls' = {} /\ queued' \in BOOLEAN
        BY <2>2 DEF EndPass
  <2> QED BY <2>1, <2>2, <2>3, <2>4 DEF TypeOK, caches
<1>18. CASE Crash
  <2>1. Restart /\ Fault("crash") /\ UNCHANGED <<api, uid, used, edits>>
        BY <1>18 DEF Crash
  <2> QED BY <1>0, <2>1 DEF Fault, TypeOK, api
<1>19. ASSUME NEW p \in PodNames, PodGone(p)
       PROVE  TypeOK'
  <2>1. pods' \in Table(PodNames, Pod)
        BY <1>19, PodChangeType DEF PodGone, TypeOK
  <2> QED BY <1>19, <2>1 DEF PodGone, Fault, TypeOK, caches, pass
<1>20. ASSUME NEW p \in PodNames, PodFailed(p)
       PROVE  TypeOK'
  <2>1. pods' \in Table(PodNames, Pod)
        BY <1>20, PodChangeType DEF PodFailed, TypeOK, PodPhases
  <2> QED BY <1>20, <2>1 DEF PodFailed, Fault, TypeOK, caches, pass
<1>21. CASE CreateCR
  <2>1. /\ cr' \in InvokerDeployment /\ used' \in SUBSET Specs
        /\ uid' \in 0..MaxUid /\ crSynced' = FALSE
        BY <1>21, CreatedType DEF CreateCR, TypeOK
  <2> QED BY <1>21, <2>1 DEF CreateCR, TypeOK, pass
<1>22. CASE EditCR
  <2>1. cr' \in InvokerDeployment
        BY <1>22, EditedType DEF TypeOK
  <2>2. used' \in SUBSET Specs /\ edits' \in 0..MaxEdits
        BY <1>22 DEF EditCR, TypeOK
  <2> QED BY <1>22, <2>1, <2>2 DEF EditCR, TypeOK
<1>23. CASE DeleteCR
  <2>1. cr' \in InvokerDeployment \cup {Nil}
        BY <1>23, DeletedType DEF TypeOK
  <2> QED BY <1>23, <2>1 DEF DeleteCR, TypeOK, env
<1>24. CASE Informers
       BY <1>24 DEF Informers, SyncCR, SyncPods, SyncConfigMaps, SyncRevisionCache, Resync,
                    TypeOK, api, caches, pass, env
<1>25. ASSUME NEW p \in PodNames, KubeletStart(p) \/ KubeletStop(p) \/ CollectPod(p)
       PROVE  TypeOK'
  <2>1. pods' \in Table(PodNames, Pod)
    <3>1. CASE KubeletStart(p)
          BY <3>1, PodChangeType DEF KubeletStart, TypeOK, PodPhases
    <3>2. CASE KubeletStop(p)
          BY <3>2, PodChangeType DEF KubeletStop, TypeOK
    <3>3. CASE CollectPod(p)
          BY <3>3, PodChangeType DEF CollectPod, Collectable, TypeOK
    <3> QED BY <1>25, <3>1, <3>2, <3>3
  <2> QED BY <1>25, <2>1 DEF KubeletStart, KubeletStop, CollectPod, TypeOK, caches, pass, env
<1>26. ASSUME NEW e \in EntityNames, CollectConfigMap(e)
       PROVE  TypeOK'
       BY <1>26 DEF CollectConfigMap, TypeOK, Table, caches, pass, env
<1>27. ASSUME NEW n \in RevisionNames, CollectRevision(n)
       PROVE  TypeOK'
       BY <1>27 DEF CollectRevision, TypeOK, Table, caches, pass, env
<1>28. CASE CollectCR
  <2>1. cr' \in InvokerDeployment \cup {Nil}
        BY <1>28, CollectedType DEF TypeOK
  <2> QED BY <1>28, <2>1 DEF CollectCR, TypeOK, env
<1>29. CASE UNCHANGED vars
       BY <1>29 DEF vars, api, caches, pass, env, TypeOK
<1> QED
    BY <1>1, <1>2, <1>3, <1>4, <1>5, <1>7, <1>9, <1>10, <1>12, <1>13, <1>14, <1>15, <1>16,
       <1>17, <1>18, <1>19, <1>20, <1>21, <1>22, <1>23, <1>24, <1>25, <1>26, <1>27, <1>28, <1>29
    DEF Next, Worker, Disturb, Failures, User, Cluster

(* Type correctness: every reachable state is typed, so Status.State never   *)
(* takes a value the status derivation has no case for.                      *)
THEOREM TypeCorrect == Spec => []TypeOK
  BY TypeInit, TypeStep, PTL DEF Spec

-----------------------------------------------------------------------------
(* The finalizer holds the owner of every running pass. *)

(* Actions that touch neither the resource, its cached copy nor the pass.    *)
LEMMA LatestFrame ==
    WritesLatest /\ UNCHANGED <<cr, crCache, crSynced, pc, observed, fresh>> => WritesLatest'
  BY DEF WritesLatest, LatestCopies, PassAdopted, ForegroundDeletes, Managed

(* A pass that ends leaves only the cached copy to account for. *)
LEMMA LatestIdle ==
    ASSUME TypeOK, WritesLatest, pc' = "idle", cr' = cr,
           \/ crCache' = crCache /\ crSynced' = crSynced
           \/ crCache' = cr /\ crSynced' = TRUE
    PROVE  WritesLatest'
  BY DEF WritesLatest, LatestCopies, PassAdopted, ForegroundDeletes, Managed

(* A pass between its calls keeps its copies, unless it has just finished.   *)
LEMMA LatestMidPass ==
    ASSUME WritesLatest, pc = "acting", pc' \in {"acting", "syncing"},
           UNCHANGED <<cr, crCache, crSynced, observed, fresh>>
    PROVE  WritesLatest'
  BY DEF WritesLatest, LatestCopies, PassAdopted, ForegroundDeletes, Managed

(* Every action keeps the copies that pass for the latest in step with it.   *)
LEMMA LatestStep == TypeOK /\ WritesLatest /\ [Next]_vars => WritesLatest'
<1> SUFFICES ASSUME TypeOK, WritesLatest, [Next]_vars
             PROVE  WritesLatest'
    OBVIOUS
<1> USE NilAssumption
<1>1. CASE PassNoCR
      BY <1>1, LatestFrame DEF PassNoCR, api, caches, pass
<1>2. CASE AddFinalizer
  <2>1. CASE crSynced /\ ~crCache.deleting
    <3>1. /\ cr = crCache /\ crCache \in InvokerDeployment
          /\ cr' = [crCache EXCEPT !.finalizer = TRUE, !.spec = RoundTrip(crCache.spec)]
          /\ ~crSynced' /\ crCache' = crCache /\ pc' = "idle" /\ ~crCache.finalizer
          BY <1>2, <2>1 DEF AddFinalizer, TakeKey, WriteCR, pass, WritesLatest, LatestCopies,
                            TypeOK, InvokerDeployment
    <3> QED BY <3>1 DEF WritesLatest, LatestCopies, PassAdopted, ForegroundDeletes, Managed, InvokerDeployment
  <2>2. CASE ~(crSynced /\ ~crCache.deleting)
        BY <1>2, <2>2, LatestFrame DEF AddFinalizer, WriteCR, pass
  <2> QED BY <2>1, <2>2
<1>3. CASE RemoveFinalizer
  <2>1. CASE crSynced
    <3> DEFINE new == [crCache EXCEPT !.finalizer = FALSE, !.spec = RoundTrip(crCache.spec)]
    <3>1. /\ crCache \in InvokerDeployment /\ cr = crCache /\ cr.finalizer
          /\ cr' = (IF crCache.foreground THEN new ELSE Nil)
          /\ crSynced' = (crSynced /\ cr' = cr) /\ crCache' = crCache /\ pc' = "idle"
          /\ crCache.deleting
          BY <1>3, <2>1 DEF RemoveFinalizer, TakeKey, WriteCR, pass, WritesLatest, LatestCopies,
                            TypeOK
    <3>2. new \in InvokerDeployment /\ ~new.finalizer /\ new.deleting = crCache.deleting
          BY <3>1, ReleasedType
    <3> HIDE DEF new
    <3>3. ~crSynced'
          BY <3>1, <3>2
    <3> QED BY <3>1, <3>2, <3>3 DEF WritesLatest, LatestCopies, PassAdopted, ForegroundDeletes, Managed
  <2>2. CASE ~crSynced
        BY <1>3, <2>2, LatestFrame DEF RemoveFinalizer, WriteCR, pass
  <2> QED BY <2>1, <2>2
<1>4. CASE UpdateStatus
  <2>1. CASE crSynced
    <3>1. /\ cr = crCache /\ crCache \in InvokerDeployment
          /\ cr' = [crCache EXCEPT !.status = NewStatus]
          /\ crSynced' => cr' = cr
          /\ crCache' = crCache /\ pc' = "idle" /\ Managed(crCache)
          BY <1>4, <2>1 DEF UpdateStatus, TakeKey, WriteCR, pass, WritesLatest, LatestCopies,
                            TypeOK, Managed
    <3>2. cr' \in InvokerDeployment
          BY <3>1, ObservedType DEF Managed
    <3>3. /\ cr'.uid = crCache.uid /\ cr'.finalizer = crCache.finalizer
          /\ cr'.deleting = crCache.deleting /\ cr'.foreground = crCache.foreground
          BY <3>1 DEF InvokerDeployment
    <3> QED BY <3>1, <3>2, <3>3 DEF WritesLatest, LatestCopies, PassAdopted, ForegroundDeletes, Managed
  <2>2. CASE ~crSynced
        BY <1>4, <2>2, LatestFrame DEF UpdateStatus, WriteCR, pass
  <2> QED BY <2>1, <2>2
<1>5. CASE BeginReconcile
  <2>1. /\ pc' = "acting" /\ observed' = ObservedCR /\ fresh' = crSynced
        /\ UNCHANGED <<cr, crCache, crSynced>> /\ Managed(crCache) /\ crCache # Nil
        BY <1>5 DEF BeginReconcile, api, caches, Managed
  <2>2. /\ ObservedCR \in InvokerDeployment
        /\ ObservedCR.spec = crCache.spec
        /\ ObservedCR.uid = crCache.uid
        /\ ObservedCR.finalizer = crCache.finalizer
        /\ ObservedCR.deleting = crCache.deleting
        /\ ObservedCR.foreground = crCache.foreground
        /\ ObservedCR.status.currentRevision = crCache.status.currentRevision
        /\ ObservedCR.status.nextRevision = generateRevisionName(crCache.spec)
        BY <2>1, ObservedType
  <2> QED BY <2>1, <2>2 DEF WritesLatest, LatestCopies, PassAdopted, ForegroundDeletes, Managed
<1>6. CASE ConfigMapCall \/ FailConfigMapCall
      BY <1>6, LatestMidPass DEF ConfigMapCall, FailConfigMapCall, AbandonReconcile, caches
<1>7. CASE PodCall \/ FailPodCall
      BY <1>7, LatestMidPass DEF PodCall, FailPodCall, AbandonReconcile, caches
<1>8. CASE UpdateCurrentRevision
  <2>1. CASE fresh
    <3>1. /\ pc = "acting" /\ pc' = "syncing" /\ observed \in InvokerDeployment
          /\ cr' = [observed EXCEPT !.status.currentRevision = observed.status.nextRevision]
          /\ crSynced' => crSynced /\ cr' = cr
          /\ UNCHANGED <<crCache, observed>>
          BY <1>8, <2>1 DEF UpdateCurrentRevision, WriteCR, AbandonReconcile, TypeOK
    <3>2. /\ cr' \in InvokerDeployment /\ cr'.uid = observed.uid /\ cr'.finalizer = observed.finalizer
          /\ cr'.deleting = observed.deleting /\ cr'.foreground = observed.foreground
          BY <3>1 DEF InvokerDeployment, InvokerDeploymentStatus
    <3> QED BY <2>1, <3>1, <3>2 DEF WritesLatest, LatestCopies, PassAdopted, ForegroundDeletes, Managed
  <2>2. CASE ~fresh
        BY <1>8, <2>2, LatestMidPass DEF UpdateCurrentRevision, WriteCR, AbandonReconcile
  <2> QED BY <2>1, <2>2
<1>9. CASE FailCurrentRevision
      BY <1>9, LatestMidPass DEF FailCurrentRevision, AbandonReconcile, api, caches
<1>10. CASE SyncRevisionsFails \/ FailSyncRevisions
       BY <1>10, LatestIdle DEF SyncRevisionsFails, FailSyncRevisions, EndPass, api, caches
<1>11. CASE SyncRevisions
       BY <1>11, LatestIdle DEF SyncRevisions, Restart, EndPass, caches
<1>12. CASE Crash
       BY <1>12, LatestIdle DEF Crash, Restart, EndPass, api
<1>13. CASE CreateCR
  <2>1. /\ cr = Nil /\ ~crSynced' /\ ~cr'.deleting /\ ~cr'.foreground
        /\ UNCHANGED <<crCache, pc, observed, fresh>>
        BY <1>13 DEF CreateCR, pass
  <2> QED BY <2>1 DEF WritesLatest, LatestCopies, PassAdopted, ForegroundDeletes, Managed
<1>14. CASE EditCR
  <2>1. /\ cr # Nil /\ cr' # Nil /\ cr'.uid = cr.uid /\ cr'.finalizer = cr.finalizer
        /\ cr'.deleting = cr.deleting /\ cr'.foreground = cr.foreground
        /\ ~crSynced' /\ ~fresh' /\ UNCHANGED <<crCache, pc, observed>>
        BY <1>14, EditedType DEF EditCR, TypeOK
  <2> QED BY <2>1 DEF WritesLatest, LatestCopies, PassAdopted, ForegroundDeletes, Managed
<1>15. CASE DeleteCR
  <2>1. ~crSynced' /\ ~fresh' /\ UNCHANGED <<crCache, pc, observed>>
        BY <1>15 DEF DeleteCR
  <2>2. cr # Nil /\ (\/ cr' = Nil /\ ~cr.finalizer
                     \/ cr' # Nil /\ cr'.uid = cr.uid /\ cr'.finalizer = cr.finalizer /\ cr'.deleting)
        BY <1>15, DeletedType DEF TypeOK
  <2> QED BY <2>1, <2>2 DEF WritesLatest, LatestCopies, PassAdopted, ForegroundDeletes, Managed
<1>16. CASE SyncCR
  <2>1. /\ crCache' = cr /\ crSynced' /\ UNCHANGED <<cr, pc, observed, fresh>> /\ ~crSynced
        BY <1>16 DEF SyncCR, api, pass
  <2> QED BY <2>1 DEF WritesLatest, LatestCopies, PassAdopted, ForegroundDeletes, Managed
<1>17. CASE SyncPods \/ SyncConfigMaps \/ SyncRevisionCache \/ Resync
       BY <1>17, LatestFrame DEF SyncPods, SyncConfigMaps, SyncRevisionCache, Resync,
                                    api, caches, pass
<1>18. ASSUME NEW p \in PodNames,
              PodGone(p) \/ PodFailed(p) \/ KubeletStart(p) \/ KubeletStop(p) \/ CollectPod(p)
       PROVE  WritesLatest'
       BY <1>18, LatestFrame DEF PodGone, PodFailed, KubeletStart, KubeletStop, CollectPod,
                                    caches, pass
<1>19. ASSUME NEW e, CollectConfigMap(e) \/ CollectRevision(e)
       PROVE  WritesLatest'
       BY <1>19, LatestFrame DEF CollectConfigMap, CollectRevision, caches, pass
<1>20. CASE CollectCR
  <2>1. ~crSynced' /\ ~fresh' /\ UNCHANGED <<crCache, pc, observed>>
        BY <1>20 DEF CollectCR
  <2>2. cr # Nil /\ (\/ cr' = Nil /\ ~cr.finalizer
                     \/ cr' # Nil /\ cr'.uid = cr.uid /\ cr'.finalizer = cr.finalizer /\ ~cr'.foreground)
        BY <1>20, CollectedType DEF TypeOK
  <2> QED BY <2>1, <2>2 DEF WritesLatest, LatestCopies, PassAdopted, ForegroundDeletes, Managed
<1>21. CASE UNCHANGED vars
       BY <1>21, LatestFrame DEF vars, api, caches, pass
<1> QED
    BY <1>1, <1>2, <1>3, <1>4, <1>5, <1>6, <1>7, <1>8, <1>9, <1>10, <1>11, <1>12, <1>13,
       <1>14, <1>15, <1>16, <1>17, <1>18, <1>19, <1>20, <1>21
    DEF Next, Worker, Disturb, Failures, User, Informers, Cluster

(* The owner of a pass, in the same cases. *)
LEMMA OwnershipFrame ==
    OwnershipInv /\ UNCHANGED <<cr, crCache, crSynced, pc, observed, fresh>> => CopiesHeld' /\ OwnerHeld'
  BY DEF OwnershipInv, WritesLatest, LatestCopies, CopiesHeld, PassAdopted, OwnerHeld, Managed

LEMMA OwnershipIdle ==
    ASSUME TypeOK, OwnershipInv, pc' = "idle", cr' = cr,
           \/ crCache' = crCache /\ crSynced' = crSynced
           \/ crCache' = cr /\ crSynced' = TRUE
    PROVE  CopiesHeld' /\ OwnerHeld'
  BY DEF OwnershipInv, WritesLatest, LatestCopies, CopiesHeld, PassAdopted, OwnerHeld, Managed

LEMMA OwnershipMidPass ==
    ASSUME OwnershipInv, pc = "acting", pc' \in {"acting", "syncing"},
           UNCHANGED <<cr, crCache, crSynced, observed, fresh>>
    PROVE  CopiesHeld' /\ OwnerHeld'
  BY DEF OwnershipInv, WritesLatest, LatestCopies, CopiesHeld, PassAdopted, OwnerHeld, Managed

(* Every action keeps the copies of the resource tied to the resource.       *)
LEMMA OwnershipStep == TypeOK /\ OwnershipInv /\ [Next]_vars => OwnershipInv'
<1>0. TypeOK /\ OwnershipInv /\ [Next]_vars => WritesLatest'
      BY LatestStep DEF OwnershipInv
<1> SUFFICES ASSUME TypeOK, OwnershipInv, [Next]_vars
             PROVE  CopiesHeld' /\ OwnerHeld'
    BY <1>0 DEF OwnershipInv
<1> USE NilAssumption
<1>1. CASE PassNoCR
      BY <1>1, OwnershipFrame DEF PassNoCR, api, caches, pass
<1>2. CASE AddFinalizer
  <2>1. CASE crSynced /\ ~crCache.deleting
    <3>1. /\ cr = crCache /\ crCache \in InvokerDeployment
          /\ cr' = [crCache EXCEPT !.finalizer = TRUE, !.spec = RoundTrip(crCache.spec)]
          /\ ~crSynced' /\ crCache' = crCache /\ pc' = "idle" /\ ~crCache.finalizer
          BY <1>2, <2>1 DEF AddFinalizer, TakeKey, WriteCR, pass, OwnershipInv, WritesLatest, LatestCopies,
                            TypeOK, InvokerDeployment
    <3> QED BY <3>1 DEF OwnershipInv, WritesLatest, LatestCopies, CopiesHeld, PassAdopted, OwnerHeld, Managed, InvokerDeployment
  <2>2. CASE ~(crSynced /\ ~crCache.deleting)
        BY <1>2, <2>2, OwnershipFrame DEF AddFinalizer, WriteCR, pass
  <2> QED BY <2>1, <2>2
<1>3. CASE RemoveFinalizer
  <2>1. CASE crSynced
    <3> DEFINE new == [crCache EXCEPT !.finalizer = FALSE, !.spec = RoundTrip(crCache.spec)]
    <3>1. /\ crCache \in InvokerDeployment /\ cr = crCache /\ cr.finalizer
          /\ cr' = (IF crCache.foreground THEN new ELSE Nil)
          /\ crSynced' = (crSynced /\ cr' = cr) /\ crCache' = crCache /\ pc' = "idle"
          /\ crCache.deleting
          BY <1>3, <2>1 DEF RemoveFinalizer, TakeKey, WriteCR, pass, OwnershipInv, WritesLatest, LatestCopies,
                            TypeOK
    <3>2. new \in InvokerDeployment /\ ~new.finalizer /\ new.deleting = crCache.deleting
          BY <3>1, ReleasedType
    <3> HIDE DEF new
    <3>3. ~crSynced'
          BY <3>1, <3>2
    <3> QED BY <3>1, <3>2, <3>3 DEF OwnershipInv, WritesLatest, LatestCopies, CopiesHeld, PassAdopted, OwnerHeld, Managed
  <2>2. CASE ~crSynced
        BY <1>3, <2>2, OwnershipFrame DEF RemoveFinalizer, WriteCR, pass
  <2> QED BY <2>1, <2>2
<1>4. CASE UpdateStatus
  <2>1. CASE crSynced
    <3>1. /\ cr = crCache /\ crCache \in InvokerDeployment
          /\ cr' = [crCache EXCEPT !.status = NewStatus]
          /\ crSynced' => cr' = cr
          /\ crCache' = crCache /\ pc' = "idle" /\ Managed(crCache)
          BY <1>4, <2>1 DEF UpdateStatus, TakeKey, WriteCR, pass, OwnershipInv, WritesLatest, LatestCopies,
                            TypeOK, Managed
    <3>2. cr' \in InvokerDeployment
          BY <3>1, ObservedType DEF Managed
    <3>3. /\ cr'.uid = crCache.uid /\ cr'.finalizer = crCache.finalizer
          /\ cr'.deleting = crCache.deleting /\ cr'.foreground = crCache.foreground
          BY <3>1 DEF InvokerDeployment
    <3> QED BY <3>1, <3>2, <3>3 DEF OwnershipInv, WritesLatest, LatestCopies, CopiesHeld, PassAdopted, OwnerHeld, Managed
  <2>2. CASE ~crSynced
        BY <1>4, <2>2, OwnershipFrame DEF UpdateStatus, WriteCR, pass
  <2> QED BY <2>1, <2>2
<1>5. CASE BeginReconcile
  <2>1. /\ pc' = "acting" /\ observed' = ObservedCR /\ fresh' = crSynced
        /\ UNCHANGED <<cr, crCache, crSynced>> /\ Managed(crCache) /\ crCache # Nil
        BY <1>5 DEF BeginReconcile, api, caches, Managed
  <2>2. /\ ObservedCR \in InvokerDeployment
        /\ ObservedCR.spec = crCache.spec
        /\ ObservedCR.uid = crCache.uid
        /\ ObservedCR.finalizer = crCache.finalizer
        /\ ObservedCR.deleting = crCache.deleting
        /\ ObservedCR.foreground = crCache.foreground
        /\ ObservedCR.status.currentRevision = crCache.status.currentRevision
        /\ ObservedCR.status.nextRevision = generateRevisionName(crCache.spec)
        BY <2>1, ObservedType
  <2> QED BY <2>1, <2>2 DEF OwnershipInv, WritesLatest, LatestCopies, CopiesHeld, PassAdopted, OwnerHeld, Managed
<1>6. CASE ConfigMapCall \/ FailConfigMapCall
      BY <1>6, OwnershipMidPass DEF ConfigMapCall, FailConfigMapCall, AbandonReconcile, caches
<1>7. CASE PodCall \/ FailPodCall
      BY <1>7, OwnershipMidPass DEF PodCall, FailPodCall, AbandonReconcile, caches
<1>8. CASE UpdateCurrentRevision
  <2>1. CASE fresh
    <3>1. /\ pc = "acting" /\ pc' = "syncing" /\ observed \in InvokerDeployment
          /\ cr' = [observed EXCEPT !.status.currentRevision = observed.status.nextRevision]
          /\ crSynced' => crSynced /\ cr' = cr
          /\ UNCHANGED <<crCache, observed>>
          BY <1>8, <2>1 DEF UpdateCurrentRevision, WriteCR, AbandonReconcile, TypeOK
    <3>2. /\ cr' \in InvokerDeployment /\ cr'.uid = observed.uid /\ cr'.finalizer = observed.finalizer
          /\ cr'.deleting = observed.deleting /\ cr'.foreground = observed.foreground
          BY <3>1 DEF InvokerDeployment, InvokerDeploymentStatus
    <3> QED BY <2>1, <3>1, <3>2 DEF OwnershipInv, WritesLatest, LatestCopies, CopiesHeld, PassAdopted, OwnerHeld, Managed
  <2>2. CASE ~fresh
        BY <1>8, <2>2, OwnershipMidPass DEF UpdateCurrentRevision, WriteCR, AbandonReconcile
  <2> QED BY <2>1, <2>2
<1>9. CASE FailCurrentRevision
      BY <1>9, OwnershipMidPass DEF FailCurrentRevision, AbandonReconcile, api, caches
<1>10. CASE SyncRevisionsFails \/ FailSyncRevisions
       BY <1>10, OwnershipIdle DEF SyncRevisionsFails, FailSyncRevisions, EndPass, api, caches
<1>11. CASE SyncRevisions
       BY <1>11, OwnershipIdle DEF SyncRevisions, Restart, EndPass, caches
<1>12. CASE Crash
       BY <1>12, OwnershipIdle DEF Crash, Restart, EndPass, api
<1>13. CASE CreateCR
  <2>1. /\ cr = Nil /\ ~crSynced' /\ ~cr'.deleting /\ ~cr'.foreground
        /\ UNCHANGED <<crCache, pc, observed, fresh>>
        BY <1>13 DEF CreateCR, pass
  <2> QED BY <2>1 DEF OwnershipInv, WritesLatest, LatestCopies, CopiesHeld, PassAdopted, OwnerHeld, Managed
<1>14. CASE EditCR
  <2>1. /\ cr # Nil /\ cr' # Nil /\ cr'.uid = cr.uid /\ cr'.finalizer = cr.finalizer
        /\ cr'.deleting = cr.deleting /\ cr'.foreground = cr.foreground
        /\ ~crSynced' /\ ~fresh' /\ UNCHANGED <<crCache, pc, observed>>
        BY <1>14, EditedType DEF EditCR, TypeOK
  <2> QED BY <2>1 DEF OwnershipInv, WritesLatest, LatestCopies, CopiesHeld, PassAdopted, OwnerHeld, Managed
<1>15. CASE DeleteCR
  <2>1. ~crSynced' /\ ~fresh' /\ UNCHANGED <<crCache, pc, observed>>
        BY <1>15 DEF DeleteCR
  <2>2. cr # Nil /\ (\/ cr' = Nil /\ ~cr.finalizer
                     \/ cr' # Nil /\ cr'.uid = cr.uid /\ cr'.finalizer = cr.finalizer /\ cr'.deleting)
        BY <1>15, DeletedType DEF TypeOK
  <2> QED BY <2>1, <2>2 DEF OwnershipInv, WritesLatest, LatestCopies, CopiesHeld, PassAdopted, OwnerHeld, Managed
<1>16. CASE SyncCR
  <2>1. /\ crCache' = cr /\ crSynced' /\ UNCHANGED <<cr, pc, observed, fresh>> /\ ~crSynced
        BY <1>16 DEF SyncCR, api, pass
  <2> QED BY <2>1 DEF OwnershipInv, WritesLatest, LatestCopies, CopiesHeld, PassAdopted, OwnerHeld, Managed
<1>17. CASE SyncPods \/ SyncConfigMaps \/ SyncRevisionCache \/ Resync
       BY <1>17, OwnershipFrame DEF SyncPods, SyncConfigMaps, SyncRevisionCache, Resync,
                                    api, caches, pass
<1>18. ASSUME NEW p \in PodNames,
              PodGone(p) \/ PodFailed(p) \/ KubeletStart(p) \/ KubeletStop(p) \/ CollectPod(p)
       PROVE  CopiesHeld' /\ OwnerHeld'
       BY <1>18, OwnershipFrame DEF PodGone, PodFailed, KubeletStart, KubeletStop, CollectPod,
                                    caches, pass
<1>19. ASSUME NEW e, CollectConfigMap(e) \/ CollectRevision(e)
       PROVE  CopiesHeld' /\ OwnerHeld'
       BY <1>19, OwnershipFrame DEF CollectConfigMap, CollectRevision, caches, pass
<1>20. CASE CollectCR
  <2>1. ~crSynced' /\ ~fresh' /\ UNCHANGED <<crCache, pc, observed>>
        BY <1>20 DEF CollectCR
  <2>2. cr # Nil /\ (\/ cr' = Nil /\ ~cr.finalizer
                     \/ cr' # Nil /\ cr'.uid = cr.uid /\ cr'.finalizer = cr.finalizer /\ ~cr'.foreground)
        BY <1>20, CollectedType DEF TypeOK
  <2> QED BY <2>1, <2>2 DEF OwnershipInv, WritesLatest, LatestCopies, CopiesHeld, PassAdopted, OwnerHeld, Managed
<1>21. CASE UNCHANGED vars
       BY <1>21, OwnershipFrame DEF vars, api, caches, pass
<1> QED
    BY <1>1, <1>2, <1>3, <1>4, <1>5, <1>6, <1>7, <1>8, <1>9, <1>10, <1>11, <1>12, <1>13,
       <1>14, <1>15, <1>16, <1>17, <1>18, <1>19, <1>20, <1>21
    DEF Next, Worker, Disturb, Failures, User, Informers, Cluster

(* Without a resource there are no copies.                                   *)
LEMMA OwnershipInit == Init => OwnershipInv
  BY DEF Init, OwnershipInv, WritesLatest, LatestCopies, PassAdopted, CopiesHeld, ForegroundDeletes,
         OwnerHeld, Managed

(* Every copy of the resource in use, cached or held by a pass, stands for a *)
(* resource that still exists (what the finalizer of controller.go and the   *)
(* resourceVersion of its writes achieve together).                          *)
THEOREM OwnershipHolds == Spec => []OwnershipInv
<1>1. Spec => []TypeOK
      BY TypeCorrect
<1> QED BY <1>1, OwnershipInit, OwnershipStep, PTL DEF Spec

(* However stale its caches are, the operator never works for, and so never  *)
(* creates children of, a resource that is gone.                             *)
THEOREM OwnerAlwaysHeld == Spec => []OwnerHeld
<1>1. OwnershipInv => OwnerHeld
      BY DEF OwnershipInv
<1> QED BY <1>1, OwnershipHolds, PTL

-----------------------------------------------------------------------------
(* The operator implements Rollout. *)

(* An empty cluster is a resource that is absent.                            *)
LEMMA RolloutInit == Init => Lifecycle!Init
  BY DEF Init, Lifecycle!Init, Phase

(* Steps that leave the resource alone stutter. *)
LEMMA RolloutStutter == UNCHANGED cr => UNCHANGED Lifecycle!vars
  BY DEF Lifecycle!vars, Phase

(* What the user does is what the contract lets a user do. *)
LEMMA RolloutUser ==
    ASSUME cr \in InvokerDeployment \cup {Nil}, uid \in Nat, User
    PROVE  Lifecycle!Next
<1> USE NilAssumption
<1>1. CASE CreateCR
  <2>1. PICK s \in Specs :
           cr' = [uid |-> uid + 1, spec |-> s, finalizer |-> FALSE,
                  deleting |-> FALSE, foreground |-> FALSE, status |-> EmptyStatus]
        BY <1>1 DEF CreateCR
  <2>2. cr = Nil /\ cr' # Nil
        BY <1>1, <2>1, CreatedType DEF CreateCR
  <2>3. /\ ~cr'.finalizer /\ ~cr'.deleting /\ RoundTrip(cr'.spec) \in StoredSpecs
        /\ cr'.status.currentRevision = Nil
        BY <2>1 DEF EmptyStatus, StoredSpecs
  <2> QED BY <2>2, <2>3 DEF Lifecycle!Next, Lifecycle!Create, Phase
<1>2. CASE EditCR
  <2>1. /\ cr \in InvokerDeployment /\ cr # Nil /\ cr' \in InvokerDeployment
        /\ RoundTrip(cr'.spec) \in StoredSpecs /\ cr'.finalizer = cr.finalizer
        /\ cr'.deleting = cr.deleting /\ cr'.status = cr.status
        BY <1>2, EditedType DEF StoredSpecs
  <2> QED BY <2>1 DEF Lifecycle!Next, Lifecycle!Edit, Phase
<1>3. CASE DeleteCR
  <2>1. cr \in InvokerDeployment /\ cr # Nil /\ ~cr.deleting
        BY <1>3, DeletedType
  <2>2. CASE cr' = Nil /\ ~cr.finalizer
        BY <2>1, <2>2 DEF Lifecycle!Next, Lifecycle!Vanish, Phase
  <2>3. CASE cr' \in InvokerDeployment /\ cr'.deleting /\ cr'.spec = cr.spec /\ cr'.status = cr.status
        BY <2>1, <2>3 DEF Lifecycle!Next, Lifecycle!RequestDeletion, Phase
  <2> QED BY <1>3, <2>2, <2>3, DeletedType
<1> QED BY <1>1, <1>2, <1>3 DEF User

(* The garbage collector lets a resource go only in the course of a deletion. *)
LEMMA RolloutCollect ==
    ASSUME cr \in InvokerDeployment \cup {Nil}, ForegroundDeletes, CollectCR
    PROVE  Lifecycle!Next \/ UNCHANGED Lifecycle!vars
<1> USE NilAssumption
<1>1. cr \in InvokerDeployment /\ cr # Nil /\ cr.deleting
      BY CollectedType DEF ForegroundDeletes
<1>2. CASE cr' = Nil
      BY <1>1, <1>2 DEF Lifecycle!Next, Lifecycle!Vanish, Phase
<1>3. CASE cr' \in InvokerDeployment /\ cr'.deleting = cr.deleting /\ cr'.spec = cr.spec
           /\ cr'.status = cr.status
      BY <1>1, <1>3 DEF Lifecycle!vars, Phase
<1> QED BY <1>2, <1>3, CollectedType

(* Every step of the operator is a step of the contract or leaves it alone.  *)
LEMMA RolloutStep ==
    TypeOK /\ WritesLatest /\ [Next]_vars => [Lifecycle!Next]_(Lifecycle!vars)
<1> SUFFICES ASSUME TypeOK, WritesLatest, [Next]_vars
             PROVE  Lifecycle!Next \/ UNCHANGED Lifecycle!vars
    OBVIOUS
<1> USE NilAssumption
<1>1. CASE AddFinalizer
  <2>1. CASE crSynced /\ ~crCache.deleting
    <3>1. /\ cr = crCache /\ cr \in InvokerDeployment /\ ~cr.finalizer
          /\ cr' = [cr EXCEPT !.finalizer = TRUE, !.spec = RoundTrip(cr.spec)]
          BY <1>1, <2>1 DEF AddFinalizer, WriteCR, WritesLatest, LatestCopies, TypeOK
    <3>2. /\ cr' # Nil /\ cr'.finalizer /\ RoundTrip(cr'.spec) = RoundTrip(cr.spec)
          /\ cr'.deleting = cr.deleting /\ cr'.status = cr.status
          BY <3>1, RoundTripStored, TypeStep DEF InvokerDeployment, TypeOK
    <3>3. ~cr.deleting /\ ~cr'.deleting
          BY <2>1, <3>1, <3>2
    <3>4. Phase = "fresh" /\ Phase' = "managed"
          BY <3>1, <3>2, <3>3 DEF Phase
    <3>5. /\ cr # Nil /\ cr' # Nil /\ RoundTrip(cr'.spec) = RoundTrip(cr.spec)
          /\ cr'.status = cr.status
          BY <3>1, <3>2
    <3> QED BY <3>4, <3>5 DEF Lifecycle!Next, Lifecycle!Adopt
  <2>2. CASE ~(crSynced /\ ~crCache.deleting)
        BY <1>1, <2>2, RolloutStutter DEF AddFinalizer, WriteCR
  <2> QED BY <2>1, <2>2
<1>2. CASE RemoveFinalizer
  <2>1. CASE crSynced
    <3> DEFINE new == [cr EXCEPT !.finalizer = FALSE, !.spec = RoundTrip(cr.spec)]
    <3>1. /\ cr \in InvokerDeployment /\ cr # Nil /\ cr.finalizer /\ cr.deleting
          /\ cr' = (IF cr.foreground THEN new ELSE Nil)
          BY <1>2, <2>1 DEF RemoveFinalizer, WriteCR, WritesLatest, LatestCopies, TypeOK
    <3>2. /\ new \in InvokerDeployment /\ RoundTrip(new.spec) = RoundTrip(cr.spec)
          /\ new.deleting = cr.deleting /\ new.status = cr.status
          BY <3>1, ReleasedType
    <3> HIDE DEF new
    <3>3. CASE cr.foreground
          BY <3>1, <3>2, <3>3 DEF Lifecycle!vars, Phase
    <3>4. CASE ~cr.foreground
          BY <3>1, <3>4 DEF Lifecycle!Next, Lifecycle!Vanish, Phase
    <3> QED BY <3>3, <3>4
  <2>2. CASE ~crSynced
        BY <1>2, <2>2, RolloutStutter DEF RemoveFinalizer, WriteCR
  <2> QED BY <2>1, <2>2
<1>3. CASE UpdateStatus
  <2>1. CASE crSynced
    <3>1. /\ cr = crCache /\ cr # Nil /\ cr \in InvokerDeployment
          /\ cr' = [crCache EXCEPT !.status = NewStatus]
          BY <1>3, <2>1 DEF UpdateStatus, WriteCR, WritesLatest, LatestCopies, TypeOK, Managed
    <3>2. /\ cr' \in InvokerDeployment /\ NewStatus.currentRevision = cr.status.currentRevision
          BY <3>1, ObservedType
    <3>3. /\ cr'.finalizer = cr.finalizer /\ cr'.spec = cr.spec /\ cr'.deleting = cr.deleting
          /\ cr'.status.currentRevision = cr.status.currentRevision
          BY <3>1, <3>2 DEF InvokerDeployment
    <3> QED BY <3>1, <3>2, <3>3 DEF Lifecycle!vars, Phase
  <2>2. CASE ~crSynced
        BY <1>3, <2>2, RolloutStutter DEF UpdateStatus, WriteCR
  <2> QED BY <2>1, <2>2
<1>4. CASE UpdateCurrentRevision
  <2>1. CASE fresh
    <3>1. /\ pc = "acting" /\ observed \in InvokerDeployment
          /\ cr' = [observed EXCEPT !.status.currentRevision = observed.status.nextRevision]
          BY <1>4, <2>1 DEF UpdateCurrentRevision, WriteCR, TypeOK
    <3>2. /\ cr # Nil /\ cr.finalizer /\ ~cr.deleting /\ cr.spec = observed.spec
          /\ observed.finalizer /\ ~observed.deleting
          /\ observed.status.nextRevision = generateRevisionName(cr.spec)
          /\ cr.spec \in StoredSpecs
          BY <2>1, <3>1 DEF WritesLatest, LatestCopies, PassAdopted, Managed, TypeOK, InvokerDeployment
    <3>3. /\ cr' \in InvokerDeployment /\ cr'.finalizer = observed.finalizer
          /\ cr'.spec = observed.spec /\ cr'.deleting = observed.deleting
          /\ cr'.status.currentRevision = observed.status.nextRevision
          BY <3>1 DEF InvokerDeployment, InvokerDeploymentStatus
    <3>4. observed.status.nextRevision = generateRevisionName(RoundTrip(cr.spec))
          BY <3>2, RoundTripStored
    <3> QED BY <3>2, <3>3, <3>4 DEF Lifecycle!Next, Lifecycle!Report, Phase
  <2>2. CASE ~fresh
        BY <1>4, <2>2, RolloutStutter DEF UpdateCurrentRevision, WriteCR
  <2> QED BY <2>1, <2>2
<1>5. CASE User
      BY <1>5, RolloutUser, BoundsAssumption DEF TypeOK
<1>6. CASE CollectCR
      BY <1>6, RolloutCollect DEF TypeOK, WritesLatest
<1>7. CASE \/ PassNoCR \/ BeginReconcile \/ ConfigMapCall \/ PodCall \/ SyncRevisionsFails
           \/ SyncRevisions \/ Disturb \/ Informers \/ (Cluster /\ ~CollectCR) \/ UNCHANGED vars
  <2>1. UNCHANGED cr
        BY <1>7 DEF PassNoCR, BeginReconcile, ConfigMapCall, PodCall, SyncRevisionsFails,
                    SyncRevisions, Disturb, Failures, FailConfigMapCall, FailPodCall, FailCurrentRevision,
                    FailSyncRevisions, Crash, PodGone, PodFailed, Informers, SyncCR, SyncPods,
                    SyncConfigMaps, SyncRevisionCache, Resync, Cluster, KubeletStart, KubeletStop,
                    CollectPod, CollectConfigMap, CollectRevision, vars, api
  <2> QED BY <2>1, RolloutStutter
<1> QED BY <1>1, <1>2, <1>3, <1>4, <1>5, <1>6, <1>7 DEF Next, Worker

(* CurrentRevision is only ever set to the revision of the spec in force,    *)
(* for a resource that is adopted and not being deleted; an adopted resource *)
(* goes only after its deletion was requested.                               *)
THEOREM RolloutImplemented == Spec => ImplementsRollout
<1>1. Spec => []TypeOK
      BY TypeCorrect
<1>2. Spec => []WritesLatest
      BY OwnershipHolds, PTL DEF OwnershipInv
<1> QED BY <1>1, <1>2, RolloutInit, RolloutStep, PTL
        DEF Spec, ImplementsRollout, Lifecycle!Spec

=============================================================================
