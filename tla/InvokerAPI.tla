----------------------------- MODULE InvokerAPI -----------------------------
(***************************************************************************)
(* The objects the operator reads and writes: the InvokerDeployment custom *)
(* resource (api/v1alpha1) and the three kinds of children it owns, as the *)
(* Kubernetes API server stores them.                                      *)
(*                                                                         *)
(* Names are model values.  A Go pointer or map entry that may be missing, *)
(* and the empty revision name, are Nil.  The nested list                  *)
(* Spec.StatefulEntities[i].Pods is flattened: a pod configuration carries *)
(* the index of its stateful entity, and the sequence keeps the order in   *)
(* which the converter visits the configurations.  The four strings of an  *)
(* entity that only end up in a container or in the ConfigMap's "main" key *)
(* are two values, image and io.                                           *)
(***************************************************************************)
EXTENDS Naturals, Sequences, FiniteSets

CONSTANTS Nil,            \* no object, no map, no revision
          EntityNames,    \* names of stateful entities
          PodNames,       \* names of pods
          Images,         \* container images of an entity
          IOConfigs,      \* broker address and topics of an entity
          Partitions,     \* partition lists of a pod
          ResourceKinds,  \* "cpu", "memory", ...
          Quantities,     \* resource quantities as Go holds them: 0.5 is not 500m
          Canonical,      \* the quantity that is read back after one was written
          RevisionNames,  \* names of ControllerRevisions
          Specs,          \* the specs a user may apply
          Hash            \* first 8 hex digits of the SHA-256 of a spec's JSON

-----------------------------------------------------------------------------
(* corev1.ResourceRequirements: two maps, each of which may be nil. *)

ResourceLists == UNION {[K -> Quantities] : K \in SUBSET ResourceKinds}

ResourceRequirements == [requests : ResourceLists \cup {Nil},
                         limits   : ResourceLists \cup {Nil}]

StatefulEntity == [name : EntityNames, image : Images, io : IOConfigs]

PodConfig == [name : PodNames, of : Nat, partitions : Partitions,
              resources : ResourceRequirements]

InvokerDeploymentSpec == [statefulEntities : Seq(StatefulEntity),
                          pods             : Seq(PodConfig),
                          historyLimit     : Nat \cup {Nil}]

(* What is read back after a value was written to the API server, or to the *)
(* data of a revision, as JSON: quantities come back in canonical form, and *)
(* a map without entries is left out.                                       *)
ListRoundTrip(l) == IF l = Nil \/ DOMAIN l = {} THEN Nil
                    ELSE [k \in DOMAIN l |-> Canonical[l[k]]]

ResourcesRoundTrip(r) == [requests |-> ListRoundTrip(r.requests),
                          limits   |-> ListRoundTrip(r.limits)]

RoundTrip(s) ==
    [s EXCEPT !.pods = [i \in DOMAIN s.pods |->
        [s.pods[i] EXCEPT !.resources = ResourcesRoundTrip(s.pods[i].resources)]]]

(* A spec is stored as the user applied it until the operator writes the    *)
(* whole object.                                                            *)
StoredSpecs == Specs \cup {RoundTrip(s) : s \in Specs}

ASSUME CanonicalAssumption ==
    /\ Canonical \in [Quantities -> Quantities]
    /\ \A q \in Quantities : Canonical[Canonical[q]] = Canonical[q]

(* A spec in which names are unique and every pod belongs to an entity of   *)
(* the list.  The CRD does not enforce the uniqueness of names.             *)
WellFormed(s) ==
    /\ \A i, j \in DOMAIN s.statefulEntities :
          s.statefulEntities[i].name = s.statefulEntities[j].name => i = j
    /\ \A i, j \in DOMAIN s.pods : s.pods[i].name = s.pods[j].name => i = j
    /\ \A i \in DOMAIN s.pods : s.pods[i].of \in DOMAIN s.statefulEntities

ASSUME SpecsAssumption ==
    \A s \in Specs : s \in InvokerDeploymentSpec /\ WellFormed(s)

(* Two specs of interest never collide on the truncated hash. *)
ASSUME HashAssumption ==
    /\ Hash \in [StoredSpecs -> RevisionNames]
    /\ \A s, t \in StoredSpecs : Hash[s] = Hash[t] => s = t

-----------------------------------------------------------------------------
(* Status of the custom resource. *)

StateCreating    == "Creating"
StateRunning     == "Running"
StateUpdating    == "Updating"
StateReconciling == "Reconciling"

States == {"", StateCreating, StateRunning, StateUpdating, StateReconciling}

ComponentStateReady    == "Ready"
ComponentStateNotReady == "NotReady"
ComponentStateDeleted  == "Deleted"

ComponentStates == {"", ComponentStateReady, ComponentStateNotReady,
                    ComponentStateDeleted}

(* conditions: has the one condition been set (only its presence matters).  *)
InvokerDeploymentStatus ==
    [state : States, conditions : BOOLEAN,
     configMap : ComponentStates, statefulEntities : ComponentStates,
     currentRevision : RevisionNames \cup {Nil},
     nextRevision    : RevisionNames \cup {Nil}]

EmptyStatus == [state |-> "", conditions |-> FALSE,
                configMap |-> "", statefulEntities |-> "",
                currentRevision |-> Nil, nextRevision |-> Nil]

(* finalizer: invokerDeploymentFinalizer is present; deleting: the          *)
(* deletionTimestamp is set; foreground: the garbage collector's own        *)
(* finalizer is present, it goes after the children.                        *)
InvokerDeployment == [uid : Nat, spec : StoredSpecs, finalizer : BOOLEAN,
                      deleting : BOOLEAN, foreground : BOOLEAN,
                      status : InvokerDeploymentStatus]

-----------------------------------------------------------------------------
(* The children, each with the uid of the controller in ownerReferences.    *)

PodPhases == {"Pending", "Running", "Failed"}

Pod == [entity : EntityNames, image : Images,
        resources : ResourceRequirements,
        phase : PodPhases, deleting : BOOLEAN, owner : Nat]

(* main and the <pod>.partitions keys of the ConfigMap. *)
ConfigMapData == [main : IOConfigs, partitions : SUBSET (PodNames \X Partitions)]

ConfigMap == [data : ConfigMapData, owner : Nat]

(* The label key a revision is created with, and the key the observer       *)
(* selects revisions by.                                                    *)
RevisionLabel    == "invoker.io/invokerdeployment"
RevisionSelector == "invoker.io/invokerDeployment"

ControllerRevision == [data : StoredSpecs, revision : Nat,
                       label : {RevisionLabel, RevisionSelector}, owner : Nat]

ASSUME NilAssumption ==
    /\ Nil \notin RevisionNames
    /\ Nil \notin InvokerDeployment
    /\ Nil \notin Pod
    /\ Nil \notin ConfigMap
    /\ Nil \notin ControllerRevision
    /\ Nil \notin ResourceLists
    /\ Nil \notin Nat

(* A cluster-wide table of objects of one kind, by name. *)
Table(Names, Objects) == [Names -> Objects \cup {Nil}]

Present(table) == {n \in DOMAIN table : table[n] # Nil}

-----------------------------------------------------------------------------
(* What the API server stores when a container is created: with limits set,  *)
(* every resource that has a limit and no request gets the limit as request. *)
ApiDefaulted(r) ==
    IF r.limits = Nil THEN r
    ELSE LET requested == IF r.requests = Nil THEN {} ELSE DOMAIN r.requests
         IN  [r EXCEPT !.requests =
                [k \in requested \cup DOMAIN r.limits |->
                    IF k \in requested THEN r.requests[k] ELSE r.limits[k]]]

=============================================================================
