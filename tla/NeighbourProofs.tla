-------------------------- MODULE NeighbourProofs ---------------------------
(***************************************************************************)
(* Two resources in one namespace: whatever the passes of one destroy of   *)
(* the other's children, each resource is held while a pass works for it   *)
(* and follows the contract of Rollout, for every value of the constants.  *)
(***************************************************************************)
EXTENDS SharedNamespace, WriterProofs

(* What the operator knows of the second resource. *)
View2 == [cache |-> crCache2, synced |-> crSynced2, pc |-> pc2,
          observed |-> observed2, fresh |-> fresh2]

(* The definitions of the second instance are those of the first.            *)
LEMMA SameDefinitions ==
    /\ \A s : Second!RoundTrip(s) = RoundTrip(s)
    /\ \A s : Second!generateRevisionName(s) = generateRevisionName(s)
    /\ \A c : Second!Managed(c) <=> Managed(c)
    /\ Second!StoredSpecs = StoredSpecs
    /\ Second!EmptyStatus = EmptyStatus
<1>1. ASSUME NEW s PROVE Second!RoundTrip(s) = RoundTrip(s)
      BY DEF RoundTrip, ResourcesRoundTrip, ListRoundTrip,
             Second!RoundTrip, Second!ResourcesRoundTrip, Second!ListRoundTrip
<1>2. ASSUME NEW s PROVE Second!generateRevisionName(s) = generateRevisionName(s)
      BY <1>1 DEF generateRevisionName, Second!generateRevisionName
<1>3. ASSUME NEW c PROVE Second!Managed(c) <=> Managed(c)
      BY DEF Managed, Second!Managed
<1>4. Second!StoredSpecs = StoredSpecs
      BY <1>1 DEF StoredSpecs, Second!StoredSpecs
<1>5. Second!EmptyStatus = EmptyStatus
      BY DEF EmptyStatus, Second!EmptyStatus
<1> QED BY <1>1, <1>2, <1>3, <1>4, <1>5

(* The status the operator derives for the second resource.                  *)
LEMMA SecondDescribes ==
    ASSUME crCache2 \in InvokerDeployment
    PROVE  /\ Second!NewStatus \in InvokerDeploymentStatus
           /\ Second!NewStatus.currentRevision = crCache2.status.currentRevision
<1> DEFINE c == Second!ObservedCR
           running == Second!Cardinality(Second!RunningEntities(podCache))
           total   == Len(c.spec.statefulEntities)
           cm == IF Second!Present(cmCache) # {} THEN Second!ComponentStateReady
                 ELSE IF c.status.configMap # "" THEN Second!ComponentStateDeleted ELSE ""
           se == IF running < Second!Cardinality(Second!ObservedEntities(podCache))
                 THEN Second!ComponentStateNotReady ELSE Second!ComponentStateReady
           st == Second!DerivedState(c, running, total)
<1>1. c = [crCache2 EXCEPT !.status.nextRevision = generateRevisionName(crCache2.spec)]
      BY SameDefinitions DEF Second!ObservedCR
<1>2. /\ c \in InvokerDeployment /\ c.status \in InvokerDeploymentStatus
      /\ c.status.currentRevision = crCache2.status.currentRevision
  <2> HIDE DEF c
  <2>1. /\ c \in InvokerDeployment
        /\ c.status.currentRevision = crCache2.status.currentRevision
        BY <1>1, WrittenTypes
  <2> QED BY <2>1 DEF InvokerDeployment
<1> HIDE DEF c
<1>3. st \in States
      BY DEF Second!DerivedState, States, StateCreating, StateRunning, StateUpdating,
             StateReconciling, Second!StateCreating, Second!StateRunning, Second!StateUpdating,
             Second!StateReconciling
<1>4. /\ Second!ComponentStateReady \in ComponentStates
      /\ Second!ComponentStateNotReady \in ComponentStates
      /\ Second!ComponentStateDeleted \in ComponentStates
      /\ "" \in ComponentStates
      BY DEF ComponentStates, ComponentStateReady, ComponentStateNotReady, ComponentStateDeleted,
             Second!ComponentStateReady, Second!ComponentStateNotReady,
             Second!ComponentStateDeleted
<1> HIDE DEF running, total
<1>5. cm \in ComponentStates /\ se \in ComponentStates
      BY <1>4
<1>6. Second!NewStatus = [c.status EXCEPT !.conditions = TRUE, !.configMap = cm,
                                          !.statefulEntities = se, !.state = st]
      BY <1>2 DEF Second!NewStatus, Second!deriveInvokerDeploymentStatus, running, total, c,
                  InvokerDeploymentStatus
<1> HIDE DEF cm, se, st
<1> QED BY <1>2, <1>3, <1>5, <1>6 DEF InvokerDeploymentStatus

(* What the worker does for the second resource.                             *)
LEMMA SecondIsWriter ==
    ASSUME crCache2 \in InvokerDeployment \cup {Nil}, Second!Worker
    PROVE  WriterStep(cr2, View2, cr2', View2')
<1> USE SameDefinitions DEF View2
<1>1. CASE Second!PassNoCR
      BY <1>1 DEF Second!PassNoCR, Second!api, Second!caches, Second!pass, WriterStep, GoesOn
<1>2. CASE Second!AddFinalizer
  <2>1. CASE crSynced2 /\ ~crCache2.deleting
        BY <1>2, <2>1 DEF Second!AddFinalizer, Second!TakeKey, Second!WriteCR, Second!pass,
                          WriterStep, Adopts, Writes
  <2>2. CASE ~crSynced2 \/ crCache2.deleting
        BY <1>2, <2>2 DEF Second!AddFinalizer, Second!WriteCR, Second!pass, WriterStep, GoesOn
  <2> QED BY <2>1, <2>2
<1>3. CASE Second!RemoveFinalizer
  <2>1. CASE crSynced2
        BY <1>3, <2>1 DEF Second!RemoveFinalizer, Second!TakeKey, Second!WriteCR, Second!pass,
                          WriterStep, Releases, Writes
  <2>2. CASE ~crSynced2
        BY <1>3, <2>2 DEF Second!RemoveFinalizer, Second!WriteCR, Second!pass, WriterStep, GoesOn
  <2> QED BY <2>1, <2>2
<1>4. CASE Second!UpdateStatus
  <2>1. CASE crSynced2
    <3>1. /\ Second!NewStatus \in InvokerDeploymentStatus
          /\ Second!NewStatus.currentRevision = crCache2.status.currentRevision
          BY <1>4, SecondDescribes DEF Second!UpdateStatus, Second!Managed
    <3>2. Describes(cr2, View2, cr2', View2')
          BY <1>4, <2>1, <3>1 DEF Second!UpdateStatus, Second!TakeKey, Second!WriteCR,
                                  Second!pass, Describes, Writes
    <3> QED BY <3>2 DEF WriterStep
  <2>2. CASE ~crSynced2
        BY <1>4, <2>2 DEF Second!UpdateStatus, Second!WriteCR, Second!pass, WriterStep, GoesOn
  <2> QED BY <2>1, <2>2
<1>5. CASE Second!BeginReconcile
      BY <1>5 DEF Second!BeginReconcile, Second!ObservedCR, Second!api, Second!caches,
                  WriterStep, Begins
<1>6. CASE Second!ConfigMapCall \/ Second!PodCall
      BY <1>6 DEF Second!ConfigMapCall, Second!PodCall, Second!AbandonReconcile, Second!caches,
                  WriterStep, GoesOn
<1>7. CASE Second!UpdateCurrentRevision
  <2>1. CASE fresh2
        BY <1>7, <2>1 DEF Second!UpdateCurrentRevision, Second!WriteCR,
                          Second!AbandonReconcile, WriterStep, Reports, Writes
  <2>2. CASE ~fresh2
        BY <1>7, <2>2 DEF Second!UpdateCurrentRevision, Second!WriteCR,
                          Second!AbandonReconcile, WriterStep, GoesOn
  <2> QED BY <2>1, <2>2
<1>8. CASE Second!SyncRevisionsFails
      BY <1>8 DEF Second!SyncRevisionsFails, Second!EndPass, Second!api, Second!caches,
                  WriterStep, Ends
<1>9. CASE Second!SyncRevisions
      BY <1>9 DEF Second!SyncRevisions, Second!Restart, Second!EndPass, Second!caches,
                  WriterStep, Ends
<1> QED BY <1>1, <1>2, <1>3, <1>4, <1>5, <1>6, <1>7, <1>8, <1>9 DEF Second!Worker

-----------------------------------------------------------------------------
(* What keeps one resource c and the operator's view m of it sound. *)

Sound(c, m) ==
    /\ c \in InvokerDeployment \cup {Nil} /\ Requested(c)
    /\ m \in Views /\ UpToDate(c, m) /\ Held(c, m)

HasFields(m) == m = [cache |-> m.cache, synced |-> m.synced, pc |-> m.pc,
                     observed |-> m.observed, fresh |-> m.fresh]

(* A change of the resource by its user. *)
Outdates(m, m1) ==
    /\ m1.synced = FALSE /\ m1.cache = m.cache /\ m1.pc = m.pc /\ m1.observed = m.observed
    /\ m1.fresh \in BOOLEAN

(* What the worker does.                                                     *)
LEMMA WriterSound ==
    ASSUME NEW c, NEW m, NEW c1, NEW m1, HasFields(m1),
           Sound(c, m), WriterStep(c, m, c1, m1)
    PROVE  Sound(c1, m1) /\ Allowed(c, c1)
<1>1. /\ c1 \in InvokerDeployment \cup {Nil} /\ Requested(c1)
      /\ m1.cache \in InvokerDeployment \cup {Nil} /\ m1.synced \in BOOLEAN
      /\ m1.pc \in {"idle", "acting", "syncing"}
      /\ m1.observed \in InvokerDeployment \cup {Nil} /\ m1.fresh \in BOOLEAN
      /\ UpToDate(c1, m1)
      /\ Allowed(c, c1)
      BY WriterKeeps DEF Sound
<1>2. m1 \in Views
      BY <1>1 DEF HasFields, Views
<1> QED BY <1>1, <1>2, WriterHolds DEF Sound

(* A new resource has no copies in use.                                      *)
LEMMA CreatedSound ==
    ASSUME NEW m, NEW c1 \in InvokerDeployment, NEW m1, HasFields(m1),
           Sound(Nil, m), Outdates(m, m1), ~c1.foreground
    PROVE  Sound(c1, m1)
<1>1. m1 \in Views
      BY DEF Sound, Outdates, HasFields, Views
<1>2. m.pc = "idle" /\ ~Managed(m.cache)
      BY DEF Sound, Held
<1> QED BY <1>1, <1>2 DEF Sound, Outdates, Requested, UpToDate, Held

(* A deletion keeps a resource that is held.                                 *)
LEMMA DeletedSound ==
    ASSUME NEW c, NEW m, NEW c1, NEW m1, HasFields(m1),
           Sound(c, m), Outdates(m, m1), m1.fresh = FALSE, c # Nil,
           \/ c1 = Nil /\ ~c.finalizer
           \/ /\ c1 \in InvokerDeployment /\ c1.deleting
              /\ c1.uid = c.uid /\ c1.finalizer = c.finalizer
    PROVE  Sound(c1, m1)
<1> USE NilAssumption
<1>1. m1 \in Views
      BY DEF Sound, Outdates, HasFields, Views
<1>2. UpToDate(c1, m1)
      BY DEF Sound, Outdates, UpToDate
<1>3. Held(c1, m1)
      BY DEF Sound, Outdates, Held
<1> QED BY <1>1, <1>2, <1>3 DEF Sound, Requested

(* The informer delivers the resource.                                       *)
LEMMA InformedSound ==
    ASSUME NEW c, NEW m, NEW m1, HasFields(m1), Sound(c, m),
           m1.cache = c, m1.synced = TRUE,
           m1.pc = m.pc, m1.observed = m.observed, m1.fresh = m.fresh
    PROVE  Sound(c, m1)
<1>1. m.synced \in BOOLEAN
      BY DEF Sound, Views
<1>2. CASE m.synced
  <2>1. m1.cache = m.cache /\ m1.synced = m.synced
        BY <1>1, <1>2 DEF Sound, UpToDate
  <2>2. GoesOn(c, m, c, m1)
        BY <2>1 DEF GoesOn
  <2> QED BY <2>2, WriterSound DEF WriterStep
<1>3. CASE ~m.synced
  <2>1. Learns(c, m, c, m1)
        BY <1>3 DEF Learns
  <2> QED BY <2>1, WriterSound DEF WriterStep
<1> QED BY <1>1, <1>2, <1>3

-----------------------------------------------------------------------------
(* The second resource and the contract. *)

(* As for the first one, nothing the contract sees happens unless the        *)
(* resource changes ...                                                      *)
LEMMA SecondStutter == UNCHANGED cr2 => UNCHANGED Second!Lifecycle!vars
  BY DEF Second!Lifecycle!vars, Second!Phase

(* ... and what the worker does is allowed.                                  *)
LEMMA SecondAllowed ==
    ASSUME Allowed(cr2, cr2')
    PROVE  Second!Lifecycle!Next \/ UNCHANGED Second!Lifecycle!vars
<1> USE SameDefinitions
<1>1. CASE cr2' = cr2
      BY <1>1, SecondStutter
<1>2. CASE cr2 # Nil /\ cr2.deleting /\ cr2' = Nil
      BY <1>2 DEF Second!Lifecycle!Next, Second!Lifecycle!Vanish, Second!Phase
<1>3. CASE /\ cr2 # Nil /\ cr2' # Nil
           /\ RoundTrip(cr2'.spec) = RoundTrip(cr2.spec) /\ cr2'.deleting = cr2.deleting
  <2>1. CASE /\ cr2'.finalizer = cr2.finalizer \/ cr2.deleting
             /\ cr2'.status.currentRevision = cr2.status.currentRevision
        BY <1>3, <2>1 DEF Second!Lifecycle!vars, Second!Phase
  <2>2. CASE /\ ~cr2.finalizer /\ ~cr2.deleting /\ cr2'.finalizer
             /\ cr2'.status.currentRevision = cr2.status.currentRevision
    <3>1. Second!Phase = "fresh" /\ Second!Phase' = "managed"
          BY <1>3, <2>2 DEF Second!Phase
    <3> QED BY <1>3, <2>2, <3>1 DEF Second!Lifecycle!Next, Second!Lifecycle!Adopt
  <2>3. CASE /\ cr2.finalizer /\ ~cr2.deleting /\ cr2'.finalizer
             /\ cr2'.status.currentRevision = generateRevisionName(RoundTrip(cr2.spec))
    <3>1. Second!Phase = "managed" /\ Second!Phase' = "managed"
          BY <1>3, <2>3 DEF Second!Phase
    <3> QED BY <1>3, <2>3, <3>1 DEF Second!Lifecycle!Next, Second!Lifecycle!Report
  <2> QED BY <1>3, <2>1, <2>2, <2>3 DEF Allowed
<1> QED BY <1>1, <1>2, <1>3 DEF Allowed

(* The user creates the second resource.                                     *)
LEMMA SecondCreates ==
    ASSUME uid \in Nat, Second!CreateCR
    PROVE  /\ cr2 = Nil /\ cr2' \in InvokerDeployment /\ ~cr2'.foreground /\ uid' \in Nat
           /\ Second!Lifecycle!Next
<1> USE SameDefinitions, NilAssumption
<1>1. PICK s \in Specs :
         cr2' = [uid |-> uid + 1, spec |-> s, finalizer |-> FALSE,
                 deleting |-> FALSE, foreground |-> FALSE, status |-> EmptyStatus]
      BY DEF Second!CreateCR
<1>2. cr2 = Nil /\ cr2' \in InvokerDeployment /\ uid' \in Nat
      BY <1>1, CreatedType DEF Second!CreateCR
<1>3. /\ ~cr2'.foreground /\ ~cr2'.finalizer /\ ~cr2'.deleting
      /\ RoundTrip(cr2'.spec) \in StoredSpecs /\ cr2'.status.currentRevision = Nil
      BY <1>1 DEF EmptyStatus, StoredSpecs
<1> QED BY <1>2, <1>3 DEF Second!Lifecycle!Next, Second!Lifecycle!Create, Second!Phase

(* The user deletes the second resource.                                     *)
LEMMA SecondDeletes ==
    ASSUME cr2 \in InvokerDeployment \cup {Nil}, Second!DeleteCR
    PROVE  /\ cr2 # Nil
           /\ \/ cr2' = Nil /\ ~cr2.finalizer
              \/ /\ cr2' \in InvokerDeployment /\ cr2'.deleting
                 /\ cr2'.uid = cr2.uid /\ cr2'.finalizer = cr2.finalizer
           /\ Second!Lifecycle!Next
<1> USE SameDefinitions, NilAssumption
<1>1. cr2 \in InvokerDeployment /\ cr2 # Nil /\ ~cr2.deleting
      BY DEF Second!DeleteCR
<1>2. PICK foreground \in {FALSE, AllowForeground} :
         cr2' = IF cr2.finalizer \/ foreground
                THEN [cr2 EXCEPT !.deleting = TRUE, !.foreground = foreground] ELSE Nil
      BY DEF Second!DeleteCR
<1>3. foreground \in BOOLEAN
      BY BoundsAssumption
<1>4. CASE cr2.finalizer \/ foreground
  <2>1. /\ cr2' \in InvokerDeployment /\ cr2'.deleting /\ cr2'.uid = cr2.uid
        /\ cr2'.finalizer = cr2.finalizer /\ cr2'.spec = cr2.spec /\ cr2'.status = cr2.status
        BY <1>1, <1>2, <1>3, <1>4 DEF InvokerDeployment
  <2> QED BY <1>1, <2>1 DEF Second!Lifecycle!Next, Second!Lifecycle!RequestDeletion, Second!Phase
<1>5. CASE ~(cr2.finalizer \/ foreground)
      BY <1>1, <1>2, <1>5 DEF Second!Lifecycle!Next, Second!Lifecycle!Vanish, Second!Phase
<1> QED BY <1>4, <1>5

-----------------------------------------------------------------------------
(* The two together. *)

NeighbourInv == uid \in Nat /\ Sound(cr, View1) /\ Sound(cr2, View2)

FirstFollows == Lifecycle!Next \/ UNCHANGED Lifecycle!vars

SecondFollows == Second!Lifecycle!Next \/ UNCHANGED Second!Lifecycle!vars

(* An empty namespace.                                                       *)
LEMMA NeighbourStart == BothInit => NeighbourInv /\ Lifecycle!Init /\ Second!Lifecycle!Init
<1> SUFFICES ASSUME BothInit PROVE NeighbourInv /\ Lifecycle!Init /\ Second!Lifecycle!Init
    OBVIOUS
<1>1. /\ cr = Nil /\ cr2 = Nil /\ uid = 0
      /\ crCache = Nil /\ crSynced = TRUE /\ pc = "idle" /\ observed = Nil /\ fresh = FALSE
      /\ crCache2 = Nil /\ crSynced2 = TRUE /\ pc2 = "idle" /\ observed2 = Nil /\ fresh2 = FALSE
      BY DEF BothInit, Init, Second!Init
<1>2. View1 \in Views /\ View2 \in Views
      BY <1>1 DEF View1, View2, Views
<1>3. UpToDate(cr, View1) /\ UpToDate(cr2, View2) /\ Held(cr, View1) /\ Held(cr2, View2)
      BY <1>1 DEF View1, View2, UpToDate, Held, Managed
<1>4. Lifecycle!Init /\ Second!Lifecycle!Init
      BY <1>1 DEF Lifecycle!Init, Phase, Second!Lifecycle!Init, Second!Phase
<1> QED BY <1>1, <1>2, <1>3, <1>4 DEF NeighbourInv, Sound, Requested

(* Every step keeps both sound and to their contracts.                       *)
LEMMA NeighbourStep ==
    NeighbourInv /\ [BothNext]_bothVars => NeighbourInv' /\ FirstFollows /\ SecondFollows
<1> SUFFICES ASSUME NeighbourInv, [BothNext]_bothVars
             PROVE  NeighbourInv' /\ FirstFollows /\ SecondFollows
    OBVIOUS
<1> USE NilAssumption
<1>0. /\ uid \in Nat /\ Sound(cr, View1) /\ Sound(cr2, View2)
      /\ cr \in InvokerDeployment \cup {Nil} /\ cr2 \in InvokerDeployment \cup {Nil}
      /\ crCache \in InvokerDeployment \cup {Nil} /\ crCache2 \in InvokerDeployment \cup {Nil}
      /\ fresh \in BOOLEAN /\ fresh2 \in BOOLEAN
      BY DEF NeighbourInv, Sound, Views, View1, View2
<1>1. HasFields(View1') /\ HasFields(View2')
      BY DEF HasFields, View1, View2
<1>2. ASSUME UNCHANGED <<cr, crCache, crSynced, pc, observed, fresh>>
      PROVE  Sound(cr, View1)' /\ FirstFollows
  <2>1. View1' = View1 /\ cr' = cr
        BY <1>2 DEF View1
  <2>2. Sound(cr', View1')
        BY <1>0, <2>1
  <2> QED BY <2>1, <2>2, RolloutStutter DEF FirstFollows
<1>3. ASSUME UNCHANGED <<cr2, crCache2, crSynced2, pc2, observed2, fresh2>>
      PROVE  Sound(cr2, View2)' /\ SecondFollows
  <2>1. View2' = View2 /\ cr2' = cr2
        BY <1>3 DEF View2
  <2>2. Sound(cr2', View2')
        BY <1>0, <2>1
  <2> QED BY <2>1, <2>2, SecondStutter DEF SecondFollows
<1>4. CASE FirstWorks
  <2>1. WriterStep(cr, View1, cr', View1')
        BY <1>0, <1>4, FirstIsWriter DEF FirstWorks
  <2>2. Sound(cr', View1') /\ Allowed(cr, cr')
        BY <1>0, <1>1, <2>1, WriterSound
  <2>3. FirstFollows
        BY <2>2, AllowedImplements DEF FirstFollows
  <2>4. uid' = uid
        BY <1>4 DEF FirstWorks, Worker, PassNoCR, AddFinalizer, RemoveFinalizer, UpdateStatus,
                    BeginReconcile, ConfigMapCall, PodCall, UpdateCurrentRevision,
                    SyncRevisionsFails, SyncRevisions, env
  <2>5. UNCHANGED <<cr2, crCache2, crSynced2, pc2, observed2, fresh2>>
        BY <1>4 DEF FirstWorks, second
  <2> QED BY <1>0, <1>3, <2>2, <2>3, <2>4, <2>5 DEF NeighbourInv
<1>5. CASE SecondWorks
  <2>1. WriterStep(cr2, View2, cr2', View2')
        BY <1>0, <1>5, SecondIsWriter DEF SecondWorks
  <2>2. Sound(cr2', View2') /\ Allowed(cr2, cr2')
        BY <1>0, <1>1, <2>1, WriterSound
  <2>3. SecondFollows
        BY <2>2, SecondAllowed DEF SecondFollows
  <2>4. uid' = uid
        BY <1>5 DEF SecondWorks, Second!Worker, Second!PassNoCR, Second!AddFinalizer,
                    Second!RemoveFinalizer, Second!UpdateStatus, Second!BeginReconcile,
                    Second!ConfigMapCall, Second!PodCall, Second!UpdateCurrentRevision,
                    Second!SyncRevisionsFails, Second!SyncRevisions, Second!env
  <2>5. UNCHANGED <<cr, crCache, crSynced, pc, observed, fresh>>
        BY <1>5 DEF SecondWorks, first, pass
  <2> QED BY <1>0, <1>2, <2>2, <2>3, <2>4, <2>5 DEF NeighbourInv
<1>6. CASE FirstCreated
  <2>1. CreateCR /\ UNCHANGED <<cr2, crCache2, crSynced2, pc2, observed2, fresh2>>
        BY <1>6 DEF FirstCreated, second
  <2>2. PICK s \in Specs :
           cr' = [uid |-> uid + 1, spec |-> s, finalizer |-> FALSE,
                  deleting |-> FALSE, foreground |-> FALSE, status |-> EmptyStatus]
        BY <2>1 DEF CreateCR
  <2>3. cr = Nil /\ cr' \in InvokerDeployment /\ ~cr'.foreground /\ uid' \in Nat
        BY <1>0, <2>1, <2>2, CreatedType DEF CreateCR
  <2>4. Outdates(View1, View1')
        BY <1>0, <2>1 DEF CreateCR, pass, Outdates, View1
  <2>5. Sound(cr', View1')
        BY <1>0, <1>1, <2>3, <2>4, CreatedSound
  <2>6. FirstFollows
        BY <1>0, <2>1, RolloutUser DEF User, FirstFollows
  <2> QED BY <1>3, <2>1, <2>3, <2>5, <2>6 DEF NeighbourInv
<1>7. CASE SecondCreated
  <2>1. Second!CreateCR /\ UNCHANGED <<cr, crCache, crSynced, pc, observed, fresh>>
        BY <1>7 DEF SecondCreated, first, pass
  <2>2. /\ cr2 = Nil /\ cr2' \in InvokerDeployment /\ ~cr2'.foreground /\ uid' \in Nat
        /\ SecondFollows
        BY <1>0, <2>1, SecondCreates DEF SecondFollows
  <2>3. Outdates(View2, View2')
        BY <1>0, <2>1 DEF Second!CreateCR, Second!pass, Outdates, View2
  <2>4. Sound(cr2', View2')
        BY <1>0, <1>1, <2>2, <2>3, CreatedSound
  <2> QED BY <1>2, <2>1, <2>2, <2>4 DEF NeighbourInv
<1>8. CASE SecondDeleted
  <2>1. Second!DeleteCR /\ UNCHANGED <<cr, crCache, crSynced, pc, observed, fresh>>
        BY <1>8 DEF SecondDeleted, first, pass
  <2>2. /\ cr2 # Nil
        /\ \/ cr2' = Nil /\ ~cr2.finalizer
           \/ /\ cr2' \in InvokerDeployment /\ cr2'.deleting
              /\ cr2'.uid = cr2.uid /\ cr2'.finalizer = cr2.finalizer
        /\ SecondFollows
        BY <1>0, <2>1, SecondDeletes DEF SecondFollows
  <2>3. Outdates(View2, View2') /\ View2'.fresh = FALSE /\ uid' = uid
        BY <2>1 DEF Second!DeleteCR, Second!env, Outdates, View2
  <2>4. Sound(cr2', View2')
        BY <1>0, <1>1, <2>2, <2>3, DeletedSound
  <2> QED BY <1>0, <1>2, <2>1, <2>2, <2>3, <2>4 DEF NeighbourInv
<1>9. CASE ResourcesInformed
  <2>1. /\ cr' = cr /\ cr2' = cr2 /\ uid' = uid
        /\ crCache' = cr /\ crSynced' = TRUE /\ UNCHANGED <<pc, observed, fresh>>
        /\ crCache2' = cr2 /\ crSynced2' = TRUE /\ UNCHANGED <<pc2, observed2, fresh2>>
        BY <1>9 DEF ResourcesInformed, api, pass, env
  <2>2. Sound(cr, View1')
    <3>1. /\ View1'.cache = cr /\ View1'.synced = TRUE /\ View1'.pc = View1.pc
          /\ View1'.observed = View1.observed /\ View1'.fresh = View1.fresh
          BY <2>1 DEF View1
    <3> QED BY <1>0, <1>1, <3>1, InformedSound
  <2>3. Sound(cr2, View2')
    <3>1. /\ View2'.cache = cr2 /\ View2'.synced = TRUE /\ View2'.pc = View2.pc
          /\ View2'.observed = View2.observed /\ View2'.fresh = View2.fresh
          BY <2>1 DEF View2
    <3> QED BY <1>0, <1>1, <3>1, InformedSound
  <2>4. Sound(cr', View1') /\ Sound(cr2', View2')
        BY <2>1, <2>2, <2>3
  <2>5. FirstFollows /\ SecondFollows
        BY <2>1, RolloutStutter, SecondStutter DEF FirstFollows, SecondFollows
  <2> QED BY <1>0, <2>1, <2>4, <2>5 DEF NeighbourInv
<1>10. CASE \/ RevisionsInformed \/ ConfigMapsInformed \/ FirstResync \/ SecondResync
            \/ \E e \in EntityNames : ConfigMapCollected(e)
            \/ \E n \in RevisionNames : SecondRevisionCollected(n)
            \/ UNCHANGED bothVars
  <2>1. /\ UNCHANGED <<cr, crCache, crSynced, pc, observed, fresh>>
        /\ UNCHANGED <<cr2, crCache2, crSynced2, pc2, observed2, fresh2>> /\ uid' = uid
        BY <1>10 DEF RevisionsInformed, ConfigMapsInformed, SyncConfigMaps, FirstResync, Resync,
                     SecondResync, Second!Resync, ConfigMapCollected, CollectConfigMap,
                     SecondRevisionCollected, Second!CollectRevision, bothVars, vars, api, caches,
                     pass, env, first, second, Second!api, Second!caches, Second!pass, Second!env
  <2> QED BY <1>0, <1>2, <1>3, <2>1 DEF NeighbourInv
<1> QED BY <1>4, <1>5, <1>6, <1>7, <1>8, <1>9, <1>10 DEF BothNext

(* The invariant holds throughout.                                           *)
LEMMA NeighbourHolds == BothSpec => []NeighbourInv
  BY NeighbourStart, NeighbourStep, PTL DEF BothSpec

(* While a pass works for one of two resources of a namespace (Reconcile     *)
(* takes one key at a time) that resource exists with its finalizer and the  *)
(* uid the pass observed, whatever becomes of the other one.                 *)
THEOREM NeighboursHeld == BothSpec => []BothOwnersHeld
<1>1. NeighbourInv => BothOwnersHeld
      BY DEF NeighbourInv, Sound, Held, View1, View2, BothOwnersHeld, OwnerHeld,
             Second!OwnerHeld
<1> QED BY <1>1, NeighbourHolds, PTL

(* Each of two resources of a namespace follows the contract of Rollout:     *)
(* reconciler.reconcile reports for it the revision of its own spec, never   *)
(* the neighbour's, and it goes only after its own deletion was requested.   *)
THEOREM NeighboursImplementRollout == BothSpec => BothImplementRollout
<1>1. NeighbourInv /\ [BothNext]_bothVars => [Lifecycle!Next]_(Lifecycle!vars)
      BY NeighbourStep DEF FirstFollows
<1>2. NeighbourInv /\ [BothNext]_bothVars =>
         [Second!Lifecycle!Next]_(Second!Lifecycle!vars)
      BY NeighbourStep DEF SecondFollows
<1>3. BothSpec => ImplementsRollout
      BY <1>1, NeighbourHolds, NeighbourStart, PTL
      DEF BothSpec, ImplementsRollout, Lifecycle!Spec
<1>4. BothSpec => Second!ImplementsRollout
      BY <1>2, NeighbourHolds, NeighbourStart, PTL
      DEF BothSpec, Second!ImplementsRollout, Second!Lifecycle!Spec
<1> QED BY <1>3, <1>4 DEF BothImplementRollout

=============================================================================
