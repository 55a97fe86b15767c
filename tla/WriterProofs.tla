---------------------------- MODULE WriterProofs ----------------------------
(***************************************************************************)
(* A writer: the operator as far as it touches the resource.               *)
(*                                                                         *)
(* A writer's step is one of the kinds below (WriterStep); it keeps the    *)
(* writer's view of the resource up to date and the resource held, and the *)
(* contract of Rollout allows what it does to the resource.  A writer that *)
(* is not moving only notices that the resource has a new version.  This   *)
(* is what is known of each operator where several of them, or several     *)
(* resources, are at work together.                                        *)
(***************************************************************************)
EXTENDS InvokerProofs

(* What a manager knows of the resource. *)
Views == [cache : InvokerDeployment \cup {Nil}, synced : BOOLEAN,
          pc : {"idle", "acting", "syncing"},
          observed : InvokerDeployment \cup {Nil}, fresh : BOOLEAN]

View1 == [cache |-> crCache, synced |-> crSynced, pc |-> pc,
          observed |-> observed, fresh |-> fresh]

(* WritesLatest of a view m of the resource c, but for ForegroundDeletes. *)
UpToDate(c, m) ==
    /\ m.synced => m.cache = c
    /\ (m.pc = "acting" /\ m.fresh) =>
          /\ m.synced
          /\ c # Nil
          /\ c.uid = m.observed.uid
          /\ c.spec = m.observed.spec
          /\ c.finalizer = m.observed.finalizer
          /\ c.deleting = m.observed.deleting
          /\ c.foreground = m.observed.foreground
          /\ c.status.currentRevision = m.observed.status.currentRevision
    /\ m.pc # "idle" =>
          /\ Managed(m.observed)
          /\ m.observed.status.nextRevision = generateRevisionName(m.observed.spec)

(* CopiesHeld and OwnerHeld of a view. *)
Held(c, m) ==
    /\ Managed(m.cache) => c # Nil /\ c.uid = m.cache.uid /\ c.finalizer
    /\ m.pc # "idle" => c # Nil /\ c.uid = m.observed.uid /\ c.finalizer

(* ForegroundDeletes. *)
Requested(c) == c # Nil /\ c.foreground => c.deleting

(* A write of new, from a copy that is the latest. *)
Writes(c, m, c1, m1, new) ==
    /\ c1 = new /\ m1.synced = (m.synced /\ new = c)
    /\ m1.cache = m.cache /\ m1.observed = m.observed /\ m1.fresh = m.fresh

Adopts(c, m, c1, m1) ==
    /\ m.pc = "idle" /\ m1.pc = "idle" /\ m.synced
    /\ m.cache # Nil /\ ~m.cache.finalizer /\ ~m.cache.deleting
    /\ Writes(c, m, c1, m1, [m.cache EXCEPT !.finalizer = TRUE,
                                            !.spec = RoundTrip(m.cache.spec)])

Releases(c, m, c1, m1) ==
    /\ m.pc = "idle" /\ m1.pc = "idle" /\ m.synced
    /\ m.cache # Nil /\ m.cache.finalizer /\ m.cache.deleting
    /\ Writes(c, m, c1, m1, IF m.cache.foreground
                            THEN [m.cache EXCEPT !.finalizer = FALSE,
                                                 !.spec = RoundTrip(m.cache.spec)]
                            ELSE Nil)

Describes(c, m, c1, m1) ==
    /\ m.pc = "idle" /\ m1.pc = "idle" /\ m.synced
    /\ Managed(m.cache)
    /\ \E s \in InvokerDeploymentStatus :
          /\ s.currentRevision = m.cache.status.currentRevision
          /\ Writes(c, m, c1, m1, [m.cache EXCEPT !.status = s])

Begins(c, m, c1, m1) ==
    /\ m1.pc = "acting" /\ c1 = c
    /\ Managed(m.cache)
    /\ m1.observed = [m.cache EXCEPT !.status.nextRevision = generateRevisionName(m.cache.spec)]
    /\ m1.fresh = m.synced /\ m1.synced = m.synced /\ m1.cache = m.cache

Reports(c, m, c1, m1) ==
    /\ m.pc = "acting" /\ m1.pc = "syncing" /\ m.fresh
    /\ Writes(c, m, c1, m1, [m.observed EXCEPT !.status.currentRevision =
                                                  m.observed.status.nextRevision])

GoesOn(c, m, c1, m1) ==
    /\ c1 = c
    /\ m1.pc = m.pc \/ (m.pc = "acting" /\ m1.pc = "syncing")
    /\ m1.cache = m.cache /\ m1.synced = m.synced
    /\ m1.observed = m.observed /\ m1.fresh = m.fresh

Ends(c, m, c1, m1) ==
    /\ c1 = c
    /\ m1.pc = "idle" /\ m1.observed = Nil /\ m1.fresh = FALSE
    /\ \/ m1.cache = m.cache /\ m1.synced = m.synced
       \/ m1.cache = c /\ m1.synced = TRUE

Learns(c, m, c1, m1) ==
    /\ c1 = c /\ ~m.synced
    /\ m1.cache = c /\ m1.synced = TRUE
    /\ m1.pc = m.pc /\ m1.observed = m.observed /\ m1.fresh = m.fresh

WriterStep(c, m, c1, m1) ==
    \/ Adopts(c, m, c1, m1) \/ Releases(c, m, c1, m1) \/ Describes(c, m, c1, m1)
    \/ Begins(c, m, c1, m1) \/ Reports(c, m, c1, m1) \/ GoesOn(c, m, c1, m1)
    \/ Ends(c, m, c1, m1) \/ Learns(c, m, c1, m1)

(* A step of somebody else, as a writer sees it. *)
Notices(c, m, c1, m1) ==
    /\ m1.synced = (m.synced /\ c1 = c) /\ m1.fresh = (m.fresh /\ c1 = c)
    /\ m1.cache = m.cache /\ m1.pc = m.pc /\ m1.observed = m.observed

-----------------------------------------------------------------------------
(* What the steps of a writer do. *)

(* The objects a writer writes are resources.                                *)
LEMMA WrittenTypes ==
    ASSUME NEW k \in InvokerDeployment
    PROVE  /\ [k EXCEPT !.finalizer = TRUE, !.spec = RoundTrip(k.spec)] \in InvokerDeployment
           /\ \A s \in InvokerDeploymentStatus : [k EXCEPT !.status = s] \in InvokerDeployment
           /\ LET o == [k EXCEPT !.status.nextRevision = generateRevisionName(k.spec)]
              IN  /\ o \in InvokerDeployment
                  /\ o.uid = k.uid /\ o.spec = k.spec
                  /\ o.finalizer = k.finalizer /\ o.deleting = k.deleting
                  /\ o.foreground = k.foreground
                  /\ o.status.currentRevision = k.status.currentRevision
                  /\ o.status.nextRevision = generateRevisionName(k.spec)
           /\ [k EXCEPT !.status.currentRevision = k.status.nextRevision] \in InvokerDeployment
<1>1. RoundTrip(k.spec) \in StoredSpecs /\ generateRevisionName(k.spec) \in RevisionNames
      BY RoundTripStored DEF InvokerDeployment
<1>2. [k EXCEPT !.finalizer = TRUE, !.spec = RoundTrip(k.spec)] \in InvokerDeployment
      BY <1>1 DEF InvokerDeployment
<1>3. \A s \in InvokerDeploymentStatus : [k EXCEPT !.status = s] \in InvokerDeployment
      BY DEF InvokerDeployment
<1> DEFINE o == [k EXCEPT !.status.nextRevision = generateRevisionName(k.spec)]
<1>4. /\ o \in InvokerDeployment
      /\ o.uid = k.uid /\ o.spec = k.spec
      /\ o.finalizer = k.finalizer /\ o.deleting = k.deleting
      /\ o.foreground = k.foreground
      /\ o.status.currentRevision = k.status.currentRevision
      /\ o.status.nextRevision = generateRevisionName(k.spec)
      BY <1>1 DEF InvokerDeployment, InvokerDeploymentStatus
<1>5. [k EXCEPT !.status.currentRevision = k.status.nextRevision] \in InvokerDeployment
      BY DEF InvokerDeployment, InvokerDeploymentStatus
<1> QED BY <1>2, <1>3, <1>4, <1>5

(* What a step may do to the resource: nothing the contract sees, adopt it,  *)
(* report the revision of the spec in force, or let it go when asked to.     *)
Allowed(c, c1) ==
    \/ c1 = c
    \/ /\ c # Nil /\ c1 # Nil
       /\ RoundTrip(c1.spec) = RoundTrip(c.spec) /\ c1.deleting = c.deleting
       /\ c1.uid = c.uid
       /\ \/ /\ c1.finalizer = c.finalizer \/ c.deleting
             /\ c1.status.currentRevision = c.status.currentRevision
          \/ /\ ~c.finalizer /\ ~c.deleting /\ c1.finalizer
             /\ c1.status.currentRevision = c.status.currentRevision
          \/ /\ c.finalizer /\ ~c.deleting /\ c1.finalizer
             /\ c1.status.currentRevision = generateRevisionName(RoundTrip(c.spec))
    \/ c # Nil /\ c.deleting /\ c1 = Nil

(* A writer's step keeps its view up to date and the resource typed, and is  *)
(* one the contract allows.                                                  *)
LEMMA WriterKeeps ==
    ASSUME NEW c \in InvokerDeployment \cup {Nil}, NEW m \in Views, NEW c1, NEW m1,
           UpToDate(c, m), Requested(c), WriterStep(c, m, c1, m1)
    PROVE  /\ c1 \in InvokerDeployment \cup {Nil} /\ Requested(c1)
           /\ m1.cache \in InvokerDeployment \cup {Nil} /\ m1.synced \in BOOLEAN
           /\ m1.pc \in {"idle", "acting", "syncing"}
           /\ m1.observed \in InvokerDeployment \cup {Nil} /\ m1.fresh \in BOOLEAN
           /\ UpToDate(c1, m1)
           /\ Allowed(c, c1)
<1> DEFINE Goal == /\ c1 \in InvokerDeployment \cup {Nil} /\ Requested(c1)
                   /\ m1.cache \in InvokerDeployment \cup {Nil} /\ m1.synced \in BOOLEAN
                   /\ m1.pc \in {"idle", "acting", "syncing"}
                   /\ m1.observed \in InvokerDeployment \cup {Nil} /\ m1.fresh \in BOOLEAN
                   /\ UpToDate(c1, m1)
                   /\ Allowed(c, c1)
<1> USE NilAssumption
<1>0. /\ m.cache \in InvokerDeployment \cup {Nil} /\ m.synced \in BOOLEAN
      /\ m.pc \in {"idle", "acting", "syncing"}
      /\ m.observed \in InvokerDeployment \cup {Nil} /\ m.fresh \in BOOLEAN
      BY DEF Views
<1>1. CASE Adopts(c, m, c1, m1)
  <2>1. /\ m.cache = c /\ c \in InvokerDeployment /\ ~c.finalizer /\ ~c.deleting
        /\ m1.pc = "idle"
        /\ c1 = [c EXCEPT !.finalizer = TRUE, !.spec = RoundTrip(c.spec)]
        /\ m1.synced = (m.synced /\ c1 = c) /\ m1.cache = c
        /\ m1.observed = m.observed /\ m1.fresh = m.fresh
        BY <1>0, <1>1 DEF Adopts, Writes, UpToDate
  <2>2. /\ c1 \in InvokerDeployment /\ c1.finalizer /\ c1.deleting = c.deleting
        /\ c1.uid = c.uid /\ c1.status = c.status /\ c1.spec = RoundTrip(c.spec)
        /\ c1.foreground = c.foreground
        BY <2>1, WrittenTypes DEF InvokerDeployment
  <2>3. RoundTrip(c1.spec) = RoundTrip(c.spec)
        BY <2>1, <2>2, RoundTripStored DEF InvokerDeployment
  <2>4. m1.synced \in BOOLEAN /\ UpToDate(c1, m1)
        BY <2>1 DEF UpToDate
  <2> QED BY <1>0, <2>1, <2>2, <2>3, <2>4 DEF Requested, Allowed
<1>2. CASE Releases(c, m, c1, m1)
  <2>1. /\ m.cache = c /\ c \in InvokerDeployment /\ c # Nil /\ c.deleting /\ m1.pc = "idle"
        /\ c1 = IF c.foreground
                THEN [c EXCEPT !.finalizer = FALSE, !.spec = RoundTrip(c.spec)] ELSE Nil
        /\ m1.synced = (m.synced /\ c1 = c) /\ m1.cache = c
        /\ m1.observed = m.observed /\ m1.fresh = m.fresh
        BY <1>0, <1>2 DEF Releases, Writes, UpToDate
  <2>2. m1.synced \in BOOLEAN /\ UpToDate(c1, m1)
        BY <2>1 DEF UpToDate
  <2>3. CASE c1 = Nil
        BY <1>0, <2>1, <2>2, <2>3 DEF Requested, Allowed
  <2>4. CASE c1 # Nil
    <3>1. /\ c1 \in InvokerDeployment /\ c1.deleting = c.deleting /\ c1.uid = c.uid
          /\ RoundTrip(c1.spec) = RoundTrip(c.spec) /\ c1.status = c.status
          BY <2>1, <2>4, ReleasedType
    <3> QED BY <1>0, <2>1, <2>2, <2>4, <3>1 DEF Requested, Allowed
  <2> QED BY <2>3, <2>4
<1>3. CASE Describes(c, m, c1, m1)
  <2>1. PICK s \in InvokerDeploymentStatus :
           /\ s.currentRevision = m.cache.status.currentRevision
           /\ Writes(c, m, c1, m1, [m.cache EXCEPT !.status = s])
        BY <1>3 DEF Describes
  <2>2. /\ m.cache = c /\ c \in InvokerDeployment /\ m1.pc = "idle" /\ c1 = [c EXCEPT !.status = s]
        /\ m1.synced = (m.synced /\ c1 = c) /\ m1.cache = c
        /\ m1.observed = m.observed /\ m1.fresh = m.fresh
        BY <1>0, <1>3, <2>1 DEF Describes, Writes, UpToDate, Managed
  <2>3. /\ c1 \in InvokerDeployment /\ c1.finalizer = c.finalizer /\ c1.deleting = c.deleting
        /\ c1.uid = c.uid /\ c1.status = s /\ c1.spec = c.spec
        /\ c1.foreground = c.foreground
        BY <2>1, <2>2, WrittenTypes DEF InvokerDeployment
  <2>4. m1.synced \in BOOLEAN /\ UpToDate(c1, m1)
        BY <2>2 DEF UpToDate
  <2> QED BY <1>0, <2>1, <2>2, <2>3, <2>4 DEF Requested, Allowed
<1>4. CASE Begins(c, m, c1, m1)
  <2>1. /\ m.cache \in InvokerDeployment /\ Managed(m.cache) /\ c1 = c /\ m1.pc = "acting"
        /\ m1.observed = [m.cache EXCEPT !.status.nextRevision = generateRevisionName(m.cache.spec)]
        /\ m1.fresh = m.synced /\ m1.synced = m.synced /\ m1.cache = m.cache
        BY <1>0, <1>4 DEF Begins, Managed
  <2>2. /\ m1.observed \in InvokerDeployment
        /\ m1.observed.finalizer = m.cache.finalizer /\ m1.observed.deleting = m.cache.deleting
        /\ m1.observed.foreground = m.cache.foreground
        /\ m1.observed.uid = m.cache.uid /\ m1.observed.spec = m.cache.spec
        /\ m1.observed.status.currentRevision = m.cache.status.currentRevision
        /\ m1.observed.status.nextRevision = generateRevisionName(m.cache.spec)
        BY <2>1, WrittenTypes
  <2>3. UpToDate(c1, m1)
        BY <2>1, <2>2 DEF UpToDate, Managed
  <2> QED BY <1>0, <2>1, <2>2, <2>3 DEF Allowed
<1>5. CASE Reports(c, m, c1, m1)
  <2>1. /\ m.observed \in InvokerDeployment /\ m1.pc = "syncing"
        /\ c1 = [m.observed EXCEPT !.status.currentRevision = m.observed.status.nextRevision]
        /\ m1.synced = (m.synced /\ c1 = c)
        /\ m1.cache = m.cache /\ m1.observed = m.observed /\ m1.fresh = m.fresh
        BY <1>0, <1>5 DEF Reports, Writes, UpToDate, Managed
  <2>2. /\ c # Nil /\ c.uid = m.observed.uid /\ c.spec = m.observed.spec
        /\ c.finalizer = m.observed.finalizer /\ c.deleting = m.observed.deleting
        /\ c.foreground = m.observed.foreground
        /\ m.synced /\ m.cache = c /\ m.observed.finalizer /\ ~m.observed.deleting
        /\ m.observed.status.nextRevision = generateRevisionName(m.observed.spec)
        BY <1>5 DEF Reports, UpToDate, Managed
  <2>3. /\ c1 \in InvokerDeployment /\ c1.finalizer = m.observed.finalizer
        /\ c1.deleting = m.observed.deleting /\ c1.uid = m.observed.uid
        /\ c1.spec = m.observed.spec /\ c1.foreground = m.observed.foreground
        /\ c1.status.currentRevision = m.observed.status.nextRevision
        BY <2>1, WrittenTypes DEF InvokerDeployment, InvokerDeploymentStatus
  <2>4. generateRevisionName(m.observed.spec) = generateRevisionName(RoundTrip(m.observed.spec))
        BY <2>1, RoundTripStored DEF InvokerDeployment
  <2>5. m1.synced \in BOOLEAN
        BY <2>1, Zenon
  <2>6. m1.synced => c1 = c
        BY <2>1
  <2>7. UpToDate(c1, m1)
        BY <2>1, <2>2, <2>6 DEF UpToDate, Managed
  <2> QED BY <1>0, <2>1, <2>2, <2>3, <2>4, <2>5, <2>7 DEF Requested, Allowed
<1>6. CASE GoesOn(c, m, c1, m1)
  <2>1. UpToDate(c1, m1)
        BY <1>6 DEF GoesOn, UpToDate
  <2> QED BY <1>0, <1>6, <2>1 DEF GoesOn, Allowed
<1>7. CASE Ends(c, m, c1, m1)
  <2>1. UpToDate(c1, m1)
        BY <1>7 DEF Ends, UpToDate
  <2> QED BY <1>0, <1>7, <2>1 DEF Ends, Allowed
<1>8. CASE Learns(c, m, c1, m1)
  <2>1. UpToDate(c1, m1)
        BY <1>8 DEF Learns, UpToDate
  <2> QED BY <1>0, <1>8, <2>1 DEF Learns, Allowed
<1> QED BY <1>1, <1>2, <1>3, <1>4, <1>5, <1>6, <1>7, <1>8 DEF WriterStep

(* A writer's step keeps the resource that its copies stand for.             *)
LEMMA WriterHolds ==
    ASSUME NEW c \in InvokerDeployment \cup {Nil}, NEW m \in Views, NEW c1, NEW m1,
           UpToDate(c, m), Held(c, m), WriterStep(c, m, c1, m1)
    PROVE  Held(c1, m1)
<1> USE NilAssumption
<1>0. /\ m.cache \in InvokerDeployment \cup {Nil}
      /\ m.observed \in InvokerDeployment \cup {Nil}
      BY DEF Views
<1>1. CASE Adopts(c, m, c1, m1)
      BY <1>1 DEF Adopts, Writes, Held, Managed
<1>2. CASE Releases(c, m, c1, m1)
      BY <1>2 DEF Releases, Writes, Held, Managed
<1>3. CASE Describes(c, m, c1, m1)
  <2>1. PICK s \in InvokerDeploymentStatus : Writes(c, m, c1, m1, [m.cache EXCEPT !.status = s])
        BY <1>3 DEF Describes
  <2>2. m.cache = c /\ c \in InvokerDeployment /\ c1 = [c EXCEPT !.status = s] /\ m1.cache = c
        BY <1>0, <1>3, <2>1 DEF Describes, Writes, UpToDate, Managed
  <2>3. c1 \in InvokerDeployment /\ c1.finalizer = c.finalizer /\ c1.uid = c.uid
        BY <2>2, WrittenTypes DEF InvokerDeployment
  <2> QED BY <1>3, <2>2, <2>3 DEF Describes, Held, Managed
<1>4. CASE Begins(c, m, c1, m1)
  <2>1. m.cache \in InvokerDeployment /\ Managed(m.cache) /\ c1 = c /\ m1.cache = m.cache
        BY <1>0, <1>4 DEF Begins, Managed
  <2>2. m1.observed.uid = m.cache.uid
        BY <1>4, <2>1, WrittenTypes DEF Begins
  <2> QED BY <2>1, <2>2 DEF Held
<1>5. CASE Reports(c, m, c1, m1)
  <2>1. /\ m.observed \in InvokerDeployment /\ m.observed.finalizer /\ c.uid = m.observed.uid
        /\ c1 = [m.observed EXCEPT !.status.currentRevision = m.observed.status.nextRevision]
        /\ m1.cache = m.cache /\ m1.observed = m.observed
        BY <1>0, <1>5 DEF Reports, Writes, UpToDate, Managed
  <2>2. c1 \in InvokerDeployment /\ c1.finalizer /\ c1.uid = m.observed.uid
        BY <2>1, WrittenTypes DEF InvokerDeployment, InvokerDeploymentStatus
  <2> QED BY <2>1, <2>2 DEF Held
<1>6. CASE GoesOn(c, m, c1, m1)
      BY <1>6 DEF GoesOn, Held
<1>7. CASE Ends(c, m, c1, m1)
      BY <1>7 DEF Ends, Held, Managed
<1>8. CASE Learns(c, m, c1, m1)
      BY <1>8 DEF Learns, Held, Managed
<1> QED BY <1>1, <1>2, <1>3, <1>4, <1>5, <1>6, <1>7, <1>8 DEF WriterStep

(* A writer that notices a step of somebody else stays up to date.           *)
LEMMA BystanderKeeps ==
    ASSUME NEW c, NEW m \in Views, NEW c1, NEW m1,
           UpToDate(c, m), Notices(c, m, c1, m1)
    PROVE  /\ m1.cache \in InvokerDeployment \cup {Nil} /\ m1.synced \in BOOLEAN
           /\ m1.pc \in {"idle", "acting", "syncing"}
           /\ m1.observed \in InvokerDeployment \cup {Nil} /\ m1.fresh \in BOOLEAN
           /\ UpToDate(c1, m1)
<1>1. /\ m.cache \in InvokerDeployment \cup {Nil} /\ m.synced \in BOOLEAN
      /\ m.pc \in {"idle", "acting", "syncing"}
      /\ m.observed \in InvokerDeployment \cup {Nil} /\ m.fresh \in BOOLEAN
      BY DEF Views
<1>2. UpToDate(c1, m1)
  <2>1. CASE c1 = c
        BY <1>1, <2>1 DEF UpToDate, Notices
  <2>2. CASE c1 # c
        BY <1>1, <2>2 DEF UpToDate, Notices
  <2> QED BY <2>1, <2>2
<1> QED BY <1>1, <1>2 DEF Notices

-----------------------------------------------------------------------------
(* The operator is a writer. *)

(* The status a manager derives is typed and leaves the reported revision.   *)
LEMMA FirstDescribes ==
    ASSUME crCache \in InvokerDeployment
    PROVE  NewStatus \in InvokerDeploymentStatus
           /\ NewStatus.currentRevision = crCache.status.currentRevision
<1>1. ObservedCR \in InvokerDeployment /\
      ObservedCR.status.currentRevision = crCache.status.currentRevision
      BY WrittenTypes DEF ObservedCR
<1>2. NewStatus.currentRevision = ObservedCR.status.currentRevision
      BY <1>1 DEF NewStatus, deriveInvokerDeploymentStatus, InvokerDeployment,
                  InvokerDeploymentStatus
<1> QED BY <1>1, <1>2, DerivedStatusType DEF NewStatus

(* The steps of the first manager, and pods that fail.                       *)
LEMMA FirstIsWriter ==
    ASSUME crCache \in InvokerDeployment \cup {Nil},
           Worker \/ Disturb \/ Informers
    PROVE  WriterStep(cr, View1, cr', View1')
<1> USE DEF View1
<1>1. CASE PassNoCR
      BY <1>1 DEF PassNoCR, api, caches, pass, WriterStep, GoesOn
<1>2. CASE AddFinalizer
  <2>1. CASE crSynced /\ ~crCache.deleting
        BY <1>2, <2>1 DEF AddFinalizer, TakeKey, WriteCR, pass, WriterStep, Adopts, Writes
  <2>2. CASE ~crSynced \/ crCache.deleting
        BY <1>2, <2>2 DEF AddFinalizer, WriteCR, pass, WriterStep, GoesOn
  <2> QED BY <2>1, <2>2
<1>3. CASE RemoveFinalizer
  <2>1. CASE crSynced
        BY <1>3, <2>1 DEF RemoveFinalizer, TakeKey, WriteCR, pass, WriterStep, Releases, Writes
  <2>2. CASE ~crSynced
        BY <1>3, <2>2 DEF RemoveFinalizer, WriteCR, pass, WriterStep, GoesOn
  <2> QED BY <2>1, <2>2
<1>4. CASE UpdateStatus
  <2>1. CASE crSynced
    <3>1. /\ NewStatus \in InvokerDeploymentStatus
          /\ NewStatus.currentRevision = crCache.status.currentRevision
          BY <1>4, FirstDescribes DEF UpdateStatus, Managed
    <3>2. Describes(cr, View1, cr', View1')
          BY <1>4, <2>1, <3>1 DEF UpdateStatus, TakeKey, WriteCR, pass, Describes, Writes
    <3> QED BY <3>2 DEF WriterStep
  <2>2. CASE ~crSynced
        BY <1>4, <2>2 DEF UpdateStatus, WriteCR, pass, WriterStep, GoesOn
  <2> QED BY <2>1, <2>2
<1>5. CASE BeginReconcile
      BY <1>5 DEF BeginReconcile, ObservedCR, api, caches, WriterStep, Begins
<1>6. CASE ConfigMapCall \/ PodCall \/ FailConfigMapCall \/ FailPodCall \/ FailCurrentRevision
      BY <1>6 DEF ConfigMapCall, PodCall, FailConfigMapCall, FailPodCall, FailCurrentRevision,
                  AbandonReconcile, api, caches, WriterStep, GoesOn
<1>7. CASE UpdateCurrentRevision
  <2>1. CASE fresh
        BY <1>7, <2>1 DEF UpdateCurrentRevision, WriteCR, AbandonReconcile, WriterStep,
                          Reports, Writes
  <2>2. CASE ~fresh
        BY <1>7, <2>2 DEF UpdateCurrentRevision, WriteCR, AbandonReconcile, WriterStep, GoesOn
  <2> QED BY <2>1, <2>2
<1>8. CASE SyncRevisionsFails \/ FailSyncRevisions
      BY <1>8 DEF SyncRevisionsFails, FailSyncRevisions, EndPass, api, caches, WriterStep, Ends
<1>9. CASE SyncRevisions
      BY <1>9 DEF SyncRevisions, Restart, EndPass, caches, WriterStep, Ends
<1>10. CASE Crash
      BY <1>10 DEF Crash, Restart, EndPass, api, WriterStep, Ends
<1>11. ASSUME NEW p, PodGone(p) \/ PodFailed(p)
       PROVE  WriterStep(cr, View1, cr', View1')
       BY <1>11 DEF PodGone, PodFailed, caches, pass, WriterStep, GoesOn
<1>12. CASE SyncCR
       BY <1>12 DEF SyncCR, api, pass, WriterStep, Learns
<1>13. CASE SyncPods \/ SyncConfigMaps \/ SyncRevisionCache \/ Resync
       BY <1>13 DEF SyncPods, SyncConfigMaps, SyncRevisionCache, Resync, api, caches, pass,
                    WriterStep, GoesOn
<1> QED BY <1>1, <1>2, <1>3, <1>4, <1>5, <1>6, <1>7, <1>8, <1>9, <1>10, <1>11, <1>12, <1>13
        DEF Worker, Disturb, Failures, Informers

(* What a manager may do to the resource, in the terms of the contract.      *)
LEMMA AllowedImplements ==
    ASSUME Allowed(cr, cr')
    PROVE  Lifecycle!Next \/ UNCHANGED Lifecycle!vars
<1>1. CASE cr' = cr
      BY <1>1, RolloutStutter
<1>2. CASE cr # Nil /\ cr.deleting /\ cr' = Nil
      BY <1>2 DEF Lifecycle!Next, Lifecycle!Vanish, Phase
<1>3. CASE /\ cr # Nil /\ cr' # Nil
           /\ RoundTrip(cr'.spec) = RoundTrip(cr.spec) /\ cr'.deleting = cr.deleting
  <2>1. CASE /\ cr'.finalizer = cr.finalizer \/ cr.deleting
             /\ cr'.status.currentRevision = cr.status.currentRevision
        BY <1>3, <2>1 DEF Lifecycle!vars, Phase
  <2>2. CASE /\ ~cr.finalizer /\ ~cr.deleting /\ cr'.finalizer
             /\ cr'.status.currentRevision = cr.status.currentRevision
    <3>1. Phase = "fresh" /\ Phase' = "managed"
          BY <1>3, <2>2 DEF Phase
    <3> QED BY <1>3, <2>2, <3>1 DEF Lifecycle!Next, Lifecycle!Adopt
  <2>3. CASE /\ cr.finalizer /\ ~cr.deleting /\ cr'.finalizer
             /\ cr'.status.currentRevision = generateRevisionName(RoundTrip(cr.spec))
    <3>1. Phase = "managed" /\ Phase' = "managed"
          BY <1>3, <2>3 DEF Phase
    <3> QED BY <1>3, <2>3, <3>1 DEF Lifecycle!Next, Lifecycle!Report
  <2> QED BY <1>3, <2>1, <2>2, <2>3 DEF Allowed
<1> QED BY <1>1, <1>2, <1>3 DEF Allowed

(* What the user and the garbage collector do to the resource, as the first  *)
(* manager sees it.                                                          *)
LEMMA OthersKeep ==
    ASSUME cr \in InvokerDeployment \cup {Nil}, uid \in Nat, Requested(cr),
           View1 \in Views, UpToDate(cr, View1), User \/ CollectCR
    PROVE  /\ cr' \in InvokerDeployment \cup {Nil} /\ uid' \in Nat /\ Requested(cr')
           /\ View1' \in Views /\ UpToDate(cr', View1')
<1> USE NilAssumption
<1>0. /\ crCache \in InvokerDeployment \cup {Nil} /\ crSynced \in BOOLEAN
      /\ pc \in {"idle", "acting", "syncing"}
      /\ observed \in InvokerDeployment \cup {Nil} /\ fresh \in BOOLEAN
      /\ cr \in InvokerDeployment \cup {Nil} /\ uid \in Nat /\ Requested(cr)
      BY DEF Views, View1
<1>1. /\ UNCHANGED <<crCache, pc, observed>> /\ crSynced' = FALSE
      /\ fresh' \in BOOLEAN /\ (fresh' => fresh /\ cr = Nil)
  <2>1. CASE CreateCR
        BY <1>0, <2>1 DEF CreateCR, pass
  <2>2. CASE EditCR
        BY <2>2 DEF EditCR
  <2>3. CASE DeleteCR
        BY <2>3 DEF DeleteCR
  <2>4. CASE CollectCR
        BY <2>4 DEF CollectCR
  <2> QED BY <2>1, <2>2, <2>3, <2>4 DEF User
<1>2. View1' \in Views
      BY <1>0, <1>1 DEF View1, Views
<1>3. UpToDate(cr', View1')
  <2>1. ~(pc = "acting" /\ fresh')
        BY <1>1 DEF UpToDate, View1
  <2> QED BY <1>1, <2>1 DEF UpToDate, View1
<1>4. cr' \in InvokerDeployment \cup {Nil} /\ uid' \in Nat /\ Requested(cr')
  <2>1. CASE CreateCR
    <3>1. PICK s \in Specs :
             cr' = [uid |-> uid + 1, spec |-> s, finalizer |-> FALSE,
                    deleting |-> FALSE, foreground |-> FALSE, status |-> EmptyStatus]
          BY <2>1 DEF CreateCR
    <3>2. uid' \in Nat /\ cr' \in InvokerDeployment
          BY <1>0, <2>1, <3>1, CreatedType DEF CreateCR
    <3>3. ~cr'.foreground
          BY <3>1
    <3> QED BY <3>2, <3>3 DEF Requested
  <2>2. CASE EditCR
        BY <1>0, <2>2, EditedType DEF EditCR, Requested
  <2>3. CASE DeleteCR
    <3>1. uid' = uid
          BY <2>3 DEF DeleteCR, env
    <3> QED BY <1>0, <2>3, <3>1, DeletedType DEF Requested
  <2>4. CASE CollectCR
    <3>1. uid' = uid
          BY <2>4 DEF CollectCR, env
    <3> QED BY <1>0, <2>4, <3>1, CollectedType DEF Requested
  <2> QED BY <2>1, <2>2, <2>3, <2>4 DEF User
<1> QED BY <1>2, <1>3, <1>4

=============================================================================
