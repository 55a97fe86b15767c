---------------------------- MODULE RevisionProofs --------------------------
(***************************************************************************)
(* The numbers of the ControllerRevisions: NumbersCountEdits and           *)
(* CurrentIsNewest, for every value of the constants.                      *)
(*                                                                         *)
(* Both arguments follow the three copies of the resource (the stored one, *)
(* the cached one and the one a pass holds) and the two tables of records  *)
(* (stored and cached).  What a step can do to these five is the same for  *)
(* both and is stated once, in Moves.                                      *)
(***************************************************************************)
EXTENDS InvokerProofs

Name(c) == generateRevisionName(c.spec)

Current(c) == c.status.currentRevision

(* The user creates the resource or edits its spec; anybody else leaves the  *)
(* spec as it is, and the revision too unless it reports the spec's own.     *)
Created ==
    /\ cr = Nil /\ cr' # Nil /\ Current(cr') = Nil
    /\ uid < MaxUid /\ uid' = uid + 1 /\ used' = {cr'.spec} /\ edits' = edits

Edited ==
    /\ cr # Nil /\ cr' # Nil /\ Current(cr') = Current(cr)
    /\ AllowRollback \/ cr'.spec \notin used
    /\ uid' = uid /\ used' = used \cup {cr'.spec} /\ edits' = edits + 1

Kept ==
    /\ \/ cr' = Nil
       \/ /\ cr # Nil /\ cr' # Nil /\ cr'.spec = cr.spec
          /\ Current(cr') = Current(cr) \/ Current(cr') = Name(cr)
    /\ uid' = uid /\ used' = used /\ edits' = edits

(* A pass ends, goes on with its copy, or begins with the cached one. *)
PassMoves ==
    \/ pc' = "idle"
    \/ pc # "idle" /\ observed' = observed
    \/ crCache # Nil /\ observed'.spec = crCache.spec /\ Current(observed') = Current(crCache)

(* A pass records the revision of its copy. *)
Records(n) ==
    /\ pc # "idle" /\ n = Name(observed)
    /\ RevisionKnown /\ ~RevisionCurrent
    /\ revs'[n] # Nil
    /\ revs'[n].data = RoundTrip(observed.spec) /\ revs'[n].revision = RevisionNumber

RecordsMove == \A n \in RevisionNames : revs'[n] = revs[n] \/ revs'[n] = Nil \/ Records(n)

Moves ==
    /\ Created \/ Edited \/ Kept
    /\ crCache' = crCache \/ crCache' = cr'
    /\ PassMoves
    /\ RecordsMove
    /\ revCache' = revCache \/ revCache' = revs'

-----------------------------------------------------------------------------
(* Steps move the copies and the records as Moves says. *)

(* A step that leaves them alone.                                            *)
LEMMA MovesFrame ==
    ASSUME UNCHANGED <<cr, crCache, revs, revCache, uid, used, edits>>, PassMoves
    PROVE  Moves
  BY DEF Moves, Kept, RecordsMove

(* A step that only changes the resource.                                    *)
LEMMA MovesResource ==
    ASSUME UNCHANGED <<crCache, revs, revCache, pc, observed>>, Created \/ Edited \/ Kept
    PROVE  Moves
  BY DEF Moves, RecordsMove, PassMoves

(* What a pass writes to the table of revisions.                             *)
LEMMA RecordsAfter ==
    ASSUME TypeOK, pc = "syncing", RevisionKnown, ~RevisionCurrent
    PROVE  /\ DOMAIN RevisionsAfter = RevisionNames
           /\ \A n \in RevisionNames : n # Name(observed) => RevisionsAfter[n] = revs[n]
           /\ LET r == RevisionsAfter[Name(observed)]
              IN  /\ r # Nil /\ r.data = RoundTrip(observed.spec)
                  /\ r.revision = RevisionNumber
<1>1. observed \in InvokerDeployment /\ revs \in Table(RevisionNames, ControllerRevision)
      /\ revCache \in Table(RevisionNames, ControllerRevision)
      BY DEF TypeOK
<1>2. Name(observed) \in RevisionNames /\ RoundTrip(observed.spec) \in StoredSpecs
      BY <1>1, RoundTripStored DEF InvokerDeployment, Name
<1>3. RevisionNumber \in Nat
  <2>1. CASE CurrentName = Nil
        BY <2>1 DEF RevisionNumber
  <2>2. CASE CurrentName # Nil
    <3>1. CurrentName \in RevisionNames
          BY <1>1, <2>2 DEF CurrentName, InvokerDeployment, InvokerDeploymentStatus
    <3>2. revCache[CurrentName] \in ControllerRevision
          BY <1>1, <2>2, <3>1 DEF RevisionKnown, Table
    <3>3. revCache[CurrentName].revision \in Nat
          BY <3>2 DEF ControllerRevision
    <3> QED BY <2>2, <3>3 DEF RevisionNumber
  <2> QED BY <2>1, <2>2
<1> DEFINE r == [data |-> RoundTrip(observed.spec), revision |-> RevisionNumber,
                 label |-> RevisionLabel, owner |-> observed.uid]
<1>4. r \in ControllerRevision
      BY <1>1, <1>2, <1>3 DEF ControllerRevision, InvokerDeployment
<1>5. r # Nil /\ r.data = RoundTrip(observed.spec) /\ r.revision = RevisionNumber
      BY <1>4, NilAssumption
<1>6. RevisionsAfter = [revs EXCEPT ![Name(observed)] = r]
      BY DEF RevisionsAfter, Name
<1> HIDE DEF r
<1> QED BY <1>1, <1>2, <1>5, <1>6 DEF Table

(* Every step of the operator and of its surroundings is one of these.       *)
LEMMA RevisionMoves ==
    ASSUME CanonicalSpecs, TypeOK, WritesLatest, [Next]_vars
    PROVE  Moves
<1> USE NilAssumption
<1>0. ASSUME NEW c \in InvokerDeployment
      PROVE  RoundTrip(c.spec) = c.spec
      BY CanonicalForm DEF InvokerDeployment
<1>1. CASE AddFinalizer
  <2>1. UNCHANGED <<crCache, revs, revCache, pc, observed, uid, used, edits>>
        BY <1>1 DEF AddFinalizer, pass, env
  <2>2. CASE crSynced /\ ~crCache.deleting
    <3>1. /\ cr = crCache /\ cr \in InvokerDeployment /\ cr # Nil
          /\ cr' = [cr EXCEPT !.finalizer = TRUE, !.spec = RoundTrip(cr.spec)]
          BY <1>1, <2>2 DEF AddFinalizer, WriteCR, WritesLatest, LatestCopies, TypeOK
    <3>2. RoundTrip(cr.spec) = cr.spec
          BY <1>0, <3>1
    <3>3. cr' \in InvokerDeployment /\ cr'.spec = cr.spec /\ cr'.status = cr.status
          BY <3>1, <3>2 DEF InvokerDeployment
    <3> QED BY <2>1, <3>1, <3>3, MovesResource DEF Kept, Current
  <2>3. CASE ~(crSynced /\ ~crCache.deleting)
        BY <1>1, <2>1, <2>3, MovesResource DEF AddFinalizer, WriteCR, Kept
  <2> QED BY <2>2, <2>3
<1>2. CASE RemoveFinalizer
  <2>1. UNCHANGED <<crCache, revs, revCache, pc, observed, uid, used, edits>>
        BY <1>2 DEF RemoveFinalizer, pass, env
  <2>2. CASE crSynced
    <3> DEFINE new == [cr EXCEPT !.finalizer = FALSE, !.spec = RoundTrip(cr.spec)]
    <3>1. /\ cr = crCache /\ cr \in InvokerDeployment /\ cr # Nil
          /\ cr' = (IF cr.foreground THEN new ELSE Nil)
          BY <1>2, <2>2 DEF RemoveFinalizer, WriteCR, WritesLatest, LatestCopies, TypeOK
    <3>2. new \in InvokerDeployment /\ new.spec = RoundTrip(cr.spec) /\ new.status = cr.status
          BY <3>1, ReleasedType
    <3>3. RoundTrip(cr.spec) = cr.spec
          BY <1>0, <3>1
    <3> HIDE DEF new
    <3> QED BY <2>1, <3>1, <3>2, <3>3, MovesResource DEF Kept, Current
  <2>3. CASE ~crSynced
        BY <1>2, <2>1, <2>3, MovesResource DEF RemoveFinalizer, WriteCR, Kept
  <2> QED BY <2>2, <2>3
<1>3. CASE UpdateStatus
  <2>1. UNCHANGED <<crCache, revs, revCache, pc, observed, uid, used, edits>>
        BY <1>3 DEF UpdateStatus, pass, env
  <2>2. CASE crSynced
    <3>1. /\ cr = crCache /\ cr # Nil /\ cr \in InvokerDeployment
          /\ cr' = [crCache EXCEPT !.status = NewStatus]
          BY <1>3, <2>2 DEF UpdateStatus, WriteCR, WritesLatest, LatestCopies, TypeOK, Managed
    <3>2. cr' \in InvokerDeployment /\ NewStatus.currentRevision = cr.status.currentRevision
          BY <3>1, ObservedType
    <3>3. cr'.spec = cr.spec /\ Current(cr') = Current(cr)
          BY <3>1, <3>2 DEF InvokerDeployment, Current
    <3> QED BY <2>1, <3>1, <3>2, <3>3, MovesResource DEF Kept
  <2>3. CASE ~crSynced
        BY <1>3, <2>1, <2>3, MovesResource DEF UpdateStatus, WriteCR, Kept
  <2> QED BY <2>2, <2>3
<1>4. CASE BeginReconcile
  <2>1. /\ UNCHANGED <<cr, crCache, revs, revCache, uid, used, edits>>
        /\ crCache # Nil /\ observed' = ObservedCR
        BY <1>4 DEF BeginReconcile, Managed, api, caches, env
  <2>2. PassMoves
        BY <2>1, ObservedType DEF PassMoves, Current
  <2> QED BY <2>1, <2>2, MovesFrame
<1>5. CASE UpdateCurrentRevision
  <2>1. UNCHANGED <<crCache, revs, revCache, observed, uid, used, edits>> /\ pc # "idle"
        BY <1>5 DEF UpdateCurrentRevision, env
  <2>2. Kept
    <3>1. CASE fresh
      <4>1. /\ pc = "acting" /\ observed \in InvokerDeployment
            /\ cr' = [observed EXCEPT !.status.currentRevision = observed.status.nextRevision]
            BY <1>5, <3>1 DEF UpdateCurrentRevision, WriteCR, TypeOK
      <4>2. /\ cr # Nil /\ cr.spec = observed.spec
            /\ observed.status.nextRevision = generateRevisionName(observed.spec)
            BY <3>1, <4>1 DEF WritesLatest, LatestCopies, PassAdopted
      <4>3. /\ cr' \in InvokerDeployment /\ cr'.spec = observed.spec
            /\ Current(cr') = observed.status.nextRevision
            BY <4>1 DEF InvokerDeployment, InvokerDeploymentStatus, Current
      <4> QED BY <2>1, <4>2, <4>3 DEF Kept, Name
    <3>2. CASE ~fresh
          BY <1>5, <2>1, <3>2 DEF UpdateCurrentRevision, WriteCR, Kept
    <3> QED BY <3>1, <3>2
  <2> QED BY <2>1, <2>2 DEF Moves, PassMoves, RecordsMove
<1>6. CASE \/ ConfigMapCall \/ FailConfigMapCall \/ PodCall \/ FailPodCall \/ FailCurrentRevision
  <2>1. /\ UNCHANGED <<cr, crCache, revs, revCache, uid, used, edits>>
        /\ pc # "idle" /\ observed' = observed
        BY <1>6 DEF ConfigMapCall, FailConfigMapCall, PodCall, FailPodCall, FailCurrentRevision,
                    api, caches, env
  <2> QED BY <2>1, MovesFrame DEF PassMoves
<1>7. CASE PassNoCR \/ SyncPods \/ SyncConfigMaps \/ Resync \/ UNCHANGED vars
  <2>1. UNCHANGED <<cr, crCache, revs, revCache, uid, used, edits, pc, observed>>
        BY <1>7 DEF PassNoCR, SyncPods, SyncConfigMaps, Resync, vars, api, caches, pass, env
  <2> QED BY <2>1, MovesFrame DEF PassMoves
<1>8. ASSUME NEW p \in PodNames,
             PodGone(p) \/ PodFailed(p) \/ KubeletStart(p) \/ KubeletStop(p) \/ CollectPod(p)
      PROVE  Moves
  <2>1. UNCHANGED <<cr, crCache, revs, revCache, uid, used, edits, pc, observed>>
        BY <1>8 DEF PodGone, PodFailed, KubeletStart, KubeletStop, CollectPod, caches, pass, env
  <2> QED BY <2>1, MovesFrame DEF PassMoves
<1>9. ASSUME NEW e, CollectConfigMap(e) PROVE Moves
  <2>1. UNCHANGED <<cr, crCache, revs, revCache, uid, used, edits, pc, observed>>
        BY <1>9 DEF CollectConfigMap, caches, pass, env
  <2> QED BY <2>1, MovesFrame DEF PassMoves
<1>10. CASE SyncRevisionsFails
  <2>1. UNCHANGED <<cr, crCache, revs, revCache, uid, used, edits>> /\ pc' = "idle"
        BY <1>10 DEF SyncRevisionsFails, EndPass, api, caches, env
  <2> QED BY <2>1, MovesFrame DEF PassMoves
<1>11. CASE SyncRevisions
  <2> DEFINE synced == IF RevisionCurrent THEN revs ELSE RevisionsAfter
  <2>1. /\ pc = "syncing" /\ pc' = "idle" /\ RevisionKnown /\ UNCHANGED <<cr, uid, used, edits>>
        /\ \/ revs' = synced /\ crCache' = cr' /\ revCache' = revs'
           \/ /\ UNCHANGED <<crCache, revCache>>
              /\ \A n \in RevisionNames : revs'[n] = synced[n] \/ revs'[n] = Nil
    <3>1. /\ pc = "syncing" /\ pc' = "idle" /\ RevisionKnown /\ UNCHANGED <<cr, uid, used, edits>>
          BY <1>11 DEF SyncRevisions, Restart, EndPass, env
    <3>2. CASE observed.spec.historyLimit = Nil
          BY <1>11, <3>1, <3>2 DEF SyncRevisions, Restart
    <3>3. CASE observed.spec.historyLimit # Nil
      <4>1. PICK excess : revs' = [n \in RevisionNames |-> IF n \in excess THEN Nil ELSE synced[n]]
            BY <1>11, <3>3 DEF SyncRevisions
      <4>2. UNCHANGED <<crCache, revCache>>
            BY <1>11, <3>3 DEF SyncRevisions, caches
      <4> HIDE DEF synced
      <4> QED BY <3>1, <4>1, <4>2
    <3> QED BY <3>2, <3>3
  <2>2. \A n \in RevisionNames : revs'[n] = synced[n] \/ revs'[n] = Nil
        BY <2>1
  <2>3. RecordsMove
    <3>1. CASE RevisionCurrent
          BY <2>2, <3>1 DEF RecordsMove
    <3>2. CASE ~RevisionCurrent
          BY <2>1, <2>2, <3>2, RecordsAfter DEF RecordsMove, Records
    <3> QED BY <3>1, <3>2
  <2> HIDE DEF synced
  <2> QED BY <2>1, <2>3 DEF Moves, Kept, PassMoves
<1>12. CASE FailSyncRevisions
  <2>1. /\ pc = "syncing" /\ pc' = "idle" /\ RevisionKnown /\ ~RevisionCurrent
        /\ UNCHANGED <<cr, crCache, revCache, uid, used, edits>>
        /\ revs' = revs \/ revs' = RevisionsAfter
        BY <1>12 DEF FailSyncRevisions, EndPass, caches
  <2>2. RecordsMove
        BY <2>1, RecordsAfter DEF RecordsMove, Records
  <2> QED BY <2>1, <2>2 DEF Moves, Kept, PassMoves
<1>13. CASE Crash
  <2>1. /\ pc' = "idle" /\ UNCHANGED <<cr, revs, uid, used, edits>>
        /\ crCache' = cr' /\ revCache' = revs'
        BY <1>13 DEF Crash, Restart, EndPass, api
  <2> QED BY <2>1 DEF Moves, Kept, PassMoves, RecordsMove
<1>14. CASE CreateCR
  <2>1. PICK s \in Specs :
           /\ cr' = [uid |-> uid + 1, spec |-> s, finalizer |-> FALSE,
                     deleting |-> FALSE, foreground |-> FALSE, status |-> EmptyStatus]
           /\ used' = {s}
        BY <1>14 DEF CreateCR
  <2>2. cr' # Nil /\ cr'.spec = s /\ Current(cr') = Nil
    <3>1. cr' \in InvokerDeployment
          BY <2>1, CreatedType, BoundsAssumption DEF TypeOK
    <3> QED BY <2>1, <3>1 DEF EmptyStatus, Current
  <2>3. /\ cr = Nil /\ uid < MaxUid /\ uid' = uid + 1 /\ edits' = edits
        /\ UNCHANGED <<crCache, revs, revCache, pc, observed>>
        BY <1>14 DEF CreateCR, pass
  <2> QED BY <2>1, <2>2, <2>3, MovesResource DEF Created
<1>15. CASE EditCR
  <2>1. PICK s \in Specs : /\ AllowRollback \/ s \notin used
                           /\ cr' = [cr EXCEPT !.spec = s] /\ used' = used \cup {s}
        BY <1>15 DEF EditCR
  <2>2. /\ cr # Nil /\ uid' = uid /\ edits' = edits + 1
        /\ UNCHANGED <<crCache, revs, revCache, pc, observed>>
        BY <1>15 DEF EditCR
  <2>3. cr' # Nil /\ cr'.status = cr.status /\ cr'.spec = s
        BY <1>15, <2>1, EditedType DEF TypeOK, InvokerDeployment
  <2> QED BY <2>1, <2>2, <2>3, MovesResource DEF Edited, Current
<1>16. CASE DeleteCR
  <2>1. UNCHANGED <<crCache, revs, revCache, pc, observed, uid, used, edits>>
        BY <1>16 DEF DeleteCR, env
  <2>2. \/ cr' = Nil
        \/ cr # Nil /\ cr' # Nil /\ cr'.spec = cr.spec /\ cr'.status = cr.status
        BY <1>16, DeletedType DEF TypeOK
  <2> QED BY <2>1, <2>2, MovesResource DEF Kept, Current
<1>17. CASE CollectCR
  <2>1. UNCHANGED <<crCache, revs, revCache, pc, observed, uid, used, edits>>
        BY <1>17 DEF CollectCR, env
  <2>2. \/ cr' = Nil
        \/ cr # Nil /\ cr' # Nil /\ cr'.spec = cr.spec /\ cr'.status = cr.status
        BY <1>17, CollectedType DEF TypeOK
  <2> QED BY <2>1, <2>2, MovesResource DEF Kept, Current
<1>18. CASE SyncCR \/ SyncRevisionCache
  <2>1. /\ UNCHANGED <<cr, revs, pc, observed, uid, used, edits>>
        /\ crCache' = crCache \/ crCache' = cr'
        /\ revCache' = revCache \/ revCache' = revs'
        BY <1>18 DEF SyncCR, SyncRevisionCache, api, pass, env
  <2> QED BY <2>1 DEF Moves, Kept, PassMoves, RecordsMove
<1>19. ASSUME NEW n \in RevisionNames, CollectRevision(n) PROVE Moves
  <2>1. /\ UNCHANGED <<cr, crCache, revCache, pc, observed, uid, used, edits>>
        /\ revs' = [revs EXCEPT ![n] = Nil]
        BY <1>19 DEF CollectRevision, caches, pass, env
  <2>2. RecordsMove
        BY <2>1 DEF RecordsMove, TypeOK, Table
  <2> QED BY <2>1, <2>2 DEF Moves, Kept, PassMoves
<1> QED
    BY <1>1, <1>2, <1>3, <1>4, <1>5, <1>6, <1>7, <1>8, <1>9, <1>10, <1>11, <1>12, <1>13,
       <1>14, <1>15, <1>16, <1>17, <1>18, <1>19
    DEF Next, Worker, Disturb, Failures, User, Informers, Cluster

-----------------------------------------------------------------------------
(* Numbers count edits.                                                      *)
(*                                                                           *)
(* Every copy c of the resource was the stored one after some number e of    *)
(* edits.  A revision that is recorded from it gets at most the number       *)
(* 1 + e: the one it counts on from was recorded earlier, unless it is its   *)
(* own, and then nothing is recorded.                                        *)

Within(t, n, e) == t[n] # Nil => t[n].revision <= e

(* The number of the revision that copy c reports, if not its own. *)
Counted(c, e, t1, t2) ==
    \/ Current(c) = Nil \/ Current(c) = Name(c)
    \/ Within(t1, Current(c), e) /\ Within(t2, Current(c), e)

(* Copy d, after f edits, is not older than copy c, after e edits; between   *)
(* two edits the spec stays, but the resource may be deleted and recreated.  *)
Later(c, e, d, f) ==
    /\ e <= f
    /\ e = f => Current(d) = Nil \/ Current(d) = Name(d) \/ Name(c) = Name(d)

Behind(c, e, d, f) == e <= f /\ (d # Nil => Later(c, e, d, f))

(* A record bears the name of the spec it holds. *)
NamedAfterData(t) ==
    \A n \in RevisionNames : t[n] # Nil => generateRevisionName(t[n].data) = n

CopiesFrom(eo, ec) ==
    /\ cr # Nil => Counted(cr, edits, revs, revCache)
    /\ crCache # Nil => /\ Counted(crCache, ec, revs, revCache)
                        /\ Behind(crCache, ec, cr, edits)
    /\ pc # "idle" => /\ Counted(observed, eo, revs, revCache)
                      /\ Behind(observed, eo, cr, edits)
                      /\ crCache # Nil => Later(observed, eo, crCache, ec)

NumbersInv ==
    /\ NamedAfterData(revs) /\ NamedAfterData(revCache)
    /\ \A n \in RevisionNames : Within(revs, n, 1 + edits) /\ Within(revCache, n, 1 + edits)
    /\ \E eo, ec \in Nat : CopiesFrom(eo, ec)

(* A revision that is recorded is not the one its copy reports.              *)
LEMMA RecordedIsNew ==
    ASSUME CanonicalSpecs, TypeOK, NamedAfterData(revCache), NEW n \in RevisionNames, Records(n)
    PROVE  /\ observed \in InvokerDeployment
           /\ generateRevisionName(revs'[n].data) = n
           /\ Current(observed) # Name(observed)
           /\ Current(observed) # Nil =>
                 /\ Current(observed) \in RevisionNames
                 /\ revCache[Current(observed)] \in ControllerRevision
<1>1. observed \in InvokerDeployment /\ observed.spec \in StoredSpecs
      BY DEF Records, TypeOK, InvokerDeployment
<1>2. RoundTrip(observed.spec) = observed.spec
      BY <1>1, CanonicalForm
<1>3. generateRevisionName(revs'[n].data) = n
      BY <1>2 DEF Records, Name
<1>4. ASSUME Current(observed) # Nil
      PROVE  /\ Current(observed) \in RevisionNames
             /\ revCache[Current(observed)] \in ControllerRevision
  <2>1. Current(observed) \in RevisionNames
        BY <1>1, <1>4 DEF Current, InvokerDeployment, InvokerDeploymentStatus
  <2>2. revCache[Current(observed)] # Nil
        BY <1>4 DEF Records, RevisionKnown, CurrentName, Current
  <2> QED BY <2>1, <2>2 DEF TypeOK, Table
<1>5. Current(observed) # Name(observed)
  <2> SUFFICES ASSUME Current(observed) = Name(observed) PROVE FALSE
      OBVIOUS
  <2>1. Name(observed) \in RevisionNames /\ Current(observed) # Nil
        BY <1>1, RoundTripStored, NilAssumption DEF Name
  <2> DEFINE d == revCache[Current(observed)].data
  <2>2. d \in StoredSpecs /\ generateRevisionName(d) = Name(observed)
    <3>1. revCache[Current(observed)] \in ControllerRevision /\ Current(observed) \in RevisionNames
          BY <1>4, <2>1
    <3>2. revCache[Current(observed)] # Nil
          BY <3>1, NilAssumption
    <3> QED BY <3>1, <3>2 DEF ControllerRevision, NamedAfterData
  <2>3. d = observed.spec
        BY <1>1, <2>2, CanonicalForm, HashAssumption DEF Name
  <2> QED BY <2>1, <2>3 DEF Records, RevisionCurrent, CurrentName, Current
<1> QED BY <1>1, <1>3, <1>4, <1>5

(* Records keep the names of their specs.                                    *)
LEMMA NamesStep ==
    ASSUME CanonicalSpecs, TypeOK, NamedAfterData(revs), NamedAfterData(revCache), Moves
    PROVE  NamedAfterData(revs') /\ NamedAfterData(revCache')
<1>1. NamedAfterData(revs')
      BY RecordedIsNew DEF NamedAfterData, Moves, RecordsMove
<1> QED BY <1>1 DEF Moves

(* Copies and records stay within their numbers.                             *)
LEMMA NumbersStep ==
    ASSUME CanonicalSpecs, TypeOK, TypeOK', NumbersInv, Moves
    PROVE  NumbersInv'
<1> USE NilAssumption, BoundsAssumption
<1>1. PICK eo \in Nat, ec \in Nat : CopiesFrom(eo, ec)
      BY DEF NumbersInv
<1>2. edits \in Nat /\ edits' \in Nat /\ edits <= edits'
      BY DEF Moves, Created, Edited, Kept, TypeOK
<1>3. ASSUME NEW n \in RevisionNames, Records(n)
      PROVE  /\ n = Name(observed) /\ pc # "idle" /\ eo <= edits
             /\ revs'[n].revision \in Nat /\ revs'[n].revision <= 1 + eo
  <2>1. n = Name(observed) /\ pc # "idle" /\ revs'[n].revision = RevisionNumber
        BY <1>3 DEF Records
  <2>2. eo <= edits /\ Counted(observed, eo, revs, revCache)
        BY <1>1, <2>1 DEF CopiesFrom, Behind
  <2>3. CASE Current(observed) = Nil
        BY <2>1, <2>2, <2>3 DEF RevisionNumber, CurrentName, Current
  <2>4. CASE Current(observed) # Nil
    <3> DEFINE k == revCache[Current(observed)]
    <3>1. k \in ControllerRevision /\ Current(observed) # Name(observed)
          BY <1>3, <2>4, RecordedIsNew DEF NumbersInv
    <3>2. k # Nil /\ k.revision \in Nat
          BY <3>1 DEF ControllerRevision
    <3>3. k.revision <= eo
          BY <2>2, <2>4, <3>1, <3>2 DEF Counted, Within
    <3>4. RevisionNumber = IF k.revision < MaxRevision THEN k.revision + 1 ELSE k.revision
          BY <2>4 DEF RevisionNumber, CurrentName, Current
    <3> HIDE DEF k
    <3> QED BY <2>1, <2>2, <3>2, <3>3, <3>4
  <2> QED BY <2>3, <2>4
<1>4. ASSUME NEW n \in RevisionNames, NEW e \in Nat, Within(revs, n, e), Within(revCache, n, e),
             Records(n) => 1 + eo <= e
      PROVE  Within(revs', n, e) /\ Within(revCache', n, e)
  <2>1. Within(revs', n, e)
    <3>1. CASE Records(n)
          BY <1>3, <1>4, <3>1 DEF Within
    <3>2. CASE ~Records(n)
          BY <1>4, <3>2 DEF Within, Moves, RecordsMove
    <3> QED BY <3>1, <3>2
  <2> QED BY <1>4, <2>1 DEF Moves
<1>5. \A n \in RevisionNames : Within(revs', n, 1 + edits) /\ Within(revCache', n, 1 + edits)
  <2> SUFFICES ASSUME NEW n \in RevisionNames
               PROVE  Within(revs', n, 1 + edits) /\ Within(revCache', n, 1 + edits)
      OBVIOUS
  <2>1. Records(n) => 1 + eo <= 1 + edits
        BY <1>2, <1>3
  <2>2. Within(revs, n, 1 + edits) /\ Within(revCache, n, 1 + edits) /\ 1 + edits \in Nat
        BY <1>2 DEF NumbersInv
  <2> QED BY <1>4, <2>1, <2>2
<1>6. \A n \in RevisionNames : Within(revs', n, 1 + edits') /\ Within(revCache', n, 1 + edits')
  <2> SUFFICES ASSUME NEW n \in RevisionNames
               PROVE  Within(revs', n, 1 + edits') /\ Within(revCache', n, 1 + edits')
      OBVIOUS
  <2>1. /\ revs'[n] # Nil => revs'[n].revision \in Nat
        /\ revCache'[n] # Nil => revCache'[n].revision \in Nat
        BY DEF TypeOK, Table, ControllerRevision
  <2> QED BY <1>2, <1>5, <2>1 DEF Within
<1>7. ASSUME NEW c \in InvokerDeployment, NEW e \in Nat, Counted(c, e, revs, revCache),
             pc # "idle" => (Later(observed, eo, c, e) \/ Name(observed) = Name(c))
      PROVE  Counted(c, e, revs', revCache')
  <2>1. CASE Current(c) = Nil \/ Current(c) = Name(c)
        BY <2>1 DEF Counted
  <2>2. CASE Current(c) # Nil /\ Current(c) # Name(c)
    <3>1. Current(c) \in RevisionNames
          BY <2>2 DEF Current, InvokerDeployment, InvokerDeploymentStatus
    <3>2. Records(Current(c)) => 1 + eo <= e
          BY <1>3, <1>7, <2>2, <3>1 DEF Later
    <3>3. Within(revs, Current(c), e) /\ Within(revCache, Current(c), e)
          BY <1>7, <2>2 DEF Counted
    <3> QED BY <1>4, <3>1, <3>2, <3>3 DEF Counted
  <2> QED BY <2>1, <2>2
<1>8. ASSUME NEW c, NEW e \in Nat, Behind(c, e, cr, edits)
      PROVE  Behind(c, e, cr', edits')
  <2>1. CASE Created
        BY <1>2, <1>8, <2>1 DEF Behind, Later, Created
  <2>2. CASE Edited
        BY <1>2, <1>8, <2>2 DEF Behind, Later, Edited
  <2>3. CASE Kept
        BY <1>2, <1>8, <2>3 DEF Behind, Later, Kept, Name
  <2> QED BY <2>1, <2>2, <2>3 DEF Moves
<1>9. ASSUME cr' # Nil
      PROVE  /\ Counted(cr', edits', revs', revCache')
             /\ Behind(cr', edits', cr', edits')
  <2>1. CASE Created
        BY <1>2, <2>1 DEF Created, Counted, Behind, Later
  <2>2. CASE Edited
    <3>1. Current(cr') = Nil \/ Current(cr') \in RevisionNames
          BY <1>9 DEF Current, TypeOK, InvokerDeployment, InvokerDeploymentStatus
    <3>2. edits' = 1 + edits
          BY <1>2, <2>2 DEF Edited
    <3> QED BY <1>2, <1>5, <3>1, <3>2 DEF Counted, Behind, Later
  <2>3. CASE Kept
    <3>1. /\ cr # Nil /\ cr \in InvokerDeployment /\ Name(cr') = Name(cr) /\ edits' = edits
          /\ Current(cr') = Current(cr) \/ Current(cr') = Name(cr)
          BY <1>9, <2>3 DEF Kept, Name, TypeOK
    <3>2. Counted(cr, edits, revs', revCache')
          BY <1>1, <1>2, <1>7, <3>1 DEF CopiesFrom, Behind
    <3> QED BY <1>2, <3>1, <3>2 DEF Counted, Behind, Later
  <2> QED BY <2>1, <2>2, <2>3 DEF Moves
<1>10. ASSUME crCache # Nil
       PROVE  /\ Counted(crCache, ec, revs', revCache')
              /\ Behind(crCache, ec, cr', edits')
  <2>1. crCache \in InvokerDeployment
        BY <1>10 DEF TypeOK
  <2> QED BY <1>1, <1>7, <1>8, <1>10, <2>1 DEF CopiesFrom
<1>11. ASSUME pc # "idle"
       PROVE  /\ Counted(observed, eo, revs', revCache')
              /\ Behind(observed, eo, cr', edits')
  <2>1. observed \in InvokerDeployment
        BY <1>11 DEF TypeOK
  <2> QED BY <1>1, <1>7, <1>8, <1>11, <2>1 DEF CopiesFrom
<1> DEFINE ec1 == IF crCache' = crCache THEN ec ELSE edits'
           eo1 == IF pc # "idle" /\ observed' = observed THEN eo ELSE ec
<1>12. ec1 \in Nat /\ eo1 \in Nat
       BY <1>2
<1>13. crCache' # Nil => /\ Counted(crCache', ec1, revs', revCache')
                         /\ Behind(crCache', ec1, cr', edits')
       BY <1>9, <1>10 DEF Moves
<1>14. ASSUME pc' # "idle"
       PROVE  /\ Counted(observed', eo1, revs', revCache')
              /\ Behind(observed', eo1, cr', edits')
              /\ crCache' # Nil => Later(observed', eo1, crCache', ec1)
  <2>1. CASE pc # "idle" /\ observed' = observed
    <3>1. eo1 = eo
          BY <2>1
    <3>2. crCache # Nil => Later(observed, eo, crCache, ec)
          BY <1>1, <2>1 DEF CopiesFrom
    <3>3. crCache' # Nil => Later(observed', eo1, crCache', ec1)
          BY <1>11, <2>1, <3>1, <3>2 DEF Moves, Behind
    <3> QED BY <1>11, <2>1, <3>1, <3>3
  <2>2. CASE ~(pc # "idle" /\ observed' = observed)
    <3>1. /\ crCache # Nil /\ Name(observed') = Name(crCache)
          /\ Current(observed') = Current(crCache) /\ eo1 = ec
          BY <1>14, <2>2 DEF Moves, PassMoves, Name
    <3>2. Counted(observed', eo1, revs', revCache') /\ Behind(observed', eo1, cr', edits')
          BY <1>10, <3>1 DEF Counted, Behind, Later
    <3>3. CASE crCache' = crCache
      <4>1. ec1 = ec /\ ec <= ec
            BY <3>3
      <4>2. Later(observed', eo1, crCache', ec1)
            BY <3>1, <3>3, <4>1 DEF Later
      <4> QED BY <3>2, <4>2
    <3>4. CASE crCache' # crCache
      <4>1. ec1 = edits' /\ crCache' = cr'
            BY <3>4 DEF Moves
      <4> QED BY <3>2, <4>1 DEF Behind
    <3> QED BY <3>3, <3>4
  <2> QED BY <2>1, <2>2
<1>15. PICK x \in Nat, y \in Nat : x = eo1 /\ y = ec1
       BY <1>12
<1> HIDE DEF ec1, eo1
<1>16. CopiesFrom(x, y)'
       BY <1>9, <1>13, <1>14, <1>15 DEF CopiesFrom
<1>17. (\E u, v \in Nat : CopiesFrom(u, v))'
       BY <1>16
<1> QED BY <1>6, <1>17, NamesStep DEF NumbersInv

(* Without a resource there is nothing to count.                             *)
LEMMA NumbersInit == Init => NumbersInv
<1> SUFFICES ASSUME Init PROVE NumbersInv
    OBVIOUS
<1>1. CopiesFrom(0, 0)
      BY DEF Init, CopiesFrom
<1>2. \A n \in RevisionNames : revs[n] = Nil /\ revCache[n] = Nil
      BY DEF Init
<1> QED BY <1>1, <1>2 DEF NumbersInv, NamedAfterData, Within

(* No ControllerRevision gets a number beyond one per spec the user has      *)
(* applied, whatever createControllerRevision retries, repeats after a crash *)
(* or computes from a stale cache, and also when specs come back or the      *)
(* resource is deleted and recreated; specs are written in canonical form.   *)
THEOREM NumbersBounded == ASSUME CanonicalSpecs PROVE Spec => []NumbersCountEdits
<1>1. Spec => []TypeOK
      BY TypeCorrect
<1>2. Spec => []WritesLatest
      BY OwnershipHolds, PTL DEF OwnershipInv
<1>3. TypeOK /\ TypeOK' /\ WritesLatest /\ NumbersInv /\ [Next]_vars => NumbersInv'
      BY RevisionMoves, NumbersStep
<1>4. TypeOK /\ NumbersInv => NumbersCountEdits
      BY DEF TypeOK, Table, NumbersInv, NumbersCountEdits, Present, Within
<1> QED BY <1>1, <1>2, <1>3, <1>4, NumbersInit, PTL DEF Spec

-----------------------------------------------------------------------------
(* The current revision is the newest.                                       *)
(*                                                                           *)
(* With an edit it is settled which number the new spec will be recorded     *)
(* with, num: the one after the revision the resource reports at that        *)
(* moment.  Whichever pass records the spec, from however stale a copy,      *)
(* counts on from the same revision.                                         *)

NextAfter(num, p) == IF p = Nil THEN 1
                     ELSE IF num[p] < MaxRevision THEN num[p] + 1 ELSE num[p]

InUse(n, specs) == \E s \in specs : n = generateRevisionName(s)

(* A copy of the resource knows where its spec comes in the count. *)
Placed(num, c, specs) ==
    /\ c.spec \in specs
    /\ Current(c) = Nil \/ InUse(Current(c), specs)
    /\ Current(c) # Name(c) => num[Name(c)] = NextAfter(num, Current(c))

Highest(num, c, specs) == \A s \in specs : num[generateRevisionName(s)] <= num[Name(c)]

Listed(num, t, specs) ==
    \A n \in RevisionNames : t[n] # Nil => InUse(n, specs) /\ t[n].revision = num[n]

Numbered(num) ==
    /\ Listed(num, revs, used) /\ Listed(num, revCache, used)
    /\ cr # Nil => Placed(num, cr, used) /\ Highest(num, cr, used)
    /\ crCache # Nil => Placed(num, crCache, used)
    /\ pc # "idle" => Placed(num, observed, used)

(* Before the resource exists there is nothing. *)
Unborn ==
    uid = 0 => /\ cr = Nil /\ crCache = Nil /\ pc = "idle" /\ used = {}
               /\ \A n \in RevisionNames : revs[n] = Nil /\ revCache[n] = Nil

NewestInv ==
    /\ NamedAfterData(revs) /\ NamedAfterData(revCache)
    /\ Unborn
    /\ \E num \in [RevisionNames -> Nat] : Numbered(num)

(* Nothing appears before the resource does.                                 *)
LEMMA UnbornStep ==
    ASSUME TypeOK, Unborn, Moves
    PROVE  Unborn'
<1> SUFFICES ASSUME uid' = 0
             PROVE  /\ cr' = Nil /\ crCache' = Nil /\ pc' = "idle" /\ used' = {}
                    /\ \A n \in RevisionNames : revs'[n] = Nil /\ revCache'[n] = Nil
    BY DEF Unborn
<1>1. uid = 0 /\ ~Created
      BY BoundsAssumption DEF Moves, Created, Edited, Kept, TypeOK
<1>2. /\ cr = Nil /\ crCache = Nil /\ pc = "idle" /\ used = {}
      /\ \A n \in RevisionNames : revs[n] = Nil /\ revCache[n] = Nil
      BY <1>1 DEF Unborn
<1>3. cr' = Nil /\ used' = {} /\ crCache' = Nil
      BY <1>1, <1>2 DEF Moves, Edited, Kept
<1>4. \A n \in RevisionNames : revs'[n] = Nil /\ revCache'[n] = Nil
      BY <1>2 DEF Moves, RecordsMove, Records
<1>5. pc' = "idle"
      BY <1>2 DEF Moves, PassMoves
<1> QED BY <1>3, <1>4, <1>5

(* The count goes on with every edit.                                        *)
LEMMA NewestStep ==
    ASSUME Onward, TypeOK, TypeOK', NewestInv, Moves
    PROVE  NewestInv'
<1> USE NilAssumption, BoundsAssumption
<1>1. PICK num \in [RevisionNames -> Nat] : Numbered(num)
      BY DEF NewestInv
<1>2. CanonicalSpecs
      BY DEF Onward
<1>3. /\ \A s \in Specs : generateRevisionName(s) \in RevisionNames
      /\ \A s, t \in Specs : generateRevisionName(s) = generateRevisionName(t) => s = t
      /\ \A c \in InvokerDeployment : c.spec \in Specs /\ Name(c) \in RevisionNames
      BY <1>2, CanonicalForm, HashAssumption DEF InvokerDeployment, Name
<1>4. used \subseteq Specs /\ used' \subseteq Specs
      BY DEF TypeOK
<1>5. \A n : InUse(n, used) => n \in RevisionNames
      BY <1>3, <1>4 DEF InUse
<1> DEFINE next == NextAfter(num, Current(cr'))
           num1 == IF Kept THEN num ELSE [num EXCEPT ![Name(cr')] = next]
<1>6. ASSUME NEW p, p = Nil \/ InUse(p, used)
      PROVE  NextAfter(num, p) \in Nat /\ (p # Nil => num[p] <= NextAfter(num, p))
  <2>1. p # Nil => num[p] \in Nat
        BY <1>5, <1>6
  <2> QED BY <2>1 DEF NextAfter
<1>7. ~Kept => /\ cr' # Nil /\ cr' \in InvokerDeployment /\ Name(cr') \in RevisionNames
               /\ Current(cr') = Nil \/ InUse(Current(cr'), used)
  <2>1. CASE Created
        BY <1>3, <2>1 DEF Created, TypeOK
  <2>2. CASE Edited
    <3>1. Current(cr) = Nil \/ InUse(Current(cr), used)
          BY <1>1, <2>2 DEF Edited, Numbered, Placed
    <3> QED BY <1>3, <2>2, <3>1 DEF Edited, TypeOK
  <2> QED BY <2>1, <2>2 DEF Moves
<1>8. num1 \in [RevisionNames -> Nat] /\ (~Kept => num1[Name(cr')] = next)
      BY <1>6, <1>7
<1>9. ASSUME NEW s \in used
       PROVE  s \in used' /\ num1[generateRevisionName(s)] = num[generateRevisionName(s)]
  <2>1. CASE Kept
        BY <2>1 DEF Kept
  <2>2. CASE Created
    <3>1. uid = 0
          BY <2>2 DEF Created, TypeOK, Onward
    <3> QED BY <3>1 DEF NewestInv, Unborn
  <2>3. CASE Edited /\ ~Kept
    <3>1. s \in used' /\ cr'.spec # s /\ cr'.spec \in Specs
          BY <1>3, <1>7, <2>3 DEF Edited, Onward
    <3>2. generateRevisionName(s) # Name(cr')
          BY <1>3, <1>4, <3>1 DEF Name
    <3> QED BY <1>3, <1>4, <1>7, <2>3, <3>1, <3>2
  <2> QED BY <2>1, <2>2, <2>3 DEF Moves
<1> HIDE DEF num1
<1>10. ASSUME NEW p, InUse(p, used)
       PROVE  InUse(p, used') /\ num1[p] = num[p] /\ p # Nil
       BY <1>5, <1>9, <1>10 DEF InUse
<1>11. ASSUME NEW p, p = Nil \/ InUse(p, used)
       PROVE  NextAfter(num1, p) = NextAfter(num, p)
       BY <1>10, <1>11 DEF NextAfter
<1>12. ASSUME NEW c, Placed(num, c, used)
       PROVE  Placed(num1, c, used')
  <2>1. c.spec \in used' /\ num1[Name(c)] = num[Name(c)]
        BY <1>9, <1>12 DEF Placed, Name
  <2>2. Current(c) = Nil \/ InUse(Current(c), used')
        BY <1>10, <1>12 DEF Placed
  <2>3. NextAfter(num1, Current(c)) = NextAfter(num, Current(c))
        BY <1>11, <1>12 DEF Placed
  <2> QED BY <1>12, <2>1, <2>2, <2>3 DEF Placed
<1>13. Listed(num1, revs', used')
  <2> SUFFICES ASSUME NEW n \in RevisionNames, revs'[n] # Nil
               PROVE  InUse(n, used') /\ revs'[n].revision = num1[n]
      BY DEF Listed
  <2>1. CASE revs'[n] = revs[n]
        BY <1>1, <1>10, <2>1 DEF Numbered, Listed
  <2>2. CASE Records(n)
    <3> DEFINE p == Current(observed)
    <3>1. n = Name(observed) /\ revs'[n].revision = RevisionNumber /\ Placed(num, observed, used)
          BY <1>1, <2>2 DEF Records, Numbered
    <3>2. /\ p # Name(observed)
          /\ p # Nil => p \in RevisionNames /\ revCache[p] \in ControllerRevision
          BY <1>2, <2>2, RecordedIsNew DEF NewestInv
    <3>3. num[n] = NextAfter(num, p)
          BY <3>1, <3>2 DEF Placed
    <3>4. p # Nil => revCache[p].revision = num[p]
          BY <1>1, <3>2 DEF Numbered, Listed
    <3>5. RevisionNumber = NextAfter(num, p)
          BY <3>4 DEF RevisionNumber, CurrentName, Current, NextAfter
    <3>6. InUse(n, used)
          BY <3>1 DEF Placed, InUse, Name
    <3> QED BY <1>10, <3>1, <3>3, <3>5, <3>6
  <2> QED BY <2>1, <2>2 DEF Moves, RecordsMove
<1>14. Listed(num1, revCache', used')
  <2>1. CASE revCache' = revCache
        BY <1>1, <1>10, <2>1 DEF Numbered, Listed
  <2> QED BY <1>13, <2>1 DEF Moves
<1>15. ASSUME cr' # Nil
       PROVE  Placed(num1, cr', used') /\ Highest(num1, cr', used')
  <2>1. cr' \in InvokerDeployment /\ Name(cr') \in RevisionNames
        BY <1>3, <1>15 DEF TypeOK
  <2>2. CASE Kept
    <3>1. /\ cr # Nil /\ cr'.spec = cr.spec /\ Name(cr') = Name(cr) /\ used' = used
          /\ Current(cr') = Current(cr) \/ Current(cr') = Name(cr)
          BY <1>15, <2>2 DEF Kept, Name
    <3>2. num1 = num
          BY <2>2 DEF num1
    <3>3. Placed(num, cr, used) /\ Highest(num, cr, used)
          BY <1>1, <3>1 DEF Numbered
    <3>4. InUse(Name(cr), used)
          BY <3>3 DEF Placed, InUse, Name
    <3> QED BY <3>1, <3>2, <3>3, <3>4 DEF Placed, Highest
  <2>3. CASE ~Kept
    <3>1. num1[Name(cr')] = NextAfter(num1, Current(cr'))
          BY <1>7, <1>8, <1>11, <2>3
    <3>2. Current(cr') = Nil \/ InUse(Current(cr'), used')
          BY <1>7, <1>10, <2>3
    <3>3. CASE Created
      <4>1. used' = {cr'.spec}
            BY <3>3 DEF Created
      <4>2. num1[Name(cr')] \in Nat
            BY <1>8, <2>1
      <4> QED BY <3>1, <3>2, <4>1, <4>2 DEF Placed, Highest, Name
    <3>4. CASE Edited
      <4>1. cr # Nil /\ used' = used \cup {cr'.spec} /\ Current(cr') = Current(cr)
            BY <3>4 DEF Edited
      <4>2. cr \in InvokerDeployment /\ Name(cr) \in RevisionNames
            BY <1>3, <4>1 DEF TypeOK
      <4>3. Placed(num, cr, used) /\ Highest(num, cr, used)
            BY <1>1, <4>1 DEF Numbered
      <4>4. next \in Nat /\ num[Name(cr)] <= next
        <5>1. CASE Current(cr) = Name(cr)
              BY <1>6, <4>1, <4>2, <4>3, <5>1 DEF Placed
        <5>2. CASE Current(cr) # Name(cr)
          <6>1. num[Name(cr)] = next /\ num[Name(cr)] \in Nat
                BY <4>1, <4>2, <4>3, <5>2 DEF Placed
          <6> QED BY <6>1
        <5> QED BY <5>1, <5>2
      <4>5. ASSUME NEW s \in used'
            PROVE  num1[generateRevisionName(s)] <= num1[Name(cr')]
        <5>1. num1[Name(cr')] = next
              BY <1>8, <2>3
        <5>2. CASE s \in used
          <6>1. /\ num1[generateRevisionName(s)] = num[generateRevisionName(s)]
                /\ num[generateRevisionName(s)] <= num[Name(cr)]
                BY <1>9, <4>3, <5>2 DEF Highest
          <6>2. num[generateRevisionName(s)] \in Nat /\ num[Name(cr)] \in Nat
                BY <1>3, <1>4, <4>2, <5>2
          <6> HIDE DEF next
          <6> QED BY <4>4, <5>1, <6>1, <6>2
        <5>3. CASE s = cr'.spec
              BY <1>8, <2>1, <5>3 DEF Name
        <5> QED BY <4>1, <5>2, <5>3
      <4> QED BY <3>1, <3>2, <4>1, <4>5 DEF Placed, Highest
    <3> QED BY <2>3, <3>3, <3>4 DEF Moves
  <2> QED BY <2>2, <2>3
<1>16. crCache' # Nil => Placed(num1, crCache', used')
       BY <1>1, <1>12, <1>15 DEF Moves, Numbered
<1>17. ASSUME pc' # "idle"
       PROVE  Placed(num1, observed', used')
  <2>1. CASE pc # "idle" /\ observed' = observed
        BY <1>1, <1>12, <2>1 DEF Numbered
  <2>2. CASE crCache # Nil /\ observed'.spec = crCache.spec /\ Current(observed') = Current(crCache)
    <3>1. Placed(num1, crCache, used')
          BY <1>1, <1>12, <2>2 DEF Numbered
    <3> QED BY <2>2, <3>1 DEF Placed, Name
  <2> QED BY <1>17, <2>1, <2>2 DEF Moves, PassMoves
<1>18. PICK x \in [RevisionNames -> Nat] : x = num1
       BY <1>8
<1>19. Numbered(x)'
       BY <1>13, <1>14, <1>15, <1>16, <1>17, <1>18 DEF Numbered
<1>20. (\E y \in [RevisionNames -> Nat] : Numbered(y))'
       BY <1>19
<1>21. NamedAfterData(revs') /\ NamedAfterData(revCache')
       BY <1>2, NamesStep DEF NewestInv
<1> QED BY <1>20, <1>21, UnbornStep DEF NewestInv

(* Without a resource no number is settled.                                  *)
LEMMA NewestInit == Init => NewestInv
<1> SUFFICES ASSUME Init PROVE NewestInv
    OBVIOUS
<1>1. \A n \in RevisionNames : revs[n] = Nil /\ revCache[n] = Nil
      BY DEF Init
<1>2. Numbered([n \in RevisionNames |-> 0])
      BY <1>1 DEF Init, Numbered, Listed
<1>3. [n \in RevisionNames |-> 0] \in [RevisionNames -> Nat]
      OBVIOUS
<1> QED BY <1>1, <1>2, <1>3 DEF Init, NewestInv, NamedAfterData, Unborn

(* Once the resource reports the revision of its own spec, no recorded       *)
(* revision has a higher number than that one, so the order in which         *)
(* cleanupOldRevisions drops revisions never starts with the one in use,     *)
(* with any number of edits, crashes and failed calls and however stale the  *)
(* caches of createControllerRevision are.                                   *)
THEOREM NewestIsCurrent == ASSUME Onward PROVE Spec => []CurrentIsNewest
<1>1. Spec => []TypeOK
      BY TypeCorrect
<1>2. Spec => []WritesLatest
      BY OwnershipHolds, PTL DEF OwnershipInv
<1>3. TypeOK /\ TypeOK' /\ WritesLatest /\ NewestInv /\ [Next]_vars => NewestInv'
      BY RevisionMoves, NewestStep DEF Onward
<1>4. TypeOK /\ NewestInv => CurrentIsNewest
  <2> SUFFICES ASSUME TypeOK, NewestInv, Settled, revs[cr.status.currentRevision] # Nil,
                      NEW n \in Present(revs)
               PROVE  revs[n].revision <= revs[cr.status.currentRevision].revision
      BY DEF CurrentIsNewest
  <2>1. PICK num \in [RevisionNames -> Nat] : Numbered(num)
        BY DEF NewestInv
  <2>2. /\ cr # Nil /\ cr \in InvokerDeployment
        /\ cr.status.currentRevision = Name(cr) /\ Name(cr) \in RevisionNames
        BY RoundTripStored DEF Settled, Name, TypeOK, InvokerDeployment
  <2>3. n \in RevisionNames /\ revs[n] # Nil
        BY DEF TypeOK, Table, Present
  <2>4. InUse(n, used) /\ revs[n].revision = num[n] /\ revs[Name(cr)].revision = num[Name(cr)]
        BY <2>1, <2>2, <2>3 DEF Numbered, Listed
  <2>5. num[n] <= num[Name(cr)]
        BY <2>1, <2>2, <2>4 DEF Numbered, Highest, InUse
  <2> QED BY <2>2, <2>4, <2>5
<1> QED BY <1>1, <1>2, <1>3, <1>4, NewestInit, PTL DEF Spec

=============================================================================
