--------------------------- MODULE StatusUpdater ----------------------------
(***************************************************************************)
(* invokerdeployment_updater.go: how a pass derives the status it would    *)
(* like to record from what it observed, and whether that is a change.     *)
(* The Secret component is left out: the operator never creates the secret *)
(* and isStatusChanged does not compare it.                                *)
(***************************************************************************)
EXTENDS Converter

getPodState(pod) == IF pod.phase = "Running" THEN ComponentStateReady
                                             ELSE ComponentStateNotReady

(* observed.statefulEntities: the entity labels of the observed pods, and    *)
(* the pods under each.                                                      *)
ObservedEntities(observedPods) == {observedPods[p].entity : p \in Present(observedPods)}

PodsOf(observedPods, e) == {p \in Present(observedPods) : observedPods[p].entity = e}

RunningEntities(observedPods) ==
    {e \in ObservedEntities(observedPods) :
        \A p \in PodsOf(observedPods, e) : getPodState(observedPods[p]) = ComponentStateReady}

isClusterStateUpdating(cr) == cr.status.currentRevision # cr.status.nextRevision

(* Mutant: an update that has lost a component is recorded as "Stopping", a   *)
(* state no later pass has a case for.                                        *)
DerivedState_stops(cr, running, total) ==
    CASE cr.status.state \in {"", StateCreating} ->
            IF running < total THEN StateCreating ELSE StateRunning
      [] isClusterStateUpdating(cr) -> IF running < total THEN "Stopping" ELSE StateUpdating
      [] OTHER -> IF running < total THEN StateReconciling ELSE StateRunning

(* The next value of Status.State.  Stopping and Stopped are never recorded. *)
DerivedState(cr, running, total) ==
    CASE cr.status.state \in {"", StateCreating} ->
            IF running < total THEN StateCreating ELSE StateRunning
      [] isClusterStateUpdating(cr) -> StateUpdating
      [] OTHER -> IF running < total THEN StateReconciling ELSE StateRunning

deriveInvokerDeploymentStatus(cr, observedPods, observedConfigMaps) ==
    LET running == Cardinality(RunningEntities(observedPods))
    IN  [cr.status EXCEPT
           !.conditions = TRUE,
           !.configMap =
              IF Present(observedConfigMaps) # {} THEN ComponentStateReady
              ELSE IF @ # "" THEN ComponentStateDeleted ELSE "",
           !.statefulEntities =
              IF running < Cardinality(ObservedEntities(observedPods))
              THEN ComponentStateNotReady ELSE ComponentStateReady,
           !.state = DerivedState(cr, running, Len(cr.spec.statefulEntities))]

(* NextRevision is not compared. *)
isStatusChanged(currentStatus, newStatus) ==
    \/ newStatus.state # currentStatus.state
    \/ newStatus.conditions # currentStatus.conditions
    \/ newStatus.configMap # currentStatus.configMap
    \/ newStatus.statefulEntities # currentStatus.statefulEntities

(* Deriving the status bumps the upgrade counter, on every pass that finds   *)
(* the recorded revision behind, whether or not the status is then written.  *)
CountsUpgrade(cr) ==
    /\ cr.status.state \in {StateRunning, StateReconciling, StateUpdating}
    /\ isClusterStateUpdating(cr)

=============================================================================
