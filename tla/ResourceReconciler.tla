------------------------- MODULE ResourceReconciler -------------------------
(***************************************************************************)
(* invokerdeployment_reconciler.go: the calls one pass makes on ConfigMaps *)
(* and Pods.  All decisions are taken from the objects observed at the     *)
(* start of the pass, so the calls are known then; they reach the API      *)
(* server one by one, and the first that fails ends the pass.              *)
(*                                                                         *)
(* A call is [rank, op, name].  The i-th desired object has rank i; the    *)
(* deletions of objects no longer desired all have the last rank, because  *)
(* they iterate over a Go map, whose order is random.                      *)
(***************************************************************************)
EXTENDS StatusUpdater

Calls(Names) == [rank : Nat, op : {"create", "update", "delete"}, name : Names]

(* Deletion of what was observed and is no longer desired. *)
LeftoverCalls(desired, observed) ==
    {[rank |-> Len(desired) + 1, op |-> "delete", name |-> n] :
        n \in Present(observed) \ DesiredNames(desired)}

(* Mutant: an existing ConfigMap is never updated. *)
ConfigMapOp_createOnly(cr, observed, d) ==
    IF observed[d.name] = Nil THEN "create" ELSE "none"

(* reconcileConfigMap *)
ConfigMapOp(cr, observed, d) ==
    IF observed[d.name] = Nil THEN "create"
    ELSE IF isClusterStateUpdating(cr) THEN "update" ELSE "none"

ConfigMapCalls(cr, observed) ==
    LET desired == getDesiredConfigMaps(cr.spec)
        op(i)   == ConfigMapOp(cr, observed, desired[i])
    IN  {[rank |-> i, op |-> op(i), name |-> desired[i].name] :
            i \in {j \in DOMAIN desired : op(j) # "none"}}
        \cup LeftoverCalls(desired, observed)

-----------------------------------------------------------------------------
(* needToRestartPod compares resources only, after standing in the limits    *)
(* for requests that are nil.                                                *)
RequestsOrLimits(r) == IF r.requests = Nil THEN [r EXCEPT !.requests = r.limits] ELSE r

(* Mutants: requests are compared as they are; resources are not compared.   *)
needToRestartPod_raw(desired, observed) == desired.resources # observed.resources

needToRestartPod_never(desired, observed) == FALSE

needToRestartPod(desired, observed) ==
    RequestsOrLimits(desired.resources) # RequestsOrLimits(observed.resources)

(* A desired pod is looked up by its entity's label first, then by name.     *)
ObservedPod(observed, d) ==
    IF observed[d.name] # Nil /\ observed[d.name].entity = d.entity
    THEN observed[d.name] ELSE Nil

(* reconcilePod *)
PodOp(cr, observed, d) ==
    LET o == ObservedPod(observed, d)
    IN  IF o = Nil THEN "create"
        ELSE IF isClusterStateUpdating(cr) /\ needToRestartPod(d, o)
             THEN "delete" ELSE "none"

PodCalls(cr, observed) ==
    LET desired == getDesiredStatefulEntities(cr.spec)
        op(i)   == PodOp(cr, observed, desired[i])
    IN  {[rank |-> i, op |-> op(i), name |-> desired[i].name] :
            i \in {j \in DOMAIN desired : op(j) # "none"}}
        \cup LeftoverCalls(desired, observed)

(* The calls that may be issued next. *)
NextCalls(calls) == {c \in calls : \A d \in calls : c.rank <= d.rank}

-----------------------------------------------------------------------------
(* The ControllerRevisions a pass finds, with their numbers. *)
observeRevisions(revisions) ==
    {[name |-> n, revision |-> revisions[n].revision] :
        n \in {m \in Present(revisions) : revisions[m].label = RevisionSelector}}

(* cleanupOldRevisions: the names of the lowest numbered of the observed     *)
(* revisions that exceed the limit.                                          *)
ExcessRevisions(observed, limit) ==
    LET excess == IF Cardinality(observed) <= limit THEN 0 ELSE Cardinality(observed) - limit
        oldest == CHOOSE old \in SUBSET observed :
                     /\ Cardinality(old) = excess
                     /\ \A r \in old, s \in observed \ old : r.revision <= s.revision
    IN  {r.name : r \in oldest}

=============================================================================
