----------------------------- MODULE Converter ------------------------------
(***************************************************************************)
(* invokerdeployment_converter.go and common.go: the children a spec asks  *)
(* for.  Both lists keep the order of the spec, which is the order the     *)
(* reconciler issues its calls in.                                         *)
(***************************************************************************)
EXTENDS InvokerAPI

(* The hash is taken over the spec as JSON. *)
generateRevisionName(spec) == Hash[RoundTrip(spec)]

(* One ConfigMap per stateful entity, named after it (getConfigMapName).    *)
getDesiredConfigMaps(spec) ==
    [i \in DOMAIN spec.statefulEntities |->
        [name |-> spec.statefulEntities[i].name,
         data |-> [main       |-> spec.statefulEntities[i].io,
                   partitions |-> {<<spec.pods[j].name, spec.pods[j].partitions>> :
                                    j \in {k \in DOMAIN spec.pods : spec.pods[k].of = i}}]]]

(* One pod per pod configuration, labelled with its entity's name.          *)
getDesiredStatefulEntities(spec) ==
    [i \in DOMAIN spec.pods |->
        [name      |-> spec.pods[i].name,
         entity    |-> spec.statefulEntities[spec.pods[i].of].name,
         image     |-> spec.statefulEntities[spec.pods[i].of].image,
         resources |-> spec.pods[i].resources]]

(* The names a list of desired objects mentions (the reconciler's           *)
(* configMapDesired and podDesired maps).                                   *)
DesiredNames(list) == {list[i].name : i \in DOMAIN list}

=============================================================================
