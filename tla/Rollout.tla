------------------------------ MODULE Rollout -------------------------------
(***************************************************************************)
(* What a user of the custom resource may rely on, without caches, queues, *)
(* passes or children: the life of a resource and of the revision the      *)
(* operator reports as deployed.  A revision is reported only while the    *)
(* operator has adopted the resource and nobody has asked for its          *)
(* deletion, and it is then the revision of the spec that is in force at   *)
(* that instant, however long ago the operator looked.  A resource the     *)
(* operator has adopted goes only after its deletion was requested.        *)
(***************************************************************************)
CONSTANTS None, Specs, NameOf(_)

VARIABLES phase, spec, current

vars == <<phase, spec, current>>

Init == phase = "absent" /\ spec = None /\ current = None

Create == /\ phase = "absent"
          /\ phase' = "fresh"
          /\ spec' \in Specs
          /\ current' = None

Edit == /\ phase # "absent"
        /\ spec' \in Specs
        /\ UNCHANGED <<phase, current>>

Adopt == /\ phase = "fresh"
         /\ phase' = "managed"
         /\ UNCHANGED <<spec, current>>

Report == /\ phase = "managed"
          /\ current' = NameOf(spec)
          /\ UNCHANGED <<phase, spec>>

RequestDeletion == /\ phase \in {"fresh", "managed"}
                   /\ phase' = "deleting"
                   /\ UNCHANGED <<spec, current>>

Vanish == /\ phase \in {"fresh", "deleting"}
          /\ phase' = "absent"
          /\ spec' = None
          /\ current' = None

Next == Create \/ Edit \/ Adopt \/ Report \/ RequestDeletion \/ Vanish

Spec == Init /\ [][Next]_vars

=============================================================================
