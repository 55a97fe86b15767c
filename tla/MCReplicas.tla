----------------------------- MODULE MCReplicas -----------------------------
(***************************************************************************)
(* A small instance of Replicas for TLC.                                   *)
(***************************************************************************)
EXTENDS MCOperator, Replicas

(* One entity without pods. *)
BareSpecs == {[SpecSmall EXCEPT !.pods = <<>>]}
BareHash  == [s \in BareSpecs |-> r1]

=============================================================================
