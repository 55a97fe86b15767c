------------------------- MODULE MCSharedNamespace --------------------------
(***************************************************************************)
(* Small instances of SharedNamespace for TLC, with the specs of           *)
(* MCOperator.                                                             *)
(***************************************************************************)
EXTENDS MCOperator, SharedNamespace

(* An entity each, without pods. *)
SpecA == [SpecSmall EXCEPT !.pods = <<>>]
SpecB == [SpecA EXCEPT !.statefulEntities = <<Entity(B)>>]

SpecsA == {SpecA}
SpecsB == {SpecB}
NeighbourSpecs == {SpecA, SpecB}
NeighbourHash  == HashOf(<<SpecA, SpecB>>)

=============================================================================
