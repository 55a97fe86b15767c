----------------------------- MODULE MCOperator -----------------------------
(***************************************************************************)
(* Small instances of InvokerOperator for TLC.  Each spec below is one     *)
(* YAML a user may apply; the cfg files choose among them.                 *)
(***************************************************************************)
EXTENDS OperatorProperties

CONSTANTS A, B,       \* stateful entities
          p1, p2,     \* pods
          img,        \* container image
          io,         \* IO configuration
          ptA, ptB,   \* partition lists
          small, big, \* quantities
          odd,        \* big, written in another way
          r1, r2, r3  \* revision names

Unset == [requests |-> Nil, limits |-> Nil]
Limited(q) == [requests |-> Nil, limits |-> [k \in {"cpu"} |-> q]]

Entity(n) == [name |-> n, image |-> img, io |-> io]
Config(n, i, res) == [name |-> n, of |-> i, partitions |-> ptA, resources |-> res]

CanonicalQuantities == [q \in Quantities |-> IF q = odd THEN big ELSE q]

HashOf(seq) == [s \in {seq[i] : i \in DOMAIN seq} |->
                  <<r1, r2, r3>>[CHOOSE i \in DOMAIN seq : seq[i] = s]]

-----------------------------------------------------------------------------
(* Two entities with one pod each: resized and shrunk to one, repartitioned. *)

SpecTwo == [statefulEntities |-> <<Entity(A), Entity(B)>>,
            pods |-> <<Config(p1, 1, Limited(small)), Config(p2, 2, Unset)>>,
            historyLimit |-> 1]

SpecShrunk == [statefulEntities |-> <<Entity(A)>>,
               pods |-> <<Config(p1, 1, Limited(big))>>,
               historyLimit |-> 1]

SpecRepartitioned == [SpecTwo EXCEPT !.pods[1].partitions = ptB]

RolloutSpecs == {SpecTwo, SpecRepartitioned, SpecShrunk}
RolloutHash  == HashOf(<<SpecTwo, SpecRepartitioned, SpecShrunk>>)

-----------------------------------------------------------------------------
(* One entity with one pod, in three versions: resized, then repartitioned   *)
(* and back at its first size.                                               *)

SpecSmall  == [SpecShrunk EXCEPT !.pods[1].resources = Limited(small)]
SpecBig    == SpecShrunk
SpecSmall2 == [SpecSmall EXCEPT !.pods[1].partitions = ptB]

OneSpecs == {SpecSmall, SpecBig, SpecSmall2}
OneHash  == HashOf(<<SpecSmall, SpecBig, SpecSmall2>>)

PairSpecs == {SpecSmall, SpecBig}
PairHash  == HashOf(<<SpecSmall, SpecBig>>)

SoleSpecs == {SpecSmall}
SoleHash  == HashOf(<<SpecSmall>>)

(* The larger version, with its quantity written in another way and without  *)
(* historyLimit.                                                             *)
SpecUnlimited == [SpecBig EXCEPT !.historyLimit = Nil, !.pods[1].resources = Limited(odd)]

PanicSpecs == {SpecSmall, SpecUnlimited}
PanicHash  == HashOf(<<SpecSmall, SpecUnlimited, RoundTrip(SpecUnlimited)>>)

-----------------------------------------------------------------------------
(* p1 under entity A, and the same pod under entity B. *)
SpecMoved == [SpecSmall EXCEPT !.statefulEntities = <<Entity(B)>>]

MoveSpecs == {SpecSmall, SpecMoved}
MoveHash  == HashOf(<<SpecSmall, SpecMoved>>)

(* Limits on two resources, a request on one of them; then repartitioned. *)
SpecPartial == [SpecSmall EXCEPT
    !.pods[1].resources = [requests |-> [k \in {"cpu"} |-> small],
                           limits   |-> [k \in {"cpu", "memory"} |-> big]]]
SpecPartial2 == [SpecPartial EXCEPT !.pods[1].partitions = ptB]

PartialSpecs == {SpecPartial, SpecPartial2}
PartialHash  == HashOf(<<SpecPartial, SpecPartial2>>)

=============================================================================
