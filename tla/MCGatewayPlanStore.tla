------------------------ MODULE MCGatewayPlanStore ------------------------
EXTENDS GatewayPlanStore, TLC

CONSTANTS i1, i2

(* The objects of SameId share one planId; the others get the second one. *)
CONSTANT SameId
MCIdOf == [p \in Plans |-> IF p \in SameId THEN i1 ELSE i2]

Symmetry == Permutations(Clients) \cup Permutations(Confs)
=============================================================================
