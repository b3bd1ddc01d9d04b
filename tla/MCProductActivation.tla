------------------------ MODULE MCProductActivation ------------------------
(* Two institutions, the first with a second key, and a product with two    *)
(* roles that either may hold, a mandatory requirement for each role.       *)
EXTENDS ProductActivation, TLC

CONSTANTS i1, i2, k1, k2, k3, issuer, custodian, opinion, mandate, alice, bob

MCInstitution == {i1, i2}
MCKey == {k1, k2, k3}
MCPrimary == (i1 :> k1) @@ (i2 :> k2)
MCOwnerOf == (k1 :> i1) @@ (k2 :> i2) @@ (k3 :> i1)
MCRole == {issuer, custodian}
MCRequirement == {opinion, mandate}
MCResponsibleRole == (opinion :> issuer) @@ (mandate :> custodian)
MCMandatory == MCRequirement
MCActor == {alice, bob}

Alike == Permutations(MCActor)
=============================================================================
