----------------------- MODULE MCGovernedParameters -----------------------
(* A maker and a checker, two clients, and a challenge that two ID tokens   *)
(* answer; two builds of one circuit version and one of another, and two    *)
(* products that compete for the same context.                              *)
EXTENDS GovernedParameters, TLC

CONSTANTS maker, checker, c1, c2, t1, t2, t3, b1, b2, p1, p2, x1

MCMember == {maker, checker}
MCChallenge == {c1, c2}
MCToken == {t1, t2, t3}
MCSubjectOf == (t1 :> maker) @@ (t2 :> checker) @@ (t3 :> maker)
MCNonceOf == (t1 :> c1) @@ (t2 :> c2) @@ (t3 :> c1)
MCPermission == {"propose", "approve"}
MCArtifact == {[version |-> 1, hash |-> 1], [version |-> 2, hash |-> 1], [version |-> 2, hash |-> 2]}
MCInherited == {[version |-> 1, hash |-> 1]}
MCClient == {b1, b2}
MCProduct == {p1, p2}
MCContext == {x1}

Alike == Permutations(MCClient) \cup Permutations(MCProduct)
=============================================================================
