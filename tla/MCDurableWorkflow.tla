------------------------ MODULE MCDurableWorkflow ------------------------
(* Investor a subscribes to two units and sells them to b in two transfers, *)
(* whose register confirmations may time out. b has cash for one transfer   *)
(* and may hold one unit; a redemption makes room for the second. Both      *)
(* cases may be retried under the same new id, or under the other's.        *)
EXTENDS DurableWorkflow, TLC

CONSTANTS a, b, s1, t1, t2, r1, x1, k1, k2, k3, k4, alice, bob

MCInvestor == {a, b}
MCTx == {s1, t1, t2, r1, x1}
MCReplacementId == {x1, t2}
MCUserKey == {k1, k2, k3, k4}
MCActor == {alice, bob}

Order(id, key, type, from, to, units_, fee, expires) ==
  [id |-> id, key |-> key, type |-> type, from |-> from, to |-> to,
   units |-> units_, price |-> 10, fee |-> fee, expires |-> expires]

MCRequest == {
  Order(s1, k1, "SUBSCRIBE", Treasury, a, 2, 0, 0),
  Order(t1, k2, "TRANSFER", a, b, 1, 1, 1),
  Order(t2, k3, "TRANSFER", a, b, 1, 1, 2),
  Order(r1, k4, "REDEEM", b, Treasury, 1, 0, 0)}

MCOpening == (a :> 20) @@ (b :> 11) @@ (Issuer :> 0) @@ (Fee :> 0)
MCMaxUnits == (a :> 2) @@ (b :> 1)
MCValidUntil == (a :> 2) @@ (b :> 1)

Alike == Permutations(MCActor)
=============================================================================
