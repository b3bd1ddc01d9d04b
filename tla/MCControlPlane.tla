---------------------------- MODULE MCControlPlane --------------------------
(* Two investors, one of whom may hold a single unit; a NAV that a second   *)
(* statement overtakes and that ends before the first; four transactions.  *)
EXTENDS ControlPlane, TLC

CONSTANTS issuer, a, b, t1, t2, t3, t4, k1, k2, k3, ann, bob

MCInvestor == {a, b}
MCId == {t1, t2, t3, t4}
MCKey == {k1, k2, k3}
MCPerson == {ann, bob}
MCNav == {[price |-> 1, from |-> 0, until |-> 3], [price |-> 2, from |-> 1, until |-> 2]}
MCInitialCash == (issuer :> 0) @@ (a :> 1) @@ (b :> 2)
MCMaxUnits == (a :> 2) @@ (b :> 1)
MCValidUntil == (a :> 3) @@ (b :> 2)

Alike == Permutations(MCId) \union Permutations(MCKey) \union Permutations(MCPerson)
=============================================================================
