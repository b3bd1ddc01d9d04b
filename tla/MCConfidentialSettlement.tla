--------------------- MODULE MCConfidentialSettlement ---------------------
(* Small instances of ConfidentialSettlement for TLC.                       *)
EXTENDS ConfidentialSettlement, TLC

CONSTANTS g1, g2, g3, g4, a1, a2, b1, b2, c1, c2, d1

Split(i, j, x, y) == [in0 |-> i, in1 |-> j, out0 |-> x, out1 |-> y]

MCGenesis == <<g1, g2, g3, g4>>

\* The first two conflict on g2; the first and the third are independent, so that
\* one makes the other's proposal stale; the fourth spends the outputs of the
\* first and creates a commitment the third creates too.
MCJoinSplit == {Split(g1, g2, a1, a2), Split(g2, g3, b1, b2),
                Split(g3, g4, c1, c2), Split(a1, a2, c1, d1)}

\* Two transfers that do not conflict.
LiveJoinSplit == {Split(g1, g2, a1, a2), Split(g3, g4, c1, c2)}

MCGateOf == [c \in Call |-> CHOOSE g \in Gate : TRUE]

MCSymmetry == Permutations(Operator) \cup Permutations(Call) \cup Permutations(Tx)
\* Three transfers while nobody withdraws an approval: enough transfers for a chain
\* of spends, a conflict and a stale proposal in one behaviour.
ChainNext ==
  \/ \E k \in Key, p \in Party : RegisterOwnerKey(k, p)
  \/ Clock
  \/ Broker
  \/ Accept
  \/ Operations

ChainSpec == Init /\ [][ChainNext]_vars
=============================================================================
