--------------------------- MODULE MCAuditChain ---------------------------
(* Two writers and two checkpointers. A transaction records an event of    *)
(* either aggregate, or one of each.                                       *)
EXTENDS AuditChain

CONSTANTS w1, w2, agg1, agg2, k1, k2

MCWriter == {w1, w2}
MCAggregate == {agg1, agg2}
MCCheckpointer == {k1, k2}

\* Two writers may meet in one lock, or pass each other in two, while a checkpoint
\* waits.
MCPlan == {<<agg1>>, <<agg2>>, <<agg2, agg1>>}
=============================================================================
