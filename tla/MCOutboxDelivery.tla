------------------------- MODULE MCOutboxDelivery -------------------------
(* Two workers, and two events of one aggregate.                            *)
EXTENDS OutboxDelivery

CONSTANTS w1, w2, agg1, o1, o2

MCWorker == {w1, w2}
MCAggregate == {agg1}
MCAggregateOf == [e \in OutboxEvent |-> agg1]
MCOperator == {o1, o2}
=============================================================================
