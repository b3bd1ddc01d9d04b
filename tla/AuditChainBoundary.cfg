SPECIFICATION AuditSpec
CONSTANTS
  w1 = w1
  w2 = w2
  agg1 = agg1
  agg2 = agg2
  k1 = k1
  k2 = k2
  Writer <- MCWriter
  Aggregate <- MCAggregate
  Plan <- MCPlan
  Checkpointer <- MCCheckpointer
  MaxSeq = 3
INVARIANT EveryCheckpointVerifies
CHECK_DEADLOCK FALSE
