SPECIFICATION OutboxLiveSpec
CONSTANTS
  w1 = w1
  w2 = w2
  agg1 = agg1
  o1 = o1
  o2 = o2
  None = None
  NEvents = 2
  OutboxAggregate <- MCAggregate
  AggregateOf <- MCAggregateOf
  Worker <- MCWorker
  Operator <- MCOperator
  MaxAttempts = 2
INVARIANTS FirstDeliveriesInOrder PublishedWasDelivered NeverOvertaken PendingReplayIsDead
PROPERTIES EveryEventIsPublished
CHECK_DEADLOCK FALSE
