SPECIFICATION FairSpec
CONSTANTS
  p1 = p1
  p2 = p2
  Producers <- TwoProducers
  Limit = 1
  MaxCounter = 2
  MaxLines = 2
  MaxFaults = 1
INVARIANT CounterExact
INVARIANT AckFlushed
PROPERTY ImplementsLineLog
PROPERTY Progress
