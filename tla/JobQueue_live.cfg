SPECIFICATION Spec
CONSTANTS
  Producers = {main}
  Consumers = {c1, c2}
  Jobs = {j1, j2, j3}
  Depth = 2
  NoJob = NoJob
  EndOfQueue = EndOfQueue
PROPERTIES
  QueuedIsServed
  StopEndsConsumers
  PushReturns
  ImplementsFifoLive
