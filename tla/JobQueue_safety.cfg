SPECIFICATION SafeSpec
CONSTANTS
  Producers = {p1, p2}
  Consumers = {c1, c2}
  Jobs = {j1, j2, j3, j4}
  Depth = 2
  NoJob = NoJob
  EndOfQueue = EndOfQueue
INVARIANTS
  TypeOK
  NoSleepingConsumer
  NoSleepingProducer
  StopWakesAll
  EndedMeansDrained
  OneOwner
PROPERTY ImplementsFifo
