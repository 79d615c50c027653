SPECIFICATION PromptSpec
CONSTANTS
  Conns = {c1, c2, c3}
  Workers = {w1, w2}
  Main = Main
  Depth = 1
  Backlog = 2
  Signals = {"SIGTERM"}
  NoConn = NoConn
  EndOfQueue = EndOfQueue
INVARIANTS
  TypeOK
  OneOwner
  PushNeverRefused
  ExitDrains
PROPERTIES
  ClosedOnce
  RequestAnswered
  BacklogServed
  StopEnds
