SPECIFICATION Spec
CONSTANTS
  Workers = {w1, w2}
  Requests <- AllRequests
  Devices <- MCDevices
  NoId = 0
  GatewayPin = "123456"
  NoPin = ""
  NoSequence = NoSequence
  NoRequest = NoRequest
  MaxSteps = 4
INVARIANTS
  TypeOK
  InternalKeyStaysHome
  ReplyMatchesWork
  PinGuardsDevices
PROPERTY EveryRequestAnswered
