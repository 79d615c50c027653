SPECIFICATION SafeSpec
CONSTANTS
  Workers = {w1, w2, w3}
  Requests <- Competing
  Devices <- TwinDevices
  NoId = 0
  GatewayPin = "123456"
  NoPin = ""
  NoSequence = NoSequence
  NoRequest = NoRequest
  MaxSteps = 4
INVARIANTS
  InflightExact
  NeverOverbooked
  NamesakesNeverOverbooked
PROPERTY RefusedOnlyWhenBusy
