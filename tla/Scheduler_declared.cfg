SPECIFICATION SafeSpec
CONSTANTS
  Workers = {w1}
  Requests <- AllRequests
  Devices <- MCDevices
  NoId = 0
  GatewayPin = "123456"
  NoPin = ""
  NoSequence = NoSequence
  NoRequest = NoRequest
  MaxSteps = 4
INVARIANT DeclaredCapabilityRuns
