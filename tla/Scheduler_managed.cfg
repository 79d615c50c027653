SPECIFICATION SafeSpec
CONSTANTS
  Workers = {w1, w2}
  Requests <- ManagedRequests
  Devices <- MCDevices
  NoId = 0
  GatewayPin = "123456"
  NoPin = ""
  NoSequence = NoSequence
  NoRequest = NoRequest
  MaxSteps = 4
INVARIANT ManagedKeyOneDevice
