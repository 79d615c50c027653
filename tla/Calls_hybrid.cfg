SPECIFICATION SafeSpec
CONSTANTS
  Workers = {w1}
  Calls <- TwoKeys
  Requests <- CallRequests
  Devices <- MCDevices
  NumberOf <- MCNumberOf
  NoId = 0
  GatewayPin = "123456"
  SenderPin = "123456"
  NoPin = ""
  NoSequence = NoSequence
  NoRequest = NoRequest
  MaxSteps = 4
INVARIANT InternalKeyBound
