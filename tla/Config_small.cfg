SPECIFICATION SafeSpec
CONSTANTS
  DeviceFiles <- SmallFiles
  SettingsFiles <- SmallSettings
  NoFile = NoFile
  NoPin = ""
  MaxDevices = 2
  MaxCaps = 3
  ColumnSize = 56
INVARIANTS
  TypeOK
  RegisteredAsDeclared
  OnlyTheLastIsCut
  ServesWithPin
CHECK_DEADLOCK FALSE
