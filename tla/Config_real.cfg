SPECIFICATION SafeSpec
CONSTANTS
  DeviceFiles <- RealFiles
  SettingsFiles <- RealSettings
  NoFile = NoFile
  NoPin = ""
  MaxDevices = 32
  MaxCaps = 48
  ColumnSize = 512
INVARIANT DeclaredIsSupported
CHECK_DEADLOCK FALSE
