SPECIFICATION Spec
CONSTANTS
  Device <- MCDevice
  Ops <- MCOps
  Libraries <- MCLibraries
INVARIANTS
  NoMisuse
  LeaksOnlyUnclosable
  PinBeforeKey
PROPERTIES
  ImplementsDriver
  CallReturns
