SPECIFICATION Spec
CONSTANTS
  MaxRequests = 2
  DefaultModal = TRUE
  Handlers = {}
  Transport = "ble"
  Overlap = FALSE
  MayRelease = FALSE
  Authenticators <- PinReady
  MaxPinCalls = 1
  MaxPrompts = 1
  MaxTries = 2
INVARIANT SettledLeavesDevice
CHECK_DEADLOCK FALSE
