SPECIFICATION Spec
CONSTANTS
  MaxRequests = 1
  DefaultModal = TRUE
  Handlers = {}
  Transport = "usb"
  Overlap = FALSE
  MayRelease = FALSE
  Authenticators <- PinReady
  MaxPinCalls = 1
  MaxPrompts = 1
  MaxTries = 2
PROPERTY CancelNotLost
CHECK_DEADLOCK FALSE
