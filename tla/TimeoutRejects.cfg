SPECIFICATION FairSpec
CONSTANTS
  MaxRequests = 1
  DefaultModal = FALSE
  Handlers = {"onRequest", "onEnterPin", "onSetPin", "onDeviceAttached", "onPinInvalid"}
  Transport = "usb"
  Overlap = FALSE
  MayRelease = FALSE
  Authenticators <- PinReady
  MaxPinCalls = 1
  MaxPrompts = 1
  MaxTries = 2
PROPERTY TimeoutRejects
CHECK_DEADLOCK FALSE
