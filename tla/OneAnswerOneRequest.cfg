SPECIFICATION Spec
CONSTANTS
  MaxRequests = 2
  DefaultModal = FALSE
  Handlers = {"onRequest", "onEnterPin", "onSetPin", "onDeviceAttached", "onPinInvalid"}
  Transport = "usb"
  Overlap = TRUE
  MayRelease = FALSE
  Authenticators <- PinReady
  MaxPinCalls = 1
  MaxPrompts = 1
  MaxTries = 2
PROPERTY OneAnswerOneRequest
CHECK_DEADLOCK FALSE
