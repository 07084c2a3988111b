SPECIFICATION Spec
CONSTANTS
  MaxRequests = 2
  DefaultModal = TRUE
  Handlers = {}
  Transport = "usb"
  Overlap = FALSE
  MayRelease = FALSE
  Authenticators <- PinCapable
  MaxPinCalls = 1
  MaxPrompts = 1
  MaxTries = 1
INVARIANTS TypeOK ReleasedAfterSettle PendingHearsErrors VerifiedWhenRequired
PROPERTIES CeremonySpec
CHECK_DEADLOCK FALSE
