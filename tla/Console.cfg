SPECIFICATION FairSpec
CONSTANTS
  MaxRequests = 2
  DefaultModal = FALSE
  Handlers = {"onRequest", "onEnterPin", "onSetPin", "onDeviceAttached", "onPinInvalid"}
  Transport = "ble"
  Overlap = FALSE
  MayRelease = TRUE
  Authenticators <- AllAuthenticators
  MaxPinCalls = 1
  MaxPrompts = 1
  MaxTries = 2
INVARIANTS VerifiedWhenRequired ReleasedAfterSettle NoSubscriptionAfterSettle PinPromptHeard
PROPERTIES BlockedStopsGuessing CeremonySpec EventuallySettled
CHECK_DEADLOCK FALSE
