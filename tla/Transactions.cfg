SPECIFICATION FairSpec
CONSTANTS
  Kinds = {"usb", "ble", "nfc"}
  MaxCalls = 2
  MaxClis = 2
  MaxQueue = 1
INVARIANTS
  TypeOK
  AnswerBelongs
  WaitingCancellable
PROPERTY
  CallsEnd
CHECK_DEADLOCK FALSE
