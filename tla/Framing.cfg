SPECIFICATION FairSpec
CONSTANTS
  Kinds = {"usb", "ble", "nfc"}
  First <- SmallFirst
  Rest <- SmallRest
  Modulus = 4
  Sizes <- SmallSizes
  MaxForeign = 2
INVARIANTS
  TypeOK
  Intact
  ShortMessagesArrive
PROPERTY
  RecvEnds
CHECK_DEADLOCK FALSE
