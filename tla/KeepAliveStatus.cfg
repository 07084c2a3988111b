SPECIFICATION Spec
CONSTANTS
  Kinds = {"usb"}
  MaxCalls = 1
  MaxClis = 1
  MaxQueue = 1
INVARIANT DocumentedStatuses
CHECK_DEADLOCK FALSE
