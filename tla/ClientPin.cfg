CONSTANTS
    Requests = {r1, r2}
    PinSlots = {"pin1", "pin2"}
    MaxRetries = 2
    None = None
SPECIFICATION Spec
SYMMETRY AlikeRequests
INVARIANTS TypeOK TokenGenuine CommandAccepted OutputGenuine
CHECK_DEADLOCK FALSE
