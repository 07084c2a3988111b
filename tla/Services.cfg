CONSTANTS
    d1 = d1
    d2 = d2
    Devices <- MCDevices
    Kinds <- Pairs
    MaxEnumerations = 2
    MaxHandlers = 2
    HandlersEnd = TRUE
SPECIFICATION FairSpec
INVARIANTS TypeOK ToldIsKnown AttachOnce UsbServed BleServed
PROPERTIES SelectionOpens Reported
