CONSTANTS
    d1 = d1
    d2 = d2
    Devices <- MCDevices
    Kinds <- Cards
    MaxEnumerations = 2
    MaxHandlers = 2
    HandlersEnd = TRUE
SPECIFICATION FairSpec
PROPERTIES CardsFound
