CONSTANTS
    MaxDevices = 2
    MaxCallbacks = 2
SPECIFICATION FairSpec
INVARIANT TypeOK
INVARIANT GoneIsClean
INVARIANT TeardownInOrder
PROPERTY LoadAndExitEnd
