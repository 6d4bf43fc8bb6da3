CONSTANTS
    Devices = {d1, d2}
    Faults = {"information", "send", "attach"}
SPECIFICATION FairSpec
INVARIANT TypeOK
INVARIANT HandOverSound
INVARIANT FilteredStartDenied
PROPERTY EveryStartCompletes
