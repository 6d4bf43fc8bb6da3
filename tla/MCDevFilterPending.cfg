CONSTANTS
    Devices = {d1}
    Faults = {}
SPECIFICATION Spec
INVARIANT ListedDeviceBlocked
