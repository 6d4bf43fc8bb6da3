CONSTANTS
    sys = sys
    p1 = p1
    p2 = p2
    t1 = t1
    t2 = t2
    drv = drv
    Null = Null
    Dead = Dead
    Threads = {t1, t2, drv}
    Openers = {t1, t2}
    Driver = drv
    PidOf <- MCPidOf
    SystemPid = sys
    FileHandles = {f1, f2}
    Objs = {o1, o2, o3}
    Conns = {k1, k2}
    NumSlots = 2
    MaxOpens = 2
    MaxLoads = 1
    Faults = {}
SPECIFICATION Spec
CHECK_DEADLOCK FALSE
INVARIANT PolicyEnforced
