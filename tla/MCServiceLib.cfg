CONSTANTS
    c1 = c1
    c2 = c2
    a1 = a1
    a2 = a2
    p1 = p1
    sys = sys
    Null = Null
    Conns = {c1, c2}
    Pids = {p1, sys}
    PidOf <- MCPidOf
    SystemPid = sys
    NumSlots = 1
    Addrs = {a1, a2}
    Faults = {"port", "thread", "receive", "accept", "complete", "reply", "lateComplete"}
    ServiceFaults = {"event", "dispatcher", "handler", "instance"}
SPECIFICATION ServiceFairSpec
INVARIANT ServiceTypeOK
INVARIANT StoppedIsReleased
INVARIANT InstanceOutlivesLoop
PROPERTY ReportsTrue
PROPERTY StartAndStopSettle
PROPERTY EveryCallAnswered
CHECK_DEADLOCK FALSE
