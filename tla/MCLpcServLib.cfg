CONSTANTS
    c1 = c1
    c2 = c2
    c3 = c3
    a1 = a1
    a2 = a2
    a3 = a3
    p1 = p1
    sys = sys
    Null = Null
    Conns = {c1, c2, c3}
    Pids = {p1, sys}
    PidOf <- MCPidOf
    SystemPid = sys
    NumSlots = 2
    Addrs = {a1, a2, a3}
    Faults = {"port", "thread", "receive", "memory", "accept", "complete", "reply"}
SPECIFICATION Spec
SYMMETRY MCSymmetry
INVARIANT TypeOK
INVARIANT TableSound
INVARIANT NoLeak
INVARIANT OneSlotPerProcess
INVARIANT ReplyContextLive
INVARIANT TableUpToDate
INVARIANT StopLeavesNothing
PROPERTY ImplementsClientTable
