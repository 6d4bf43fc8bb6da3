CONSTANTS
    t1 = t1
    t2 = t2
    a = a
    A = A
    b = b
    root = root
    left = left
    right = right
    below = below
    Empty = Empty
    Null = Null
    Threads = {t1, t2}
    Strings = {a, A, b}
    Length <- MCLength
    Folded <- MCFolded
    CallsOf <- MCCallsOf
    Keys = {root, left, right, below}
    Root = root
    ParentOf <- MCParentOf
    KeyOrder <- MCKeyOrder
    Obstacles <- MCObstacles
    Values <- MCValues
    MaxFaults = 1
    MaxStrings = 2
SPECIFICATION FairSpec
INVARIANT TypeOK
INVARIANT NothingHeld
PROPERTY UndisturbedEdit
PROPERTY DeletesAllItCan
PROPERTY EveryCallReturns
CHECK_DEADLOCK FALSE
