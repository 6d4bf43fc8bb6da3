CONSTANTS
    t1 = t1
    t2 = t2
    a = a
    A = A
    b = b
    root = root
    left = left
    right = right
    below = below
    Empty = Empty
    Null = Null
    Threads = {t1}
    Strings = {a, A, b}
    Length <- MCLength
    Folded <- MCFolded
    CallsOf <- MCAllCalls
    Keys = {root, left, right, below}
    Root = root
    ParentOf <- MCParentOf
    KeyOrder <- MCKeyOrder
    Obstacles <- MCObstacles
    Values <- MCValues
    MaxFaults = 0
    MaxStrings = 3
SPECIFICATION Spec
INVARIANT StoredIsProper
CHECK_DEADLOCK FALSE
