CONSTANTS
    Threads = {t1, t2, t3}
    Dispatch = {t3}
    NoThread = NoThread
    Elems = {e1, e2}
    Head0 = Head0
    Null = Null
SPECIFICATION FairSpec
INVARIANT TypeOK
INVARIANT WriterAlone
INVARIANT ListSound
PROPERTY ImplementsSharedList
PROPERTY EveryCallReturns
