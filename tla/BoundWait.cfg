\* A join() on a native task while its thread runs other tasks.
SPECIFICATION Spec
CONSTANTS
    main = main
    th2 = th2
    b1 = b1
    b2 = b2
    T1 = T1
    T2 = T2
    a1 = a1
    a2 = a2
    Null = Null
    CommonThread = {main}
    BgThread = {b1}
    Task = {T1, T2}
    Awaitable = {}
    Program <- MCBoundWait
    RacyEmpty = FALSE
    StorageReused = FALSE
INVARIANT WaitReturnsReleased
