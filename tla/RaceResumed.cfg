\* release() between wait() and the switch: the task is enqueued twice.
SPECIFICATION Spec
CONSTANTS
    main = main
    th2 = th2
    b1 = b1
    b2 = b2
    T1 = T1
    T2 = T2
    a1 = a1
    a2 = a2
    Null = Null
    CommonThread = {main}
    BgThread = {b1}
    Task = {T1, T2}
    Awaitable = {a1}
    Program <- MCRaceTwo
    RacyEmpty = FALSE
    StorageReused = FALSE
INVARIANT NeverResumed
