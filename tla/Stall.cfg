\* BgRunner::notify() before m_sleep_count is raised.
SPECIFICATION Spec
CONSTANTS
    main = main
    th2 = th2
    b1 = b1
    b2 = b2
    T1 = T1
    T2 = T2
    a1 = a1
    a2 = a2
    Null = Null
    CommonThread = {main, th2}
    BgThread = {b1}
    Task = {T1}
    Awaitable = {a1}
    Program <- MCStall
    RacyEmpty = FALSE
    StorageReused = FALSE
INVARIANT NoStall
