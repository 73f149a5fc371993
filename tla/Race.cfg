\* Two common threads; release() while the waiting task is still on its stack.
SPECIFICATION Spec
CONSTANTS
    main = main
    th2 = th2
    b1 = b1
    b2 = b2
    T1 = T1
    T2 = T2
    a1 = a1
    a2 = a2
    Null = Null
    CommonThread = {main, th2}
    BgThread = {b1}
    Task = {T1, T2}
    Awaitable = {a1}
    Program <- MCRace
    RacyEmpty = TRUE
    StorageReused = TRUE
INVARIANTS TypeOK NoWaiterLeftBehind NoLostTask OnlyCommonSleeps WaiterHasWaker SpinHasSaver
