\* Tasks that have left their stack when release() finds them.
SPECIFICATION Spec
CONSTANTS
    main = main
    th2 = th2
    b1 = b1
    b2 = b2
    T1 = T1
    T2 = T2
    a1 = a1
    a2 = a2
    Null = Null
    CommonThread = {main}
    BgThread = {b1, b2}
    Task = {T1, T2}
    Awaitable = {a1, a2}
    Program <- MCSettled
    RacyEmpty = TRUE
    StorageReused = FALSE
INVARIANTS OneOwner QueuedIsSaved DestroyedIsLeft DestroyedUntouched
PROPERTIES ImplementsCoroutines AlwaysOrderly AlwaysCareful
