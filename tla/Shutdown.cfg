\* Delayed stores, and a client that may have left a token or a sleeping thread behind.
SPECIFICATION FairSpec
CONSTANTS
    BgThread = b
    main = m
    Client = {m, p1, p2}
    MaxEnqueue = 2
    LoadPasses = TRUE
INVARIANT TypeOK
PROPERTIES StopReturns NotifyWakesSleepers ImplementsToken
