\* Two consumers and two producers on one Futex, no load passes a store.
SPECIFICATION FairSpec
CONSTANTS
    Consumer = {c1, c2}
    Producer = {p1, p2}
    MaxEnqueue = 4
    LoadPasses = FALSE
INVARIANTS TypeOK NoLostWakeup WakeupPending
PROPERTY EventuallyDrained
