\* One consumer and one producer, the store of notify() may be delayed.
SPECIFICATION Spec
CONSTANTS
    Consumer = {c1}
    Producer = {p1}
    MaxEnqueue = 2
    LoadPasses = TRUE
INVARIANT NoLostWakeup
