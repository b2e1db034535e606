\* Slices, CPU time and the pseudo clock, over a wrap of the TOD clock.
CONSTANTS
    NULL = NULL
    a = a
    b = b
    tcb_SSI = tcb_SSI
    Users <- MCUsers
    SCHED_TIME_SLICE = 2
    SCHED_PSEUDO_CLOCK = 3
    Word = 16
    Machines <- MCMachines
    MaxTime = 5
SPECIFICATION Spec
INVARIANTS
    ChargeIsTimeUsed
    TurnsEnd
PROPERTIES
    TickAfterQuiet
SYMMETRY Symmetric
