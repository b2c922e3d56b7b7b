SPECIFICATION Spec
CONSTANTS
    Modulus = 16
    Counters <- MCCounters
    Gated = {"periph", "ram", "external"}
    MaxLag = 2
    Uses <- MCUses
    Polls = TRUE
INVARIANTS
    UnpoweredIsIsolated
    ResetBeforeVisible
    WakesWhereItSlept
PROPERTIES
    SelectedInterruptWakes
