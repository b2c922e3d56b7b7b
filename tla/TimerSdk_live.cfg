SPECIFICATION SdkSpec
CONSTANTS
    W = 3
    PRESCALE_MASK = 5
    STEP_MASK = 3
    Thresholds = {2, 4}
    Waits = {1}
    CyclesPerUs = 2
    Lead = 1
    Frequencies = {1, 4, 6}
    MaxCalls = 3
INVARIANTS
    ReadNotTorn
    StopwatchExact
    RateExact
PROPERTIES
    NoSpuriousAlarm
    WaitReturns
CHECK_DEADLOCK FALSE
