SPECIFICATION Spec
CONSTANTS
    Pins = {1, 8, 9}
    Sources = {8, 9}
    GPIO_AO_DOMAIN_LIMIT = 8
    Led = 1
    plicMaxPriority = 1
    Setup <- MCSetup
    Calls <- MCCalls
    MaxCalls = 2
    MaxMoves = 2
    ClockGated = TRUE
INVARIANTS PinsAsConfigured
PROPERTIES NoSpuriousDispatch EdgeServed
CHECK_DEADLOCK FALSE
