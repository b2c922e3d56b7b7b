SPECIFICATION ValidateSpec
CONSTANTS
    Trans = {t1}
    UserFields <- MCFields
    UintSpace = 256
INVARIANTS
    AcceptedStaysInEnvironment
    AcceptedIsAligned
    OnlyRejectionSticks
