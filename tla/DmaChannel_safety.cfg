SPECIFICATION Spec
CONSTANTS
    Depth = 4
    Configs <- AllConfigs
    Stoppable <- SomeStop
INVARIANTS
    TypeOK
    FifosHaveRoom
    ReadyMeansDelivered
    ReadyMeansDrained
    WindowsExact
PROPERTY
    ImplementsTransfer
