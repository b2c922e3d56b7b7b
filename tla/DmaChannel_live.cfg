SPECIFICATION FairSpec
CONSTANTS
    Depth = 4
    Configs <- ConfigsLive
    Stoppable = {}
PROPERTIES
    TransferEnds
    CompletionRaisesInterrupt
