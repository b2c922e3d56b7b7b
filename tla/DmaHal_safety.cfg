SPECIFICATION HalSpec
CONSTANTS
    Trans = {"frame", "padded", "stream", "bad"}
    App <- MixedApp
    UserFields <- MixedFields
    UintSpace = 256
    DMA_CH_NUM = 1
    DMA_HP_INTR_INDEX = 0
    DMA_NUM_HP_INTR = 1
INVARIANTS
    RunsAsAsked
PROPERTY FrozenWhileBusy
