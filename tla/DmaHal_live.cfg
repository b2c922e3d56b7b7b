SPECIFICATION HalSpec
CONSTANTS
    Trans = {"row0", "row1"}
    App <- RowsApp
    UserFields <- RowsFields
    UintSpace = 256
    DMA_CH_NUM = 2
    DMA_HP_INTR_INDEX = 0
    DMA_NUM_HP_INTR = 1
PROPERTY EndsReported
