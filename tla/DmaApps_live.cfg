SPECIFICATION AppsSpec
CONSTANTS
    Programs <- MCPrograms
    Matrices <- MCMatrices
    Convolutions <- MCConvolutions
    Lengths = {1, 4}
    TEST_DATA_FLASH_SIZE = 2
    SpiPeriod = 16
    DMA_CH_NUM = 2
INVARIANTS
    
    WithinBuffers
 
