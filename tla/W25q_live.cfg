SPECIFICATION W25qSpec
CONSTANTS
    CmdDepth = 2
    TxDepth = 5
    RxDepth = 4
    FLASH_PAGE_SIZE = 8
    FLASH_SECTOR_SIZE = 16
    Block32 = 32
    Block64 = 48
    FlashSize = 48
    RX_DMA_THRESHOLD = 8
    Tests <- MCTests
    Erased <- MCErased
    MaxTests = 2
    MaxCrashes = 1
INVARIANTS
    ReadReturnsFlash
    WriteReachesFlash
    CrashIsConfined
    NoCommandLost
PROPERTY CallsReturn
CHECK_DEADLOCK FALSE
