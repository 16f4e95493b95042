SPECIFICATION FairUploadSpec
CONSTANTS
    Bits <- MCBits
    Cell <- MCCell
    APP_START_ADDR = 1
    AppWords = 8
    FirstSector = 4
    LastSector = 5
    SectorBase <- MCSectorBase
    APP_META_MAGIC <- MCMagic
    SizeWord <- MCSizeWord
    Crc <- MCCrc
    EraseMayFail = FALSE
    ProgramMayFail = FALSE
    TornBits <- MCTornBits
    Packets <- ScriptPackets
    ValidStack = {{0, 1}}
    ValidReset = {{0}}
    FastSeqMod = 3
    LegacySeqMod = 3
    ResetMayHappen = TRUE
    CanMayFail = TRUE
    BoardMayFail = TRUE
    InitialFlash <- AnyFlash
    Firmware <- Three
    Options <- LegacyOnly
    Retries = 1
    MaxFaults = 2
    RunAgain = TRUE
    ExampleImages <- Examples
    BOOT_NODE_ID = 0
    FifoDepth = 1
    Mailboxes = {0}
INVARIANTS
    DoneMeansInstalled
PROPERTIES
    EventuallyInstalled
CHECK_DEADLOCK FALSE
