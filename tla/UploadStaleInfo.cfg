SPECIFICATION UploadSpec
CONSTANTS
    Bits <- MCBits
    Cell <- MCCell
    APP_START_ADDR = 1
    AppWords = 8
    FirstSector = 4
    LastSector = 5
    SectorBase <- MCSectorBase
    APP_META_MAGIC <- MCMagic
    SizeWord <- MCSizeWord
    Crc <- MCCrc
    EraseMayFail = FALSE
    ProgramMayFail = FALSE
    TornBits <- MCTornBits
    Packets <- ScriptPackets
    ValidStack = {{0, 1}}
    ValidReset = {{0}}
    FastSeqMod = 3
    LegacySeqMod = 3
    ResetMayHappen = FALSE
    CanMayFail = FALSE
    BoardMayFail = FALSE
    InitialFlash <- Blank
    Firmware <- Four
    Options <- FastOnly
    Retries = 1
    MaxFaults = 2
    RunAgain = FALSE
    ExampleImages <- Examples
    BOOT_NODE_ID = 0
    FifoDepth = 3
    Mailboxes <- MCMailboxes
INVARIANTS
    InfoFromItsPage
CHECK_DEADLOCK FALSE
