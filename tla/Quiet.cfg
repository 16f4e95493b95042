SPECIFICATION QuietUploadSpec
CONSTANTS
    Bits <- MCBits
    Cell <- MCCell
    APP_START_ADDR = 1
    AppWords = 8
    FirstSector = 4
    LastSector = 5
    SectorBase <- MCSectorBase
    APP_META_MAGIC <- MCMagic
    SizeWord <- MCSizeWord
    Crc <- MCCrc
    EraseMayFail = FALSE
    ProgramMayFail = TRUE
    TornBits <- MCTornBits
    Packets <- ScriptPackets
    ValidStack = {{0, 1}}
    ValidReset = {{0}}
    FastSeqMod = 3
    LegacySeqMod = 4
    ResetMayHappen = TRUE
    CanMayFail = FALSE
    BoardMayFail = FALSE
    InitialFlash <- AnyFlash
    Firmware <- Four
    Options <- Retried
    Retries = 2
    MaxFaults = 2
    RunAgain = TRUE
    ExampleImages <- Examples
    BOOT_NODE_ID = 0
    FifoDepth = 3
    Mailboxes <- MCMailboxes
INVARIANTS
    SessionInv
    FlowInv
    PrefixInv
CHECK_DEADLOCK FALSE
