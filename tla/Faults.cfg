SPECIFICATION Spec
CONSTANTS
    Bits <- MCBits
    Cell <- MCCell
    APP_START_ADDR = 1
    AppWords = 4
    FirstSector = 4
    LastSector = 5
    SectorBase <- MCSectorBase
    APP_META_MAGIC <- MCMagic
    SizeWord <- MCSizeWord
    Crc <- MCCrc
    EraseMayFail = TRUE
    ProgramMayFail = TRUE
    TornBits <- MCTornBits
    Packets <- FaultPackets
    ValidStack = {{0, 1}}
    ValidReset = {{0}}
    FastSeqMod = 2
    LegacySeqMod = 2
    ResetMayHappen = TRUE
    CanMayFail = FALSE
    BoardMayFail = FALSE
    InitialFlash <- Deployed
INVARIANTS
    RunsVerifiedImage
    SafetyInv
