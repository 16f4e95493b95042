SPECIFICATION Spec
CONSTANTS
    Bits <- MCBits
    Cell <- MCCell
    APP_START_ADDR = 1
    AppWords = 4
    FirstSector = 4
    LastSector = 5
    SectorBase <- MCSectorBase
    APP_META_MAGIC <- MCMagic
    SizeWord <- MCSizeWord
    Crc <- MCCrc
    EraseMayFail = FALSE
    ProgramMayFail = FALSE
    TornBits = {}
    Packets <- FastPackets
    ValidStack = {{0, 1}}
    ValidReset = {{0}}
    FastSeqMod = 2
    LegacySeqMod = 2
    ResetMayHappen = TRUE
    CanMayFail = TRUE
    BoardMayFail = FALSE
    InitialFlash <- Deployed
INVARIANTS
    TypeOK
    CrcAckTruthful
    InProgressNotBootable
PROPERTIES
    ImplementsSafeBoot
