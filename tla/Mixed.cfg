SPECIFICATION FairSpec
CONSTANTS
    Bits <- MCBits
    Cell <- MCCell
    APP_START_ADDR = 1
    AppWords = 4
    FirstSector = 4
    LastSector = 5
    SectorBase <- MCSectorBase
    APP_META_MAGIC <- MCMagic
    SizeWord <- MCSizeWord
    Crc <- MCCrc
    EraseMayFail = FALSE
    ProgramMayFail = TRUE
    TornBits <- MCTornBits
    Packets <- MixedPackets
    ValidStack = {{0, 1}}
    ValidReset = {{0}}
    FastSeqMod = 2
    LegacySeqMod = 2
    ResetMayHappen = FALSE
    CanMayFail = TRUE
    BoardMayFail = TRUE
    InitialFlash <- Deployed
INVARIANTS
    DataInv
    SafetyInv
    DataAckTruthful
    JumpOnlyValid
PROPERTIES
    MetadataOnlyByEraseAndCrc
    NackKeepsPosition
    UnattendedBoot
CHECK_DEADLOCK FALSE
