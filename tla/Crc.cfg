SPECIFICATION CrcSpec
CONSTANTS
    Messages <- MCMessages
    BurstBytes <- MCBurstBytes
INVARIANTS
    HostAndDeviceAgree
    BurstDetected
CHECK_DEADLOCK FALSE
