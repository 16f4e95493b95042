SPECIFICATION BusSpec
CONSTANTS
    BOOT_NODE_ID = 1
    FifoDepth = 3
    Mailboxes <- MCMailboxes
    Hosts <- MCHosts
    Seqs <- MCSeqs
    MaxFrames = 5
INVARIANTS
    HandledAsMeant
    HandledAsSent
PROPERTIES
    OthersDoNotDisturb
CHECK_DEADLOCK FALSE
