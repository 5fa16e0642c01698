SPECIFICATION Spec
CONSTANTS
    Senders = {a, b}
    Nobody = Nobody
    PacketSizes = {1, 3, 4}
    UIP_BUFSIZE = 3
    MAX_SEQNOS = 2
    DSN_MOD = 16
    TAG_MOD = 4
    REASS_MAXAGE = 1
    Tries = 2
    MaxPackets = 3
SYMMETRY SenderSymmetry
INVARIANTS TypeOK CountedIsThere
PROPERTY IsDatagramService
CHECK_DEADLOCK FALSE
