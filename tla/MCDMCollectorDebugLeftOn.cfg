SPECIFICATION CollectorSpec
CONSTANTS
    Crc <- CalcCrc
    Names <- MCNames
    LogPacketTypeID_To_Name <- MCTable
    Paths = {"out"}
    BlockSize = 32
    EnableSets <- MCEnableSets
    SkipChoices = {FALSE, TRUE}
    Malformed <- MCMalformed
    Messages <- MCMessages
    Tails <- MCTails
    ModemsBefore <- MCModems
    ReadSize = 16
    MaxMessages = 3
INVARIANT AllLogsDisabled
CHECK_DEADLOCK FALSE
