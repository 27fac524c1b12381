SPECIFICATION FairReplaySpec
CONSTANTS
    Crc <- CalcCrc
    Names <- MCNames
    LogPacketTypeID_To_Name <- MCTable
    Paths = {"a", "b", "out", "out2"}
    BlockSize = 32
    EnableSets <- MCEnableSets
    InputLists <- MCInputLists
    SkipChoices = {FALSE, TRUE}
    InitialDisks <- MCDisks
    Malformed <- MCMalformed
    ReadSize = 16
    MaxRuns = 2
INVARIANTS
    TypeOK
    SentInOrder
    OnlyWhatIsDue
    NothingIsLost
    SavedLogReplays
PROPERTIES
    RunEnds
    ImplementsFeed
CHECK_DEADLOCK FALSE
