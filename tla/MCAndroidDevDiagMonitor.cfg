SPECIFICATION FairAndroidSpec
CONSTANTS
    TsBytes = 2
    EnableSets <- MCEnableSets
    Records <- MCRecords
    BlockSize = 3
    MaxRecords = 2
    ModemsBefore <- MCModems
    CfgsBefore <- MCCfgs
    MaxDeaths = 1
INVARIANTS
    TypeOK
    OneRevealer
    FedWhatWasLogged
    ModemLogsWhatIsAsked
PROPERTIES
    RunGetsGoing
    EverythingIsProcessed
    PauseReturns
CHECK_DEADLOCK FALSE
