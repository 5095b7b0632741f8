SPECIFICATION FairSpec
CONSTANTS
    FilesOf <- MCFilesOf
    MaxVersion = 1
    Changing <- MCChanging
    MaxPending = 1
    MaxLogins = 2
    MaxCatalogues = 1
INVARIANTS
    TypeOK
    PingSparesItsSession
    SuccessNamesState
    UpToDateMeansWhole
    PollingMeansAttempted
    ChainNeverStuck
PROPERTIES
    ChainSettles
