SPECIFICATION FairSpec
CONSTANTS
    Argvs <- MCArgvs
    FileSizes <- MCFileSizes
    DefaultSizes <- MCDefaultSizes
    QuickSizes <- MCQuickSizes
    DefaultBuffer = 3
    QuickBuffer = 2
    DefaultTotal = 4
    QuickTotal = 5
    MinWriteChunk = 2
    CsvRows = 4
    MaxRuns = 2
INVARIANTS
    RowsAsPlanned
    FreadInOrder
    TempFilesDeleted
PROPERTIES
    ExplicitWins
    Finishes
CHECK_DEADLOCK FALSE
