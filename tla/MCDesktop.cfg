SPECIFICATION FairDesktopSpec
CONSTANTS
    Ids = {t1}
    Commands <- Buttons
    Faults <- NoFaults
    InitialFiles <- NoFile
    Pipelines = {k1}
    MaxEvents = 1
INVARIANT RowsMatchRegistry
PROPERTY FinishedReported
