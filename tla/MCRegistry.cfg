SPECIFICATION RegistrySpec
CONSTANTS
    Ids = {t1}
    Commands <- AnyCommand
    Faults <- AllFaults
    InitialFiles <- NoFile
    Pipelines = {k1}
INVARIANTS
    RegistryTypeOK
    CompleteEarned
    SerialSavesExact
PROPERTIES
    NoResurrection
    DownloadingIsAttended
