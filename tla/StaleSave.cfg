SPECIFICATION RegistrySpec
CONSTANTS
    Ids = {t1}
    Commands <- PauseCommands
    Faults <- NoFaults
    InitialFiles <- Stopped
    Pipelines = {k1}
INVARIANT ListSurvives
CHECK_DEADLOCK FALSE
