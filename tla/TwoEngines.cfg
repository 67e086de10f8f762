SPECIFICATION RegistrySpec
CONSTANTS
    Ids = {t1}
    Commands <- StartCommands
    Faults <- NoFaults
    InitialFiles <- Stopped
    Pipelines = {k1, k2}
INVARIANT OneEngine
CHECK_DEADLOCK FALSE
