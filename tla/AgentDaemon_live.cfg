SPECIFICATION FairSpec
CONSTANTS
    a1 = a1
    a2 = a2
    Agents <- OneAgent
    Nobody = Nobody
    OtherProgram = OtherProgram
    Supervisor = "asyncio_run"
    MaxFailures = 1
PROPERTY StopFreesTheMutex
