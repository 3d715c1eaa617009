SPECIFICATION Spec
CONSTANTS
    a1 = a1
    a2 = a2
    Agents <- TwoAgents
    Nobody = Nobody
    OtherProgram = OtherProgram
    Supervisor = "asyncio_run"
    MaxFailures = 2
SYMMETRY AgentSymmetry
INVARIANTS
    OneRunningDaemon
    MonitorHoldsMutex
    JoiningHoldsNothing
PROPERTY StoppingIsOneWay
