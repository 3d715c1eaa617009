SPECIFICATION Spec
CONSTANTS
    a1 = a1
    a2 = a2
    Agents <- TwoAgents
    Nobody = Nobody
    OtherProgram = OtherProgram
    Supervisor = "runtime_main"
    MaxFailures = 1
INVARIANT GracefulExit
