SPECIFICATION FairSpec
CONSTANTS
    NPROC = 3
    Cpu = {c0}
    Cpu0 = c0
    NoCpu = none
    Call = {"fork", "wait", "kill", "sleep", "exit"}
    MaxPid = 3
CHECK_DEADLOCK FALSE
PROPERTIES
    RunnableRuns
    KilledExits
    
