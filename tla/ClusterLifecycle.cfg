SPECIFICATION Safety
CONSTANTS
    j1 = j1
    j3 = j3
    j2 = j2
    c1 = c1
    NoJob = NoJob
    NodeCount = 2
    GpuCount = 2
    Job = {j1, j2}
    Need <- MCNeed
    Priority <- MCPriority
    Client = {c1}
    Operator = {c1}
    Faults = {"node_unhealthy"}
    MaxFaults = 0
    Failing = {}
PROPERTIES
    LifecycleEnds
