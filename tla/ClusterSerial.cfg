SPECIFICATION Spec
CONSTANTS
    j1 = j1
    j2 = j2
    j3 = j3
    c1 = c1
    NoJob = NoJob
    NodeCount = 2
    GpuCount = 2
    Job = {j1, j3}
    Need <- MCNeed
    Priority <- MCPriority
    Client = {c1}
    Operator = {c1}
    Faults = {"node_unhealthy", "memory_high", "memory_low", "temperature_high", "temperature_low"}
    MaxFaults = 2
    Failing = {"launching", "releasing", "checkpointing", "preempting", "requeued"}
INVARIANTS
    TypeOK
PROPERTIES
    StartsInOrder
    ComesBackEmpty
    ImplementsPlacement
    ClusterHeals
