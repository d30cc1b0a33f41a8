SPECIFICATION Safety
CONSTANTS
    j1 = j1
    j3 = j3
    j2 = j2
    c1 = c1
    c2 = c2
    NoJob = NoJob
    NodeCount = 2
    GpuCount = 2
    Job = {j1, j2}
    Need <- MCNeedOne
    Priority <- MCPriority
    Client = {c1, c2}
    Operator = {c1, c2}
    Faults = {"node_unhealthy", "memory_high"}
    MaxFaults = 1
    Failing = {"launching", "releasing", "checkpointing", "preempting", "requeued"}
INVARIANTS
    RunningHasNode
    DrainingIsRemediated
PROPERTIES
    FinishedByItsWorker
SYMMETRY Interchangeable
