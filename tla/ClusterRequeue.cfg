SPECIFICATION Spec
CONSTANTS
    j1 = j1
    j2 = j2
    j3 = j3
    c1 = c1
    NoJob = NoJob
    NodeCount = 1
    GpuCount = 1
    Job = {j1}
    Need <- MCNeed
    Priority <- MCPriority
    Client = {c1}
    Operator = {c1}
    Faults = {"node_unhealthy"}
    MaxFaults = 1
    Failing = {}
PROPERTIES
    RequeuedIsQueued
