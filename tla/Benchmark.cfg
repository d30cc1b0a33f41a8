SPECIFICATION Spec
CONSTANTS
    q1 = q1
    q2 = q2
    q3 = q3
    Request = {q1, q2, q3}
    Concurrency <- MCConcurrency
    Calibrations = 1
    Limit = 2
    Programs = {"base", "gpu_fixed"}
    MaxSamples = 2
\* The program ends.
CHECK_DEADLOCK FALSE
INVARIANTS
    TypeOK
    RefusalsAreExplained
    MissingTtftIsExplained
    ColumnsAgree
PROPERTIES
    BenchmarkEnds
