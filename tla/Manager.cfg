SPECIFICATION Spec
CONSTANTS
    r1 = r1
    r2 = r2
    r3 = r3
    r4 = r4
    p1 = p1
    p2 = p2
    Request = {r1, r2, r3, r4}
    StreamRequest = {r3, r4}
    Probe = {p1, p2}
    MaxConcurrent = 2
    Threshold = 2
    Runtimes = {"openai", "mock", "openai_no_endpoint"}
INVARIANTS
    TypeOK
    SlotsExact
    BoundedConcurrency
    CountersBalance
    ThresholdStops
PROPERTIES
    RetirementIsFinal
    SlotsAreReturned
    ImplementsAdmission
