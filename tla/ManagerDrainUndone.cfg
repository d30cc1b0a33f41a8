SPECIFICATION Safety
CONSTANTS
    r1 = r1
    r2 = r2
    r3 = r3
    r4 = r4
    p1 = p1
    Request = {r1, r2, r3, r4}
    StreamRequest = {r3, r4}
    Probe = {p1}
    MaxConcurrent = 2
    Threshold = 2
    Runtimes = {"openai_no_endpoint"}
SYMMETRY Interchangeable
INVARIANTS
    RepeatedFailuresStop
