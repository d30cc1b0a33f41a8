SPECIFICATION Spec
CONSTANTS
    c1 = c1
    c2 = c2
    w1 = w1
    n1 = n1
    NoLease = NoLease
    Former = Former
    NoJob = NoJob
    NoWorkload = NoWorkload
    Controller = {c1, c2}
    Duration = 2
    Turn = 2
    ClockSkew = 1
    MaxErrors = 1
    Workload = {w1}
    Name = {n1}
    JobName <- MCJobName
INVARIANTS
    TypeOK
    LeadersInTimeAreAlone
PROPERTIES
    OutcomeIsKept
    OutcomeIsReported
