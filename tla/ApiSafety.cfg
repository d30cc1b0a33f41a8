SPECIFICATION Safety
CONSTANTS
    c1 = c1
    c2 = c2
    NoReplica = NoReplica
    ReplicaCount = 2
    Client = {c1, c2}
    Word = {"draining"}
    Reports <- MCReports
    MaxCalls = 4
SYMMETRY Interchangeable
INVARIANTS
    TypeOK
    CreatedSurvives
    CountsNotInvented
    SavedWhenQuiet
    RoundRobinRotates
