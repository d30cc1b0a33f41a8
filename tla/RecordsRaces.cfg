SPECIFICATION Safety
CONSTANTS
    i1 = i1
    i2 = i2
    c1 = c1
    c2 = c2
    k1 = k1
    NoKey = NoKey
    EmptyKey = EmptyKey
    NoJob = NoJob
    JobId = {i1, i2}
    Client = {c1, c2}
    Key = {k1, EmptyKey}
SYMMETRY Interchangeable
INVARIANTS
    TypeOK
    SameAnswer
    AnsweredIsRecorded
    RowsKeepUp
PROPERTIES
    ImplementsRegistry
