\* Every command may be sent twice; no symmetry, the properties are temporal.
SPECIFICATION FairSpec
CONSTANTS
    Session = {s1}
    Update = {u1}
    DeleteCall = {d1}
    Field = {f1, f2}
    OddField = {f2}
    None = None
    SessionTtl = 1
    UpdateAttempts = 2
    DeleteAttempts = 2
    MaxClock = 3
PROPERTIES ImplementsStore EventuallyErased RequestsAnswered
