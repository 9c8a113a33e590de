\* One session with two concurrent updates of two ordinary fields and an odd
\* one, each command sent up to twice, and one deletion.
SPECIFICATION Spec
CONSTANTS
    Session = {s1}
    Update = {u1, u2}
    DeleteCall = {d1}
    Field = {f1, f2, f3}
    OddField = {f3}
    None = None
    SessionTtl = 1
    UpdateAttempts = 2
    DeleteAttempts = 1
    MaxClock = 3
SYMMETRY UpdateSymmetry
INVARIANTS LifecycleInv CompleteWhileLive ToldGoneMeansGone
PROPERTIES GoneForGood OthersKept
