\* The create command is sent up to twice: its retry may revive a spent code.
SPECIFICATION Spec
CONSTANTS
    Session = {s1}
    Code = {c1}
    Token = {t1, t2}
    DeleteCall = {}
    None = None
    AuthCodeTtl = 2
    AccessTokenTtl = 2
    SessionTtl = 3
    CreateAttempts = 2
    RedeemAttempts = 1
    DeleteAttempts = 1
    MaxClock = 4
SYMMETRY CallSymmetry
INVARIANTS CodeRedeemedOnce
