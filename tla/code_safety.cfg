\* One session, two codes, two redemptions, one deletion; no retries.
SPECIFICATION Spec
CONSTANTS
    Session = {s1}
    Code = {c1, c2}
    Token = {t1, t2}
    DeleteCall = {d1}
    None = None
    AuthCodeTtl = 1
    AccessTokenTtl = 2
    SessionTtl = 2
    CreateAttempts = 1
    RedeemAttempts = 1
    DeleteAttempts = 1
    MaxClock = 3
SYMMETRY CallSymmetry
INVARIANTS CodeRedeemedOnce RedeemedInTime
PROPERTIES ErasedForGood TokenReplacedByToken AnswerMeansCode ImplementsGrant
