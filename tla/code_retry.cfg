\* Creations and redemptions are sent up to twice.  No symmetry: two of the
\* properties are temporal.
SPECIFICATION FairSpec
CONSTANTS
    Session = {s1}
    Code = {c1}
    Token = {t1, t2}
    DeleteCall = {d1}
    None = None
    AuthCodeTtl = 1
    AccessTokenTtl = 2
    SessionTtl = 1
    CreateAttempts = 2
    RedeemAttempts = 2
    DeleteAttempts = 1
    MaxClock = 2
INVARIANTS TimeInv BudgetInv RefusedNotMinted
PROPERTIES EventuallyErased RequestsAnswered
