\* A replica may lag behind a deletion.
SPECIFICATION Spec
CONSTANTS
    Session = {s1}
    Code = {c1}
    Token = {}
    DeleteCall = {d1}
    None = None
    AuthCodeTtl = 2
    AccessTokenTtl = 2
    SessionTtl = 3
    CreateAttempts = 1
    RedeemAttempts = 1
    DeleteAttempts = 1
    MaxClock = 4
PROPERTIES DeletedNotAuthorized
