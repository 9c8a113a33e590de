\* Two keys, so that one can follow the other; the endpoint names no max-age,
\* or one of 0, 1 or 2 seconds.
SPECIFICATION Spec
CONSTANTS
    Key = {k1, k2}
    None = None
    MaxAge = 2
    ReadTime = 1
    MaxClock = 5
    MaxMisses = 2
SYMMETRY KeySymmetry
INVARIANTS JwksInv RetiredKeysExpire OneMissPerRotation
