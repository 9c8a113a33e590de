\* Two keys, so that a rotation can replace one by the other.
SPECIFICATION Spec
CONSTANTS
    Key = {k1, k2}
    None = None
SYMMETRY KeySymmetry
INVARIANTS DecrypterInv SteadyKeyOpens FallbackIsReady
