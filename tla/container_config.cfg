\* Two clients with two parameters each; values last a second in the provider.
SPECIFICATION Spec
CONSTANTS
    Client = {c1, c2}
    Name = {n1, n2}
    Common = Common
    None = None
    ParameterTtl = 1
    MaxClock = 3
SYMMETRY ConfigSymmetry
INVARIANTS ConfigInv NeverPartOfAConfig SettingsAreFresh
PROPERTIES LoadedFresh
