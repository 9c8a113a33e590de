\* Two clients, so that one's assertion or configuration can serve the other,
\* and two redirect URIs, so that each can be changed.
SPECIFICATION Spec
CONSTANTS
    Client = {c1, c2}
    Uri = {u1, u2}
    Session = {s1, s2}
    None = None
SYMMETRY TokenSymmetry
INVARIANTS RedirectAgrees RedirectsConfigured AssertedByOwner CountedOnce RequestInv
