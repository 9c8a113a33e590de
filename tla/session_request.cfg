\* Two clients, both kinds of stack, requests with at most two odd fields.
SPECIFICATION Spec
CONSTANTS
    Client = {c1, c2}
    Requests <- MCRequests
    None = None
    Null = Null
SYMMETRY ClientSymmetry
INVARIANTS SignedByOwnClient StoredClaimsValid FlawlessNotRefused RefusedLeavesNothing PostalCodeFound MetricsTell
