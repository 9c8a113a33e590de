\* One of each: what a failed client assertion is answered with.
SPECIFICATION Spec
CONSTANTS
    Client = {c1}
    Uri = {u1}
    Session = {s1}
    None = None
INVARIANTS FailedAssertionIs400
