SPECIFICATION Spec
CONSTANTS
    f1 = f1
    f2 = f2
    None = None
    Scope = {f1, f2}
    Consent <- MCConsent
    Capability <- MCCapability
    Call = {c1}
    MaxSecond = 2
INVARIANTS
    OnlyVerifiedExecutes
CHECK_DEADLOCK FALSE
