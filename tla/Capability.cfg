CONSTANTS
    k1 = k1
    k2 = k2
    p1 = p1
    f1 = f1
    f2 = f2
    Content = {k1, k2}
    Pack = {p1}
    Field = {f1, f2}
    Path = {1, 2}
    PackField <- MCPackField
    TokenId = {i1}
    Terms <- MCTerms
    Options <- MCOptions
    TicksPerSecond = 2
    ClockSkewSeconds = 1
    MaxAttempts = 1
    WindowTicks = 3
    MaxPaths = 2
    MaxConsents = 1
    MaxTime = 5
    MaxCalls = 2
    Never = Never
    None = None
SPECIFICATION Spec
INVARIANTS CapabilityTypeOK SpendingDenialsExplained AttemptsBounded
PROPERTIES KeepsLedger
CHECK_DEADLOCK FALSE
