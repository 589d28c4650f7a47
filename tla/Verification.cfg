CONSTANTS
    k1 = k1
    k2 = k2
    Tenant = {t1}
    CaseId = {c1}
    Requirement = {r1}
    Declared = {r1}
    Material = {m1}
    Payload = {p1}
    Time <- MCTime
    MaxSafeInteger = 3
    NoCase = NoCase
    Writer = {w1}
    OpsPerSave = 1
    Verifier = {v1, v2}
    ExecutionId <- MCIds
    Check = {k1}
    Plan <- OneCheck
    FromStore = TRUE
    NoRun = NoRun
    NoResult = NoResult
SYMMETRY Symmetry
SPECIFICATION VerificationSpec
INVARIANTS VerificationTypeOK CurrentMeansCurrent OlderSawLess ResultsPrecedeCancellation InputsPrecedeExecution
PROPERTIES SelectionNeverRegresses
