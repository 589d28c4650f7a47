CONSTANTS
    Tenant = {t1}
    CaseId = {c1}
    Requirement = {r1, r2, rX}
    Declared = {r1, r2}
    Material = {m1, m2}
    Payload = {p1}
    Time <- MCTime
    MaxSafeInteger = 4
    NoCase = NoCase
    Writer = {w1, w2}
    OpsPerSave = 1
SYMMETRY Symmetry
SPECIFICATION Spec
INVARIANTS TypeOK SealNeverRefuses HistoriesInOrder
PROPERTIES CommittedMaterialKept CancelledIsTerminal ImplementsRegister
