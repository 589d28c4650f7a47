CONSTANTS
    Tenant = {t1}
    CaseId = {c1}
    Requirement = {att}
    Declared = {att}
    Material = {m1, m2, m3}
    Payload <- MCPayload
    Time <- MCTime
    MaxSafeInteger = 4
    NoCase = NoCase
    Writer = {w1, w2}
    OpsPerSave = 1
    Claim = {cl}
    Attestation = {a1}
    AttestationRequirement = {att}
    RequestId = {q1, q2}
    DecisionId = {d1, d2}
    None = None
SYMMETRY Symmetry
SPECIFICATION ReviewSpec
INVARIANTS ReviewTypeOK AttestationsAreDecided OneDecisionPerRequest AttestationsExtendTheirBasis NoAttestationAfterCancellation
