CONSTANTS
    ev = ev
    dec = dec
    e1 = e1
    c1 = c1
    Tenant = {t1}
    CaseId = {k1}
    Requirement = {ev, dec}
    Declared = {dec}
    Material = {m1, m2, m3}
    Payload <- MCPayload
    Time <- MCTime
    MaxSafeInteger = 4
    NoCase = NoCase
    Writer = {w1, w2}
    OpsPerSave = 1
    Evidence = {e1}
    Claim = {c1}
    ClaimType <- MCClaimType
    AcceptedClaims <- MCAcceptedClaims
    IntakeId = {i1, i2}
    DeclarationId = {d1}
    NoEntry = NoEntry
SYMMETRY Symmetry
SPECIFICATION IntakeSpec
INVARIANTS IntakeTypeOK EntriesBacked EntriesDistinct EntriesComeFirst LinksStand
PROPERTIES UsesRepository
