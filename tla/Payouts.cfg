SPECIFICATION Spec
CONSTANTS
    s1 = s1
    r1 = r1
    k1 = k1
    None = None
    Conn = {c1}
    ApiKey = {a1}
    Limit = 1
    Subject = {s1}
    Requester = {r1}
    Reason = {}
    Key = {}
    MaxRequests = 0
    MaxGrants = 0
    Issuer = {i1, i2}
    CredentialRef = {d1, d2}
    IdentityConsentId = {n1, n2}
    IssuedAt = {1, 2}
    Withdrawal = {w1}
    MaxFailures = 1
    MaxMetered = 2
    RevokeInputs = {}
INVARIANTS
    PaidOncePerAnswer
PROPERTIES
    DecisionsStand
