SPECIFICATION FairSpec
CONSTANTS
    s1 = s1
    r1 = r1
    k1 = k1
    None = None
    Conn = {c1, c2}
    ApiKey = {a1}
    Limit = 1
    Subject = {s1}
    Requester = {r1}
    Reason = {}
    Key = {k1}
    MaxRequests = 1
    MaxGrants = 2
    Issuer = {i1}
    CredentialRef = {d1}
    IdentityConsentId = {n1}
    IssuedAt = {1}
    Withdrawal = {w1}
    MaxFailures = 0
    MaxMetered = 2
    RevokeInputs <- MCRevokeInputs
INVARIANTS
    RuntimeTypeOK
    EvidenceMatchesGrants
    AnswersStayTrue
PROPERTIES
    DecisionsStand
    ServedAndSettled
