--------------------------- MODULE MCRuntimeServer ---------------------------
EXTENDS RuntimeServer

CONSTANTS s1, r1, k1

Revocation(g, s, k) ==
    [grant |-> g, subject |-> s, requester |-> None, reason |-> None, key |-> k]

\* a grant revoked with a key and without, and the key used for another grant
MCRevokeInputs ==
    {Revocation(1, s1, k1), Revocation(1, s1, None), Revocation(2, None, k1)}

=============================================================================
