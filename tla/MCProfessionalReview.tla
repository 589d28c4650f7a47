------------------------- MODULE MCProfessionalReview -------------------------
(* ProfessionalReview with one claim, one attestation requirement and two    *)
(* callers, requests and decisions, at one instant.                          *)
EXTENDS ProfessionalReview, TLC

MCTime == {0}
MCPayload == {ClaimPayload(c) : c \in Claim}
             \cup {AttestationPayload(a) : a \in Attestation}

Symmetry == Permutations(Writer) \cup Permutations(Material)
            \cup Permutations(RequestId) \cup Permutations(DecisionId)
=============================================================================
