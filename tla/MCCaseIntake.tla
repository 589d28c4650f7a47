----------------------------- MODULE MCCaseIntake -----------------------------
(* CaseIntake with one evidence record, one claim, an evidence requirement   *)
(* ev and a declaration requirement dec, at two instants.                    *)
EXTENDS CaseIntake, TLC

CONSTANTS e1, c1, ev, dec

MCTime == {0, 1}
MCPayload == {EvidencePayload(e) : e \in Evidence}
             \cup {DeclarationPayload(c) : c \in Claim}
MCClaimType == [c \in Claim |-> "ownership"]
MCAcceptedClaims == [r \in Declared |-> IF r = dec THEN {"ownership"} ELSE {}]

Symmetry == Permutations(Writer) \cup Permutations(Material) \cup Permutations(IntakeId)
=============================================================================
