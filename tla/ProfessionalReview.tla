-------------------------- MODULE ProfessionalReview --------------------------
(***************************************************************************)
(* Professional review of a case: a request bound to one case revision,    *)
(* and one terminal decision about it.  An Attest decision may ask for the *)
(* artifact, an attestation signed by an injected signer and associated    *)
(* with the case; every other decision leaves the case alone.  The four    *)
(* review actions otherwise differ only in the fields they carry.          *)
(*                                                                         *)
(* The signer is awaited in the middle of a decision.  The case the        *)
(* decision was checked against is the one the attestation is then added   *)
(* to, whatever was saved meanwhile.  The operation returns the decision   *)
(* and the case together or neither.  That the composition layer commits   *)
(* both in one transaction is an assumption here: no code makes it so.     *)
(***************************************************************************)
EXTENDS CaseRepository

CONSTANTS
    Claim, Attestation,        \* canonical claim and attestation ids
    AttestationRequirement,    \* declared requirements of kind Attestation
    RequestId, DecisionId,
    None                       \* an optional field or an entry that is absent

ClaimPayload(c) == [kind |-> "Declaration", ref |-> c]
AttestationPayload(a) == [kind |-> "Attestation", ref |-> a]

\* A ProfessionalReviewRequest.
Request ==
    [requestId : RequestId, tenantId : Tenant, caseId : CaseId,
     requirementId : AttestationRequirement, basis : Nat \ {0}, requestedAt : Time]

\* The attestation an Attest decision asks for.
Artifact == [attestation : Attestation, claim : Claim, materialId : Material]

\* A ProfessionalReviewDecision: with an artifact if and only if it moved the
\* case to the revision `resulting'.
Decision ==
    [decisionId : DecisionId, request : Request, artifact : Artifact \cup {None},
     resulting : Nat, decidedAt : Time]

ASSUME ReviewAssumption ==
    /\ Payload = {ClaimPayload(c) : c \in Claim}
                 \cup {AttestationPayload(a) : a \in Attestation}
    /\ AttestationRequirement \subseteq Declared
    /\ None \notin Request \cup Artifact \cup Decision \cup DecisionId

VARIABLES
    draft,       \* the decision each caller is making, None for none
    requests,    \* the review request repository
    decisions,   \* the review decision repository: its entries
    byRequest    \* and its index by request

reviewVars == <<store, base, hand, draft, requests, decisions, byRequest>>

ReviewInit ==
    /\ Init
    /\ draft = [w \in Writer |-> None]
    /\ requests = [k \in Tenant \X RequestId |-> None]
    /\ decisions = [k \in Tenant \X DecisionId |-> None]
    /\ byRequest = [k \in Tenant \X RequestId |-> None]

-----------------------------------------------------------------------------
\* assertCaseAcceptsReview, the other gates on the case, and readClock.
AcceptsReview(t, c, now) ==
    IsOperable(t, c) /\ c.state # "Cancelled" /\ ClockNotBackwards(c, now)

\* createProfessionalReviewRequest on the value the caller holds, and save of
\* the request repository.
RequestReview(w, t, id, r, now) ==
    /\ draft[w] = None
    /\ hand[w] # NoCase /\ AcceptsReview(t, hand[w], now)
    /\ requests[<<t, id>>] = None
    /\ requests' = [requests EXCEPT ![<<t, id>>] =
         [requestId |-> id, tenantId |-> t, caseId |-> hand[w].caseId,
          requirementId |-> r, basis |-> hand[w].revision, requestedAt |-> now]]
    /\ UNCHANGED <<store, base, hand, draft, decisions, byRequest>>

AtBasisOrLater(t, c, q) == q.tenantId = t /\ q.caseId = c.caseId /\ q.basis <= c.revision

\* The request is this tenant's, about this case, at exactly this revision.
AtBasis(t, c, q) == q.tenantId = t /\ q.caseId = c.caseId /\ q.basis = c.revision

\* assertClaimIsInCase
HoldsClaim(c, claim) == \E x \in c.materials : x.payload = ClaimPayload(claim)

\* recordProfessionalReviewDecision: to its end when no artifact is asked for,
\* to the awaited signer when one is.
Decide(w, t, q, id, artifact, now) ==
    /\ draft[w] = None
    /\ hand[w] # NoCase /\ AcceptsReview(t, hand[w], now)
    /\ q # None /\ AtBasis(t, hand[w], q)
    /\ artifact # None => HoldsClaim(hand[w], artifact.claim)
    /\ draft' = [draft EXCEPT ![w] =
         [decisionId |-> id, request |-> q, artifact |-> artifact,
          resulting |-> 0, decidedAt |-> now]]
    /\ UNCHANGED <<store, base, hand, requests, decisions, byRequest>>

AwaitsSigner(w) == draft[w] # None /\ draft[w].artifact # None /\ draft[w].resulting = 0

\* The signer answered: the attestation is added to the case the decision was
\* checked against, with a clock reading of its own.
Sign(w, t, now) ==
    /\ AwaitsSigner(w)
    /\ AddMaterial(w, t, draft[w].artifact.materialId,
                   AttestationPayload(draft[w].artifact.attestation),
                   {draft[w].request.requirementId}, now)
    /\ draft' = [draft EXCEPT ![w].resulting = hand[w].revision + 1]
    /\ UNCHANGED <<requests, decisions, byRequest>>

GiveUpKeepingCase(w) ==
    /\ draft[w] # None
    /\ draft' = [draft EXCEPT ![w] = None]
    /\ UNCHANGED <<store, base, hand, requests, decisions, byRequest>>

\* The signer failed, the case refused the material, or the caller gave up:
\* neither the decision nor the case it produced is kept.
GiveUp(w) ==
    /\ draft[w] # None
    /\ draft' = [draft EXCEPT ![w] = None]
    /\ hand' = [hand EXCEPT ![w] = IF draft[w].resulting = 0 THEN @ ELSE base[w]]
    /\ UNCHANGED <<store, base, requests, decisions, byRequest>>

-----------------------------------------------------------------------------
AppendDecisionMisindexed(d) ==
    LET key == <<d.request.tenantId, d.decisionId>>
        requestKey == <<d.request.tenantId, d.request.requestId>>
    IN  /\ decisions[key] = None
        /\ byRequest[requestKey] = None
        /\ decisions' = [decisions EXCEPT ![key] = d]
        /\ byRequest' = [byRequest EXCEPT ![requestKey] = d.request.requestId]

AppendDecisionAgain(d) ==
    LET key == <<d.request.tenantId, d.decisionId>>
        requestKey == <<d.request.tenantId, d.request.requestId>>
    IN  /\ decisions[key] = None
        /\ decisions' = [decisions EXCEPT ![key] = d]
        /\ byRequest' = [byRequest EXCEPT ![requestKey] = d.decisionId]

\* save of the decision repository: append-only, and one decision per request.
AppendDecision(d) ==
    LET key == <<d.request.tenantId, d.decisionId>>
        requestKey == <<d.request.tenantId, d.request.requestId>>
    IN  /\ decisions[key] = None
        /\ byRequest[requestKey] = None
        /\ decisions' = [decisions EXCEPT ![key] = d]
        /\ byRequest' = [byRequest EXCEPT ![requestKey] = d.decisionId]

CommitDecisionOnly(w) ==
    /\ draft[w] # None /\ ~AwaitsSigner(w)
    /\ AppendDecision(draft[w])
    /\ draft' = [draft EXCEPT ![w] = None]
    /\ UNCHANGED <<store, base, hand, requests>>

\* One transaction: the decision, and the case when it has an artifact.
Commit(w) ==
    /\ draft[w] # None /\ ~AwaitsSigner(w)
    /\ AppendDecision(draft[w])
    /\ IF draft[w].artifact = None THEN UNCHANGED vars ELSE Save(w)
    /\ draft' = [draft EXCEPT ![w] = None]
    /\ UNCHANGED requests

\* The case operations.  Callers leave attestation material to the review.
Work(w) ==
    /\ draft[w] = None
    /\ \/ Save(w)
       \/ \E t \in Tenant, id \in CaseId :
            Get(w, t, id) \/ \E now \in Time : Create(w, t, id, now)
       \/ \E t \in Tenant, now \in Time :
            \/ Activate(w, t, now) \/ Cancel(w, t, now)
            \/ \E m \in Material, rs \in SUBSET Requirement :
                 \/ Associate(w, t, m, rs, now)
                 \/ \E c \in Claim : AddMaterial(w, t, m, ClaimPayload(c), rs, now)
    /\ UNCHANGED <<draft, requests, decisions, byRequest>>

ReviewStep(w) ==
    \/ Work(w) \/ GiveUp(w) \/ Commit(w)
    \/ \E t \in Tenant, now \in Time :
         \/ Sign(w, t, now)
         \/ \E id \in RequestId :
              \/ \E r \in AttestationRequirement : RequestReview(w, t, id, r, now)
              \/ \E d \in DecisionId, artifact \in Artifact \cup {None} :
                   Decide(w, t, requests[<<t, id>>], d, artifact, now)

ReviewNext == \E w \in Writer : ReviewStep(w)

ReviewSpec == ReviewInit /\ [][ReviewNext]_reviewVars

-----------------------------------------------------------------------------
Decided == {decisions[k] : k \in Tenant \X DecisionId} \ {None}

DecidedWithArtifact(k) ==
    {d \in Decided : d.artifact # None /\ <<d.request.tenantId, d.request.caseId>> = k}

\* Every value is of its type.
ReviewTypeOK ==
    /\ TypeOK
    /\ draft \in [Writer -> Decision \cup {None}]
    /\ requests \in [Tenant \X RequestId -> Request \cup {None}]
    /\ decisions \in [Tenant \X DecisionId -> Decision \cup {None}]
    /\ byRequest \in [Tenant \X RequestId -> DecisionId \cup {None}]

\* x is the material of decision d's artifact.
Answers(x, d) ==
    /\ x.materialId = d.artifact.materialId
    /\ x.payload = AttestationPayload(d.artifact.attestation)
    /\ d.request.requirementId \in x.requirementIds

\* "The decision and the CanonicalAttestation and the material association,
\* together, or nothing at all": the attestation materials of a stored case
\* and the saved decisions with an artifact correspond one to one.
AttestationsAreDecided ==
    \A k \in Key :
      LET held == IF store[k] = NoCase THEN {}
                  ELSE {x \in store[k].materials : x.payload.kind = "Attestation"}
      IN  /\ \A x \in held : \E d \in DecidedWithArtifact(k) :
               Answers(x, d) /\ \A e \in DecidedWithArtifact(k) : Answers(x, e) => e = d
          /\ \A d \in DecidedWithArtifact(k) : \E x \in held : Answers(x, d)

\* One terminal decision per request, and the index knows it: however many
\* callers decide one request at a time, one of them is heard.
OneDecisionPerRequest ==
    \A d \in Decided, id \in RequestId :
      id = d.request.requestId <=> byRequest[<<d.request.tenantId, id>>] = d.decisionId

\* An attestation speaks about the very state it joins: the revision it made
\* is the one after its basis, no two attestations of a case share a basis,
\* and the claim it attests to is still in the case.
AttestationsExtendTheirBasis ==
    \A k \in Key : \A d \in DecidedWithArtifact(k) :
      /\ d.resulting = d.request.basis + 1 /\ d.resulting <= store[k].revision
      /\ HoldsClaim(store[k], d.artifact.claim)
      /\ \A e \in DecidedWithArtifact(k) : d # e => d.request.basis # e.request.basis

\* A signature that arrives after the case was cancelled is not recorded.
NoAttestationAfterCancellation ==
    \A k \in Key : store[k] # NoCase /\ store[k].state = "Cancelled" =>
      \A d \in DecidedWithArtifact(k) : d.resulting < store[k].revision
=============================================================================
