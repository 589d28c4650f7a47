----------------------------- MODULE ReviewProofs -----------------------------
(***************************************************************************)
(* Proofs about professional review, for any number of tenants, cases,     *)
(* callers, requests and decisions: types, one decision per request, no    *)
(* attestation after a cancellation, and, where callers save before        *)
(* operating again (OpsPerSave = 1), the correspondence of attestation     *)
(* materials and saved decisions.                                          *)
(***************************************************************************)
EXTENDS ProfessionalReview, CaseProofs

-----------------------------------------------------------------------------
(* The inductive invariants.                                                 *)

\* Requests and decisions are stored under their own keys, and the index by
\* request leads to the decision about that request.
Indexed ==
    /\ \A t \in Tenant, id \in RequestId : requests[<<t, id>>] # None =>
         requests[<<t, id>>].tenantId = t /\ requests[<<t, id>>].requestId = id
    /\ \A t \in Tenant, i \in DecisionId : decisions[<<t, i>>] # None =>
         LET d == decisions[<<t, i>>] IN
           /\ d.decisionId = i /\ d.request.tenantId = t
           /\ byRequest[<<t, d.request.requestId>>] = i
    /\ \A t \in Tenant, id \in RequestId : byRequest[<<t, id>>] # None =>
         LET d == decisions[<<t, byRequest[<<t, id>>]>>] IN
           d # None /\ d.request.requestId = id

\* The attestation materials of a case.
Attested(c) == {x \in c.materials : x.payload.kind = "Attestation"}

\* Material y is material x, answering at least the requirements x answers.
Widens(x, y) ==
    /\ y.materialId = x.materialId /\ y.payload = x.payload
    /\ x.requirementIds \subseteq y.requirementIds

\* The attestation materials of c and d are the same but for the requirements
\* they answer, which are at least as many in d.
SameAttestations(c, d) ==
    /\ \A x \in Attested(c) : \E y \in Attested(d) : Widens(x, y)
    /\ \A y \in Attested(d) : \E x \in Attested(c) : Widens(x, y)

\* Case c of a caller whose decision has produced nothing yet holds the attestations
\* of its base b.
Unsigned(b, c) ==
    c # NoCase => IF b = NoCase THEN Attested(c) = {} ELSE SameAttestations(b, c)

\* Case c is case b and the attestation that decision d has asked for.
Signed(b, c, d) ==
    /\ b # NoCase /\ c # NoCase /\ d.artifact # None
    /\ d.request.basis = b.revision /\ d.resulting = b.revision + 1
    /\ \E now \in Time, t \in Tenant :
         /\ CanAddMaterial(t, b, d.artifact.materialId,
                           AttestationPayload(d.artifact.attestation),
                           {d.request.requirementId}, now)
         /\ c = WithMaterial(b, d.artifact.materialId,
                             AttestationPayload(d.artifact.attestation),
                             {d.request.requirementId}, now)
    /\ HoldsClaim(b, d.artifact.claim)

\* What a caller holds while it makes decision d: the case the decision is about,
\* at the decision's basis until the attestation is signed.
DraftInOrder(b, c, d) ==
    /\ d # None => /\ c # NoCase /\ KeyOf(c) = <<d.request.tenantId, d.request.caseId>>
                   /\ d.resulting = 0 =>
                        /\ d.request.basis = c.revision
                        /\ d.artifact # None => HoldsClaim(c, d.artifact.claim)
                   /\ d.resulting # 0 => Signed(b, c, d)
    /\ d = None \/ d.resulting = 0 => Unsigned(b, c)

\* The attestations of stored case c and the decisions D about it that have an
\* artifact: they correspond by their materials, no two share one, and each
\* decision extended its basis by a revision the case has reached or passed.
Corresponds(c, D) ==
    /\ c = NoCase => D = {}
    /\ c # NoCase =>
         /\ \A x \in Attested(c) : \E d \in D : Answers(x, d)
         /\ \A d \in D : /\ \E x \in Attested(c) : Answers(x, d)
                         /\ d.resulting = d.request.basis + 1
                         /\ d.resulting <= c.revision
                         /\ c.state = "Cancelled" => d.resulting < c.revision
                         /\ HoldsClaim(c, d.artifact.claim)
    /\ \A d, e \in D : d # e => /\ d.artifact.materialId # e.artifact.materialId
                                /\ d.request.basis # e.request.basis

ReviewInv ==
    /\ ReviewTypeOK /\ LineageInv /\ Indexed
    /\ \A w \in Writer : DraftInOrder(base[w], hand[w], draft[w])
    /\ \A k \in Key : Corresponds(store[k], DecidedWithArtifact(k))

-----------------------------------------------------------------------------
(* Types, and the steps of a review seen by the case repository.             *)

\* What a decision consists of.
LEMMA DecisionFields ==
    ASSUME NEW d \in Decision
    PROVE  /\ d # None /\ d.decisionId \in DecisionId /\ d.request \in Request
           /\ d.request.requestId \in RequestId /\ d.request.tenantId \in Tenant
           /\ d.request.caseId \in CaseId /\ d.request.basis \in Nat \ {0}
           /\ d.resulting \in Nat /\ d.artifact \in Artifact \cup {None}
           /\ {d.request.requirementId} \in SUBSET Requirement
           /\ d.artifact # None =>
                /\ d.artifact.materialId \in Material
                /\ AttestationPayload(d.artifact.attestation) \in Payload
                /\ AttestationPayload(d.artifact.attestation).kind = "Attestation"
           /\ \A n \in Nat : [d EXCEPT !.resulting = n] \in Decision
<1>1. /\ d # None /\ d.decisionId \in DecisionId /\ d.request \in Request
      /\ d.resulting \in Nat /\ d.artifact \in Artifact \cup {None}
      /\ \A n \in Nat : [d EXCEPT !.resulting = n] \in Decision
  BY ReviewAssumption DEF Decision
<1>2. /\ d.request.requestId \in RequestId /\ d.request.tenantId \in Tenant
      /\ d.request.caseId \in CaseId /\ d.request.basis \in Nat \ {0}
      /\ d.request.requirementId \in AttestationRequirement
  BY <1>1 DEF Request
<1>3. d.request.requirementId \in Requirement
  BY <1>2, ReviewAssumption, CaseAssumption
<1>4. d.artifact # None => d.artifact.materialId \in Material /\ d.artifact.attestation \in Attestation
  BY <1>1 DEF Artifact
<1>5. \A a \in Attestation : /\ AttestationPayload(a) \in Payload
                             /\ AttestationPayload(a).kind = "Attestation"
  BY ReviewAssumption DEF AttestationPayload
<1> QED
  BY <1>1, <1>2, <1>3, <1>4, <1>5

\* A decision is dropped together with the case it had produced.
Reset(w) ==
    /\ draft[w] # None /\ draft[w].resulting # 0
    /\ hand' = [hand EXCEPT ![w] = base[w]]
    /\ UNCHANGED <<store, base>>

\* A signature is one addition of material.
LEMMA SignIsStep ==
    ASSUME ReviewTypeOK, NEW w \in Writer, NEW t \in Tenant, NEW now \in Time, Sign(w, t, now)
    PROVE  /\ Step(w) /\ draft[w] \in Decision /\ draft[w].artifact # None
           /\ draft[w].resulting = 0
<1>1. draft[w] \in Decision /\ draft[w].artifact # None /\ draft[w].resulting = 0
  BY DEF Sign, AwaitsSigner, ReviewTypeOK
<1>2. AddMaterial(w, t, draft[w].artifact.materialId,
                  AttestationPayload(draft[w].artifact.attestation),
                  {draft[w].request.requirementId}, now)
  BY DEF Sign
<1> QED
  BY <1>1, <1>2, DecisionFields DEF Step

\* The case operations callers apply are steps of the repository.
LEMMA WorkIsStep ==
    ASSUME NEW w \in Writer, Work(w)
    PROVE  Step(w)
<1>1. ASSUME NEW t \in Tenant, NEW now \in Time, NEW m \in Material,
             NEW rs \in SUBSET Requirement, NEW c \in Claim,
             AddMaterial(w, t, m, ClaimPayload(c), rs, now)
      PROVE  Step(w)
  <2>1. ClaimPayload(c) \in Payload
    BY ReviewAssumption
  <2> QED
    BY <1>1, <2>1 DEF Step
<1>2. ASSUME NEW t \in Tenant, NEW now \in Time, NEW m \in Material,
             NEW rs \in SUBSET Requirement, Associate(w, t, m, rs, now)
      PROVE  Step(w)
  BY <1>2 DEF Step
<1>3. ASSUME NEW t \in Tenant, NEW now \in Time, Activate(w, t, now) \/ Cancel(w, t, now)
      PROVE  Step(w)
  BY <1>3 DEF Step
<1>4. ASSUME NEW t \in Tenant, NEW id \in CaseId,
             Get(w, t, id) \/ \E now \in Time : Create(w, t, id, now)
      PROVE  Step(w)
  BY <1>4 DEF Step
<1>5. CASE Save(w)
  BY <1>5 DEF Step
<1> QED
  BY <1>1, <1>2, <1>3, <1>4, <1>5 DEF Work

\* A step of a caller is a step of the repository, leaves it alone, or is a reset.
LEMMA ReviewStepCases ==
    ASSUME ReviewTypeOK, NEW w \in Writer, ReviewStep(w)
    PROVE  Step(w) \/ UNCHANGED vars \/ Reset(w)
<1>1. CASE Work(w)
  BY <1>1, WorkIsStep
<1>2. CASE GiveUp(w)
  <2>1. CASE draft[w].resulting = 0
    BY <1>2, <2>1 DEF GiveUp, vars, ReviewTypeOK, TypeOK
  <2>2. CASE draft[w].resulting # 0
    BY <1>2, <2>2 DEF GiveUp, Reset
  <2> QED
    BY <2>1, <2>2
<1>3. CASE Commit(w)
  BY <1>3 DEF Commit, Step
<1>4. ASSUME NEW t \in Tenant, NEW now \in Time, Sign(w, t, now) PROVE Step(w)
  BY <1>4, SignIsStep
<1>5. ASSUME NEW t \in Tenant, NEW now \in Time, NEW id, NEW r,
             RequestReview(w, t, id, r, now)
      PROVE  UNCHANGED vars
  BY <1>5 DEF RequestReview, vars
<1>6. ASSUME NEW t \in Tenant, NEW now \in Time, NEW q, NEW d, NEW artifact,
             Decide(w, t, q, d, artifact, now)
      PROVE  UNCHANGED vars
  BY <1>6 DEF Decide, vars
<1> QED
  BY <1>1, <1>2, <1>3, <1>4, <1>5, <1>6 DEF ReviewStep

\* Every step leaves every variable with a value of its type.
LEMMA ReviewTypeStep ==
    ASSUME ReviewTypeOK, [ReviewNext]_reviewVars
    PROVE  ReviewTypeOK'
<1> DEFINE DraftType == draft' \in [Writer -> Decision \cup {None}]
           ReposType ==
             /\ requests' \in [Tenant \X RequestId -> Request \cup {None}]
             /\ decisions' \in [Tenant \X DecisionId -> Decision \cup {None}]
             /\ byRequest' \in [Tenant \X RequestId -> DecisionId \cup {None}]
<1>1. CASE UNCHANGED reviewVars
  BY <1>1 DEF reviewVars, ReviewTypeOK, TypeOK
<1>2. ASSUME NEW w \in Writer, ReviewStep(w) PROVE ReviewTypeOK'
  <2>1. TypeOK'
    <3>1. CASE Step(w) \/ UNCHANGED vars
      BY <3>1, TypeStep DEF Next, ReviewTypeOK
    <3>2. CASE Reset(w)
      BY <3>2 DEF Reset, ReviewTypeOK, TypeOK
    <3> QED
      BY <1>2, <3>1, <3>2, ReviewStepCases
  <2>2. CASE Work(w) \/ GiveUp(w)
    <3>1. DraftType /\ ReposType
      BY <2>2 DEF Work, GiveUp, ReviewTypeOK
    <3> QED
      BY <2>1, <3>1 DEF ReviewTypeOK
  <2>3. CASE Commit(w)
    <3> DEFINE d == draft[w]
    <3>1. d \in Decision
      BY <2>3 DEF Commit, ReviewTypeOK
    <3> HIDE DEF d
    <3>2. /\ draft' = [draft EXCEPT ![w] = None] /\ requests' = requests
          /\ decisions' = [decisions EXCEPT ![<<d.request.tenantId, d.decisionId>>] = d]
          /\ byRequest' = [byRequest EXCEPT
               ![<<d.request.tenantId, d.request.requestId>>] = d.decisionId]
      BY <2>3 DEF Commit, AppendDecision, d
    <3>3. DraftType /\ ReposType
      BY <3>1, <3>2, DecisionFields DEF ReviewTypeOK
    <3> QED
      BY <2>1, <3>3 DEF ReviewTypeOK
  <2>4. ASSUME NEW t \in Tenant, NEW now \in Time, Sign(w, t, now) PROVE ReviewTypeOK'
    <3>1. draft[w] \in Decision /\ hand[w].revision + 1 \in Nat
      <4>1. hand[w] \in Case
        BY <2>4 DEF Sign, AddMaterial, MayOperate, ReviewTypeOK, TypeOK
      <4> QED
        BY <2>4, <4>1, SignIsStep, CaseNumbers
    <3>2. [draft[w] EXCEPT !.resulting = hand[w].revision + 1] \in Decision
      BY <3>1, DecisionFields
    <3>3. DraftType /\ ReposType
      BY <2>4, <3>2 DEF Sign, ReviewTypeOK
    <3> QED
      BY <2>1, <3>3 DEF ReviewTypeOK
  <2>5. ASSUME NEW t \in Tenant, NEW now \in Time, NEW id \in RequestId,
               NEW r \in AttestationRequirement, RequestReview(w, t, id, r, now)
        PROVE  ReviewTypeOK'
    <3> DEFINE q == [requestId |-> id, tenantId |-> t, caseId |-> hand[w].caseId,
                     requirementId |-> r, basis |-> hand[w].revision, requestedAt |-> now]
    <3>1. hand[w] \in Case
      BY <2>5 DEF RequestReview, ReviewTypeOK, TypeOK
    <3>2. q \in Request
      BY <3>1 DEF Request, Case
    <3> HIDE DEF q
    <3>3. /\ requests' = [requests EXCEPT ![<<t, id>>] = q]
          /\ UNCHANGED <<draft, decisions, byRequest>>
      BY <2>5 DEF RequestReview, q
    <3>4. DraftType /\ ReposType
      BY <3>2, <3>3 DEF ReviewTypeOK
    <3> QED
      BY <2>1, <3>4 DEF ReviewTypeOK
  <2>6. ASSUME NEW t \in Tenant, NEW now \in Time, NEW id \in RequestId, NEW i \in DecisionId,
               NEW artifact \in Artifact \cup {None},
               Decide(w, t, requests[<<t, id>>], i, artifact, now)
        PROVE  ReviewTypeOK'
    <3> DEFINE d == [decisionId |-> i, request |-> requests[<<t, id>>], artifact |-> artifact,
                     resulting |-> 0, decidedAt |-> now]
    <3>1. requests[<<t, id>>] \in Request
      BY <2>6 DEF Decide, ReviewTypeOK
    <3>2. d \in Decision
      BY <3>1 DEF Decision
    <3> HIDE DEF d
    <3>3. /\ draft' = [draft EXCEPT ![w] = d]
          /\ UNCHANGED <<requests, decisions, byRequest>>
      BY <2>6 DEF Decide, d
    <3>4. DraftType /\ ReposType
      BY <3>2, <3>3 DEF ReviewTypeOK
    <3> QED
      BY <2>1, <3>4 DEF ReviewTypeOK
  <2> QED
    BY <1>2, <2>2, <2>3, <2>4, <2>5, <2>6 DEF ReviewStep
<1> QED
  BY <1>1, <1>2 DEF ReviewNext

\* Everything the review stores, and every decision being made, is of its type.
THEOREM ReviewTypeCorrect == ReviewSpec => []ReviewTypeOK
<1>1. ReviewInit => ReviewTypeOK
  BY DEF ReviewInit, Init, ReviewTypeOK, TypeOK
<1> QED
  BY <1>1, ReviewTypeStep, PTL DEF ReviewSpec

-----------------------------------------------------------------------------
(* One decision per request.                                                 *)

\* A decision that was saved, with the key it was saved under.
LEMMA SavedDecision ==
    ASSUME ReviewTypeOK, Indexed, NEW d \in Decided
    PROVE  /\ d \in Decision
           /\ decisions[<<d.request.tenantId, d.decisionId>>] = d
           /\ byRequest[<<d.request.tenantId, d.request.requestId>>] = d.decisionId
<1>1. PICK t \in Tenant, i \in DecisionId : d = decisions[<<t, i>>] /\ d # None
  BY DEF Decided
<1>2. d \in Decision
  BY <1>1 DEF ReviewTypeOK
<1>3. /\ d.decisionId = i /\ d.request.tenantId = t
      /\ byRequest[<<t, d.request.requestId>>] = i
  BY <1>1 DEF Indexed
<1> QED
  BY <1>1, <1>2, <1>3

\* What committing a decision does to the decision repository.
LEMMA CommitAppends ==
    ASSUME ReviewTypeOK, NEW w \in Writer, Commit(w)
    PROVE  LET d == draft[w]
               key == <<d.request.tenantId, d.decisionId>>
               requestKey == <<d.request.tenantId, d.request.requestId>>
           IN  /\ d \in Decision /\ key \in Tenant \X DecisionId
               /\ requestKey \in Tenant \X RequestId
               /\ decisions[key] = None /\ byRequest[requestKey] = None
               /\ decisions' = [decisions EXCEPT ![key] = d]
               /\ byRequest' = [byRequest EXCEPT ![requestKey] = d.decisionId]
               /\ UNCHANGED requests
<1>1. draft[w] \in Decision
  BY DEF Commit, ReviewTypeOK
<1> QED
  BY <1>1, DecisionFields DEF Commit, AppendDecision

\* Every step leaves the repositories indexed.
LEMMA IndexStep ==
    ASSUME ReviewTypeOK, Indexed, [ReviewNext]_reviewVars
    PROVE  Indexed'
<1>1. CASE UNCHANGED <<requests, decisions, byRequest>>
  BY <1>1 DEF Indexed
<1>2. ASSUME NEW w \in Writer, NEW t \in Tenant, NEW now \in Time, NEW id \in RequestId,
             NEW r \in AttestationRequirement, RequestReview(w, t, id, r, now)
      PROVE  Indexed'
  <2> DEFINE q == [requestId |-> id, tenantId |-> t, caseId |-> hand[w].caseId,
                   requirementId |-> r, basis |-> hand[w].revision, requestedAt |-> now]
  <2>1. q.tenantId = t /\ q.requestId = id
    OBVIOUS
  <2> HIDE DEF q
  <2>2. requests' = [requests EXCEPT ![<<t, id>>] = q] /\ UNCHANGED <<decisions, byRequest>>
    BY <1>2 DEF RequestReview, q
  <2> QED
    BY <2>1, <2>2 DEF Indexed, ReviewTypeOK
<1>3. ASSUME NEW w \in Writer, Commit(w) PROVE Indexed'
  <2> DEFINE d == draft[w]
             T == d.request.tenantId
             rid == d.request.requestId
             did == d.decisionId
  <2>1. /\ T \in Tenant /\ rid \in RequestId /\ did \in DecisionId /\ d # None
        /\ decisions[<<T, did>>] = None /\ byRequest[<<T, rid>>] = None
        /\ decisions' = [decisions EXCEPT ![<<T, did>>] = d]
        /\ byRequest' = [byRequest EXCEPT ![<<T, rid>>] = did]
        /\ UNCHANGED requests
    BY <1>3, CommitAppends, DecisionFields
  <2>2. d.request.tenantId = T /\ d.request.requestId = rid /\ d.decisionId = did
    OBVIOUS
  <2> HIDE DEF d, T, rid, did
  <2>3. /\ None \notin DecisionId
        /\ decisions \in [Tenant \X DecisionId -> Decision \cup {None}]
        /\ byRequest \in [Tenant \X RequestId -> DecisionId \cup {None}]
    BY ReviewAssumption DEF ReviewTypeOK
  <2>4. ASSUME NEW t \in Tenant, NEW i \in DecisionId, decisions'[<<t, i>>] # None
        PROVE  LET e == decisions'[<<t, i>>] IN
                 /\ e.decisionId = i /\ e.request.tenantId = t
                 /\ byRequest'[<<t, e.request.requestId>>] = i
    <3>1. CASE t = T /\ i = did
      BY <2>1, <2>2, <2>3, <3>1
    <3>2. CASE ~(t = T /\ i = did)
      <4>1. decisions'[<<t, i>>] = decisions[<<t, i>>] /\ decisions[<<t, i>>] \in Decision
        BY <2>1, <2>3, <2>4, <3>2
      <4> DEFINE e == decisions[<<t, i>>]
      <4>2. e.decisionId = i /\ e.request.tenantId = t /\ byRequest[<<t, e.request.requestId>>] = i
        BY <2>4, <4>1 DEF Indexed
      <4>3. e.request.requestId \in RequestId
        BY <4>1, DecisionFields
      <4> HIDE DEF e
      <4>4. ~(t = T /\ e.request.requestId = rid)
        BY <2>1, <2>3, <4>2
      <4>5. byRequest'[<<t, e.request.requestId>>] = byRequest[<<t, e.request.requestId>>]
        BY <2>1, <2>3, <4>3, <4>4
      <4>6. decisions'[<<t, i>>] = e
        BY <4>1 DEF e
      <4> QED
        BY <4>2, <4>5, <4>6
    <3> QED
      BY <3>1, <3>2
  <2>5. ASSUME NEW t \in Tenant, NEW id \in RequestId, byRequest'[<<t, id>>] # None
        PROVE  LET e == decisions'[<<t, byRequest'[<<t, id>>]>>] IN
                 e # None /\ e.request.requestId = id
    <3>1. CASE t = T /\ id = rid
      BY <2>1, <2>2, <2>3, <3>1
    <3>2. CASE ~(t = T /\ id = rid)
      <4> DEFINE i == byRequest[<<t, id>>]
      <4>1. byRequest'[<<t, id>>] = i /\ i # None
        BY <2>1, <2>3, <2>5, <3>2
      <4>2. i \in DecisionId
        BY <2>3, <4>1
      <4>3. decisions[<<t, i>>] # None /\ decisions[<<t, i>>].request.requestId = id
        BY <4>1 DEF Indexed
      <4> HIDE DEF i
      <4>4. decisions'[<<t, i>>] = decisions[<<t, i>>]
        BY <2>1, <2>3, <4>2, <4>3
      <4> QED
        BY <4>1, <4>3, <4>4
    <3> QED
      BY <3>1, <3>2
  <2> QED
    BY <2>1, <2>4, <2>5 DEF Indexed
<1>4. CASE UNCHANGED reviewVars
  BY <1>1, <1>4 DEF reviewVars
<1>5. ASSUME NEW w \in Writer, ReviewStep(w) PROVE Indexed'
  <2>1. CASE Work(w) \/ GiveUp(w)
    BY <1>1, <2>1 DEF Work, GiveUp
  <2>2. ASSUME NEW t \in Tenant, NEW now \in Time, Sign(w, t, now) PROVE Indexed'
    BY <1>1, <2>2 DEF Sign
  <2>3. ASSUME NEW t, NEW now, NEW q, NEW i, NEW artifact, Decide(w, t, q, i, artifact, now)
        PROVE  Indexed'
    BY <1>1, <2>3 DEF Decide
  <2> QED
    BY <1>2, <1>3, <1>5, <2>1, <2>2, <2>3 DEF ReviewStep
<1> QED
  BY <1>4, <1>5 DEF ReviewNext

\* The repositories are indexed at the start.
LEMMA IndexInit ==
    ASSUME ReviewInit
    PROVE  ReviewTypeOK /\ Indexed
BY DEF ReviewInit, Init, ReviewTypeOK, TypeOK, Indexed

\* However many callers decide a request at a time, one decision is saved for it, and
\* the index leads to that one.
THEOREM OneDecisionTheorem == ReviewSpec => []OneDecisionPerRequest
<1>1. ReviewTypeOK /\ Indexed => OneDecisionPerRequest
  <2> SUFFICES ASSUME ReviewTypeOK, Indexed, NEW d \in Decided, NEW id \in RequestId
               PROVE  id = d.request.requestId
                        <=> byRequest[<<d.request.tenantId, id>>] = d.decisionId
    BY DEF OneDecisionPerRequest
  <2>1. /\ d \in Decision /\ decisions[<<d.request.tenantId, d.decisionId>>] = d
        /\ byRequest[<<d.request.tenantId, d.request.requestId>>] = d.decisionId
    BY SavedDecision
  <2>2. d.request.tenantId \in Tenant /\ d.decisionId # None
    BY <2>1, DecisionFields, ReviewAssumption
  <2>3. ASSUME byRequest[<<d.request.tenantId, id>>] = d.decisionId
        PROVE  id = d.request.requestId
    BY <2>1, <2>2, <2>3 DEF Indexed
  <2> QED
    BY <2>1, <2>3
<1>2. ReviewTypeOK /\ Indexed /\ [ReviewNext]_reviewVars => (ReviewTypeOK /\ Indexed)'
  BY ReviewTypeStep, IndexStep
<1> QED
  BY <1>1, <1>2, IndexInit, PTL DEF ReviewSpec

-----------------------------------------------------------------------------
(* Attestation materials of one case.                                        *)

\* A case has its own attestations.
LEMMA SameReflexive ==
    ASSUME NEW c
    PROVE  SameAttestations(c, c)
BY DEF SameAttestations, Widens

\* Associating a material may widen what an attestation answers.
LEMMA AssociationAttests ==
    ASSUME NEW c \in Case, NEW m \in Material, NEW rs, NEW now
    PROVE  SameAttestations(c, WithAssociation(c, m, rs, now))
<1> DEFINE d == WithAssociation(c, m, rs, now)
           wider(x) == [x EXCEPT !.requirementIds = x.requirementIds \cup rs]
           new(x) == IF x.materialId = m THEN wider(x) ELSE x
<1>1. d.materials = {new(x) : x \in c.materials}
  BY DEF WithAssociation, Case
<1>2. c.materials \subseteq CaseMaterial
  BY DEF Case
<1>3. ASSUME NEW x \in c.materials
      PROVE  /\ new(x) \in d.materials /\ Widens(x, new(x))
             /\ new(x).payload.kind = x.payload.kind
  <2>1. /\ wider(x).materialId = x.materialId /\ wider(x).payload = x.payload
        /\ wider(x).requirementIds = x.requirementIds \cup rs
    BY <1>2 DEF CaseMaterial
  <2> HIDE DEF wider
  <2> QED
    BY <1>1, <2>1 DEF Widens
<1> HIDE DEF d, new
<1>4. \A y \in d.materials : \E x \in c.materials : y = new(x)
  BY <1>1
<1>5. SameAttestations(c, d)
  BY <1>3, <1>4 DEF SameAttestations, Attested
<1> QED
  BY <1>5 DEF d

\* Adding a claim's material, or no material, leaves the attestations as they are.
LEMMA ClaimsAttestNothing ==
    ASSUME NEW c \in Case, NEW d, NEW now,
           \/ d = Activated(c, now) \/ d = Cancelled(c, now)
           \/ \E m, rs, k : d = WithMaterial(c, m, ClaimPayload(k), rs, now)
    PROVE  SameAttestations(c, d)
<1>1. CASE d = Activated(c, now) \/ d = Cancelled(c, now)
  <2>1. d.materials = c.materials
    BY <1>1 DEF Activated, Cancelled, Case
  <2>2. Attested(d) = Attested(c)
    BY <2>1 DEF Attested
  <2> QED
    BY <2>2, SameReflexive DEF SameAttestations
<1>2. ASSUME NEW m, NEW rs, NEW k, d = WithMaterial(c, m, ClaimPayload(k), rs, now)
      PROVE  SameAttestations(c, d)
  <2> DEFINE x == [materialId |-> m, payload |-> ClaimPayload(k), requirementIds |-> rs,
                   addedAt |-> now]
  <2>1. d.materials = c.materials \cup {x}
    BY <1>2 DEF WithMaterial, Case
  <2>2. x.payload.kind # "Attestation"
    BY DEF ClaimPayload
  <2> HIDE DEF x
  <2>3. Attested(d) = Attested(c)
    BY <2>1, <2>2 DEF Attested
  <2> QED
    BY <2>3, SameReflexive DEF SameAttestations
<1> QED
  BY <1>1, <1>2

\* A claim in a case stays there.
LEMMA ClaimsStay ==
    ASSUME NEW c, NEW d, NEW claim, HoldsClaim(c, claim), \A x \in c.materials : Retains(d, x)
    PROVE  HoldsClaim(d, claim)
BY DEF HoldsClaim, Retains

\* A signature adds the attestation the decision asked for, and nothing else.
LEMMA SignedCase ==
    ASSUME NEW b \in Case, NEW c, NEW d \in Decision, Signed(b, c, d)
    PROVE  /\ \E t \in Tenant : OperationStep(t, b, c)
           /\ c.state = b.state /\ b.state # "Cancelled"
           /\ \A x \in b.materials : x.materialId # d.artifact.materialId
           /\ \E x : Answers(x, d) /\ Attested(c) = Attested(b) \cup {x}
<1> DEFINE m == d.artifact.materialId
           p == AttestationPayload(d.artifact.attestation)
           rs == {d.request.requirementId}
<1>1. m \in Material /\ p \in Payload /\ rs \in SUBSET Requirement /\ p.kind = "Attestation"
  BY DecisionFields DEF Signed
<1>2. /\ d.artifact.materialId = m /\ AttestationPayload(d.artifact.attestation) = p
      /\ d.request.requirementId \in rs
  OBVIOUS
<1>3. PICK now \in Time, t \in Tenant :
        CanAddMaterial(t, b, m, p, rs, now) /\ c = WithMaterial(b, m, p, rs, now)
  BY DEF Signed
<1> HIDE DEF m, p, rs
<1> DEFINE x == [materialId |-> m, payload |-> p, requirementIds |-> rs, addedAt |-> now]
<1>4. c.materials = b.materials \cup {x} /\ c.state = b.state
  BY <1>3 DEF WithMaterial, Case
<1>5. x.materialId = m /\ x.payload = p /\ x.requirementIds = rs
  OBVIOUS
<1> HIDE DEF x
<1>6. Attested(c) = Attested(b) \cup {x}
  BY <1>1, <1>4, <1>5 DEF Attested
<1>7. Answers(x, d)
  BY <1>2, <1>5 DEF Answers
<1>8. OperationStep(t, b, c)
  BY <1>1, <1>3 DEF OperationStep
<1>9. b.state # "Cancelled" /\ \A y \in b.materials : y.materialId # m
  BY <1>3 DEF CanAddMaterial, AdmitsMaterial, AcceptsMaterial
<1> QED
  BY <1>2, <1>4, <1>6, <1>7, <1>8, <1>9

\* What answers a decision still does when it is widened, and the other way round.
LEMMA WideningAnswers ==
    ASSUME NEW b, NEW c, SameAttestations(b, c), NEW D
    PROVE  /\ (\A x \in Attested(b) : \E d \in D : Answers(x, d)) =>
                \A y \in Attested(c) : \E d \in D : Answers(y, d)
           /\ \A d \in D : (\E x \in Attested(b) : Answers(x, d)) =>
                \E y \in Attested(c) : Answers(y, d)
<1>1. ASSUME NEW x, NEW y, NEW d, Widens(x, y), Answers(x, d) PROVE Answers(y, d)
  BY <1>1 DEF Widens, Answers
<1> QED
  BY <1>1 DEF SameAttestations

\* An operation that leaves the attestations as they are keeps the correspondence.
LEMMA CorrespondsAfterOperation ==
    ASSUME NEW t, NEW b \in Case, NEW c, OperationStep(t, b, c), SameAttestations(b, c),
           NEW D \in SUBSET Decision, Corresponds(b, D)
    PROVE  Corresponds(c, D)
<1>1. /\ c \in Case /\ b # NoCase /\ c # NoCase /\ b.revision \in Nat
      /\ c.revision = b.revision + 1
  BY OperationResult, CaseNumbers, CaseAssumption
<1>2. \A y \in Attested(c) : \E d \in D : Answers(y, d)
  BY <1>1, WideningAnswers DEF Corresponds
<1>3. ASSUME NEW d \in D
      PROVE  /\ \E y \in Attested(c) : Answers(y, d)
             /\ d.resulting = d.request.basis + 1
             /\ d.resulting <= c.revision /\ d.resulting < c.revision
             /\ HoldsClaim(c, d.artifact.claim)
  <2>1. /\ \E x \in Attested(b) : Answers(x, d)
        /\ d.resulting = d.request.basis + 1
        /\ d.resulting <= b.revision /\ HoldsClaim(b, d.artifact.claim)
    BY <1>1, <1>3 DEF Corresponds
  <2>2. \E y \in Attested(c) : Answers(y, d)
    BY <1>3, <2>1, WideningAnswers
  <2>3. HoldsClaim(c, d.artifact.claim)
    BY <2>1, OperationKeeps, ClaimsStay
  <2>4. d.resulting \in Nat
    BY <1>3, DecisionFields
  <2> QED
    BY <1>1, <2>1, <2>2, <2>3, <2>4
<1> QED
  BY <1>1, <1>2, <1>3 DEF Corresponds

\* A signature extends the correspondence by the decision and its material.
LEMMA CorrespondsAfterSignature ==
    ASSUME NEW b \in Case, NEW c, NEW d \in Decision, Signed(b, c, d),
           NEW D \in SUBSET Decision, Corresponds(b, D)
    PROVE  Corresponds(c, D \cup {d})
<1>1. PICK t \in Tenant : OperationStep(t, b, c)
  BY SignedCase
<1>2. PICK x : Answers(x, d) /\ Attested(c) = Attested(b) \cup {x}
  BY SignedCase
<1>3. /\ c \in Case /\ b # NoCase /\ c # NoCase /\ b.revision \in Nat
      /\ c.revision = b.revision + 1 /\ c.state # "Cancelled"
      /\ \A y \in b.materials : Retains(c, y)
      /\ \A y \in b.materials : y.materialId # d.artifact.materialId
  BY <1>1, OperationResult, OperationKeeps, CaseNumbers, CaseAssumption, SignedCase
<1>4. ASSUME NEW e \in D
      PROVE  /\ \E y \in Attested(b) : Answers(y, e)
             /\ e.resulting = e.request.basis + 1 /\ e.resulting <= b.revision
             /\ e.resulting \in Nat /\ e.request.basis \in Nat
             /\ HoldsClaim(c, e.artifact.claim)
  <2>1. e.resulting \in Nat /\ e.request.basis \in Nat
    BY <1>4, DecisionFields
  <2>2. HoldsClaim(b, e.artifact.claim)
    BY <1>3, <1>4 DEF Corresponds
  <2> QED
    BY <1>3, <1>4, <2>1, <2>2, ClaimsStay DEF Corresponds
<1>5. /\ d.request.basis = b.revision /\ d.resulting = b.revision + 1
      /\ HoldsClaim(c, d.artifact.claim)
  BY <1>3, ClaimsStay DEF Signed
<1>6. \A y \in Attested(c) : \E e \in D \cup {d} : Answers(y, e)
  BY <1>2, <1>3 DEF Corresponds
<1>7. ASSUME NEW e \in D \cup {d}
      PROVE  /\ \E y \in Attested(c) : Answers(y, e)
             /\ e.resulting = e.request.basis + 1
             /\ e.resulting <= c.revision
             /\ HoldsClaim(c, e.artifact.claim)
  <2>1. CASE e = d
    BY <1>2, <1>3, <1>5, <2>1
  <2>2. CASE e \in D
    <3>1. e.resulting <= c.revision
      BY <1>3, <1>4, <2>2
    <3> QED
      BY <1>2, <1>4, <2>2, <3>1
  <2> QED
    BY <1>7, <2>1, <2>2
<1>8. ASSUME NEW e \in D
      PROVE  e.artifact.materialId # d.artifact.materialId /\ e.request.basis # d.request.basis
  <2>1. e.artifact.materialId # d.artifact.materialId
    BY <1>3, <1>4, <1>8 DEF Attested, Answers
  <2>2. e.request.basis # d.request.basis
    BY <1>3, <1>4, <1>5, <1>8
  <2> QED
    BY <2>1, <2>2
<1>9. \A e, f \in D \cup {d} : e # f => /\ e.artifact.materialId # f.artifact.materialId
                                       /\ e.request.basis # f.request.basis
  BY <1>8 DEF Corresponds
<1> QED
  BY <1>3, <1>6, <1>7, <1>9 DEF Corresponds

-----------------------------------------------------------------------------
(* Preservation of the invariant.                                            *)

\* Under review too, the lineage of every caller stays known: a reset returns to
\* the base.
LEMMA ReviewLineageStep ==
    ASSUME OpsPerSave = 1, ReviewInv, [ReviewNext]_reviewVars
    PROVE  LineageInv'
<1>1. CASE UNCHANGED vars
  BY <1>1, LineageStep DEF ReviewInv
<1>2. ASSUME NEW w \in Writer, Step(w) PROVE LineageInv'
  BY <1>2, LineageStep DEF ReviewInv, Next
<1>3. ASSUME NEW w \in Writer, Reset(w) PROVE LineageInv'
  <2>1. /\ store' = store /\ base' = base /\ hand[w] # NoCase
        /\ hand'[w] = base[w] /\ \A v \in Writer : v # w => hand'[v] = hand[v]
    BY <1>3 DEF Reset, ReviewInv, DraftInOrder, LineageInv, TypeOK
  <2>2. TypeOK' /\ StoreValid'
    BY <1>3 DEF Reset, ReviewInv, LineageInv, TypeOK, StoreValid
  <2>3. Lineage(w)'
    BY <2>1 DEF ReviewInv, LineageInv, Lineage
  <2>4. ASSUME NEW v \in Writer, v # w PROVE Lineage(v)'
    BY <2>1, <2>4 DEF ReviewInv, LineageInv, Lineage
  <2> QED
    BY <2>2, <2>3, <2>4 DEF LineageInv
<1>4. CASE UNCHANGED reviewVars
  BY <1>1, <1>4 DEF reviewVars, vars
<1> QED
  BY <1>1, <1>2, <1>3, <1>4, ReviewStepCases DEF ReviewNext, ReviewInv

\* A caller's step leaves the other callers' values alone.
LEMMA OthersKept ==
    ASSUME ReviewTypeOK, NEW w \in Writer, ReviewStep(w), NEW v \in Writer, v # w
    PROVE  base'[v] = base[v] /\ hand'[v] = hand[v] /\ draft'[v] = draft[v]
<1>1. base'[v] = base[v] /\ hand'[v] = hand[v]
  <2>1. CASE Step(w)
    <3>1. TypeOK
      BY DEF ReviewTypeOK
    <3> QED
      BY <2>1, <3>1, StepKeepsOthers
  <2>2. CASE UNCHANGED vars \/ Reset(w)
    BY <2>2 DEF vars, Reset, ReviewTypeOK, TypeOK
  <2> QED
    BY <2>1, <2>2, ReviewStepCases
<1>2. CASE Work(w) \/ GiveUp(w) \/ Commit(w)
  BY <1>1, <1>2 DEF Work, GiveUp, Commit, ReviewTypeOK
<1>3. ASSUME NEW t, NEW now, Sign(w, t, now) PROVE draft'[v] = draft[v]
  BY <1>3 DEF Sign, ReviewTypeOK
<1>4. ASSUME NEW t, NEW now, NEW id, NEW r, RequestReview(w, t, id, r, now)
      PROVE  draft'[v] = draft[v]
  BY <1>4 DEF RequestReview
<1>5. ASSUME NEW t, NEW now, NEW q, NEW d, NEW artifact, Decide(w, t, q, d, artifact, now)
      PROVE  draft'[v] = draft[v]
  BY <1>5 DEF Decide, ReviewTypeOK
<1> QED
  BY <1>1, <1>2, <1>3, <1>4, <1>5 DEF ReviewStep

\* What a caller does before it decides leaves the attestations of its case alone.
LEMMA WorkUnsigned ==
    ASSUME OpsPerSave = 1, ReviewInv, NEW w \in Writer, Work(w)
    PROVE  Unsigned(base'[w], hand'[w])
<1>1. draft[w] = None /\ Unsigned(base[w], hand[w]) /\ TypeOK /\ LineageInv
  BY DEF Work, ReviewInv, DraftInOrder, LineageInv
<1>2. CASE Save(w)
  <2>1. hand'[w] = hand[w] /\ base'[w] = hand[w]
    BY <1>1, <1>2 DEF Save, TypeOK
  <2> QED
    BY <2>1, SameReflexive DEF Unsigned
<1>3. ASSUME NEW t \in Tenant, NEW id \in CaseId, Get(w, t, id)
      PROVE  Unsigned(base'[w], hand'[w])
  <2>1. hand'[w] = base'[w]
    BY <1>1, <1>3 DEF Get, TypeOK
  <2> QED
    BY <2>1, SameReflexive DEF Unsigned
<1>4. ASSUME NEW t \in Tenant, NEW id \in CaseId, NEW now \in Time, Create(w, t, id, now)
      PROVE  Unsigned(base'[w], hand'[w])
  <2>1. base'[w] = NoCase /\ hand'[w] = Created(t, id, now)
    BY <1>1, <1>4 DEF Create, TypeOK
  <2>2. Created(t, id, now).materials = {}
    BY DEF Created
  <2> QED
    BY <2>1, <2>2 DEF Unsigned, Attested
<1>5. ASSUME MayOperate(w), UNCHANGED base, SameAttestations(hand[w], hand'[w])
      PROVE  Unsigned(base'[w], hand'[w])
  BY <1>1, <1>5, OperatesOnBase DEF Unsigned
<1>6. MayOperate(w) => hand[w] \in Case
  BY <1>1, OperatesOnBase
<1>7. ASSUME NEW t \in Tenant, NEW now \in Time, Activate(w, t, now) \/ Cancel(w, t, now)
      PROVE  Unsigned(base'[w], hand'[w])
  <2>1. /\ MayOperate(w) /\ UNCHANGED base
        /\ hand'[w] = Activated(hand[w], now) \/ hand'[w] = Cancelled(hand[w], now)
    BY <1>1, <1>7 DEF Activate, Cancel, TypeOK
  <2> QED
    BY <1>5, <1>6, <2>1, ClaimsAttestNothing
<1>8. ASSUME NEW t \in Tenant, NEW now \in Time, NEW m \in Material,
             NEW rs \in SUBSET Requirement, Associate(w, t, m, rs, now)
      PROVE  Unsigned(base'[w], hand'[w])
  <2>1. /\ MayOperate(w) /\ UNCHANGED base
        /\ hand'[w] = WithAssociation(hand[w], m, rs, now)
    BY <1>1, <1>8 DEF Associate, TypeOK
  <2> QED
    BY <1>5, <1>6, <2>1, AssociationAttests
<1>9. ASSUME NEW t \in Tenant, NEW now \in Time, NEW m \in Material,
             NEW rs \in SUBSET Requirement, NEW c \in Claim,
             AddMaterial(w, t, m, ClaimPayload(c), rs, now)
      PROVE  Unsigned(base'[w], hand'[w])
  <2>1. /\ MayOperate(w) /\ UNCHANGED base
        /\ hand'[w] = WithMaterial(hand[w], m, ClaimPayload(c), rs, now)
    BY <1>1, <1>9 DEF AddMaterial, TypeOK
  <2> QED
    BY <1>5, <1>6, <2>1, ClaimsAttestNothing
<1> QED
  BY <1>2, <1>3, <1>4, <1>7, <1>8, <1>9 DEF Work

\* Signing produces the case the decision asks for.
LEMMA SignProduces ==
    ASSUME OpsPerSave = 1, ReviewInv, NEW w \in Writer, NEW t \in Tenant, NEW now \in Time,
           Sign(w, t, now)
    PROVE  DraftInOrder(base'[w], hand'[w], draft'[w])
<1> DEFINE b == base[w]
           d == draft[w]
           e == [d EXCEPT !.resulting = hand[w].revision + 1]
<1>1. /\ d \in Decision /\ d.artifact # None /\ d.resulting = 0 /\ d # None
      /\ DraftInOrder(b, hand[w], d) /\ TypeOK /\ LineageInv
  BY SignIsStep, DecisionFields DEF ReviewInv, LineageInv
<1>2. MayOperate(w) /\ UNCHANGED base
  BY DEF Sign, AddMaterial
<1>3. b # NoCase /\ b \in Case /\ hand[w] = b
  BY <1>1, <1>2, OperatesOnBase
<1>4. /\ KeyOf(b) = <<d.request.tenantId, d.request.caseId>>
      /\ d.request.basis = b.revision /\ HoldsClaim(b, d.artifact.claim)
  BY <1>1, <1>3 DEF DraftInOrder
<1>5. /\ CanAddMaterial(t, b, d.artifact.materialId,
                        AttestationPayload(d.artifact.attestation),
                        {d.request.requirementId}, now)
      /\ hand'[w] = WithMaterial(b, d.artifact.materialId,
                                 AttestationPayload(d.artifact.attestation),
                                 {d.request.requirementId}, now)
  BY <1>1, <1>3 DEF Sign, AddMaterial, TypeOK
<1>6. draft'[w] = e
  BY DEF Sign, ReviewInv, ReviewTypeOK
<1>7. /\ e.artifact = d.artifact /\ e.request = d.request /\ e.resulting = b.revision + 1
  BY <1>1, <1>3 DEF Decision
<1>8. e.resulting # 0 /\ e \in Decision /\ e # None
  <2>1. b.revision + 1 \in Nat /\ b.revision + 1 # 0
    BY <1>3, CaseNumbers
  <2> QED
    BY <1>1, <1>3, <1>7, <2>1, DecisionFields
<1>9. OperationStep(t, b, hand'[w])
  BY <1>1, <1>5, DecisionFields DEF OperationStep
<1>10. hand'[w] # NoCase /\ KeyOf(hand'[w]) = KeyOf(b)
  BY <1>3, <1>9, OperationResult, CaseAssumption
<1> HIDE DEF b, d, e
<1>11. Signed(b, hand'[w], e)
  BY <1>1, <1>3, <1>4, <1>5, <1>7, <1>10 DEF Signed
<1>12. DraftInOrder(b, hand'[w], e)
  BY <1>4, <1>7, <1>8, <1>10, <1>11 DEF DraftInOrder
<1> QED
  BY <1>2, <1>6, <1>12 DEF b

\* A decision starts at the case its request is about.
LEMMA DecideInOrder ==
    ASSUME ReviewInv, NEW w \in Writer, NEW t \in Tenant, NEW now \in Time, NEW q,
           NEW i \in DecisionId, NEW artifact \in Artifact \cup {None},
           Decide(w, t, q, i, artifact, now)
    PROVE  DraftInOrder(base'[w], hand'[w], draft'[w])
<1> DEFINE d == [decisionId |-> i, request |-> q, artifact |-> artifact,
                 resulting |-> 0, decidedAt |-> now]
<1>1. /\ draft'[w] = d /\ UNCHANGED <<base, hand>> /\ draft[w] = None
      /\ DraftInOrder(base[w], hand[w], draft[w])
  BY DEF Decide, ReviewInv, ReviewTypeOK
<1>2. /\ hand[w] # NoCase /\ hand[w].tenantId = t
      /\ q.tenantId = t /\ q.caseId = hand[w].caseId /\ q.basis = hand[w].revision
      /\ artifact # None => HoldsClaim(hand[w], artifact.claim)
  BY DEF Decide, AcceptsReview, IsOperable, AtBasis
<1>3. d.request = q /\ d.artifact = artifact /\ d.resulting = 0
  OBVIOUS
<1> HIDE DEF d
<1>4. Unsigned(base[w], hand[w])
  BY <1>1 DEF DraftInOrder
<1>5. DraftInOrder(base[w], hand[w], d)
  BY <1>2, <1>3, <1>4 DEF DraftInOrder, KeyOf
<1> QED
  BY <1>1, <1>5

\* A draft given up leaves the case it was about.
LEMMA GiveUpInOrder ==
    ASSUME ReviewInv, NEW w \in Writer, GiveUp(w)
    PROVE  DraftInOrder(base'[w], hand'[w], draft'[w])
<1>1. /\ draft'[w] = None /\ base' = base
      /\ hand'[w] = IF draft[w].resulting = 0 THEN hand[w] ELSE base[w]
      /\ DraftInOrder(base[w], hand[w], draft[w])
  BY DEF GiveUp, ReviewInv, ReviewTypeOK, TypeOK
<1>2. Unsigned(base[w], hand'[w])
  BY <1>1, SameReflexive DEF DraftInOrder, Unsigned
<1> QED
  BY <1>1, <1>2 DEF DraftInOrder

\* A decision without an artifact has produced no case; one with an artifact, when it
\* is committed, has.
LEMMA CommitProduces ==
    ASSUME ReviewInv, NEW w \in Writer, Commit(w)
    PROVE  LET d == draft[w] IN
             /\ d \in Decision /\ hand[w] # NoCase
             /\ KeyOf(hand[w]) = <<d.request.tenantId, d.request.caseId>>
             /\ d.artifact = None => d.resulting = 0 /\ UNCHANGED vars
             /\ d.artifact # None => Signed(base[w], hand[w], d) /\ Save(w)
<1>1. draft[w] \in Decision /\ draft[w] # None /\ ~AwaitsSigner(w)
  BY DEF Commit, ReviewInv, ReviewTypeOK
<1>2. DraftInOrder(base[w], hand[w], draft[w])
  BY DEF ReviewInv
<1>3. draft[w].artifact = None => UNCHANGED vars
  BY DEF Commit
<1>4. draft[w].artifact # None => Save(w)
  BY DEF Commit
<1> QED
  BY <1>1, <1>2, <1>3, <1>4 DEF DraftInOrder, AwaitsSigner, Signed

\* A caller that has committed holds what is stored, or what it had.
LEMMA CommitInOrder ==
    ASSUME ReviewInv, NEW w \in Writer, Commit(w)
    PROVE  DraftInOrder(base'[w], hand'[w], draft'[w])
<1>1. draft'[w] = None /\ DraftInOrder(base[w], hand[w], draft[w])
  BY DEF Commit, ReviewInv, ReviewTypeOK
<1>2. Unsigned(base'[w], hand'[w])
  <2>1. CASE draft[w].artifact = None
    BY <1>1, <2>1, CommitProduces DEF vars, DraftInOrder
  <2>2. CASE draft[w].artifact # None
    <3>1. hand'[w] = hand[w] /\ base'[w] = hand[w]
      BY <2>2, CommitProduces DEF Save, ReviewInv, LineageInv, TypeOK
    <3> QED
      BY <3>1, SameReflexive DEF Unsigned
  <2> QED
    BY <2>1, <2>2
<1> QED
  BY <1>1, <1>2 DEF DraftInOrder

\* Every step leaves every caller's draft in order.
LEMMA DraftInOrderStep ==
    ASSUME OpsPerSave = 1, ReviewInv, NEW w \in Writer, ReviewStep(w), NEW v \in Writer
    PROVE  DraftInOrder(base'[v], hand'[v], draft'[v])
<1>1. DraftInOrder(base[v], hand[v], draft[v])
  BY DEF ReviewInv
<1>2. CASE v # w
  BY <1>1, <1>2, OthersKept DEF ReviewInv
<1>3. CASE v = w
  <2>1. CASE Work(w)
    <3>1. draft'[w] = None
      BY <2>1 DEF Work
    <3> QED
      BY <1>3, <2>1, <3>1, WorkUnsigned DEF DraftInOrder
  <2>2. ASSUME NEW t \in Tenant, NEW now \in Time, NEW id, NEW r,
               RequestReview(w, t, id, r, now)
        PROVE  DraftInOrder(base'[v], hand'[v], draft'[v])
    BY <1>1, <2>2 DEF RequestReview
  <2> QED
    BY <1>3, <2>1, <2>2, SignProduces, DecideInOrder, GiveUpInOrder, CommitInOrder
       DEF ReviewStep
<1> QED
  BY <1>2, <1>3

\* The saved decisions about a case are decisions, and a step that leaves the decision
\* repository alone leaves them alone.
LEMMA DecidedType ==
    ASSUME ReviewTypeOK, NEW k
    PROVE  /\ DecidedWithArtifact(k) \in SUBSET Decision
           /\ decisions' = decisions => DecidedWithArtifact(k)' = DecidedWithArtifact(k)
BY DEF DecidedWithArtifact, Decided, ReviewTypeOK

\* Committing a decision adds it to those saved, and to those of its own case only.
LEMMA DecidedAfterCommit ==
    ASSUME ReviewTypeOK, NEW w \in Writer, Commit(w), NEW k
    PROVE  LET d == draft[w] IN
             DecidedWithArtifact(k)' =
               IF d.artifact # None /\ <<d.request.tenantId, d.request.caseId>> = k
               THEN DecidedWithArtifact(k) \cup {d} ELSE DecidedWithArtifact(k)
<1> DEFINE d == draft[w]
           key == <<d.request.tenantId, d.decisionId>>
<1>1. /\ d \in Decision /\ key \in Tenant \X DecisionId /\ decisions[key] = None
      /\ decisions' = [decisions EXCEPT ![key] = d]
  BY CommitAppends
<1>2. d # None /\ DOMAIN decisions = Tenant \X DecisionId
  BY <1>1, DecisionFields DEF ReviewTypeOK
<1> HIDE DEF d, key
<1>3. ASSUME NEW j \in Tenant \X DecisionId
      PROVE  decisions'[j] = IF j = key THEN d ELSE decisions[j]
  BY <1>1, <1>2
<1>4. Decided' = Decided \cup {d}
  BY <1>1, <1>2, <1>3 DEF Decided
<1> QED
  BY <1>4 DEF DecidedWithArtifact, d

\* Saving what no signature is part of keeps every correspondence.
LEMMA SaveCorresponds ==
    ASSUME ReviewInv, NEW w \in Writer, Save(w), Unsigned(base[w], hand[w]), NEW k \in Key
    PROVE  Corresponds(store'[k], DecidedWithArtifact(k))
<1> DEFINE D == DecidedWithArtifact(k)
<1>1. /\ Corresponds(store[k], D) /\ D \in SUBSET Decision
      /\ LineageInv /\ TypeOK /\ hand[w] # NoCase
  BY DecidedType DEF ReviewInv, LineageInv, Save
<1> HIDE DEF D
<1>2. CASE k # KeyOf(hand[w])
  <2>1. store'[k] = store[k]
    BY <1>1, <1>2 DEF Save, TypeOK
  <2> QED
    BY <1>1, <2>1 DEF D
<1>3. CASE k = KeyOf(hand[w])
  <2>1. /\ store'[k] = hand[w] /\ store[k] = base[w]
        /\ \/ store[k] = NoCase /\ base[w] = NoCase
           \/ store[k] # NoCase /\ OperationStep(k[1], store[k], hand[w])
    BY <1>1, <1>3, SaveIsRegisterStep
  <2>2. CASE store[k] = NoCase
    <3>1. D = {} /\ Attested(hand[w]) = {}
      BY <1>1, <2>1, <2>2 DEF Corresponds, Unsigned
    <3> QED
      BY <1>1, <2>1, <3>1 DEF Corresponds, D
  <2>3. CASE store[k] # NoCase
    <3>1. store[k] \in Case /\ SameAttestations(store[k], hand[w])
      BY <1>1, <2>1, <2>3 DEF Unsigned, TypeOK
    <3>2. OperationStep(k[1], store[k], hand[w])
      BY <2>1, <2>3
    <3>3. Corresponds(hand[w], D)
      BY <1>1, <3>1, <3>2, CorrespondsAfterOperation
    <3> QED
      BY <2>1, <3>3 DEF D
  <2> QED
    BY <2>2, <2>3
<1> QED
  BY <1>2, <1>3

\* Committing a decision keeps every correspondence: the decision and the attestation it
\* asked for enter together.
LEMMA CommitCorresponds ==
    ASSUME ReviewInv, NEW w \in Writer, Commit(w), NEW k \in Key
    PROVE  Corresponds(store'[k], DecidedWithArtifact(k)')
<1> DEFINE d == draft[w]
           D == DecidedWithArtifact(k)
           after == DecidedWithArtifact(k)'
<1>1. /\ Corresponds(store[k], D) /\ D \in SUBSET Decision /\ d \in Decision
      /\ hand[w] # NoCase /\ KeyOf(hand[w]) = <<d.request.tenantId, d.request.caseId>>
      /\ LineageInv /\ TypeOK
  BY DecidedType, CommitProduces DEF ReviewInv, LineageInv
<1>2. after = IF d.artifact # None /\ KeyOf(hand[w]) = k THEN D \cup {d} ELSE D
  BY <1>1, DecidedAfterCommit DEF ReviewInv
<1>3. /\ d.artifact = None => store' = store
      /\ d.artifact # None => Signed(base[w], hand[w], d) /\ Save(w)
  BY CommitProduces DEF vars
<1> HIDE DEF d, D, after
<1>4. CASE d.artifact = None
  BY <1>1, <1>2, <1>3, <1>4 DEF after
<1>5. CASE d.artifact # None /\ KeyOf(hand[w]) # k
  <2>1. store'[k] = store[k]
    BY <1>1, <1>3, <1>5 DEF Save, TypeOK
  <2> QED
    BY <1>1, <1>2, <1>5, <2>1 DEF after
<1>6. CASE d.artifact # None /\ KeyOf(hand[w]) = k
  <2>1. store'[k] = hand[w] /\ store[k] = base[w] /\ Signed(base[w], hand[w], d)
    BY <1>1, <1>3, <1>6, SaveIsRegisterStep
  <2>2. base[w] \in Case
    BY <1>1, <2>1 DEF Signed, TypeOK
  <2>3. Corresponds(hand[w], D \cup {d})
    BY <1>1, <2>1, <2>2, CorrespondsAfterSignature
  <2> QED
    BY <1>2, <1>6, <2>1, <2>3 DEF after
<1> QED
  BY <1>4, <1>5, <1>6

\* Every step keeps every stored case and its decisions in correspondence.
LEMMA CorrespondsStep ==
    ASSUME ReviewInv, NEW w \in Writer, ReviewStep(w), NEW k \in Key
    PROVE  Corresponds(store'[k], DecidedWithArtifact(k)')
<1>1. Corresponds(store[k], DecidedWithArtifact(k)) /\ ReviewTypeOK /\ TypeOK
  BY DEF ReviewInv, ReviewTypeOK
<1>2. ASSUME UNCHANGED <<store, decisions>>
      PROVE  Corresponds(store'[k], DecidedWithArtifact(k)')
  BY <1>1, <1>2, DecidedType
<1>3. CASE Work(w)
  <2>1. decisions' = decisions /\ draft[w] = None /\ Step(w)
    BY <1>3, WorkIsStep DEF Work
  <2>2. Unsigned(base[w], hand[w])
    BY <2>1 DEF ReviewInv, DraftInOrder
  <2>3. CASE Save(w)
    BY <1>1, <2>1, <2>2, <2>3, SaveCorresponds, DecidedType
  <2>4. CASE UNCHANGED store
    BY <1>2, <2>1, <2>4
  <2> QED
    BY <1>1, <2>1, <2>3, <2>4, StepCases DEF Get, Create, Operate
<1>4. CASE GiveUp(w)
  BY <1>2, <1>4 DEF GiveUp
<1>5. ASSUME NEW t \in Tenant, NEW now \in Time, Sign(w, t, now)
      PROVE  UNCHANGED <<store, decisions>>
  BY <1>5 DEF Sign, AddMaterial
<1>6. ASSUME NEW t \in Tenant, NEW now \in Time, NEW id, NEW r, RequestReview(w, t, id, r, now)
      PROVE  UNCHANGED <<store, decisions>>
  BY <1>6 DEF RequestReview
<1>7. ASSUME NEW t \in Tenant, NEW now \in Time, NEW q, NEW i, NEW artifact,
             Decide(w, t, q, i, artifact, now)
      PROVE  UNCHANGED <<store, decisions>>
  BY <1>7 DEF Decide
<1> QED
  BY <1>2, <1>3, <1>4, <1>5, <1>6, <1>7, CommitCorresponds DEF ReviewStep

\* The invariant holds at the start: nothing is stored, held or decided.
LEMMA ReviewInvInit ==
    ASSUME ReviewInit
    PROVE  ReviewInv
<1>1. ReviewTypeOK /\ Indexed
  BY IndexInit
<1>2. LineageInv
  BY DEF ReviewInit, Init, LineageInv, TypeOK, StoreValid, Lineage
<1>3. \A w \in Writer : DraftInOrder(base[w], hand[w], draft[w])
  BY DEF ReviewInit, Init, DraftInOrder, Unsigned
<1>4. Decided = {}
  BY DEF ReviewInit, Decided
<1>5. \A k \in Key : Corresponds(store[k], DecidedWithArtifact(k))
  BY <1>4 DEF ReviewInit, Init, Corresponds, DecidedWithArtifact
<1> QED
  BY <1>1, <1>2, <1>3, <1>5 DEF ReviewInv

\* The invariant is inductive.
LEMMA ReviewInvStep ==
    ASSUME OpsPerSave = 1, ReviewInv, [ReviewNext]_reviewVars
    PROVE  ReviewInv'
<1>1. ReviewTypeOK' /\ Indexed' /\ LineageInv'
  BY ReviewTypeStep, IndexStep, ReviewLineageStep DEF ReviewInv
<1>2. CASE UNCHANGED reviewVars
  <2>1. /\ store' = store /\ base' = base /\ hand' = hand /\ draft' = draft
        /\ decisions' = decisions
    BY <1>2 DEF reviewVars
  <2>2. \A k \in Key : DecidedWithArtifact(k)' = DecidedWithArtifact(k)
    BY <2>1, DecidedType DEF ReviewInv
  <2> QED
    BY <1>1, <2>1, <2>2 DEF ReviewInv
<1>3. ASSUME NEW w \in Writer, ReviewStep(w) PROVE ReviewInv'
  <2>1. \A v \in Writer : DraftInOrder(base'[v], hand'[v], draft'[v])
    BY <1>3, DraftInOrderStep
  <2>2. \A k \in Key : Corresponds(store'[k], DecidedWithArtifact(k)')
    BY <1>3, CorrespondsStep
  <2> QED
    BY <1>1, <2>1, <2>2 DEF ReviewInv
<1> QED
  BY <1>2, <1>3 DEF ReviewNext

-----------------------------------------------------------------------------
(* What it implies.                                                          *)

\* Where callers save after every operation, the attestations of a stored case and
\* the saved decisions about it are in one-to-one correspondence: neither is ever
\* there without the other.
THEOREM AttestationsTheorem ==
    ASSUME OpsPerSave = 1
    PROVE  ReviewSpec => []AttestationsAreDecided
<1>1. ReviewInv => AttestationsAreDecided
  <2> SUFFICES ASSUME ReviewInv, NEW k \in Key
               PROVE  LET held == IF store[k] = NoCase THEN {} ELSE Attested(store[k])
                      IN  /\ \A x \in held : \E d \in DecidedWithArtifact(k) :
                               /\ Answers(x, d)
                               /\ \A e \in DecidedWithArtifact(k) : Answers(x, e) => e = d
                          /\ \A d \in DecidedWithArtifact(k) : \E x \in held : Answers(x, d)
    BY DEF AttestationsAreDecided, Attested
  <2>1. Corresponds(store[k], DecidedWithArtifact(k))
    BY DEF ReviewInv
  <2>2. ASSUME NEW x, NEW d \in DecidedWithArtifact(k), NEW e \in DecidedWithArtifact(k),
               Answers(x, d), Answers(x, e)
        PROVE  e = d
    <3>1. d.artifact.materialId = e.artifact.materialId
      BY <2>2 DEF Answers
    <3> QED
      BY <2>1, <3>1 DEF Corresponds
  <2> QED
    BY <2>1, <2>2 DEF Corresponds
<1> QED
  BY <1>1, ReviewInvInit, ReviewInvStep, PTL DEF ReviewSpec

\* Under the same discipline every attestation made the revision after its basis, alone,
\* and the claim it attests to is still in the case.
THEOREM BasisTheorem ==
    ASSUME OpsPerSave = 1
    PROVE  ReviewSpec => []AttestationsExtendTheirBasis
<1>1. ReviewInv => AttestationsExtendTheirBasis
  BY DEF ReviewInv, AttestationsExtendTheirBasis, Corresponds
<1> QED
  BY <1>1, ReviewInvInit, ReviewInvStep, PTL DEF ReviewSpec

-----------------------------------------------------------------------------
(* Cancellation, which needs no discipline of the callers.                   *)

\* A caller that makes decision d holds the case the decision is about, and once it is
\* signed a case that is not cancelled, at the revision the signature made.
Held(c, d) ==
    /\ c # NoCase /\ KeyOf(c) = <<d.request.tenantId, d.request.caseId>>
    /\ d.resulting # 0 => d.resulting = c.revision /\ c.state # "Cancelled"

\* Stored case c has reached the revision decision d made, and is not cancelled there.
Reached(c, d) ==
    /\ c # NoCase /\ d.resulting <= c.revision
    /\ c.state = "Cancelled" => d.resulting # c.revision

SignedBeforeInv ==
    /\ ReviewTypeOK
    /\ \A w \in Writer : draft[w] # None => Held(hand[w], draft[w])
    /\ \A k \in Key : \A d \in DecidedWithArtifact(k) : Reached(store[k], d)

\* What is signed is a case that is not cancelled, one revision on.
LEMMA SignHeld ==
    ASSUME ReviewTypeOK, NEW w \in Writer, NEW t \in Tenant, NEW now \in Time, Sign(w, t, now),
           Held(hand[w], draft[w])
    PROVE  Held(hand'[w], draft'[w])
<1> DEFINE e == [draft[w] EXCEPT !.resulting = hand[w].revision + 1]
           m == draft[w].artifact.materialId
           p == AttestationPayload(draft[w].artifact.attestation)
           rs == {draft[w].request.requirementId}
<1>1. draft[w] \in Decision /\ hand[w] \in Case /\ hand[w] # NoCase
  BY DEF Sign, AwaitsSigner, AddMaterial, MayOperate, ReviewTypeOK, TypeOK
<1>2. /\ draft'[w] = e /\ CanAddMaterial(t, hand[w], m, p, rs, now)
      /\ hand'[w] = WithMaterial(hand[w], m, p, rs, now)
  BY DEF Sign, AddMaterial, ReviewTypeOK, TypeOK
<1>3. m \in Material /\ p \in Payload /\ rs \in SUBSET Requirement
  BY <1>1, DecisionFields DEF Sign, AwaitsSigner
<1>4. e.request = draft[w].request /\ e.resulting = hand[w].revision + 1
  BY <1>1 DEF Decision
<1> HIDE DEF e, m, p, rs
<1>5. OperationStep(t, hand[w], hand'[w])
  BY <1>2, <1>3 DEF OperationStep
<1>6. /\ hand'[w] \in Case /\ hand'[w].revision = hand[w].revision + 1
      /\ KeyOf(hand'[w]) = KeyOf(hand[w])
  BY <1>1, <1>5, OperationResult DEF KeyOf
<1>7. hand'[w].state = hand[w].state /\ hand[w].state # "Cancelled"
  BY <1>1, <1>2 DEF WithMaterial, Case, CanAddMaterial, AdmitsMaterial, AcceptsMaterial
<1>8. hand'[w] # NoCase
  BY <1>6, CaseAssumption
<1>9. KeyOf(hand'[w]) = <<e.request.tenantId, e.request.caseId>>
  BY <1>4, <1>6 DEF Held
<1> QED
  BY <1>2, <1>4, <1>6, <1>7, <1>8, <1>9 DEF Held

\* Every caller that makes a decision holds the case it is about.
LEMMA HeldStep ==
    ASSUME SignedBeforeInv, NEW w \in Writer, ReviewStep(w), NEW v \in Writer, draft'[v] # None
    PROVE  Held(hand'[v], draft'[v])
<1>1. /\ ReviewTypeOK /\ hand \in [Writer -> Case \cup {NoCase}]
      /\ draft \in [Writer -> Decision \cup {None}]
      /\ draft[v] # None => Held(hand[v], draft[v])
  BY DEF SignedBeforeInv, ReviewTypeOK, TypeOK
<1>2. CASE v # w
  <2>1. hand'[v] = hand[v] /\ draft'[v] = draft[v]
    BY <1>1, <1>2, OthersKept
  <2> QED
    BY <1>1, <2>1
<1>3. CASE v = w
  <2>1. CASE Work(w)
    BY <1>3, <2>1 DEF Work
  <2>2. ASSUME NEW t \in Tenant, NEW now \in Time, NEW id, NEW r,
               RequestReview(w, t, id, r, now)
        PROVE  Held(hand'[v], draft'[v])
    BY <1>3, <2>2 DEF RequestReview
  <2>3. CASE GiveUp(w) \/ Commit(w)
    BY <1>1, <1>3, <2>3 DEF GiveUp, Commit
  <2>4. ASSUME NEW t \in Tenant, NEW now \in Time, Sign(w, t, now)
        PROVE  Held(hand'[v], draft'[v])
    BY <1>1, <1>3, <2>4, SignHeld DEF Sign, AwaitsSigner
  <2>5. ASSUME NEW t \in Tenant, NEW now \in Time, NEW q, NEW i \in DecisionId,
               NEW artifact \in Artifact \cup {None}, Decide(w, t, q, i, artifact, now)
        PROVE  Held(hand'[v], draft'[v])
    <3> DEFINE d == [decisionId |-> i, request |-> q, artifact |-> artifact,
                     resulting |-> 0, decidedAt |-> now]
    <3>1. draft'[w] = d /\ hand' = hand
      BY <1>1, <2>5 DEF Decide
    <3>2. /\ hand[w] # NoCase /\ hand[w].tenantId = t
          /\ q.tenantId = t /\ q.caseId = hand[w].caseId
      BY <2>5 DEF Decide, AcceptsReview, IsOperable, AtBasis
    <3>3. d.request = q /\ d.resulting = 0
      OBVIOUS
    <3> HIDE DEF d
    <3> QED
      BY <1>3, <3>1, <3>2, <3>3 DEF Held, KeyOf
  <2> QED
    BY <1>3, <2>1, <2>2, <2>3, <2>4, <2>5 DEF ReviewStep
<1> QED
  BY <1>2, <1>3

\* A save takes the case it replaces one revision on, past what was decided about it.
LEMMA SaveReached ==
    ASSUME ReviewTypeOK, NEW w \in Writer, Save(w), NEW k \in Key, NEW d \in Decision,
           Reached(store[k], d)
    PROVE  Reached(store'[k], d)
<1>1. /\ store \in [Key -> Case \cup {NoCase}] /\ hand[w] \in Case /\ hand[w] # NoCase
      /\ RevisionAdmits(store[KeyOf(hand[w])], hand[w])
      /\ store' = [store EXCEPT ![KeyOf(hand[w])] = hand[w]]
  BY DEF Save, ReviewTypeOK, TypeOK
<1>2. CASE k # KeyOf(hand[w])
  BY <1>1, <1>2
<1>3. CASE k = KeyOf(hand[w])
  <2>1. store'[k] = hand[w] /\ store[k] \in Case /\ store[k] # NoCase
    BY <1>1, <1>3 DEF Reached
  <2>2. hand[w].revision = store[k].revision + 1
    BY <1>1, <1>3, <2>1 DEF RevisionAdmits
  <2>3. d.resulting <= store[k].revision /\ d.resulting \in Nat /\ store[k].revision \in Nat
    BY <2>1, DecisionFields, CaseNumbers DEF Reached
  <2>4. d.resulting <= hand[w].revision /\ d.resulting # hand[w].revision
    BY <2>2, <2>3
  <2> QED
    BY <1>1, <2>1, <2>4 DEF Reached
<1> QED
  BY <1>2, <1>3

\* Every stored case stays past, or not cancelled at, the revisions its decisions made.
LEMMA ReachedStep ==
    ASSUME SignedBeforeInv, NEW w \in Writer, ReviewStep(w), NEW k \in Key,
           NEW d \in DecidedWithArtifact(k)'
    PROVE  Reached(store'[k], d)
<1>1. /\ ReviewTypeOK /\ TypeOK /\ DecidedWithArtifact(k) \in SUBSET Decision
      /\ \A e \in DecidedWithArtifact(k) : Reached(store[k], e)
  BY DecidedType DEF SignedBeforeInv, ReviewTypeOK
<1>2. ASSUME UNCHANGED <<store, decisions>> PROVE Reached(store'[k], d)
  BY <1>1, <1>2, DecidedType
<1>3. CASE Work(w)
  <2>1. decisions' = decisions /\ Step(w)
    BY <1>1, <1>3, WorkIsStep DEF Work
  <2>2. CASE Save(w)
    BY <1>1, <2>1, <2>2, SaveReached, DecidedType
  <2>3. CASE UNCHANGED store
    BY <1>2, <2>1, <2>3
  <2> QED
    BY <1>1, <2>1, <2>2, <2>3, StepCases DEF Get, Create, Operate
<1>4. CASE Commit(w)
  <2> DEFINE e == draft[w]
  <2>1. /\ e \in Decision /\ e # None /\ Held(hand[w], e)
        /\ e.artifact # None => e.resulting # 0 /\ Save(w)
        /\ e.artifact = None => store' = store
    BY <1>1, <1>4, CommitAppends DEF Commit, AwaitsSigner, SignedBeforeInv, vars
  <2>2. DecidedWithArtifact(k)' =
          IF e.artifact # None /\ KeyOf(hand[w]) = k
          THEN DecidedWithArtifact(k) \cup {e} ELSE DecidedWithArtifact(k)
    BY <1>1, <1>4, <2>1, DecidedAfterCommit DEF Held
  <2> HIDE DEF e
  <2>3. CASE d \in DecidedWithArtifact(k)
    BY <1>1, <2>1, <2>3, SaveReached
  <2>4. CASE d = e /\ e.artifact # None /\ KeyOf(hand[w]) = k
    <3>1. store'[k] = hand[w] /\ hand[w] \in Case /\ hand[w] # NoCase
      BY <1>1, <2>1, <2>4 DEF Save, TypeOK
    <3>2. d.resulting = hand[w].revision /\ hand[w].state # "Cancelled"
      BY <2>1, <2>4 DEF Held
    <3>3. hand[w].revision \in Nat
      BY <3>1, CaseNumbers
    <3> QED
      BY <3>1, <3>2, <3>3 DEF Reached
  <2> QED
    BY <2>2, <2>3, <2>4
<1>5. CASE GiveUp(w)
  BY <1>2, <1>5 DEF GiveUp
<1>6. ASSUME NEW t \in Tenant, NEW now \in Time, Sign(w, t, now)
      PROVE  UNCHANGED <<store, decisions>>
  BY <1>6 DEF Sign, AddMaterial
<1>7. ASSUME NEW t \in Tenant, NEW now \in Time, NEW id, NEW r, RequestReview(w, t, id, r, now)
      PROVE  UNCHANGED <<store, decisions>>
  BY <1>7 DEF RequestReview
<1>8. ASSUME NEW t \in Tenant, NEW now \in Time, NEW q, NEW i, NEW artifact,
             Decide(w, t, q, i, artifact, now)
      PROVE  UNCHANGED <<store, decisions>>
  BY <1>8 DEF Decide
<1> QED
  BY <1>2, <1>3, <1>4, <1>5, <1>6, <1>7, <1>8 DEF ReviewStep

\* However callers save, no attestation is added by the step that cancels a case or by a
\* later one: a signature answered late is of a case that was not cancelled, and can only
\* be saved as the next revision of what is stored.
THEOREM CancelledReviewTheorem == ReviewSpec => []NoAttestationAfterCancellation
<1>1. ReviewInit => SignedBeforeInv
  <2> SUFFICES ASSUME ReviewInit PROVE SignedBeforeInv
    OBVIOUS
  <2>1. ReviewTypeOK
    BY IndexInit
  <2>2. Decided = {} /\ \A w \in Writer : draft[w] = None
    BY DEF ReviewInit, Decided
  <2> QED
    BY <2>1, <2>2 DEF SignedBeforeInv, DecidedWithArtifact
<1>2. SignedBeforeInv /\ [ReviewNext]_reviewVars => SignedBeforeInv'
  <2> SUFFICES ASSUME SignedBeforeInv, [ReviewNext]_reviewVars PROVE SignedBeforeInv'
    OBVIOUS
  <2>1. ReviewTypeOK'
    BY ReviewTypeStep DEF SignedBeforeInv
  <2>2. CASE UNCHANGED reviewVars
    <3>1. store' = store /\ hand' = hand /\ draft' = draft /\ decisions' = decisions
      BY <2>2 DEF reviewVars
    <3>2. \A k \in Key : DecidedWithArtifact(k)' = DecidedWithArtifact(k)
      BY <3>1, DecidedType DEF SignedBeforeInv
    <3> QED
      BY <2>1, <3>1, <3>2 DEF SignedBeforeInv
  <2>3. ASSUME NEW w \in Writer, ReviewStep(w) PROVE SignedBeforeInv'
    <3>1. \A v \in Writer : draft'[v] # None => Held(hand'[v], draft'[v])
      BY <2>3, HeldStep
    <3>2. \A k \in Key : \A d \in DecidedWithArtifact(k)' : Reached(store'[k], d)
      BY <2>3, ReachedStep
    <3> QED
      BY <2>1, <3>1, <3>2 DEF SignedBeforeInv
  <2> QED
    BY <2>2, <2>3 DEF ReviewNext
<1>3. SignedBeforeInv => NoAttestationAfterCancellation
  <2> SUFFICES ASSUME SignedBeforeInv, NEW k \in Key, store[k] # NoCase,
                      store[k].state = "Cancelled", NEW d \in DecidedWithArtifact(k)
               PROVE  d.resulting < store[k].revision
    BY DEF NoAttestationAfterCancellation
  <2>1. d.resulting <= store[k].revision /\ d.resulting # store[k].revision
    BY DEF SignedBeforeInv, Reached
  <2>2. d.resulting \in Nat /\ store[k].revision \in Nat
    <3>1. ReviewTypeOK /\ store[k] \in Case
      BY DEF SignedBeforeInv, ReviewTypeOK, TypeOK
    <3>2. d \in Decision
      BY <3>1, DecidedType
    <3> QED
      BY <3>1, <3>2, DecisionFields, CaseNumbers
  <2> QED
    BY <2>1, <2>2
<1> QED
  BY <1>1, <1>2, <1>3, PTL DEF ReviewSpec

-----------------------------------------------------------------------------
(* The case repository under review.                                         *)

\* What a step of review does to the store, a step of the repository does.
LEMMA ReviewStoreStep ==
    ASSUME ReviewInv, [ReviewNext]_reviewVars
    PROVE  [Next]_vars \/ UNCHANGED store
BY ReviewStepCases DEF ReviewInv, ReviewNext, Next, Reset, reviewVars

\* Decisions that wait for a signer, and decisions given up after it, leave the store an
\* atomic register per case: the attestation of a decision is one of its operations.
THEOREM ReviewImplementsRegister ==
    ASSUME OpsPerSave = 1
    PROVE  ReviewSpec => ImplementsRegister
<1>1. ReviewInit => Register!Init
  BY RegisterInit DEF ReviewInit
<1>2. ReviewInv /\ [ReviewNext]_reviewVars => [Register!Next]_store
  BY ReviewStoreStep, RegisterStep DEF ReviewInv
<1> QED
  BY <1>1, <1>2, ReviewInvInit, ReviewInvStep, PTL
     DEF ReviewSpec, ImplementsRegister, Register!Spec
=============================================================================
