----------------------------- MODULE RuntimeProofs -----------------------------
(***************************************************************************)
(* What the runtime server keeps true for any number of connections,       *)
(* requests, grants, keys and withdrawals: revocations and their evidence  *)
(* correspond, answers of a revocation never go stale, a withdrawal is     *)
(* paid once but for adapter errors, what was decided stands, and metered  *)
(* answers are accounted for.  Each is proved of the operations of its     *)
(* module; the server's other steps leave its variables alone.             *)
(***************************************************************************)
EXTENDS RuntimeServer, SequenceTheorems, TLAPS

\* A sequence with one element more.
LEMMA AppendFacts ==
    ASSUME NEW S, NEW s \in Seq(S), NEW e \in S
    PROVE  /\ Append(s, e) \in Seq(S) /\ Len(Append(s, e)) = Len(s) + 1
           /\ DOMAIN Append(s, e) = DOMAIN s \cup {Len(s) + 1}
           /\ Len(s) + 1 \notin DOMAIN s
           /\ Append(s, e)[Len(s) + 1] = e
           /\ \A i \in DOMAIN s : Append(s, e)[i] = s[i]
  OBVIOUS

-----------------------------------------------------------------------------
(* The control plane.                                                        *)

\* Revocations are numbered upwards, so that a new one has no evidence yet.
EvidenceInSequence ==
    \A e \in DOMAIN revocationEvidence :
        revocationEvidence[e].revocation \in 1..revocationSequence

\* What a caller was answered under a key is what the key still stands for.
\* Two answers agree because both are the cached one.
AnswersAreCached ==
    \A a \in answers :
        a.key # None => idempotency[a.key] # None /\ idempotency[a.key].result = a.result

PlaneInv ==
    /\ PlaneTypeOK /\ EvidenceInSequence /\ AnswersAreCached
    /\ EvidenceMatchesGrants /\ AnswersStayTrue

\* A result that names the revocation of its grant and that revocation's evidence.
Truthful(a) ==
    /\ a.grant \in DOMAIN grants /\ a.evidence \in DOMAIN revocationEvidence
    /\ grants[a.grant].revocation = a.revocation
    /\ revocationEvidence[a.evidence].grant = a.grant
    /\ revocationEvidence[a.evidence].revocation = a.revocation

\* AnswersStayTrue speaks of each answer and each cached result.
LEMMA TruthfulAnswers ==
    ASSUME AnswersStayTrue
    PROVE  /\ \A a \in answers : Truthful(a.result)
           /\ \A k \in Key : idempotency[k] # None => Truthful(idempotency[k].result)
  BY DEF AnswersStayTrue, Truthful

\* And that is all it says, where an answer under a key is cached under it.
LEMMA TruthSuffices ==
    ASSUME AnswersAreCached', \A a \in answers' : Truthful(a.result)',
           \A k \in Key : idempotency'[k] # None => Truthful(idempotency[k].result)'
    PROVE  AnswersStayTrue'
<1>1. \A x, y \in answers' : x.key = y.key /\ x.key # None => x.result = y.result
  BY DEF AnswersAreCached
<1> QED
  BY <1>1 DEF AnswersStayTrue, Truthful

\* The evidence found for a revoked grant is of that grant and its revocation.
LEMMA EvidenceFound ==
    ASSUME PlaneInv, NEW g \in DOMAIN grants, IsRevoked(g)
    PROVE  /\ EvidenceOf(g) \in DOMAIN revocationEvidence
           /\ revocationEvidence[EvidenceOf(g)].grant = g
           /\ revocationEvidence[EvidenceOf(g)].revocation = grants[g].revocation
<1>1. \E e \in DOMAIN revocationEvidence : revocationEvidence[e].grant = g
  BY DEF PlaneInv, EvidenceMatchesGrants
<1>2. /\ EvidenceOf(g) \in DOMAIN revocationEvidence
      /\ revocationEvidence[EvidenceOf(g)].grant = g
  BY <1>1 DEF EvidenceOf
<1> QED
  BY <1>2 DEF PlaneInv, EvidenceMatchesGrants

\* Nothing has been requested, granted or answered.
LEMMA PlaneInitially == PlaneInit => PlaneInv
<1> SUFFICES ASSUME PlaneInit PROVE PlaneInv
  OBVIOUS
<1>1. PlaneTypeOK
  BY ControlPlaneAssumption, EmptySeq DEF PlaneInit, PlaneTypeOK
<1> QED
  BY <1>1 DEF PlaneInit, PlaneInv, EvidenceInSequence, AnswersAreCached,
              EvidenceMatchesGrants, AnswersStayTrue

\* A new request touches no grant.
LEMMA CreateKeepsPlane ==
    ASSUME PlaneInv, NEW s \in Subject, NEW r \in Requester, CreateAccessRequest(s, r)
    PROVE  PlaneInv'
<1>1. PlaneTypeOK'
  <2>1. requests' \in Seq(Request) /\ Len(requests') <= MaxRequests
    BY ControlPlaneAssumption
    DEF CreateAccessRequest, PlaneInv, PlaneTypeOK, Request
  <2> QED
    BY <2>1 DEF CreateAccessRequest, PlaneInv, PlaneTypeOK
<1> QED
  BY <1>1 DEF CreateAccessRequest, PlaneInv, EvidenceInSequence, AnswersAreCached,
              EvidenceMatchesGrants, AnswersStayTrue, IsRevoked

\* A decision issues an active grant or none: nothing that was is lost.
LEMMA DecideKeepsPlane ==
    ASSUME PlaneInv, NEW i \in RequestId, NEW s, NEW v \in {"approved", "denied"},
           DecideAccessRequest(i, s, v)
    PROVE  PlaneInv'
<1> USE DEF PlaneInv
<1>1. requests' \in Seq(Request) /\ Len(requests') = Len(requests)
  <2>1. i \in 1..Len(requests) /\ requests[i] \in Request
    BY DEF DecideAccessRequest, PlaneTypeOK
  <2>2. \A x \in Request : [x EXCEPT !.status = v] \in Request
    BY DEF Request
  <2>3. requests' = [requests EXCEPT ![i] = [requests[i] EXCEPT !.status = v]]
    BY DEF DecideAccessRequest
  <2> QED
    BY <2>1, <2>2, <2>3, ExceptSeq DEF PlaneTypeOK
<1>2. \/ UNCHANGED grants
      \/ \E g \in Grant : Len(grants) < MaxGrants /\ g.revocation = 0 /\ grants' = Append(grants, g)
  <2>1. requests[i].subject \in Subject /\ requests[i].requester \in Requester
    <3>1. requests[i] \in Request
      BY DEF DecideAccessRequest, PlaneTypeOK
    <3> QED
      BY <3>1 DEF Request
  <2>2. [request |-> i, subject |-> requests[i].subject, requester |-> requests[i].requester,
         revocation |-> 0] \in Grant
    BY <2>1 DEF Grant
  <2> QED
    BY <2>2 DEF DecideAccessRequest
<1>3. /\ grants' \in Seq(Grant) /\ Len(grants') <= MaxGrants
      /\ DOMAIN grants \subseteq DOMAIN grants'
      /\ \A g \in DOMAIN grants : grants'[g] = grants[g]
      /\ \A g \in DOMAIN grants' \ DOMAIN grants : grants'[g].revocation = 0
  <2>1. CASE UNCHANGED grants
    BY <2>1 DEF PlaneTypeOK
  <2>2. ASSUME NEW g \in Grant, Len(grants) < MaxGrants, g.revocation = 0,
               grants' = Append(grants, g)
        PROVE  /\ grants' \in Seq(Grant) /\ Len(grants') <= MaxGrants
               /\ DOMAIN grants \subseteq DOMAIN grants'
               /\ \A h \in DOMAIN grants : grants'[h] = grants[h]
               /\ \A h \in DOMAIN grants' \ DOMAIN grants : grants'[h].revocation = 0
    BY <2>2, AppendFacts, ControlPlaneAssumption DEF PlaneTypeOK
  <2> QED
    BY <1>2, <2>1, <2>2
<1>4. PlaneTypeOK'
  BY <1>1, <1>3 DEF DecideAccessRequest, PlaneTypeOK
<1>5. EvidenceMatchesGrants'
  BY <1>3 DEF DecideAccessRequest, EvidenceMatchesGrants, IsRevoked
<1>6. AnswersStayTrue'
  BY <1>3 DEF DecideAccessRequest, AnswersStayTrue
<1> QED
  BY <1>4, <1>5, <1>6 DEF DecideAccessRequest, EvidenceInSequence, AnswersAreCached

\* A replay answers what is cached.
LEMMA ReplayKeepsPlane ==
    ASSUME PlaneInv, NEW in \in RevokeInput, NEW throws \in BOOLEAN,
           Replay(in, throws), UNCHANGED requests
    PROVE  PlaneInv'
<1> USE DEF PlaneInv
<1> DEFINE entry == idempotency[in.key]
<1>1. in.key \in Key /\ entry # None /\ entry.result \in Result
  BY DEF Replay, Cached, RevokeInput, PlaneTypeOK, CacheEntry
<1>2. \A a \in answers' : a \in answers \/ a = [key |-> in.key, result |-> entry.result]
  BY DEF Replay, Answer
<1>3. PlaneTypeOK'
  BY <1>1, <1>2 DEF Replay, PlaneTypeOK
<1>4. AnswersAreCached'
  BY <1>1, <1>2 DEF Replay, AnswersAreCached
<1>5. AnswersStayTrue'
  <2>1. /\ \A a \in answers : Truthful(a.result)
        /\ \A k \in Key : idempotency[k] # None => Truthful(idempotency[k].result)
    BY TruthfulAnswers
  <2>2. \A a \in answers' : Truthful(a.result)
    BY <1>1, <1>2, <2>1
  <2>3. \A a : Truthful(a) => Truthful(a)'
    BY DEF Replay, Truthful
  <2>4. UNCHANGED idempotency
    BY DEF Replay
  <2> QED
    BY <1>4, <2>1, <2>2, <2>3, <2>4, TruthSuffices
<1> QED
  BY <1>3, <1>4, <1>5 DEF Replay, EvidenceInSequence, EvidenceMatchesGrants, IsRevoked

\* A new truthful result may be remembered, under a key not used so far, and answered.
LEMMA RememberKeepsAnswers ==
    ASSUME PlaneInv, NEW in \in RevokeInput, NEW throws \in BOOLEAN, NEW result \in Result,
           ~Cached(in), Remember(in, result), Answer(in, result, throws)
    PROVE  /\ idempotency' \in [Key -> CacheEntry \cup {None}]
           /\ answers' \subseteq [key : Key \cup {None}, result : Result]
           /\ AnswersAreCached'
           /\ \A a \in answers' : a \in answers \/ a.result = result
           /\ \A k \in Key : idempotency'[k] = idempotency[k] \/ idempotency'[k].result = result
<1> USE DEF PlaneInv
<1> DEFINE entry == [fingerprint |-> Fingerprint(in), result |-> result]
<1>1. in.key \in Key \cup {None} /\ entry \in CacheEntry /\ entry # None
  BY ControlPlaneAssumption DEF RevokeInput, CacheEntry
<1>2. /\ idempotency' \in [Key -> CacheEntry \cup {None}]
      /\ \A k \in Key : idempotency'[k] = IF k = in.key THEN entry ELSE idempotency[k]
  BY <1>1, ControlPlaneAssumption DEF Remember, PlaneTypeOK
<1>3. \A a \in answers' : a \in answers \/ a = [key |-> in.key, result |-> result]
  BY DEF Answer
<1>4. answers' \subseteq [key : Key \cup {None}, result : Result]
  BY <1>1, <1>3 DEF PlaneTypeOK
<1>5. AnswersAreCached'
  <2> SUFFICES ASSUME NEW a \in answers', a.key # None
               PROVE  idempotency'[a.key] # None /\ idempotency'[a.key].result = a.result
    BY DEF AnswersAreCached
  <2>1. a.key \in Key
    BY <1>4
  <2>2. CASE a.key = in.key
    <3>1. a \notin answers
      BY <2>1, <2>2 DEF Cached, AnswersAreCached
    <3> QED
      BY <1>1, <1>2, <1>3, <2>1, <2>2, <3>1
  <2>3. CASE a.key # in.key
    <3>1. a \in answers
      BY <1>3, <2>3
    <3> QED
      BY <1>2, <2>1, <2>3, <3>1 DEF AnswersAreCached
  <2> QED
    BY <2>2, <2>3
<1> QED
  BY <1>2, <1>3, <1>4, <1>5

\* A grant already revoked is answered with what revoked it.
LEMMA RepeatKeepsPlane ==
    ASSUME PlaneInv, NEW in \in RevokeInput, NEW throws \in BOOLEAN,
           in.grant \in DOMAIN grants, RepeatRevocation(in, throws), UNCHANGED requests
    PROVE  PlaneInv'
<1> USE DEF PlaneInv
<1> DEFINE result == [grant |-> in.grant, revocation |-> grants[in.grant].revocation,
                      evidence |-> EvidenceOf(in.grant)]
<1>1. /\ ~Cached(in) /\ IsRevoked(in.grant)
      /\ Remember(in, result) /\ Answer(in, result, throws)
      /\ UNCHANGED <<requests, grants, revocationEvidence, revocationSequence>>
  BY DEF RepeatRevocation
<1>2. Truthful(result)
  BY <1>1, EvidenceFound DEF Truthful
<1>3. result \in Result
  <2>1. grants[in.grant] \in Grant /\ in.grant \in GrantId
    BY DEF PlaneTypeOK, RevokeInput
  <2>2. EvidenceOf(in.grant) \in Nat
    BY <1>2 DEF Truthful, PlaneTypeOK
  <2> QED
    BY <2>1, <2>2 DEF Grant, Result
<1> HIDE DEF result
<1>4. /\ idempotency' \in [Key -> CacheEntry \cup {None}]
      /\ answers' \subseteq [key : Key \cup {None}, result : Result]
      /\ AnswersAreCached'
      /\ \A a \in answers' : a \in answers \/ a.result = result
      /\ \A k \in Key : idempotency'[k] = idempotency[k] \/ idempotency'[k].result = result
  BY <1>1, <1>3, RememberKeepsAnswers
<1>5. /\ \A a \in answers' : Truthful(a.result)'
      /\ \A k \in Key : idempotency'[k] # None => Truthful(idempotency[k].result)'
  BY <1>1, <1>2, <1>4, TruthfulAnswers DEF Truthful
<1>6. AnswersStayTrue'
  BY <1>4, <1>5 DEF AnswersStayTrue, AnswersAreCached, Truthful
<1>7. PlaneTypeOK'
  BY <1>1, <1>4 DEF PlaneTypeOK
<1> QED
  BY <1>1, <1>4, <1>6, <1>7 DEF EvidenceInSequence, EvidenceMatchesGrants, IsRevoked

\* A revocation takes a number nobody has, and its grant had no evidence.
LEMMA RevokeKeepsPlane ==
    ASSUME PlaneInv, NEW in \in RevokeInput, NEW throws \in BOOLEAN,
           in.grant \in DOMAIN grants, RevokeActive(in, throws), UNCHANGED requests
    PROVE  PlaneInv'
<1> USE DEF PlaneInv
<1> DEFINE n == revocationSequence + 1
           last == Len(revocationEvidence) + 1
           result == [grant |-> in.grant, revocation |-> n, evidence |-> last]
           record == [revocation |-> n, grant |-> in.grant, key |-> in.key]
<1>1. /\ ~Cached(in) /\ ~IsRevoked(in.grant)
      /\ revocationSequence' = n
      /\ grants' = [grants EXCEPT ![in.grant].revocation = n]
      /\ revocationEvidence' = Append(revocationEvidence, record)
      /\ Remember(in, result) /\ Answer(in, result, throws)
      /\ UNCHANGED requests
  BY DEF RevokeActive
<1>2. /\ n \in Nat \ {0} /\ last \in Nat \ {0}
      /\ in.grant \in GrantId /\ in.grant \in 1..Len(grants)
      /\ record \in Evidence /\ result \in Result
  BY DEF PlaneTypeOK, RevokeInput, Evidence, Result
<1>3. /\ grants' \in Seq(Grant) /\ Len(grants') = Len(grants)
      /\ DOMAIN grants' = DOMAIN grants
      /\ grants'[in.grant].revocation = n
      /\ \A g \in DOMAIN grants \ {in.grant} : grants'[g] = grants[g]
  <2> DEFINE revoked == [grants[in.grant] EXCEPT !.revocation = n]
  <2>1. revoked \in Grant /\ revoked.revocation = n
    <3>1. grants[in.grant] \in Grant
      BY <1>2 DEF PlaneTypeOK
    <3> QED
      BY <1>2, <3>1 DEF Grant
  <2>2. grants' = [grants EXCEPT ![in.grant] = revoked]
    BY <1>1
  <2>3. grants \in Seq(Grant)
    BY DEF PlaneTypeOK
  <2> HIDE DEF revoked, n
  <2>4. /\ grants' \in Seq(Grant) /\ Len(grants') = Len(grants)
        /\ \A g \in 1..Len(grants) : grants'[g] = IF g = in.grant THEN revoked ELSE grants[g]
    BY <1>2, <2>1, <2>2, <2>3, ExceptSeq
  <2>5. DOMAIN grants = 1..Len(grants) /\ DOMAIN grants' = 1..Len(grants)
    BY <2>3, <2>4, LenProperties
  <2> QED
    BY <1>2, <2>1, <2>4, <2>5
<1>4. /\ revocationEvidence' \in Seq(Evidence)
      /\ DOMAIN revocationEvidence' = DOMAIN revocationEvidence \cup {last}
      /\ last \notin DOMAIN revocationEvidence
      /\ revocationEvidence'[last] = record
      /\ \A e \in DOMAIN revocationEvidence : revocationEvidence'[e] = revocationEvidence[e]
  BY <1>1, <1>2, AppendFacts DEF PlaneTypeOK
<1>5. /\ idempotency' \in [Key -> CacheEntry \cup {None}]
      /\ answers' \subseteq [key : Key \cup {None}, result : Result]
      /\ AnswersAreCached'
      /\ \A a \in answers' : a \in answers \/ a.result = result
      /\ \A k \in Key : idempotency'[k] = idempotency[k] \/ idempotency'[k].result = result
  BY <1>1, <1>2, RememberKeepsAnswers
<1>6. PlaneTypeOK'
  BY <1>1, <1>2, <1>3, <1>4, <1>5 DEF PlaneTypeOK
<1>7. \A e \in DOMAIN revocationEvidence :
        /\ revocationEvidence[e].revocation \in 1..revocationSequence
        /\ revocationEvidence[e].revocation # n
        /\ revocationEvidence[e].grant # in.grant
  BY <1>1 DEF PlaneTypeOK, EvidenceInSequence, EvidenceMatchesGrants, IsRevoked
<1>8. EvidenceInSequence'
  BY <1>1, <1>2, <1>4, <1>7 DEF EvidenceInSequence, PlaneTypeOK
<1>9. EvidenceMatchesGrants'
  <2>1. \A e \in DOMAIN revocationEvidence' :
          /\ revocationEvidence'[e].grant \in DOMAIN grants'
          /\ revocationEvidence'[e].revocation # 0
          /\ grants'[revocationEvidence'[e].grant].revocation = revocationEvidence'[e].revocation
    BY <1>2, <1>3, <1>4, <1>7 DEF EvidenceMatchesGrants
  <2>2. \A g \in DOMAIN grants' : grants'[g].revocation # 0 =>
          \E e \in DOMAIN revocationEvidence' : revocationEvidence'[e].grant = g
    BY <1>2, <1>3, <1>4 DEF EvidenceMatchesGrants, IsRevoked
  <2>3. \A e, f \in DOMAIN revocationEvidence' :
          \/ revocationEvidence'[e].grant = revocationEvidence'[f].grant
          \/ revocationEvidence'[e].revocation = revocationEvidence'[f].revocation
          => e = f
    BY <1>4, <1>7 DEF EvidenceMatchesGrants
  <2> QED
    BY <2>1, <2>2, <2>3 DEF EvidenceMatchesGrants, IsRevoked
<1>10. \A a : a = result => Truthful(a)'
  BY <1>2, <1>3, <1>4 DEF Truthful
<1>11. \A a : Truthful(a) => Truthful(a)'
  BY <1>3, <1>4, <1>7 DEF Truthful
<1> HIDE DEF result
<1>12. /\ \A a \in answers' : Truthful(a.result)'
       /\ \A k \in Key : idempotency'[k] # None => Truthful(idempotency[k].result)'
  <2>1. /\ \A a \in answers : Truthful(a.result)
        /\ \A k \in Key : idempotency[k] # None => Truthful(idempotency[k].result)
    BY TruthfulAnswers
  <2>2. ASSUME NEW a \in answers' PROVE Truthful(a.result)'
    BY <1>5, <1>10, <1>11, <2>1, <2>2
  <2>3. ASSUME NEW k \in Key, idempotency'[k] # None PROVE Truthful(idempotency[k].result)'
    <3>1. CASE idempotency'[k] = idempotency[k]
      <4>1. PICK a : a = idempotency[k].result /\ Truthful(a)
        BY <2>1, <2>3, <3>1
      <4>2. Truthful(a)' /\ idempotency'[k].result = a
        BY <1>11, <3>1, <4>1
      <4> QED
        BY <4>2 DEF Truthful
    <3>2. CASE idempotency'[k].result = result
      <4>1. PICK a : a = result /\ idempotency'[k].result = a
        BY <3>2
      <4>2. Truthful(a)'
        BY <1>10, <4>1
      <4> QED
        BY <4>1, <4>2 DEF Truthful
    <3> QED
      BY <1>5, <3>1, <3>2
  <2> QED
    BY <2>2, <2>3
<1>13. AnswersStayTrue'
  BY <1>5, <1>12, TruthSuffices
<1> QED
  BY <1>5, <1>6, <1>8, <1>9, <1>13

\* The operations of the control plane the server calls, and the others.
LEMMA PlaneInductive == PlaneInv /\ (ServePlane \/ UNCHANGED planeVars) => PlaneInv'
<1> SUFFICES ASSUME PlaneInv, ServePlane \/ UNCHANGED planeVars PROVE PlaneInv'
  OBVIOUS
<1>1. ASSUME NEW s \in Subject, NEW r \in Requester, CreateAccessRequest(s, r) PROVE PlaneInv'
  BY <1>1, CreateKeepsPlane
<1>2. ASSUME NEW i \in RequestId, NEW s, NEW v \in {"approved", "denied"},
             DecideAccessRequest(i, s, v)
      PROVE  PlaneInv'
  BY <1>2, DecideKeepsPlane
<1>3. ASSUME NEW in \in RevokeInputs, NEW throws \in BOOLEAN, RevokeGrant(in, throws)
      PROVE  PlaneInv'
  <2>1. in \in RevokeInput
    BY RuntimeAssumption
  <2>2. ~Cached(in) => in.grant \in DOMAIN grants
    BY <1>3 DEF RevokeGrant, Refuses
  <2>3. UNCHANGED requests
    BY <1>3 DEF RevokeGrant
  <2>4. CASE Replay(in, throws)
    BY <2>1, <2>3, <2>4, ReplayKeepsPlane
  <2>5. CASE RepeatRevocation(in, throws)
    BY <2>1, <2>2, <2>3, <2>5, RepeatKeepsPlane DEF RepeatRevocation
  <2>6. CASE RevokeActive(in, throws)
    BY <2>1, <2>2, <2>3, <2>6, RevokeKeepsPlane DEF RevokeActive
  <2> QED
    BY <1>3, <2>4, <2>5, <2>6 DEF RevokeGrant
<1>4. CASE UNCHANGED planeVars
  BY <1>4 DEF planeVars, PlaneInv, PlaneTypeOK, EvidenceInSequence, AnswersAreCached,
              EvidenceMatchesGrants, AnswersStayTrue, IsRevoked
<1> QED
  BY <1>1, <1>2, <1>3, <1>4 DEF ServePlane

-----------------------------------------------------------------------------
(* Payouts.  The counts are inductive as they stand: a withdrawal that has    *)
(* been answered is never paid again.                                         *)

PayoutInv == PayoutTypeOK /\ PaidOncePerAnswer

\* No withdrawal has been paid or answered.
LEMMA PayoutInitially == PayoutInit => PayoutInv
<1> SUFFICES ASSUME PayoutInit PROVE PayoutInv
  OBVIOUS
<1>1. PayoutTypeOK
  BY EmptySeq DEF PayoutInit, PayoutTypeOK
<1>2. PaidOncePerAnswer
  BY PayoutAssumption DEF PayoutInit, ProviderStatus, PaidOncePerAnswer
<1> QED
  BY <1>1, <1>2 DEF PayoutInv

\* A step that leaves withdrawals alone.
LEMMA OtherKeepsPayouts ==
    ASSUME PayoutInv, credentials' \in Seq(Credential),
           identityConsents' \in [IdentityConsentId -> IdentityConsent \cup {None}],
           UNCHANGED <<idempotentResults, transfers, failures>>
    PROVE  PayoutInv'
  BY DEF PayoutInv, PayoutTypeOK, PaidOncePerAnswer

\* Registering a credential touches no withdrawal.
LEMMA RegisterKeepsPayouts ==
    ASSUME PayoutInv, NEW c \in Credential, RegisterCredential(c)
    PROVE  PayoutInv'
<1>1. credentials \in Seq(Credential)
  BY DEF PayoutInv, PayoutTypeOK
<1>2. credentials' \in Seq(Credential)
  <2>1. CASE \E i \in DOMAIN credentials : credentials[i].ref = c.ref
    BY <1>1, <2>1 DEF RegisterCredential
  <2>2. CASE ~\E i \in DOMAIN credentials : credentials[i].ref = c.ref
    BY <1>1, <2>2, AppendFacts DEF RegisterCredential
  <2> QED
    BY <2>1, <2>2
<1> QED
  BY <1>2, OtherKeepsPayouts DEF RegisterCredential, PayoutInv, PayoutTypeOK

\* Nor does time.
LEMMA ExpireKeepsPayouts ==
    ASSUME PayoutInv, NEW i, Expire(i)
    PROVE  PayoutInv'
<1>1. credentials \in Seq(Credential) /\ i \in 1..Len(credentials)
  BY DEF Expire, PayoutInv, PayoutTypeOK
<1>2. \A x \in Credential : [x EXCEPT !.expired = TRUE] \in Credential
  BY DEF Credential
<1>3. credentials' = [credentials EXCEPT ![i] = [credentials[i] EXCEPT !.expired = TRUE]]
  BY DEF Expire
<1>4. credentials' \in Seq(Credential)
  BY <1>1, <1>2, <1>3, ExceptSeq
<1> QED
  BY <1>4, OtherKeepsPayouts DEF Expire, PayoutInv, PayoutTypeOK

\* Nor does a consent.
LEMMA ConsentKeepsPayouts ==
    ASSUME PayoutInv, NEW id \in IdentityConsentId, NEW consent \in IdentityConsent,
           GrantIdentityConsent(id, consent)
    PROVE  PayoutInv'
  BY OtherKeepsPayouts DEF GrantIdentityConsent, PayoutInv, PayoutTypeOK

\* Every way a withdrawal can be executed counts its transfers and answers right.
LEMMA ExecuteKeepsPayouts ==
    ASSUME PayoutInv, NEW req \in WithdrawalRequest, NEW outcome \in AdapterOutcome,
           ExecutePayout(req, outcome)
    PROVE  PayoutInv'
<1> USE DEF PayoutInv
<1> DEFINE w == req.withdrawal
<1>1. w \in Withdrawal
  BY DEF WithdrawalRequest
<1>2. CASE ReplayResult(req)
  BY <1>2 DEF ReplayResult, payoutVars, PayoutTypeOK, PaidOncePerAnswer
<1>3. CASE BlockPayout(req)
  BY <1>1, <1>3, PayoutAssumption
  DEF BlockPayout, Undecided, ProviderStatus, PayoutTypeOK, PaidOncePerAnswer
<1>4. CASE Pay(req, outcome)
  BY <1>1, <1>4, PayoutAssumption
  DEF Pay, Undecided, ProviderStatus, PayoutTypeOK, PaidOncePerAnswer
<1>5. CASE FailToPay(req, outcome)
  BY <1>1, <1>5, PayoutAssumption
  DEF ProviderStatus, FailToPay, AdapterThrows, Undecided, PayoutTypeOK, PaidOncePerAnswer
<1> QED
  BY <1>2, <1>3, <1>4, <1>5 DEF ExecutePayout

\* The steps of the server that reach the payout service, and the others.
LEMMA PayoutInductive ==
    PayoutInv /\ (ServeTrust \/ ServePayout \/ ExpireCredential \/ UNCHANGED payoutVars)
    => PayoutInv'
<1> SUFFICES ASSUME PayoutInv,
                    ServeTrust \/ ServePayout \/ ExpireCredential \/ UNCHANGED payoutVars
             PROVE  PayoutInv'
  OBVIOUS
<1>1. CASE ServeTrust
  BY <1>1, RegisterKeepsPayouts, ConsentKeepsPayouts DEF ServeTrust
<1>2. CASE ServePayout
  BY <1>2, ExecuteKeepsPayouts DEF ServePayout
<1>3. CASE ExpireCredential
  BY <1>3, ExpireKeepsPayouts DEF ExpireCredential
<1>4. CASE UNCHANGED payoutVars
  BY <1>4 DEF payoutVars, PayoutInv, PayoutTypeOK, PaidOncePerAnswer
<1> QED
  BY <1>1, <1>2, <1>3, <1>4

-----------------------------------------------------------------------------
(* The server.                                                               *)

ServerTypeOK ==
    /\ conn \in [Conn -> {"idle", "reading", "received"}]
    /\ windows \in [ApiKey -> 0..Limit]
    /\ microtasks \in Seq({"meter"})
    /\ usage \in Nat /\ meteringErrors \in Nat /\ metered \in Nat

RuntimeInv == PlaneInv /\ PayoutInv /\ ServerTypeOK

\* Every step of the server is a step of one of its services, or of none.
LEMMA ServerUsesServices ==
    ASSUME [Next]_vars
    PROVE  /\ ServePlane \/ UNCHANGED planeVars
           /\ ServeTrust \/ ServePayout \/ ExpireCredential \/ UNCHANGED payoutVars
<1>1. ASSUME NEW c \in Conn, NEW k \in ApiKey, Admit(c, k)
      PROVE  UNCHANGED <<planeVars, payoutVars>>
  BY <1>1 DEF Admit
<1>2. ASSUME NEW k \in ApiKey, AnswerGet(k) \/ WindowElapses(k)
      PROVE  UNCHANGED <<planeVars, payoutVars>>
  BY <1>2 DEF AnswerGet, WindowElapses
<1>3. ASSUME NEW c \in Conn, NEW complete \in BOOLEAN, EndBody(c, complete)
      PROVE  UNCHANGED <<planeVars, payoutVars>>
  BY <1>3 DEF EndBody
<1>4. ASSUME NEW c \in Conn, Handle(c)
      PROVE  /\ ServePlane \/ UNCHANGED planeVars
             /\ ServeTrust \/ ServePayout \/ UNCHANGED payoutVars
  <2>1. CASE RefuseRequest \/ ServeVerdict
    BY <2>1 DEF RefuseRequest, ServeVerdict
  <2>2. CASE ServePlane
    BY <2>2 DEF ServePlane
  <2>3. CASE ServeTrust \/ ServePayout
    BY <2>3 DEF ServeTrust, ServePayout
  <2> QED
    BY <1>4, <2>1, <2>2, <2>3 DEF Handle
<1>5. CASE RunMetering
  BY <1>5 DEF RunMetering
<1>6. CASE ExpireCredential
  BY <1>6 DEF ExpireCredential
<1>7. CASE UNCHANGED vars
  BY <1>7 DEF vars
<1> QED
  BY <1>1, <1>2, <1>3, <1>4, <1>5, <1>6, <1>7 DEF Next

\* What the server itself keeps: connections, windows and the metering.
LEMMA ServerKeepsTypes == ServerTypeOK /\ [Next]_vars => ServerTypeOK'
<1> SUFFICES ASSUME ServerTypeOK, [Next]_vars PROVE ServerTypeOK'
  OBVIOUS
<1> USE DEF ServerTypeOK
<1>1. ASSUME NEW k \in ApiKey, Charge(k) PROVE windows' \in [ApiKey -> 0..Limit]
  BY <1>1, RuntimeAssumption DEF Charge
<1>2. ASSUME NEW c \in Conn, NEW k \in ApiKey, Admit(c, k) PROVE ServerTypeOK'
  BY <1>1, <1>2 DEF Admit, meterVars
<1>3. ASSUME NEW k \in ApiKey, AnswerGet(k) PROVE ServerTypeOK'
  BY <1>1, <1>3 DEF AnswerGet, meterVars
<1>4. ASSUME NEW k \in ApiKey, WindowElapses(k) PROVE ServerTypeOK'
  BY <1>4, RuntimeAssumption DEF WindowElapses, meterVars
<1>5. ASSUME NEW c \in Conn, NEW complete \in BOOLEAN, EndBody(c, complete)
      PROVE  ServerTypeOK'
  BY <1>5 DEF EndBody, meterVars
<1>6. ASSUME NEW c \in Conn, Handle(c) PROVE ServerTypeOK'
  <2>1. Meter \/ UNCHANGED meterVars
    <3>1. CASE RefuseRequest \/ ServePlane \/ ServeTrust
      BY <3>1 DEF RefuseRequest, ServePlane, ServeTrust
    <3>2. CASE ServeVerdict \/ ServePayout
      BY <3>2 DEF ServeVerdict, ServePayout, MeterPayout
    <3> QED
      BY <1>6, <3>1, <3>2 DEF Handle
  <2>2. /\ microtasks' \in Seq({"meter"})
        /\ usage' \in Nat /\ meteringErrors' \in Nat /\ metered' \in Nat
    <3>1. CASE Meter
      BY <3>1, AppendFacts DEF Meter
    <3>2. CASE UNCHANGED meterVars
      BY <3>2 DEF meterVars
    <3> QED
      BY <2>1, <3>1, <3>2
  <2> QED
    BY <1>6, <2>2 DEF Handle
<1>7. CASE RunMetering
  <2>1. microtasks' \in Seq({"meter"})
    BY <1>7, HeadTailProperties DEF RunMetering
  <2> QED
    BY <1>7, <2>1 DEF RunMetering, serverVars
<1>8. CASE ExpireCredential
  BY <1>8 DEF ExpireCredential, serverVars, meterVars
<1>9. CASE UNCHANGED vars
  BY <1>9 DEF vars, serverVars, meterVars
<1> QED
  BY <1>2, <1>3, <1>4, <1>5, <1>6, <1>7, <1>8, <1>9 DEF Next

\* The invariant of the server is the conjunction of the invariants of its services.
LEMMA RuntimeInvariant == Spec => []RuntimeInv
<1>1. Init => RuntimeInv
  <2> SUFFICES ASSUME Init PROVE RuntimeInv
    OBVIOUS
  <2>1. ServerTypeOK
    BY RuntimeAssumption, EmptySeq DEF Init, ServerTypeOK
  <2> QED
    BY <2>1, PlaneInitially, PayoutInitially DEF Init, RuntimeInv
<1>2. RuntimeInv /\ [Next]_vars => RuntimeInv'
  BY PlaneInductive, PayoutInductive, ServerUsesServices, ServerKeepsTypes DEF RuntimeInv
<1> QED
  BY <1>1, <1>2, PTL DEF Spec

\* Every state of the server and its services is of its type.
THEOREM RuntimeTypeCorrect == Spec => []RuntimeTypeOK
<1>1. RuntimeInv => RuntimeTypeOK
  BY DEF RuntimeInv, PlaneInv, PayoutInv, ServerTypeOK, RuntimeTypeOK
<1> QED
  BY <1>1, RuntimeInvariant, PTL

\* However revocations are retried and whatever the telemetry hook throws, a
\* grant is revoked if and only if exactly one evidence record says so
\* (ControlPlaneService.revokeGrant).
THEOREM EvidenceTheorem == Spec => []EvidenceMatchesGrants
<1>1. RuntimeInv => EvidenceMatchesGrants
  BY DEF RuntimeInv, PlaneInv
<1> QED
  BY <1>1, RuntimeInvariant, PTL

\* What revokeGrant answered stays true, and a key is answered one way.
THEOREM AnswersTheorem == Spec => []AnswersStayTrue
<1>1. RuntimeInv => AnswersStayTrue
  BY DEF RuntimeInv, PlaneInv
<1> QED
  BY <1>1, RuntimeInvariant, PTL

\* A withdrawal is ordered once for an answer that the provider took it, never for
\* another answer, and otherwise only by an adapter that then threw
\* (RlusdPayoutExecutorService.execute).
THEOREM PaidTheorem == Spec => []PaidOncePerAnswer
<1>1. RuntimeInv => PaidOncePerAnswer
  BY DEF RuntimeInv, PayoutInv
<1> QED
  BY <1>1, RuntimeInvariant, PTL
-----------------------------------------------------------------------------
(* The server as its services see it.                                        *)

\* Seen from the control plane the server is nothing but its operations, one at
\* a time, with inputs of their types: a property of the control plane alone is
\* a property of it under any number of connections (server.ts, the handler).
THEOREM ServerRunsPlane == Spec => PlaneInit /\ [][PlaneStep]_planeVars
<1>1. Init => PlaneInit
  BY DEF Init
<1>2. PlaneTypeOK /\ [Next]_vars => [PlaneStep]_planeVars
  <2> SUFFICES ASSUME PlaneTypeOK, ServePlane PROVE PlaneStep
    BY ServerUsesServices
  <2>1. ASSUME NEW i \in DOMAIN requests, NEW v \in {"approved", "denied"},
               DecideAccessRequest(i, requests[i].subject, v)
        PROVE  PlaneStep
    <3>1. requests[i] \in Request
      BY DEF PlaneTypeOK
    <3>2. i \in RequestId
      BY ControlPlaneAssumption DEF PlaneTypeOK, RequestId
    <3>3. requests[i].subject \in Subject \cup {None}
      BY <3>1 DEF Request
    <3> QED
      BY <2>1, <3>2, <3>3 DEF PlaneStep
  <2>2. RevokeInputs \subseteq RevokeInput
    BY RuntimeAssumption
  <2> QED
    BY <2>1, <2>2 DEF ServePlane, PlaneStep
<1>3. RuntimeTypeOK => PlaneTypeOK
  BY DEF RuntimeTypeOK
<1> QED
  BY <1>1, <1>2, <1>3, RuntimeTypeCorrect, PTL DEF Spec

\* Remembering a result touches no key that is in use.
LEMMA RememberKeepsKeys ==
    ASSUME PlaneTypeOK, NEW in \in RevokeInput, NEW result, ~Cached(in), Remember(in, result),
           NEW k \in Key, idempotency[k] # None
    PROVE  idempotency'[k] = idempotency[k]
<1>1. in.key # k
  BY ControlPlaneAssumption DEF Cached
<1> QED
  BY <1>1 DEF Remember, PlaneTypeOK

\* No operation of the control plane withdraws a revocation or changes what a
\* key stands for.
LEMMA PlaneDecisionsStand ==
    ASSUME PlaneTypeOK, ServePlane
    PROVE  /\ \A g \in DOMAIN grants : IsRevoked(g) =>
                g \in DOMAIN grants' /\ grants'[g] = grants[g]
           /\ \A k \in Key : idempotency[k] # None => idempotency'[k] = idempotency[k]
<1>1. grants \in Seq(Grant)
  BY DEF PlaneTypeOK
<1>2. ASSUME NEW s \in Subject, NEW r \in Requester, CreateAccessRequest(s, r)
      PROVE  UNCHANGED <<grants, idempotency>>
  BY <1>2 DEF CreateAccessRequest
<1>3. ASSUME NEW i, NEW s, NEW v, DecideAccessRequest(i, s, v)
      PROVE  /\ UNCHANGED idempotency
             /\ \A g \in DOMAIN grants : g \in DOMAIN grants' /\ grants'[g] = grants[g]
  BY <1>1, <1>3 DEF DecideAccessRequest
<1>4. ASSUME NEW in \in RevokeInputs, NEW throws \in BOOLEAN, RevokeGrant(in, throws)
      PROVE  /\ \A g \in DOMAIN grants : IsRevoked(g) =>
                  g \in DOMAIN grants' /\ grants'[g] = grants[g]
             /\ \A k \in Key : idempotency[k] # None => idempotency'[k] = idempotency[k]
  <2>1. in \in RevokeInput
    BY RuntimeAssumption
  <2>2. CASE Replay(in, throws)
    BY <2>2 DEF Replay
  <2>3. CASE RepeatRevocation(in, throws)
    BY <2>1, <2>3, RememberKeepsKeys DEF RepeatRevocation
  <2>4. CASE RevokeActive(in, throws)
    <3>1. \A k \in Key : idempotency[k] # None => idempotency'[k] = idempotency[k]
      BY <2>1, <2>4, RememberKeepsKeys DEF RevokeActive
    <3>2. /\ ~IsRevoked(in.grant)
          /\ grants' = [grants EXCEPT ![in.grant].revocation = revocationSequence + 1]
      BY <2>4 DEF RevokeActive
    <3>3. DOMAIN grants' = DOMAIN grants
      BY <1>1, <3>2
    <3>4. ASSUME NEW g \in DOMAIN grants, IsRevoked(g) PROVE grants'[g] = grants[g]
      BY <1>1, <3>2, <3>4
    <3> QED
      BY <3>1, <3>3, <3>4
  <2> QED
    BY <1>4, <2>2, <2>3, <2>4 DEF RevokeGrant
<1> QED
  BY <1>2, <1>3, <1>4 DEF ServePlane

\* No step of the payout service pays a withdrawal that has been answered.
LEMMA PayoutDecisionsStand ==
    ASSUME PayoutTypeOK, ServeTrust \/ ServePayout \/ ExpireCredential \/ UNCHANGED payoutVars,
           NEW w \in Withdrawal, idempotentResults[w] # None
    PROVE  idempotentResults'[w] = idempotentResults[w] /\ transfers'[w] = transfers[w]
<1>1. CASE UNCHANGED <<idempotentResults, transfers>>
  BY <1>1
<1>2. ASSUME NEW req \in WithdrawalRequest, NEW outcome \in AdapterOutcome,
             ExecutePayout(req, outcome)
      PROVE  idempotentResults'[w] = idempotentResults[w] /\ transfers'[w] = transfers[w]
  <2>1. CASE ReplayResult(req)
    BY <2>1 DEF ReplayResult, payoutVars
  <2>2. CASE req.withdrawal # w
    BY <1>2, <2>2 DEF ExecutePayout, ReplayResult, payoutVars, BlockPayout, Pay, FailToPay,
                      PayoutTypeOK
  <2>3. CASE req.withdrawal = w
    BY <1>2, <2>1, <2>3 DEF ExecutePayout, BlockPayout, Pay, FailToPay, AdapterThrows, Undecided
  <2> QED
    BY <2>2, <2>3
<1> QED
  BY <1>1, <1>2 DEF ServeTrust, RegisterCredential, GrantIdentityConsent, ServePayout,
                    ExpireCredential, Expire, payoutVars

\* Whatever clients send, in whatever order, no decision is taken back.
THEOREM DecisionsTheorem == Spec => DecisionsStand
<1>1. RuntimeTypeOK /\ [Next]_vars =>
        [/\ \A g \in DOMAIN grants : IsRevoked(g) =>
              g \in DOMAIN grants' /\ grants'[g] = grants[g]
         /\ \A k \in Key : idempotency[k] # None => idempotency'[k] = idempotency[k]
         /\ \A w \in Withdrawal : idempotentResults[w] # None =>
              /\ idempotentResults'[w] = idempotentResults[w]
              /\ transfers'[w] = transfers[w]]_vars
  <2> SUFFICES ASSUME PlaneTypeOK, PayoutTypeOK, [Next]_vars
               PROVE  /\ \A g \in DOMAIN grants : IsRevoked(g) =>
                           g \in DOMAIN grants' /\ grants'[g] = grants[g]
                      /\ \A k \in Key : idempotency[k] # None => idempotency'[k] = idempotency[k]
                      /\ \A w \in Withdrawal : idempotentResults[w] # None =>
                           /\ idempotentResults'[w] = idempotentResults[w]
                           /\ transfers'[w] = transfers[w]
    BY DEF RuntimeTypeOK
  <2>1. CASE ServePlane
    BY <2>1, PlaneDecisionsStand, PayoutDecisionsStand, ServerUsesServices
  <2>2. CASE UNCHANGED planeVars
    BY <2>2, PayoutDecisionsStand, ServerUsesServices DEF planeVars
  <2> QED
    BY <2>1, <2>2, ServerUsesServices
<1> QED
  BY <1>1, RuntimeTypeCorrect, PTL DEF Spec, DecisionsStand

-----------------------------------------------------------------------------
(* Metering.                                                                 *)

\* An answer that owes a usage record has its record, has a logged failure in
\* the place of it, or has its job still queued: none is metered twice and none
\* is forgotten.  This is what is left of ServedAndSettled without fairness.
MeteringAccounted == usage + meteringErrors + Len(microtasks) = metered

\* The meter after any step of the server.
LEMMA MeterSteps ==
    ASSUME [Next]_vars
    PROVE  Meter \/ RunMetering \/ UNCHANGED meterVars
<1>1. ASSUME NEW c \in Conn, Handle(c) PROVE Meter \/ UNCHANGED meterVars
  <2>1. CASE RefuseRequest \/ ServePlane \/ ServeTrust
    BY <2>1 DEF RefuseRequest, ServePlane, ServeTrust
  <2>2. CASE ServeVerdict \/ ServePayout
    BY <2>2 DEF ServeVerdict, ServePayout, MeterPayout
  <2> QED
    BY <1>1, <2>1, <2>2 DEF Handle
<1>2. ASSUME NEW c \in Conn, NEW k \in ApiKey, Admit(c, k) PROVE UNCHANGED meterVars
  BY <1>2 DEF Admit
<1>3. ASSUME NEW k \in ApiKey, AnswerGet(k) \/ WindowElapses(k) PROVE UNCHANGED meterVars
  BY <1>3 DEF AnswerGet, WindowElapses
<1>4. ASSUME NEW c \in Conn, NEW complete \in BOOLEAN, EndBody(c, complete)
      PROVE  UNCHANGED meterVars
  BY <1>4 DEF EndBody
<1>5. ExpireCredential \/ UNCHANGED vars => UNCHANGED meterVars
  BY DEF ExpireCredential, vars
<1> QED
  BY <1>1, <1>2, <1>3, <1>4, <1>5 DEF Next

\* No answer is lost to the meter and none is counted twice
\* (server.ts, queueMicrotask around the metering of a response).
THEOREM MeteringTheorem == Spec => []MeteringAccounted
<1>1. Init => MeteringAccounted
  BY EmptySeq DEF Init, MeteringAccounted
<1>2. ServerTypeOK /\ MeteringAccounted /\ [Next]_vars => MeteringAccounted'
  <2> SUFFICES ASSUME ServerTypeOK, MeteringAccounted, [Next]_vars
               PROVE  MeteringAccounted'
    OBVIOUS
  <2>1. /\ microtasks \in Seq({"meter"}) /\ Len(microtasks) \in Nat
        /\ usage \in Nat /\ meteringErrors \in Nat /\ metered \in Nat
    BY DEF ServerTypeOK
  <2>2. CASE Meter
    <3>1. Len(microtasks') = Len(microtasks) + 1
      BY <2>1, <2>2, AppendFacts DEF Meter
    <3> QED
      BY <2>1, <2>2, <3>1 DEF Meter, MeteringAccounted
  <2>3. CASE RunMetering
    <3>1. Len(microtasks') = Len(microtasks) - 1
      BY <2>1, <2>3, HeadTailProperties DEF RunMetering
    <3>2. usage' + meteringErrors' = usage + meteringErrors + 1 /\ metered' = metered
      BY <2>1, <2>3 DEF RunMetering
    <3>3. usage + meteringErrors + Len(microtasks) = metered
      BY DEF MeteringAccounted
    <3>4. (usage' + meteringErrors') + Len(microtasks') = metered'
      BY <2>1, <3>1, <3>2, <3>3
    <3> QED
      BY <3>4 DEF MeteringAccounted
  <2>4. CASE UNCHANGED meterVars
    BY <2>4 DEF meterVars, MeteringAccounted
  <2> QED
    BY <2>2, <2>3, <2>4, MeterSteps
<1>3. RuntimeTypeOK => ServerTypeOK
  BY DEF RuntimeTypeOK, ServerTypeOK
<1> QED
  BY <1>1, <1>2, <1>3, RuntimeTypeCorrect, PTL DEF Spec
=============================================================================
