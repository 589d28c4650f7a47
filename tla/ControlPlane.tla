----------------------------- MODULE ControlPlane -----------------------------
(***************************************************************************)
(* The control plane of the runtime: access requests, the grants their     *)
(* approval issues, and the idempotent revocation of a grant with its      *)
(* evidence.  Every operation is one synchronous call.  The telemetry hook *)
(* of revokeGrant is the caller's and may throw; an exception after the    *)
(* mutation reaches the caller of an operation that has been done.         *)
(*                                                                         *)
(* Definitions named after another one stand right before it and are       *)
(* deliberately wrong forms of it, used to see that a property can fail.   *)
(***************************************************************************)
EXTENDS Integers, Sequences, RuntimeParties

CONSTANTS
    Reason,             \* reasons given for a revocation
    Key,                \* idempotency keys
    MaxRequests,        \* bound: access requests
    MaxGrants           \* bound: grants

\* requests and grants are numbered in the order of their ids, ar_1, ga_1, ...
RequestId == 1..MaxRequests
GrantId == 1..MaxGrants

\* A RevokeGrantInput; its fingerprint is all of it but the key.
RevokeInput ==
    [grant : GrantId, subject : Subject \cup {None},
     requester : Requester \cup {None}, reason : Reason \cup {None},
     key : Key \cup {None}]

Fingerprint(in) ==
    [grant |-> in.grant, subject |-> in.subject, requester |-> in.requester,
     reason |-> in.reason]

\* What a RevokeGrantResult tells of a revocation, and its evidence record.
Result == [grant : GrantId, revocation : Nat, evidence : Nat]
Evidence == [revocation : Nat, grant : GrantId, key : Key \cup {None}]

\* What a key has been used for.
CacheEntry == [fingerprint : {Fingerprint(in) : in \in RevokeInput}, result : Result]

Request ==
    [subject : Subject, requester : Requester,
     status : {"pending", "approved", "denied"}]
Grant ==
    [request : RequestId, subject : Subject, requester : Requester,
     revocation : Nat]   \* 0 while the grant is active

ASSUME ControlPlaneAssumption ==
    /\ MaxRequests \in Nat /\ MaxGrants \in Nat
    /\ None \notin Subject \cup Requester \cup Reason \cup Key \cup CacheEntry

VARIABLES
    requests, grants,
    revocationEvidence,
    revocationSequence,
    idempotency,        \* the cached [fingerprint, result] of each key
    answers             \* history: the results revokeGrant returned, each with its key

planeVars == <<requests, grants, revocationEvidence, revocationSequence, idempotency, answers>>

PlaneInit ==
    /\ requests = << >> /\ grants = << >>
    /\ revocationEvidence = << >> /\ revocationSequence = 0
    /\ idempotency = [k \in Key |-> None]
    /\ answers = {}

CreateAccessRequest(s, r) ==
    /\ Len(requests) < MaxRequests
    /\ requests' = Append(requests, [subject |-> s, requester |-> r, status |-> "pending"])
    /\ UNCHANGED <<grants, revocationEvidence, revocationSequence, idempotency, answers>>

\* A request is decided whatever its status: each approval issues a grant, and
\* a later denial leaves the grants issued before it alone.
DecideAccessRequest(i, s, verdict) ==
    /\ i \in DOMAIN requests
    /\ s \in {None, requests[i].subject}
    /\ requests' = [requests EXCEPT ![i].status = verdict]
    /\ IF verdict = "denied" THEN UNCHANGED grants
       ELSE /\ Len(grants) < MaxGrants
            /\ grants' = Append(grants, [request |-> i, subject |-> requests[i].subject,
                                         requester |-> requests[i].requester, revocation |-> 0])
    /\ UNCHANGED <<revocationEvidence, revocationSequence, idempotency, answers>>

-----------------------------------------------------------------------------
(* revokeGrant.                                                              *)

IsRevoked(g) == grants[g].revocation # 0

Cached(in) == in.key # None /\ idempotency[in.key] # None

\* A key used for another input, an unknown grant, or another subject's grant.
Refuses(in) ==
    IF Cached(in) THEN idempotency[in.key].fingerprint # Fingerprint(in)
    ELSE \/ in.grant \notin DOMAIN grants
         \/ in.subject \notin {None, grants[in.grant].subject}

RememberNothing(in, result) == UNCHANGED idempotency

Remember(in, result) ==
    idempotency' = IF in.key = None THEN idempotency
                   ELSE [idempotency EXCEPT ![in.key] =
                           [fingerprint |-> Fingerprint(in), result |-> result]]

\* The caller gets the result, unless its own hook throws on the last event.
Answer(in, result, throws) ==
    answers' = IF throws THEN answers ELSE answers \cup {[key |-> in.key, result |-> result]}

EvidenceOf(g) ==
    CHOOSE e \in DOMAIN revocationEvidence : revocationEvidence[e].grant = g

Replay(in, throws) ==
    /\ Cached(in)
    /\ Answer(in, idempotency[in.key].result, throws)
    /\ UNCHANGED <<grants, revocationEvidence, revocationSequence, idempotency>>

RepeatRevocation(in, throws) ==
    LET result == [grant |-> in.grant, revocation |-> grants[in.grant].revocation,
                   evidence |-> EvidenceOf(in.grant)] IN
    /\ ~Cached(in) /\ IsRevoked(in.grant)
    /\ Remember(in, result)
    /\ Answer(in, result, throws)
    /\ UNCHANGED <<grants, revocationEvidence, revocationSequence>>

RevokeActiveOrNot(in, throws) ==
    LET revocation == revocationSequence + 1
        result == [grant |-> in.grant, revocation |-> revocation,
                   evidence |-> Len(revocationEvidence) + 1] IN
    /\ ~Cached(in)
    /\ revocationSequence' = revocation
    /\ grants' = [grants EXCEPT ![in.grant].revocation = revocation]
    /\ revocationEvidence' = Append(revocationEvidence,
         [revocation |-> revocation, grant |-> in.grant, key |-> in.key])
    /\ Remember(in, result)
    /\ Answer(in, result, throws)

RevokeActive(in, throws) ==
    LET revocation == revocationSequence + 1
        result == [grant |-> in.grant, revocation |-> revocation,
                   evidence |-> Len(revocationEvidence) + 1] IN
    /\ ~Cached(in) /\ ~IsRevoked(in.grant)
    /\ revocationSequence' = revocation
    /\ grants' = [grants EXCEPT ![in.grant].revocation = revocation]
    /\ revocationEvidence' = Append(revocationEvidence,
         [revocation |-> revocation, grant |-> in.grant, key |-> in.key])
    /\ Remember(in, result)
    /\ Answer(in, result, throws)

RevokeGrant(in, throws) ==
    /\ ~Refuses(in)
    /\ Replay(in, throws) \/ RepeatRevocation(in, throws) \/ RevokeActive(in, throws)
    /\ UNCHANGED requests

PlaneStep ==
    \/ \E s \in Subject, r \in Requester : CreateAccessRequest(s, r)
    \/ \E i \in RequestId, s \in Subject \cup {None}, v \in {"approved", "denied"} :
        DecideAccessRequest(i, s, v)
    \/ \E in \in RevokeInput, throws \in BOOLEAN : RevokeGrant(in, throws)

-----------------------------------------------------------------------------
(* Properties.                                                               *)

PlaneTypeOK ==
    /\ requests \in Seq(Request) /\ Len(requests) <= MaxRequests
    /\ grants \in Seq(Grant) /\ Len(grants) <= MaxGrants
    /\ revocationEvidence \in Seq(Evidence)
    /\ revocationSequence \in Nat
    /\ idempotency \in [Key -> CacheEntry \cup {None}]
    /\ answers \subseteq [key : Key \cup {None}, result : Result]

\* However revocations of one grant are retried, with one key, several keys or
\* none, and whatever the telemetry hook threw on the way, a grant is revoked if
\* and only if exactly one evidence record says so, and it says by which
\* revocation (docs/security/revocation/07: "no duplicate evidence").
EvidenceMatchesGrants ==
    /\ \A e \in DOMAIN revocationEvidence :
        LET record == revocationEvidence[e] IN
        /\ record.grant \in DOMAIN grants
        /\ record.revocation # 0
        /\ grants[record.grant].revocation = record.revocation
    /\ \A g \in DOMAIN grants : IsRevoked(g) =>
        \E e \in DOMAIN revocationEvidence : revocationEvidence[e].grant = g
    /\ \A e, f \in DOMAIN revocationEvidence :
        \/ revocationEvidence[e].grant = revocationEvidence[f].grant
        \/ revocationEvidence[e].revocation = revocationEvidence[f].revocation
        => e = f

\* An answer of revokeGrant never goes stale: every result it ever returned,
\* first, repeated or replayed from the cache, and every result it will still
\* replay, names the revocation the grant has now and its evidence.  And a key
\* stands for one command: whatever it is sent with, it is answered one way.
AnswersStayTrue ==
    /\ \A a \in {x.result : x \in answers}
               \cup {idempotency[k].result : k \in {k \in Key : idempotency[k] # None}} :
        /\ a.grant \in DOMAIN grants /\ a.evidence \in DOMAIN revocationEvidence
        /\ grants[a.grant].revocation = a.revocation
        /\ revocationEvidence[a.evidence].grant = a.grant
        /\ revocationEvidence[a.evidence].revocation = a.revocation
    /\ \A x, y \in answers : x.key = y.key /\ x.key # None => x.result = y.result
=============================================================================
