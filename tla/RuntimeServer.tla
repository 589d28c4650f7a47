----------------------------- MODULE RuntimeServer -----------------------------
(***************************************************************************)
(* The HTTP server of the runtime around its control plane, trust service  *)
(* and payout executor.  A request is authenticated and charged to the     *)
(* rate limit when its headers arrive; the handler then waits for the      *)
(* body, and from there to the response runs without interruption.  The    *)
(* metering of an answered request is a job of its own, queued behind the  *)
(* response, whose failure is only logged.                                 *)
(*                                                                         *)
(* A connection is "idle" again once it is answered.  What an answer does  *)
(* not change is not modelled: a request that is unauthenticated, over its *)
(* limit, or to an unknown endpoint is a stuttering step.  Access tokens,  *)
(* audit events and payout callbacks are written and never read back by a  *)
(* decision; they are left out.                                            *)
(* The injected telemetry sink and logger are taken not to throw: on their *)
(* account alone a received request would go unanswered.                   *)
(***************************************************************************)
EXTENDS ControlPlane, PayoutExecution

CONSTANTS
    Conn,               \* connections
    ApiKey, Limit,      \* API keys, and requests a key may make in a window
    RevokeInputs,       \* the inputs of revocations clients send
    MaxMetered          \* bound: answers of metered endpoints

VARIABLES
    conn,               \* "idle", "reading", "received"
    windows,            \* requests charged to each key in its window
    microtasks,         \* metering jobs, in the order they were queued
    usage,              \* records of usage
    meteringErrors,     \* history: jobs that failed before their record
    metered             \* history: answers that owed a usage record

ASSUME RuntimeAssumption ==
    /\ Limit \in Nat \ {0} /\ MaxMetered \in Nat
    /\ RevokeInputs \subseteq RevokeInput

meterVars == <<microtasks, usage, meteringErrors, metered>>
serverVars == <<conn, windows>>
vars == <<serverVars, meterVars, planeVars, payoutVars>>

Init ==
    /\ PlaneInit /\ PayoutInit
    /\ conn = [c \in Conn |-> "idle"]
    /\ windows = [k \in ApiKey |-> 0]
    /\ microtasks = << >>
    /\ usage = 0 /\ meteringErrors = 0 /\ metered = 0

-----------------------------------------------------------------------------
(* From the headers to the body.                                             *)

ChargeLate(k) ==
    /\ windows[k] <= Limit
    /\ windows' = [windows EXCEPT ![k] = @ + 1]

\* authAndLimit: the request counts against its key before its body is read.
Charge(k) ==
    /\ windows[k] < Limit
    /\ windows' = [windows EXCEPT ![k] = @ + 1]

Admit(c, k) ==
    /\ conn[c] = "idle"
    /\ Charge(k)
    /\ conn' = [conn EXCEPT ![c] = "reading"]
    /\ UNCHANGED <<meterVars, planeVars, payoutVars>>

\* A GET has no body to wait for, and its routes only read.
AnswerGet(k) ==
    /\ Charge(k)
    /\ UNCHANGED <<conn, meterVars, planeVars, payoutVars>>

WindowElapses(k) ==
    /\ windows[k] > 0
    /\ windows' = [windows EXCEPT ![k] = 0]
    /\ UNCHANGED <<conn, meterVars, planeVars, payoutVars>>

\* The body is complete, or the client gives up and the request is answered 400.
EndBody(c, complete) ==
    /\ conn[c] = "reading"
    /\ conn' = [conn EXCEPT ![c] = IF complete THEN "received" ELSE "idle"]
    /\ UNCHANGED <<windows, meterVars, planeVars, payoutVars>>

-----------------------------------------------------------------------------
(* The handler, from the body to the response.                               *)

Meter ==
    /\ metered < MaxMetered
    /\ metered' = metered + 1
    /\ microtasks' = Append(microtasks, "meter")
    /\ UNCHANGED <<usage, meteringErrors>>

\* A body that does not parse, a capability that is denied, a route that fails.
RefuseRequest == UNCHANGED <<meterVars, planeVars, payoutVars>>

ServePlane ==
    /\ \/ \E s \in Subject, r \in Requester : CreateAccessRequest(s, r)
       \/ \E i \in RequestId, v \in {"approved", "denied"} :
            i \in DOMAIN requests /\ DecideAccessRequest(i, requests[i].subject, v)
       \/ \E in \in RevokeInputs, throws \in BOOLEAN : RevokeGrant(in, throws)
    /\ UNCHANGED <<meterVars, payoutVars>>

ServeTrust ==
    /\ \/ \E c \in Credential : RegisterCredential(c)
       \/ \E id \in IdentityConsentId, consent \in IdentityConsent :
            GrantIdentityConsent(id, consent)
    /\ UNCHANGED <<meterVars, planeVars>>

\* /trust/verify and /data/access: a verdict, allowed or denied, is metered.
ServeVerdict == Meter /\ UNCHANGED <<planeVars, payoutVars>>

\* An answer from the cache is metered again, an error is not metered.
MeterPayout(req, outcome) ==
    IF AdapterThrows(req, outcome) THEN UNCHANGED meterVars ELSE Meter

ServePayout ==
    /\ \E req \in WithdrawalRequest, outcome \in AdapterOutcome :
         ExecutePayout(req, outcome) /\ MeterPayout(req, outcome)
    /\ UNCHANGED planeVars

HandleAlone(c) ==
    /\ conn[c] = "received" /\ \A d \in Conn \ {c} : conn[d] # "reading"
    /\ conn' = [conn EXCEPT ![c] = "idle"]
    /\ RefuseRequest \/ ServePlane \/ ServeTrust \/ ServeVerdict \/ ServePayout
    /\ UNCHANGED windows

Handle(c) ==
    /\ conn[c] = "received"
    /\ conn' = [conn EXCEPT ![c] = "idle"]
    /\ RefuseRequest \/ ServePlane \/ ServeTrust \/ ServeVerdict \/ ServePayout
    /\ UNCHANGED windows

-----------------------------------------------------------------------------
(* The metering job: the usage record, then the billable event of a priced    *)
(* endpoint.  An exception on the way ends the job and is logged; after the   *)
(* usage record it only costs the billable event, which no decision reads.    *)

RunMetering ==
    /\ microtasks # << >>
    /\ microtasks' = Tail(microtasks)
    /\ \E recorded \in {0, 1} :
        /\ usage' = usage + recorded
        /\ meteringErrors' = meteringErrors + 1 - recorded
    /\ UNCHANGED <<metered, serverVars, planeVars, payoutVars>>

ExpireCredential ==
    /\ \E i \in DOMAIN credentials : Expire(i)
    /\ UNCHANGED <<serverVars, meterVars, planeVars>>

Next ==
    \/ \E c \in Conn, k \in ApiKey : Admit(c, k)
    \/ \E k \in ApiKey : AnswerGet(k) \/ WindowElapses(k)
    \/ \E c \in Conn : (\E complete \in BOOLEAN : EndBody(c, complete)) \/ Handle(c)
    \/ RunMetering
    \/ ExpireCredential

\* The event loop runs what is ready: a received body's handler, a queued job.
\* Nothing makes a client send its body.
Fairness == (\A c \in Conn : WF_vars(Handle(c))) /\ WF_vars(RunMetering)

Spec == Init /\ [][Next]_vars
FairSpec == Spec /\ Fairness

-----------------------------------------------------------------------------
(* Properties.                                                               *)

RuntimeTypeOK ==
    /\ PlaneTypeOK /\ PayoutTypeOK
    /\ conn \in [Conn -> {"idle", "reading", "received"}]
    /\ windows \in [ApiKey -> 0..Limit]
    /\ microtasks \in Seq({"meter"})
    /\ usage \in Nat /\ meteringErrors \in Nat /\ metered \in Nat

\* What has been decided stands.  A revoked grant keeps its revocation, a key
\* keeps the command it was used for and its result, and a withdrawal that was
\* answered keeps its answer and is never paid again, whatever is retried,
\* decided again or replayed later and however credentials and consents change
\* (ControlPlaneService, RlusdPayoutExecutorService).
DecisionsStand ==
    [][/\ \A g \in DOMAIN grants : IsRevoked(g) =>
            g \in DOMAIN grants' /\ grants'[g] = grants[g]
       /\ \A k \in Key : idempotency[k] # None => idempotency'[k] = idempotency[k]
       /\ \A w \in Withdrawal : idempotentResults[w] # None =>
            /\ idempotentResults'[w] = idempotentResults[w]
            /\ transfers'[w] = transfers[w]]_vars

\* A request whose body has arrived is answered although other clients never
\* finish sending theirs, and what an answer owes the meter is settled.
ServedAndSettled ==
    /\ \A c \in Conn : conn[c] = "received" ~> conn[c] = "idle"
    /\ \A n \in 1..MaxMetered : metered >= n ~> usage + meteringErrors >= n
=============================================================================
