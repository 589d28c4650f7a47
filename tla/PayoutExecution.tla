---------------------------- MODULE PayoutExecution ----------------------------
(***************************************************************************)
(* The trust service and the payout executor of the runtime: credentials   *)
(* and consents decide whether a subject's identity verifies for a         *)
(* consumer, and a withdrawal is paid through an adapter when it does.     *)
(* The result of a withdrawal is cached under its id, the denial of one    *)
(* and the provider's refusal too; the cache is written after the adapter  *)
(* returns, so an adapter that throws leaves nothing behind, whether or    *)
(* not it had sent the money.                                              *)
(*                                                                         *)
(* The issuers are the active ones, which no operation changes; amounts,   *)
(* wallets and KYC levels decide nothing here and are left out.            *)
(***************************************************************************)
EXTENDS Integers, Sequences, RuntimeParties

CONSTANTS
    Issuer,              \* the active issuers
    CredentialRef,
    IdentityConsentId,
    IssuedAt,            \* instants written in credentials
    Withdrawal,
    MaxFailures          \* bound: adapter failures of a withdrawal

Credential ==
    [ref : CredentialRef, subject : Subject, issuer : Issuer, issuedAt : IssuedAt,
     expired : BOOLEAN]

IdentityConsent == [subject : Subject, consumer : Requester, issuer : Issuer]

WithdrawalRequest ==
    [withdrawal : Withdrawal, subject : Subject, consumer : Requester, issuer : Issuer \cup {None}]

\* What an adapter returns: the provider took the order (queued or completed), or
\* refused it (failed).
ProviderStatus == {"sent", "failed"}

\* Or it throws, before or after the order was taken.
AdapterOutcome == ProviderStatus \cup {"threwUnsent", "threwSent"}

ASSUME PayoutAssumption ==
    /\ MaxFailures \in Nat /\ IssuedAt \subseteq Int
    /\ None \notin ProviderStatus \cup {"blocked"} /\ None \notin IdentityConsent

VARIABLES
    credentials,         \* in the order their refs were first registered
    identityConsents,    \* consent id -> the consent granted under it last, or None
    idempotentResults,   \* withdrawal -> cached result
    transfers,           \* history: orders the provider took
    failures             \* history: times the adapter threw

payoutVars == <<credentials, identityConsents, idempotentResults, transfers, failures>>

PayoutInit ==
    /\ credentials = << >> /\ identityConsents = [id \in IdentityConsentId |-> None]
    /\ idempotentResults = [w \in Withdrawal |-> None]
    /\ transfers = [w \in Withdrawal |-> 0]
    /\ failures = [w \in Withdrawal |-> 0]

\* A ref that is registered again keeps its place in the map.
RegisterCredential(c) ==
    /\ credentials' =
         IF \E i \in DOMAIN credentials : credentials[i].ref = c.ref
         THEN [i \in DOMAIN credentials |->
                 IF credentials[i].ref = c.ref THEN c ELSE credentials[i]]
         ELSE Append(credentials, c)
    /\ UNCHANGED <<identityConsents, idempotentResults, transfers, failures>>

\* Time passes the expiry written in a credential.
Expire(i) ==
    /\ i \in DOMAIN credentials /\ ~credentials[i].expired
    /\ credentials' = [credentials EXCEPT ![i].expired = TRUE]
    /\ UNCHANGED <<identityConsents, idempotentResults, transfers, failures>>

\* A consent id that is used again takes the earlier consent away.
GrantIdentityConsent(id, consent) ==
    /\ identityConsents' = [identityConsents EXCEPT ![id] = consent]
    /\ UNCHANGED <<credentials, idempotentResults, transfers, failures>>

\* The subject's credentials, of the issuer asked for if one is.
CandidatesOf(s, issuer) ==
    {i \in DOMAIN credentials :
        credentials[i].subject = s /\ (issuer = None \/ credentials[i].issuer = issuer)}

\* The latest issued credential decides alone, the first registered on a tie.
IsLatestOf(s, issuer, i) ==
    /\ i \in CandidatesOf(s, issuer)
    /\ \A j \in CandidatesOf(s, issuer) :
         \/ credentials[j].issuedAt < credentials[i].issuedAt
         \/ credentials[j].issuedAt = credentials[i].issuedAt /\ i <= j

Consented(s, consumer, issuer) ==
    \E id \in IdentityConsentId :
        identityConsents[id] = [subject |-> s, consumer |-> consumer, issuer |-> issuer]

Verifies(req) ==
    \E i \in CandidatesOf(req.subject, req.issuer) :
        /\ IsLatestOf(req.subject, req.issuer, i)
        /\ ~credentials[i].expired
        /\ Consented(req.subject, req.consumer, credentials[i].issuer)

-----------------------------------------------------------------------------
(* RlusdPayoutExecutorService.execute.                                       *)

NeverDecided(w) == TRUE

Undecided(w) == idempotentResults[w] = None

\* The only outcome the caller sees as an error.
AdapterThrows(req, outcome) ==
    /\ Undecided(req.withdrawal)
    /\ Verifies(req)
    /\ outcome \notin ProviderStatus

ReplayResult(req) ==
    /\ ~Undecided(req.withdrawal)
    /\ UNCHANGED payoutVars

BlockPayout(req) ==
    /\ Undecided(req.withdrawal) /\ ~Verifies(req)
    /\ idempotentResults' = [idempotentResults EXCEPT ![req.withdrawal] = "blocked"]
    /\ UNCHANGED <<credentials, identityConsents, transfers, failures>>

\* Whatever the adapter returns is answered as allowed, a refusal too.
Pay(req, status) ==
    /\ Undecided(req.withdrawal) /\ Verifies(req)
    /\ status \in ProviderStatus
    /\ transfers' = IF status = "failed" THEN transfers
                    ELSE [transfers EXCEPT ![req.withdrawal] = @ + 1]
    /\ idempotentResults' = [idempotentResults EXCEPT ![req.withdrawal] = status]
    /\ UNCHANGED <<credentials, identityConsents, failures>>

FailToPayReserved(req, outcome) ==
    /\ AdapterThrows(req, outcome)
    /\ failures[req.withdrawal] < MaxFailures
    /\ failures' = [failures EXCEPT ![req.withdrawal] = @ + 1]
    /\ transfers' = IF outcome = "threwUnsent" THEN transfers
                    ELSE [transfers EXCEPT ![req.withdrawal] = @ + 1]
    /\ idempotentResults' = [idempotentResults EXCEPT ![req.withdrawal] = "sent"]
    /\ UNCHANGED <<credentials, identityConsents>>

FailToPay(req, outcome) ==
    /\ AdapterThrows(req, outcome)
    /\ failures[req.withdrawal] < MaxFailures
    /\ failures' = [failures EXCEPT ![req.withdrawal] = @ + 1]
    /\ transfers' = IF outcome = "threwUnsent" THEN transfers
                    ELSE [transfers EXCEPT ![req.withdrawal] = @ + 1]
    /\ UNCHANGED <<credentials, identityConsents, idempotentResults>>

ExecutePayout(req, outcome) ==
    \/ ReplayResult(req)
    \/ BlockPayout(req)
    \/ Pay(req, outcome)
    \/ FailToPay(req, outcome)

-----------------------------------------------------------------------------
(* Properties.                                                               *)

PayoutTypeOK ==
    /\ credentials \in Seq(Credential)
    /\ identityConsents \in [IdentityConsentId -> IdentityConsent \cup {None}]
    /\ idempotentResults \in [Withdrawal -> ProviderStatus \cup {"blocked", None}]
    /\ transfers \in [Withdrawal -> Nat]
    /\ failures \in [Withdrawal -> Nat]

\* However often a withdrawal is retried, and whatever becomes of the credentials
\* and consents meanwhile, an answer that the provider took the order stands for
\* one order, and every other order is one the adapter made before it threw.  A
\* withdrawal that was blocked, or refused by the provider, is never ordered after.
PaidOncePerAnswer ==
    \A w \in Withdrawal :
        /\ idempotentResults[w] = "sent" => transfers[w] > 0
        /\ transfers[w] <= failures[w] + (IF idempotentResults[w] = "sent" THEN 1 ELSE 0)
=============================================================================
