----------------------------- MODULE ExecutionGate -----------------------------
(***************************************************************************)
(* The protocol's execution gate: capabilities minted from a consent, and  *)
(* authorizeExecution, which lets a request through unless evaluate-       *)
(* Enforcement finds the capability ill-formed, out of its time, too       *)
(* narrow, revoked, or of unknown revocation.  The revocation status comes *)
(* from the registry, in the same step, or from a lookup that races a      *)
(* timer; the caller of a lookup passes the settled status on to the gate  *)
(* later.  The instant is the request's own when it carries one.           *)
(*                                                                         *)
(* A capability is what it says, for its hash is computed from that and    *)
(* from no key: two mints of equal terms are one capability, a revocation  *)
(* of one is a revocation of both, and a capability nobody minted passes   *)
(* when it is well formed.  Permissions, subject, grantee and market maker *)
(* are matched like the scope and are left out.  The instants written in   *)
(* consents and capabilities are whole seconds, and nothing here tells two *)
(* instants of one second apart; the clock counts seconds.                 *)
(***************************************************************************)
EXTENDS Integers

CONSTANTS
    Scope,              \* scope entries
    Consent,            \* the consents: [scope, issued, expires]
    Capability,         \* bound: the capabilities anyone mints or composes
    Call,               \* authorizations in flight
    MaxSecond,          \* bound: the last second
    None

Second == 0..MaxSecond

ConsentTerms == [scope : (SUBSET Scope) \ {{}}, issued : Second, expires : Second \cup {None}]

CapabilityTerms ==
    [parent : Consent, scope : (SUBSET Scope) \ {{}}, issued : Second, expires : Second,
     notBefore : Second \cup {None}]

\* What an answer says: a status, a status by another name, something that is
\* no status at all; or it fails.
Status == {"verified_not_revoked", "revoked", "unknown"}
Misread == {"unrecognised", "shapeless"}
Reading == (Status \ {"unknown"}) \cup Misread \cup {"failed"}
Verdict == Status \cup Misread

ASSUME GateAssumption ==
    /\ MaxSecond \in Nat
    /\ Consent \subseteq ConsentTerms /\ Capability \subseteq CapabilityTerms
    /\ None \notin Second /\ None \notin Reading /\ None \notin Verdict

VARIABLES
    clock,
    minted,             \* history: the capabilities a consent was minted into
    revokedConsents, revokedCapabilities,   \* the registries
    calls,              \* call -> its lookup and what came of it
    authorized          \* the execution the last step authorized, or None

vars == <<clock, minted, revokedConsents, revokedCapabilities, calls, authorized>>

\* capability, reading and verdict are None until they are known; overtaken is
\* history: the capability was revoked after the registry was read.
NoCall == [phase |-> "idle", capability |-> None, reading |-> None, verdict |-> None,
           overtaken |-> FALSE]

Init ==
    /\ clock = 0
    /\ minted = {} /\ revokedConsents = {} /\ revokedCapabilities = {}
    /\ calls = [c \in Call |-> NoCall]
    /\ authorized = None

Tick ==
    /\ clock < MaxSecond
    /\ clock' = clock + 1
    /\ authorized' = None
    /\ UNCHANGED <<minted, revokedConsents, revokedCapabilities, calls>>

-----------------------------------------------------------------------------
(* Minting and revoking.                                                     *)

\* evaluateConsentState at the issued_at the caller wrote, not at the clock.
ConsentActive(consent, at) ==
    /\ consent \notin revokedConsents
    /\ consent.issued <= at
    /\ consent.expires # None => at < consent.expires

WellFormed(cap) ==
    /\ cap.issued < cap.expires
    /\ cap.notBefore # None => cap.issued <= cap.notBefore /\ cap.notBefore < cap.expires

Attenuates(cap) ==
    /\ cap.scope \subseteq cap.parent.scope
    /\ cap.parent.expires # None => cap.expires <= cap.parent.expires

\* The consent's own status comes from the in-process registry here; when that cannot
\* be read, nothing is minted.
MintCapability(cap) ==
    /\ ConsentActive(cap.parent, cap.issued)
    /\ WellFormed(cap) /\ Attenuates(cap)
    /\ minted' = minted \cup {cap}
    /\ authorized' = None
    /\ UNCHANGED <<clock, revokedConsents, revokedCapabilities, calls>>

\* The capabilities of a revoked consent stay as they are.
RevokeConsent(consent) ==
    /\ revokedConsents' = revokedConsents \cup {consent}
    /\ authorized' = None
    /\ UNCHANGED <<clock, minted, revokedCapabilities, calls>>

HasRead(c) == calls[c].reading = "verified_not_revoked"

RevokeCapability(cap) ==
    /\ revokedCapabilities' = revokedCapabilities \cup {cap}
    /\ calls' = [c \in Call |->
         IF calls[c].capability = cap /\ HasRead(c)
         THEN [calls[c] EXCEPT !.overtaken = TRUE] ELSE calls[c]]
    /\ authorized' = None
    /\ UNCHANGED <<clock, minted, revokedConsents>>

-----------------------------------------------------------------------------
(* withRevocationTimeout: the lookup races the timer.                        *)

RegistrySays(cap) ==
    IF cap \in revokedCapabilities THEN "revoked" ELSE "verified_not_revoked"

BeginLookup(c, cap) ==
    /\ calls[c].phase = "idle"
    /\ calls' = [calls EXCEPT ![c] = [NoCall EXCEPT !.phase = "racing", !.capability = cap]]
    /\ authorized' = None
    /\ UNCHANGED <<clock, minted, revokedConsents, revokedCapabilities>>

\* The source reads its registry and answers with what it says, answers with
\* something else, or fails; the answer is on its way.
ReadRegistry(c, answer) ==
    /\ calls[c].phase # "idle" /\ calls[c].reading = None
    /\ answer \in {RegistrySays(calls[c].capability), "failed"} \cup Misread
    /\ calls' = [calls EXCEPT ![c].reading = answer]
    /\ authorized' = None
    /\ UNCHANGED <<clock, minted, revokedConsents, revokedCapabilities>>

VerdictAsRead(reading) == reading

\* A rejected lookup is an unknown status; what a lookup resolves to is passed
\* on as it is.
VerdictOf(reading) == IF reading = "failed" THEN "unknown" ELSE reading

SettleOver(c, verdict) ==
    /\ calls[c].phase # "idle"
    /\ calls' = [calls EXCEPT ![c].phase = "settled", ![c].verdict = verdict]

\* The race has one winner; what comes after it is dropped.
Settle(c, verdict) ==
    /\ calls[c].phase = "racing"
    /\ calls' = [calls EXCEPT ![c].phase = "settled", ![c].verdict = verdict]

Deliver(c) ==
    /\ calls[c].reading # None
    /\ Settle(c, VerdictOf(calls[c].reading))
    /\ authorized' = None
    /\ UNCHANGED <<clock, minted, revokedConsents, revokedCapabilities>>

TimeOut(c) ==
    /\ Settle(c, "unknown")
    /\ authorized' = None
    /\ UNCHANGED <<clock, minted, revokedConsents, revokedCapabilities>>

-----------------------------------------------------------------------------
(* authorizeExecution.                                                       *)

StatusOrClean(verdict) ==
    IF verdict = "revoked" THEN "revoked" ELSE "verified_not_revoked"

\* Something that is no status counts as unknown; a status by another name is
\* none of the two the gate looks for.
StatusOf(verdict) == IF verdict = "shapeless" THEN "unknown" ELSE verdict

\* evaluateCapabilityState after the revocation: the instant, written with
\* milliseconds, is compared with whole seconds as text.  It sorts before the
\* second it lies in, so both bounds bite one second late.
InItsTime(cap, instant) ==
    /\ cap.notBefore # None => instant > cap.notBefore
    /\ instant <= cap.expires

\* evaluateEnforcement asks for the status twice, for the state and again for
\* the access, and either can be what denies.
Allows(cap, scope, instant, status, statusAgain) ==
    /\ WellFormed(cap)
    /\ {status, statusAgain} \cap {"revoked", "unknown"} = {}
    /\ InItsTime(cap, instant)
    /\ scope \subseteq cap.scope

\* The request's own now, or the clock.
InstantOf(now) == IF now = None THEN clock ELSE now

Authorize(cap, scope, instant, status, overtaken) ==
    authorized' = [capability |-> cap, scope |-> scope, instant |-> instant, status |-> status,
                   overtaken |-> overtaken, revoked |-> cap \in revokedCapabilities]

\* With the settled status of a lookup.
AuthorizeSettled(c, scope, now) ==
    LET call == calls[c]  status == StatusOf(call.verdict) IN
    /\ call.phase = "settled"
    /\ IF Allows(call.capability, scope, InstantOf(now), status, status)
       THEN Authorize(call.capability, scope, InstantOf(now), status, call.overtaken)
       ELSE authorized' = None
    /\ calls' = [calls EXCEPT ![c] = NoCall]
    /\ UNCHANGED <<clock, minted, revokedConsents, revokedCapabilities>>

\* With the in-process registry, which may fail at one of the two readings; a
\* denial changes nothing.
AuthorizeNow(cap, scope, now, first, second) ==
    LET status == StatusOf(VerdictOf(first))  again == StatusOf(VerdictOf(second)) IN
    /\ {first, second} \subseteq {RegistrySays(cap), "failed"}
    /\ Allows(cap, scope, InstantOf(now), status, again)
    /\ Authorize(cap, scope, InstantOf(now), again, FALSE)
    /\ UNCHANGED <<clock, minted, revokedConsents, revokedCapabilities, calls>>

Next ==
    \/ Tick
    \/ \E cap \in Capability : MintCapability(cap) \/ RevokeCapability(cap)
    \/ \E consent \in Consent : RevokeConsent(consent)
    \/ \E c \in Call :
        \/ \E cap \in Capability : BeginLookup(c, cap)
        \/ \E answer \in Reading : ReadRegistry(c, answer)
        \/ Deliver(c) \/ TimeOut(c)
        \/ \E scope \in (SUBSET Scope) \ {{}}, now \in Second \cup {None} :
            AuthorizeSettled(c, scope, now)
    \/ \E cap \in Capability, scope \in (SUBSET Scope) \ {{}}, now \in Second \cup {None},
          first, second \in Reading :
        AuthorizeNow(cap, scope, now, first, second)

\* A timer fires; nothing makes a registry answer.
Fairness == \A c \in Call : WF_vars(TimeOut(c))

Spec == Init /\ [][Next]_vars
FairSpec == Spec /\ Fairness

-----------------------------------------------------------------------------
(* Properties.                                                               *)

CallRecord ==
    [phase : {"idle", "racing", "settled"}, capability : Capability \cup {None},
     reading : Reading \cup {None}, verdict : Verdict \cup {None}, overtaken : BOOLEAN]

GateTypeOK ==
    /\ clock \in Second
    /\ minted \subseteq Capability
    /\ revokedConsents \subseteq Consent
    /\ revokedCapabilities \subseteq Capability
    /\ calls \in [Call -> CallRecord]
    /\ \A c \in Call : calls[c].phase # "idle" => calls[c].capability \in Capability

\* Whatever the registry answered, when, or whether it answered at all, what the
\* gate authorizes under a minted capability lies within the scope of the consent
\* behind it and, at the instant the request is judged by, no later than the
\* second in which that consent expires.  And under any capability that was
\* revoked by then, the registry had been read for this very call before the
\* revocation, or had answered with a status nobody knows (see the next property).
AuthorizedWithinTerms ==
    authorized # None =>
        LET cap == authorized.capability IN
        /\ cap \in minted =>
            /\ authorized.scope \subseteq cap.parent.scope
            /\ cap.parent.expires # None => authorized.instant <= cap.parent.expires
        /\ authorized.revoked /\ authorized.status # "unrecognised" => authorized.overtaken

\* What the types say: "Only verified_not_revoked may permit a material operation"
\* (revocation-types.ts:6), and a malformed resolution becomes unknown
\* (revocation-check.ts:100).  The code breaks it: the timeout passes a malformed
\* resolution on and the gate looks only for the two statuses that deny.
OnlyVerifiedExecutes ==
    authorized # None => authorized.status = "verified_not_revoked"

\* A verdict stands: an answer that comes after the timer has won changes nothing.
VerdictsStand ==
    [][\A c \in Call :
         calls[c].phase = "settled" /\ calls'[c].phase = "settled"
         => calls'[c].verdict = calls[c].verdict]_vars

\* A lookup the registry never answers still ends in a verdict, and one only.
LookupsSettleOnce ==
    /\ \A c \in Call : calls[c].phase = "racing" ~> calls[c].phase = "settled"
    /\ VerdictsStand
=============================================================================
