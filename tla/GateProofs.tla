------------------------------ MODULE GateProofs ------------------------------
(***************************************************************************)
(* The execution gate keeps its capabilities' terms, for any consents,     *)
(* capabilities, calls and seconds.  AuthorizedWithinTerms says nothing of *)
(* a lookup in flight; the invariant behind it follows a reading from the  *)
(* registry to the verdict, and a minted capability back to its consent.   *)
(***************************************************************************)
EXTENDS ExecutionGate, TLAPS

\* A minted capability goes no further than its consent.
MintedAttenuates ==
    \A cap \in minted :
        /\ cap.scope \subseteq cap.parent.scope
        /\ cap.parent.expires # None => cap.expires <= cap.parent.expires

\* A settled lookup has a verdict; a clean one comes from a clean reading of the registry, and only a
\* revocation after that reading can make the capability a revoked one.
VerdictsAreReadings ==
    \A c \in Call :
        /\ calls[c].phase = "settled" => calls[c].verdict # None
        /\ calls[c].verdict = "verified_not_revoked" => HasRead(c)
        /\ HasRead(c) /\ calls[c].capability \in revokedCapabilities => calls[c].overtaken

GateInv == GateTypeOK /\ MintedAttenuates /\ VerdictsAreReadings /\ AuthorizedWithinTerms

\* Only a clean reading gives a clean verdict, and only a clean verdict a clean status.
LEMMA CleanStatus ==
    ASSUME NEW x
    PROVE  /\ VerdictOf(x) = "verified_not_revoked" => x = "verified_not_revoked"
           /\ StatusOf(x) = "verified_not_revoked" => x = "verified_not_revoked"
  BY DEF StatusOf, VerdictOf

\* What a lookup settles on is a verdict.
LEMMA VerdictIsVerdict ==
    ASSUME NEW reading \in Reading
    PROVE  VerdictOf(reading) \in Verdict
  BY DEF VerdictOf, Verdict, Reading, Status, Misread

\* The gate allows nothing but clean statuses and those of another name.
LEMMA AllowedStatus ==
    ASSUME NEW verdict \in Verdict, StatusOf(verdict) \notin {"revoked", "unknown"},
           StatusOf(verdict) # "unrecognised"
    PROVE  verdict = "verified_not_revoked"
  BY DEF StatusOf, Verdict, Status, Misread

\* Settling a lookup on a verdict that is clean only after a clean reading.
LEMMA SettleStep ==
    ASSUME GateInv, NEW c \in Call, NEW v \in Verdict, Settle(c, v),
           authorized' = None,
           UNCHANGED <<clock, minted, revokedConsents, revokedCapabilities>>
    PROVE  /\ GateTypeOK'
           /\ (v = "verified_not_revoked" => HasRead(c)) => VerdictsAreReadings'
<1> DEFINE settled == [calls[c] EXCEPT !.phase = "settled", !.verdict = v]
<1>1. calls \in [Call -> CallRecord] /\ calls[c].capability \in Capability
  BY DEF GateInv, GateTypeOK, Settle
<1>2. calls' = [calls EXCEPT ![c] = settled]
  BY <1>1 DEF Settle
<1>3. /\ settled \in CallRecord /\ settled.verdict = v /\ settled.phase = "settled"
      /\ settled.capability = calls[c].capability
      /\ settled.reading = calls[c].reading /\ settled.overtaken = calls[c].overtaken
  BY <1>1 DEF CallRecord
<1> HIDE DEF settled
<1>4. calls' \in [Call -> CallRecord] /\ calls'[c] = settled
      /\ \A d \in Call \ {c} : calls'[d] = calls[d]
  BY <1>1, <1>2, <1>3
<1>5. GateTypeOK'
  BY <1>1, <1>3, <1>4 DEF GateInv, GateTypeOK
<1>6. ASSUME v = "verified_not_revoked" => HasRead(c) PROVE VerdictsAreReadings'
  BY <1>3, <1>4, <1>6, GateAssumption DEF GateInv, VerdictsAreReadings, HasRead
<1> QED
  BY <1>5, <1>6

\* The parts of a capability, and the instant a request is judged by.
LEMMA CapabilityParts ==
    ASSUME NEW cap \in Capability
    PROVE  /\ cap.expires \in Nat
           /\ cap.parent \in Consent
           /\ cap.parent.expires # None => cap.parent.expires \in Nat
  BY GateAssumption DEF CapabilityTerms, ConsentTerms, Second

LEMMA InstantIsSecond ==
    ASSUME GateTypeOK, NEW now \in Second \cup {None}
    PROVE  InstantOf(now) \in Second
  BY DEF GateTypeOK, InstantOf

\* An execution in the time and within the scope of a capability is one
\* AuthorizedWithinTerms accepts, when a revoked capability was overtaken.
LEMMA AuthorizeWithinTerms ==
    ASSUME GateTypeOK, MintedAttenuates, UNCHANGED minted,
           NEW cap \in Capability, NEW scope, NEW instant \in Second, NEW overtaken,
           NEW status, NEW again,
           Allows(cap, scope, instant, status, again),
           Authorize(cap, scope, instant, again, overtaken),
           cap \in revokedCapabilities /\ again # "unrecognised" => overtaken
    PROVE  AuthorizedWithinTerms'
<1>1. /\ authorized'.capability = cap /\ authorized'.scope = scope
      /\ authorized'.instant = instant /\ authorized'.overtaken = overtaken
      /\ authorized'.status = again
      /\ authorized'.revoked = (cap \in revokedCapabilities)
  BY DEF Authorize
<1>2. cap \in minted => scope \subseteq cap.parent.scope
  BY DEF Allows, MintedAttenuates
<1>3. cap \in minted /\ cap.parent.expires # None => instant <= cap.parent.expires
  <2>1. instant \in Nat /\ instant <= cap.expires
    BY GateAssumption DEF Second, Allows, InItsTime
  <2> QED
    BY <2>1, CapabilityParts DEF MintedAttenuates
<1> QED
  BY <1>1, <1>2, <1>3 DEF AuthorizedWithinTerms

\* The invariant holds when nothing has been minted or asked.
LEMMA GateInitially == Init => GateInv
<1> SUFFICES ASSUME Init PROVE GateInv
  OBVIOUS
<1>1. GateTypeOK
  BY GateAssumption DEF Init, GateTypeOK, NoCall, CallRecord, Second
<1>2. MintedAttenuates /\ AuthorizedWithinTerms
  BY DEF Init, MintedAttenuates, AuthorizedWithinTerms
<1>3. VerdictsAreReadings
  BY GateAssumption DEF Init, VerdictsAreReadings, NoCall, HasRead, Verdict, Reading, Status
<1> QED
  BY <1>1, <1>2, <1>3 DEF GateInv

\* One step for each action; the lookup's own steps touch only calls.
LEMMA GateInductive == GateInv /\ [Next]_vars => GateInv'
<1> SUFFICES ASSUME GateInv, [Next]_vars PROVE GateInv'
  OBVIOUS
<1> USE DEF GateInv
<1>1. CASE Tick
  <2>1. GateTypeOK'
    BY <1>1, GateAssumption DEF Tick, GateTypeOK, Second
  <2> QED
    BY <1>1, <2>1 DEF Tick, MintedAttenuates, VerdictsAreReadings, HasRead, AuthorizedWithinTerms
<1>2. ASSUME NEW cap \in Capability, MintCapability(cap) PROVE GateInv'
  <2>1. GateTypeOK'
    BY <1>2 DEF MintCapability, GateTypeOK
  <2>2. MintedAttenuates'
    BY <1>2 DEF MintCapability, Attenuates, MintedAttenuates
  <2> QED
    BY <1>2, <2>1, <2>2 DEF MintCapability, VerdictsAreReadings, HasRead, AuthorizedWithinTerms
<1>3. ASSUME NEW consent \in Consent, RevokeConsent(consent) PROVE GateInv'
  BY <1>3 DEF RevokeConsent, GateTypeOK, MintedAttenuates, VerdictsAreReadings, HasRead,
              AuthorizedWithinTerms
<1>4. ASSUME NEW cap \in Capability, RevokeCapability(cap) PROVE GateInv'
  <2>1. \A c \in Call :
          /\ calls'[c] \in CallRecord
          /\ calls'[c].phase = calls[c].phase /\ calls'[c].capability = calls[c].capability
          /\ calls'[c].reading = calls[c].reading /\ calls'[c].verdict = calls[c].verdict
          /\ calls[c].overtaken => calls'[c].overtaken
          /\ calls[c].capability = cap /\ HasRead(c) => calls'[c].overtaken
    BY <1>4 DEF RevokeCapability, GateTypeOK, CallRecord
  <2>2. GateTypeOK'
    BY <1>4, <2>1 DEF RevokeCapability, GateTypeOK
  <2>3. VerdictsAreReadings'
    BY <1>4, <2>1 DEF RevokeCapability, VerdictsAreReadings, HasRead
  <2> QED
    BY <1>4, <2>2, <2>3 DEF RevokeCapability, MintedAttenuates, AuthorizedWithinTerms
<1>5. ASSUME NEW c \in Call, NEW cap \in Capability, BeginLookup(c, cap) PROVE GateInv'
  <2>1. GateTypeOK'
    BY <1>5, GateAssumption DEF BeginLookup, GateTypeOK, CallRecord, NoCall
  <2>2. VerdictsAreReadings'
    BY <1>5, GateAssumption
    DEF BeginLookup, GateTypeOK, VerdictsAreReadings, HasRead, NoCall, Reading, Verdict, Status
  <2> QED
    BY <1>5, <2>1, <2>2 DEF BeginLookup, MintedAttenuates, AuthorizedWithinTerms
<1>6. ASSUME NEW c \in Call, NEW answer \in Reading, ReadRegistry(c, answer) PROVE GateInv'
  <2>1. GateTypeOK'
    BY <1>6 DEF ReadRegistry, GateTypeOK, CallRecord
  <2>2. /\ UNCHANGED revokedCapabilities
        /\ \A d \in Call \ {c} : calls'[d] = calls[d]
        /\ calls[c].reading = None /\ calls[c].capability = calls'[c].capability
        /\ calls[c].verdict = calls'[c].verdict /\ calls[c].phase = calls'[c].phase
    BY <1>6 DEF ReadRegistry, GateTypeOK, CallRecord
  <2>3. HasRead(c)' => calls'[c].capability \notin revokedCapabilities
    <3>1. calls'[c].reading = answer
      BY <1>6 DEF ReadRegistry, GateTypeOK, CallRecord
    <3>2. answer = "verified_not_revoked" => calls[c].capability \notin revokedCapabilities
      BY <1>6 DEF ReadRegistry, RegistrySays, Misread
    <3> QED
      BY <2>2, <3>1, <3>2 DEF HasRead
  <2>4. calls[c].verdict # "verified_not_revoked"
    BY <2>2, GateAssumption DEF GateInv, VerdictsAreReadings, HasRead, Reading, Status
  <2>5. VerdictsAreReadings'
    BY <2>2, <2>3, <2>4 DEF GateInv, VerdictsAreReadings, HasRead
  <2> QED
    BY <1>6, <2>1, <2>5 DEF ReadRegistry, MintedAttenuates, AuthorizedWithinTerms
<1>7. ASSUME NEW c \in Call, Deliver(c) PROVE GateInv'
  <2> DEFINE v == VerdictOf(calls[c].reading)
  <2>1. v \in Verdict
    BY <1>7, VerdictIsVerdict DEF Deliver, GateTypeOK, CallRecord
  <2>2. v = "verified_not_revoked" => HasRead(c)
    BY CleanStatus DEF HasRead
  <2>3. Settle(c, v) /\ authorized' = None
        /\ UNCHANGED <<clock, minted, revokedConsents, revokedCapabilities>>
    BY <1>7 DEF Deliver
  <2> HIDE DEF v
  <2>4. GateTypeOK' /\ VerdictsAreReadings'
    BY <2>1, <2>2, <2>3, SettleStep
  <2> QED
    BY <2>3, <2>4 DEF MintedAttenuates, AuthorizedWithinTerms
<1>8. ASSUME NEW c \in Call, TimeOut(c) PROVE GateInv'
  <2>1. "unknown" \in Verdict
    BY DEF Verdict, Status
  <2>2. Settle(c, "unknown") /\ authorized' = None
        /\ UNCHANGED <<clock, minted, revokedConsents, revokedCapabilities>>
    BY <1>8 DEF TimeOut
  <2>3. GateTypeOK' /\ VerdictsAreReadings'
    BY <2>1, <2>2, SettleStep
  <2> QED
    BY <2>2, <2>3 DEF MintedAttenuates, AuthorizedWithinTerms
<1>9. ASSUME NEW c \in Call, NEW scope \in (SUBSET Scope) \ {{}}, NEW now \in Second \cup {None},
             AuthorizeSettled(c, scope, now)
      PROVE GateInv'
  <2>1. GateTypeOK'
    BY <1>9 DEF AuthorizeSettled, GateTypeOK, CallRecord, NoCall
  <2>2. VerdictsAreReadings'
    BY <1>9, GateAssumption
    DEF AuthorizeSettled, GateTypeOK, VerdictsAreReadings, HasRead, NoCall, Reading, Verdict, Status
  <2>3. AuthorizedWithinTerms'
    <3> DEFINE cap == calls[c].capability
               status == StatusOf(calls[c].verdict)
               instant == InstantOf(now)
               overtaken == calls[c].overtaken
    <3>1. CASE Allows(cap, scope, instant, status, status)
      <4>1. cap \in Capability /\ instant \in Second
        BY <1>9, InstantIsSecond DEF AuthorizeSettled, GateTypeOK
      <4>2. cap \in revokedCapabilities /\ status # "unrecognised" => overtaken
        <5> SUFFICES ASSUME cap \in revokedCapabilities, status # "unrecognised"
                     PROVE  overtaken
          OBVIOUS
        <5>1. status \notin {"revoked", "unknown"}
          BY <3>1 DEF Allows
        <5>2. calls[c].verdict \in Verdict \cup {None}
          BY DEF GateTypeOK, CallRecord
        <5>3. calls[c].verdict = "verified_not_revoked"
          BY <1>9, <5>1, <5>2, AllowedStatus DEF AuthorizeSettled, VerdictsAreReadings
        <5> QED
          BY <5>3 DEF VerdictsAreReadings
      <4>3. Authorize(cap, scope, instant, status, overtaken) /\ UNCHANGED minted
        BY <1>9, <3>1 DEF AuthorizeSettled
      <4> HIDE DEF cap, status, instant, overtaken
      <4> QED
        BY <3>1, <4>1, <4>2, <4>3, AuthorizeWithinTerms
    <3>2. CASE ~Allows(cap, scope, instant, status, status)
      BY <1>9, <3>2 DEF AuthorizeSettled, AuthorizedWithinTerms
    <3> QED
      BY <3>1, <3>2
  <2> QED
    BY <1>9, <2>1, <2>2, <2>3 DEF AuthorizeSettled, MintedAttenuates
<1>10. ASSUME NEW cap \in Capability, NEW scope \in (SUBSET Scope) \ {{}},
              NEW now \in Second \cup {None}, NEW first \in Reading, NEW second \in Reading,
              AuthorizeNow(cap, scope, now, first, second)
       PROVE GateInv'
  <2> DEFINE status == StatusOf(VerdictOf(first))
             again == StatusOf(VerdictOf(second))
             instant == InstantOf(now)
  <2>1. /\ Allows(cap, scope, instant, status, again)
        /\ Authorize(cap, scope, instant, again, FALSE)
        /\ second \in {RegistrySays(cap), "failed"}
        /\ UNCHANGED <<clock, minted, revokedConsents, revokedCapabilities, calls>>
    BY <1>10 DEF AuthorizeNow
  <2>2. cap \notin revokedCapabilities
    BY <2>1 DEF Allows, StatusOf, VerdictOf, RegistrySays
  <2>3. instant \in Second
    BY InstantIsSecond
  <2> HIDE DEF status, again, instant
  <2>4. AuthorizedWithinTerms'
    BY <2>1, <2>2, <2>3, AuthorizeWithinTerms
  <2> QED
    BY <2>1, <2>4 DEF GateTypeOK, MintedAttenuates, VerdictsAreReadings, HasRead
<1>11. CASE UNCHANGED vars
  BY <1>11 DEF vars, GateTypeOK, MintedAttenuates, VerdictsAreReadings, HasRead, AuthorizedWithinTerms
<1> QED
  BY <1>1, <1>2, <1>3, <1>4, <1>5, <1>6, <1>7, <1>8, <1>9, <1>10, <1>11 DEF Next

\* Every state of the gate is of its type.
THEOREM GateTypeCorrect == Spec => []GateTypeOK
<1>1. GateInv => GateTypeOK
  BY DEF GateInv
<1> QED
  BY <1>1, GateInitially, GateInductive, PTL DEF Spec

\* Whatever a registry answers, when, or whether it answers at all: what the gate
\* lets through under a minted capability is within the consent, and under any
\* capability not revoked before it was read for this very call, unless the answer
\* was a status nobody knows (evaluateEnforcement, withRevocationTimeout).
THEOREM GateTheorem == Spec => []AuthorizedWithinTerms
<1>1. GateInv => AuthorizedWithinTerms
  BY DEF GateInv
<1> QED
  BY <1>1, GateInitially, GateInductive, PTL DEF Spec

\* The verdict of a race stands: what the registry answers after the timer has won, and
\* whatever else happens, changes nothing.
THEOREM VerdictsTheorem == Spec => VerdictsStand
<1>1. GateInv /\ [Next]_vars =>
        [\A c \in Call : calls[c].phase = "settled" /\ calls'[c].phase = "settled"
           => calls'[c].verdict = calls[c].verdict]_vars
  <2> SUFFICES ASSUME GateTypeOK, Next, NEW c \in Call,
                      calls[c].phase = "settled", calls'[c].phase = "settled"
               PROVE  calls'[c].verdict = calls[c].verdict
    BY DEF GateInv
  <2>1. DOMAIN calls = Call /\ \A e \in Call : calls[e] \in CallRecord
    BY DEF GateTypeOK
  <2>2. ASSUME UNCHANGED calls PROVE calls'[c].verdict = calls[c].verdict
    BY <2>2
  <2>3. ASSUME NEW cap \in Capability, RevokeCapability(cap)
        PROVE  calls'[c].verdict = calls[c].verdict
    BY <2>1, <2>3 DEF RevokeCapability, CallRecord
  <2>4. ASSUME NEW e \in Call, NEW cap \in Capability, BeginLookup(e, cap)
        PROVE  calls'[c].verdict = calls[c].verdict
    BY <2>1, <2>4 DEF BeginLookup
  <2>5. ASSUME NEW e \in Call, NEW answer \in Reading, ReadRegistry(e, answer)
        PROVE  calls'[c].verdict = calls[c].verdict
    BY <2>1, <2>5 DEF ReadRegistry, CallRecord
  <2>6. ASSUME NEW e \in Call, NEW verdict, Settle(e, verdict)
        PROVE  calls'[c].verdict = calls[c].verdict
    BY <2>1, <2>6 DEF Settle
  <2>7. ASSUME NEW e \in Call, NEW scope, NEW now, AuthorizeSettled(e, scope, now)
        PROVE  calls'[c].verdict = calls[c].verdict
    BY <2>1, <2>7 DEF AuthorizeSettled, NoCall
  <2> QED
    BY <2>2, <2>3, <2>4, <2>5, <2>6, <2>7
       DEF Next, Tick, MintCapability, RevokeConsent, Deliver, TimeOut, AuthorizeNow
<1> QED
  BY <1>1, GateInitially, GateInductive, PTL DEF Spec, VerdictsStand
=============================================================================
