--------------------------- MODULE CapabilityProofs ---------------------------
(***************************************************************************)
(* Proofs about capability tokens, for any consents, tokens, paths and     *)
(* calls, any skew and any tick: CapabilityAccess keeps the promise of     *)
(* CapabilityLedger, and so what the ledger promises each token, spending  *)
(* denials are explained, and attempts bounded.                            *)
(***************************************************************************)
EXTENDS CapabilityAccess, SequenceTheorems, TLAPS

-----------------------------------------------------------------------------
(* Time.                                                                     *)

\* Larger factors have larger products.
LEMMA TimesMonotone ==
    ASSUME NEW a \in Int, NEW b \in Int, a <= b, NEW n \in Nat
    PROVE  a * n <= b * n
  OBVIOUS

\* A second holds the ticks from its first one to the next second's.
LEMMA SecondsBounds ==
    ASSUME NEW a \in Nat
    PROVE  /\ Seconds(a) \in Nat
           /\ Seconds(a) * TicksPerSecond <= a
           /\ a < (Seconds(a) + 1) * TicksPerSecond
  BY CapabilityAssumption DEF Seconds

\* Seconds grow with ticks.
LEMMA SecondsMonotone ==
    ASSUME NEW a \in Nat, NEW b \in Nat, a <= b
    PROVE  Seconds(a) <= Seconds(b)
<1> DEFINE p == Seconds(a)
           q == Seconds(b)
<1>1. /\ p \in Nat /\ q \in Nat /\ TicksPerSecond \in Nat
      /\ p * TicksPerSecond <= a /\ b < (q + 1) * TicksPerSecond
  BY SecondsBounds, CapabilityAssumption
<1> HIDE DEF p, q
<1>2. ASSUME q < p PROVE FALSE
  <2>1. (q + 1) * TicksPerSecond <= p * TicksPerSecond
    BY <1>1, <1>2, TimesMonotone
  <2>2. (q + 1) * TicksPerSecond \in Int /\ p * TicksPerSecond \in Int
    BY <1>1
  <2> QED
    BY <1>1, <2>1, <2>2
<1>3. p <= q
  BY <1>1, <1>2
<1> QED
  BY <1>3 DEF p, q

\* The present second is a timestamp.
LEMMA PresentStamp ==
    ASSUME NEW at \in Time
    PROVE  Seconds(at) \in Stamp /\ Seconds(at) \in Nat /\ at \in Nat
<1>1. at \in Nat /\ MaxTime \in Nat /\ at <= MaxTime
  BY CapabilityAssumption DEF Time
<1>2. Seconds(at) \in Nat /\ Seconds(at) <= Seconds(MaxTime) /\ Seconds(MaxTime) \in Nat
  BY <1>1, SecondsBounds, SecondsMonotone
<1> QED
  BY <1>1, <1>2 DEF Stamp, Seconds

\* Timestamps are natural numbers.
LEMMA StampIsNat == Stamp \subseteq Nat
  BY DEF Stamp

-----------------------------------------------------------------------------
(* The paths of a request.                                                   *)

\* What is left of sorted paths is sorted.
LEMMA SortedTail ==
    ASSUME NEW s \in SortedPaths
    PROVE  /\ s \in Seq(Path)
           /\ s # << >> => Head(s) \in Path /\ Tail(s) \in SortedPaths
<1>1. PICK n \in 0..MaxPaths : s \in [1..n -> Path]
  BY DEF SortedPaths
<1>2. n \in Nat /\ MaxPaths \in Nat
  BY CapabilityAssumption
<1>3. s \in Seq(Path) /\ Len(s) = n
  BY <1>1, <1>2
<1>4. \A i \in 1..Len(s) - 1 : s[i] <= s[i + 1]
  BY DEF SortedPaths
<1>5. ASSUME s # << >> PROVE Head(s) \in Path /\ Tail(s) \in SortedPaths
  <2> DEFINE u == Tail(s)
  <2>1. /\ Head(s) \in Path /\ u \in Seq(Path) /\ Len(u) = n - 1 /\ n # 0
        /\ \A i \in 1..Len(u) : u[i] = s[i + 1]
    BY <1>3, <1>5, HeadTailProperties, EmptySeq
  <2> HIDE DEF u
  <2>2. u \in [1..(n - 1) -> Path] /\ n - 1 \in 0..MaxPaths
    BY <1>2, <2>1, LenProperties
  <2>3. \A i \in 1..Len(u) - 1 : u[i] <= u[i + 1]
    BY <1>2, <1>3, <1>4, <2>1
  <2>4. u \in SortedPaths
    BY <2>2, <2>3 DEF SortedPaths
  <2> QED
    BY <2>1, <2>4 DEF u
<1> QED
  BY <1>3, <1>5

\* Where the next path of the request leads.
LEMMA LocatedType ==
    ASSUME CapabilityTypeOK, request # None, request.paths # << >>
    PROVE  Located \in Content \cup {None}
<1>1. /\ request.paths \in SortedPaths /\ request.pack \in Pack
      /\ mapping \in [Path -> Field \cup {None}]
  BY DEF CapabilityTypeOK
<1>2. Head(request.paths) \in Path
  BY <1>1, SortedTail
<1>3. PackField \in [Pack -> [Field -> Content \cup {None}]]
  BY CapabilityAssumption
<1> DEFINE field == mapping[Head(request.paths)]
<1>4. field \in Field \cup {None}
  BY <1>1, <1>2
<1>5. field # None => PackField[request.pack][field] \in Content \cup {None}
  BY <1>1, <1>3, <1>4
<1> QED
  BY <1>5 DEF Located

-----------------------------------------------------------------------------
(* The inductive invariant.                                                  *)

\* Registries never run ahead of the calls made, and the nonce registry holds
\* exactly the ids some call redeemed.
RegistriesAgree ==
    /\ \A c \in consents : /\ usage[c] <= calls
                           /\ window[c] # None => window[c].count <= calls
    /\ \A i \in TokenId : /\ i \in seen <=> spender[i] # None
                          /\ spender[i] # None => spender[i] <= calls

\* Tokens stand on a stored consent and were issued in the past.
TokensBacked ==
    \A t \in tokens : /\ t.consent \in consents /\ WellFormed(t) /\ Contained(t)
                      /\ t.issuedAt <= Seconds(now)

\* Skew in ticks.
Skew == ClockSkewSeconds * TicksPerSecond

\* What remains true of a token once a request has redeemed it, until the request
\* ends: of the bounds of Timely, those that time cannot undo.
Spendable(t) ==
    /\ t \notin revoked /\ ~t.consent.priced
    /\ ClockSkewSeconds # 0
    /\ t.expiresAt * TicksPerSecond - now <= Skew
    /\ t.notBefore # None => /\ t.notBefore <= Seconds(now)
                             /\ t.notBefore * TicksPerSecond - now <= Skew

\* The request being resolved is the last call; it has redeemed its token if and
\* only if it has resolved something, which it may then return.
RequestInOrder ==
    request # None =>
      /\ request.call = calls
      /\ \A i \in TokenId : spender[i] = request.call => request.consumed
      /\ request.consumed => /\ spender[request.token.id] = request.call
                             /\ Spendable(request.token)
      /\ \A d \in request.resolved :
           /\ d.call = request.call /\ d.token = request.token
           /\ d.at <= now /\ Ledger!ValidAt(d.token, d.at)
           /\ d.under \in d.token.consent.scope

\* Denials are of earlier calls than the request being resolved.
DenialsPast ==
    \A d \in denials : /\ d.token \in Token /\ d.call \in Call /\ d.call <= calls
                       /\ request # None => d.call < request.call

CapabilityInv ==
    /\ CapabilityTypeOK
    /\ RegistriesAgree /\ TokensBacked /\ RequestInOrder
    /\ DenialsPast /\ SpendingDenialsExplained

\* The attempts a of one consent, whose current window is w, fall into windows.
\* F holds the index of the first attempt of each: every maxAttempts attempts in
\* a row hold a first one, and first ones are far apart.
FallsIntoWindows(a, w, F, at) ==
    /\ w = None => a = << >>
    /\ w # None =>
         /\ w.count \in 1..MaxAttempts /\ w.count <= Len(a)
         /\ Len(a) - w.count + 1 \in F
         /\ \A f \in F : f <= Len(a) - w.count + 1
         /\ a[Len(a) - w.count + 1] < (w.startedAt + 1) * TicksPerSecond
    /\ \A i \in 1..Len(a) : a[i] <= at
    /\ \A i, j \in 1..Len(a) : i <= j => a[i] <= a[j]
    /\ \A i \in 1..(Len(a) - MaxAttempts + 1) :
         \E f \in F : i <= f /\ f <= i + MaxAttempts - 1
    /\ \A f, g \in F : f < g => a[g] - a[f] > WindowTicks - TicksPerSecond

AttemptsInv ==
    /\ attempts \in [consents -> Seq(Time)]
    /\ \A c \in consents : \E F \in SUBSET (1..Len(attempts[c])) :
         FallsIntoWindows(attempts[c], window[c], F, now)

-----------------------------------------------------------------------------
(* What the presentations of a token outside the vault do.                   *)

\* The present call redeems token t.
Redeems(t, n) ==
    /\ t \notin revoked /\ t.id \notin seen
    /\ seen' = seen \cup {t.id}
    /\ spender' = [spender EXCEPT ![t.id] = n]

\* The present call learns something from token t.
Learns(t) ==
    \E r \in Resource, redeemed \in BOOLEAN :
      /\ r \in t.scope /\ Timely(t, now) /\ t \notin revoked
      /\ redeemed => spender'[t.id] = calls'
      /\ Disclosing(calls', t, r, redeemed)

\* A flow of token t redeems it or not, meters its consent or not, counts an
\* attempt or not, and returns something or not.
Flow(t) ==
    /\ Idle /\ NextCall /\ t \in tokens
    /\ UNCHANGED <<now, consents, tokens, packs, mapping, revoked, request, denials>>
    /\ UNCHANGED <<seen, spender>> \/ Redeems(t, calls')
    /\ UNCHANGED usage \/ usage' = [usage EXCEPT ![t.consent] = @ + 1]
    /\ UNCHANGED <<window, attempts>> \/ (~IsLimited(t.consent) /\ Increment(t.consent))
    /\ UNCHANGED disclosed \/ Learns(t)

\* A token that was not seen has no redeemer yet, so that marking it is redeeming it.
LEMMA MarkingRedeems ==
    ASSUME CapabilityInv, NEW t \in tokens, NEW consuming \in BOOLEAN, NEW paid, NEW n,
           Cleared(t, consuming, paid), MarkSeen(t, consuming, n)
    PROVE  /\ consuming => Redeems(t, n) /\ spender'[t.id] = n
           /\ ~consuming => UNCHANGED <<seen, spender>>
<1>1. t.id \in TokenId /\ spender \in [TokenId -> Call \cup {None}]
  BY DEF CapabilityInv, CapabilityTypeOK, Token
<1>2. t.id \notin seen => spender[t.id] = None
  BY <1>1 DEF CapabilityInv, RegistriesAgree
<1> QED
  BY <1>1, <1>2 DEF Cleared, MarkSeen, Redeems

\* The three presentations outside the vault are flows.
LEMMA FlowCases ==
    ASSUME CapabilityInv, FlowStep
    PROVE  \E t \in tokens : Flow(t)
<1> USE DEF store, registries, history
<1>1. ASSUME NEW t \in tokens, Verify(t) PROVE Flow(t)
  <2>1. CASE Verifies(t)
    <3>1. Cleared(t, TRUE, TRUE) /\ MarkSeen(t, TRUE, calls')
      BY <1>1, <2>1 DEF Verify, Verifies
    <3>2. Redeems(t, calls')
      BY <3>1, MarkingRedeems
    <3> QED
      BY <1>1, <3>2 DEF Verify, Flow
  <2>2. CASE ~Verifies(t)
    BY <1>1, <2>2 DEF Verify, Flow
  <2> QED
    BY <2>1, <2>2
<1>2. ASSUME NEW t \in tokens, NEW r \in Resource, NEW o \in Options, ExecuteFlow(t, r, o)
      PROVE  Flow(t)
  <2> DEFINE paid == o.bound /\ t.consent.priced => o.paid
  <2>1. o.consuming \in BOOLEAN
    BY CapabilityAssumption DEF Option
  <2>2. CASE ~Evaluates(t, r, o) \/ (o.limited /\ IsLimited(t.consent))
    BY <1>2, <2>2 DEF ExecuteFlow, Flow
  <2>3. CASE /\ Evaluates(t, r, o) /\ ~(o.limited /\ IsLimited(t.consent))
             /\ ~Cleared(t, o.consuming, paid)
    BY <1>2, <2>3 DEF ExecuteFlow, Consume, Flow
  <2>4. CASE /\ Evaluates(t, r, o) /\ ~(o.limited /\ IsLimited(t.consent))
             /\ Cleared(t, o.consuming, paid)
    <3>1. /\ MarkSeen(t, o.consuming, calls')
          /\ UNCHANGED usage \/ usage' = [usage EXCEPT ![t.consent] = @ + 1]
          /\ UNCHANGED disclosed \/ Disclosing(calls', t, r, o.consuming)
          /\ UNCHANGED <<window, attempts>> \/ (~IsLimited(t.consent) /\ Increment(t.consent))
          /\ Idle /\ NextCall
          /\ UNCHANGED <<now, consents, tokens, packs, mapping, revoked, request, denials>>
      BY <1>2, <2>4 DEF ExecuteFlow, Consume
    <3>2. /\ o.consuming => Redeems(t, calls') /\ spender'[t.id] = calls'
          /\ ~o.consuming => UNCHANGED <<seen, spender>>
      BY <2>1, <2>4, <3>1, MarkingRedeems
    <3>3. r \in t.scope /\ Timely(t, now) /\ t \notin revoked
      BY <2>4 DEF Evaluates, Cleared
    <3>4. UNCHANGED disclosed \/ Learns(t)
      BY <2>1, <3>1, <3>2, <3>3 DEF Learns
    <3> QED
      BY <3>1, <3>2, <3>4 DEF Flow
  <2> QED
    BY <2>2, <2>3, <2>4
<1>3. ASSUME NEW t \in tokens, NEW r \in Resource, NEW o \in Options, Interpret(t, r, o)
      PROVE  Flow(t)
  <2>1. CASE UNCHANGED <<usage, disclosed>>
    BY <1>3, <2>1 DEF Interpret, Flow
  <2>2. CASE ~UNCHANGED <<usage, disclosed>>
    <3>1. /\ Evaluates(t, r, o) /\ t \notin revoked
          /\ UNCHANGED usage \/ usage' = [usage EXCEPT ![t.consent] = @ + 1]
          /\ Disclosing(calls', t, r, FALSE)
      BY <1>3, <2>2 DEF Interpret, Cleared
    <3>2. Learns(t)
      BY <3>1 DEF Learns, Evaluates
    <3> QED
      BY <1>3, <3>1, <3>2 DEF Interpret, Flow
  <2> QED
    BY <2>1, <2>2
<1> QED
  BY <1>1, <1>2, <1>3 DEF FlowStep

-----------------------------------------------------------------------------
(* Type correctness.                                                         *)

\* A consent built from what a subject may grant is a consent.
LEMMA ConsentType ==
    ASSUME now \in Time, NEW terms \in Terms
    PROVE  ConsentOf(terms) \in Consent
<1>1. /\ terms.scope \in (SUBSET Resource) \ {{}} /\ terms.priced \in BOOLEAN
      /\ terms.lifetime \in (Nat \ {0}) \cup {Never}
  BY CapabilityAssumption
<1>2. Seconds(now) \in Stamp /\ Seconds(now) \in Nat
  BY PresentStamp
<1>3. (IF terms.lifetime = Never THEN Never ELSE Seconds(now) + terms.lifetime)
        \in Nat \cup {Never}
  BY <1>1, <1>2
<1> QED
  BY <1>1, <1>2, <1>3 DEF ConsentOf, Consent

\* The request as a record with some fields replaced.
LEMMA RequestUpdates ==
    ASSUME NEW q \in Request
    PROVE  /\ q.call \in Call /\ q.token \in Token /\ q.pack \in Pack
           /\ q.paths \in Seq(Path) /\ q.resolved \in SUBSET Disclosure
           /\ q # None
           /\ \A ps \in Seq(Path) : [q EXCEPT !.paths = ps] \in Request
           /\ \A ps \in Seq(Path), ds \in SUBSET Disclosure :
                [q EXCEPT !.paths = ps, !.consumed = TRUE, !.resolved = ds] \in Request
  BY CapabilityAssumption DEF Request

\* What resolving a path adds to the request.
LEMMA ResolvedType ==
    ASSUME CapabilityTypeOK, request # None, VaultAllows(Located)
    PROVE  [call |-> request.call, token |-> request.token, at |-> now,
            under |-> Presented(request.token, Located, request.pack),
            redeemed |-> TRUE] \in Disclosure
<1>1. /\ request.call \in Call /\ request.token \in Token /\ now \in Time
  BY RequestUpdates DEF CapabilityTypeOK
<1>2. Presented(request.token, Located, request.pack) \in Resource
  BY <1>1 DEF VaultAllows, Token
<1> QED
  BY <1>1, <1>2 DEF Disclosure

\* Every step leaves every variable with a value of its type.
LEMMA TypeStep ==
    ASSUME CapabilityInv, [Next]_vars
    PROVE  CapabilityTypeOK'
<1> USE DEF store, registries, history
<1>1. CapabilityTypeOK
  BY DEF CapabilityInv
<1>2. CASE UNCHANGED vars
  BY <1>1, <1>2 DEF vars, CapabilityTypeOK
<1>3. CASE Tick
  <2>1. now' \in Time
    BY <1>1, <1>3, CapabilityAssumption DEF Tick, CapabilityTypeOK, Time
  <2> QED
    BY <1>1, <1>3, <2>1 DEF Tick, CapabilityTypeOK
<1>4. ASSUME NEW p \in Pack, StorePack(p) PROVE CapabilityTypeOK'
  BY <1>1, <1>4 DEF StorePack, Idle, CapabilityTypeOK
<1>5. ASSUME NEW p \in Path, NEW f \in Field, RegisterSdlMapping(p, f)
      PROVE  CapabilityTypeOK'
  BY <1>1, <1>5 DEF RegisterSdlMapping, CapabilityTypeOK
<1>6. ASSUME NEW terms \in Terms, StoreConsent(ConsentOf(terms))
      PROVE  CapabilityTypeOK'
  <2> DEFINE c == ConsentOf(terms)
  <2>1. c \in Consent
    BY <1>1, ConsentType DEF CapabilityTypeOK
  <2> HIDE DEF c
  <2>2. StoreConsent(c)
    BY <1>6 DEF c
  <2>3. /\ window' \in [consents' -> Window \cup {None}]
        /\ usage' \in [consents' -> 0..MaxCalls]
    BY <1>1, <2>2, CapabilityAssumption DEF StoreConsent, CapabilityTypeOK, With
  <2> QED
    BY <1>1, <2>1, <2>2, <2>3 DEF StoreConsent, CapabilityTypeOK
<1>7. ASSUME NEW c \in consents, NEW i \in TokenId, NEW s \in (SUBSET Resource) \ {{}},
             NEW b \in Stamp \cup {None}, NEW e \in Stamp,
             Mint([id |-> i, consent |-> c, scope |-> s, issuedAt |-> Seconds(now),
                   notBefore |-> b, expiresAt |-> e])
      PROVE  CapabilityTypeOK'
  <2> DEFINE t == [id |-> i, consent |-> c, scope |-> s, issuedAt |-> Seconds(now),
                   notBefore |-> b, expiresAt |-> e]
  <2>1. t \in Token
    BY <1>1, PresentStamp, StampIsNat DEF CapabilityTypeOK, Token
  <2> HIDE DEF t
  <2>2. Mint(t)
    BY <1>7 DEF t
  <2> QED
    BY <1>1, <2>1, <2>2 DEF Mint, Idle, CapabilityTypeOK
<1>8. ASSUME NEW t \in tokens, Revoke(t) PROVE CapabilityTypeOK'
  BY <1>1, <1>8 DEF Revoke, CapabilityTypeOK
<1>9. ASSUME NEW t \in tokens, NEW p \in Pack, NEW paths \in SortedPaths,
             BeginRequest(t, p, paths)
      PROVE  CapabilityTypeOK'
  <2>1. calls' \in 0..MaxCalls /\ calls' \in Call
    BY <1>1, <1>9, CapabilityAssumption DEF BeginRequest, NextCall, CapabilityTypeOK, Call
  <2> DEFINE q == [call |-> calls', token |-> t, pack |-> p, paths |-> paths,
                   consumed |-> FALSE, resolved |-> {}]
  <2>2. q \in Request /\ q.token = t /\ q.pack = p /\ q.paths = paths
        /\ q.consumed = FALSE /\ q.resolved = {}
    BY <1>1, <2>1, SortedTail DEF CapabilityTypeOK, Request
  <2> HIDE DEF q
  <2>3. request' = None \/ (p \in packs /\ request' = q)
    BY <1>9 DEF BeginRequest, q
  <2> QED
    BY <1>1, <1>9, <2>1, <2>2, <2>3 DEF BeginRequest, CapabilityTypeOK
<1>10. CASE SkipPath
  <2>1. request \in Request /\ request.paths \in SortedPaths /\ request.paths # << >>
    BY <1>1, <1>10 DEF SkipPath, CapabilityTypeOK
  <2>2. Tail(request.paths) \in SortedPaths /\ Tail(request.paths) \in Seq(Path)
    BY <2>1, SortedTail
  <2>3. /\ request' \in Request /\ request'.paths \in SortedPaths
        /\ request'.token = request.token /\ request'.pack = request.pack
        /\ request'.consumed = request.consumed /\ request'.resolved = request.resolved
    BY <1>10, <2>1, <2>2, RequestUpdates DEF SkipPath, Request
  <2> QED
    BY <1>1, <1>10, <2>3 DEF SkipPath, CapabilityTypeOK
<1>11. CASE ResolvePath
  <2>1. /\ request \in Request /\ request.paths \in SortedPaths /\ request.paths # << >>
        /\ request.token \in tokens /\ request.token.id \in TokenId
        /\ request.consumed = (request.resolved # {}) /\ request.call \in Call
        /\ request.consumed => request.token.id \in seen
    BY <1>1, <1>11, RequestUpdates DEF ResolvePath, CapabilityTypeOK, Token
  <2> DEFINE d == [call |-> request.call, token |-> request.token, at |-> now,
                   under |-> Presented(request.token, Located, request.pack),
                   redeemed |-> TRUE]
  <2>2. d \in Disclosure
    BY <1>1, <1>11, ResolvedType DEF ResolvePath
  <2> HIDE DEF d
  <2>3. Tail(request.paths) \in SortedPaths /\ Tail(request.paths) \in Seq(Path)
    BY <2>1, SortedTail
  <2>4. request.resolved \cup {d} \in SUBSET Disclosure
    BY <2>1, <2>2, RequestUpdates
  <2>5. request' = [request EXCEPT !.paths = Tail(request.paths), !.consumed = TRUE,
                                   !.resolved = request.resolved \cup {d}]
    BY <1>11 DEF ResolvePath, d
  <2>6. /\ request' \in Request /\ request'.paths \in SortedPaths
        /\ request'.token = request.token /\ request'.pack = request.pack
        /\ request'.consumed = TRUE /\ request'.resolved # {}
    BY <2>1, <2>3, <2>4, <2>5, RequestUpdates DEF Request
  <2>7. /\ seen' \subseteq TokenId /\ seen \subseteq seen' /\ request.token.id \in seen'
        /\ spender' \in [TokenId -> Call \cup {None}]
    BY <1>1, <1>11, <2>1 DEF ResolvePath, MarkSeen, Consumes, CapabilityTypeOK
  <2>8. request'.consumed = (request'.resolved # {})
    BY <2>6
  <2>9. UNCHANGED <<now, calls, consents, tokens, packs, mapping, revoked, window, usage>>
    BY <1>11 DEF ResolvePath
  <2>10. /\ request' \in Request \cup {None}
         /\ request'.token \in tokens /\ request'.pack \in packs
         /\ request'.consumed => request'.token.id \in seen'
    BY <1>1, <1>11, <2>1, <2>6, <2>7 DEF ResolvePath, CapabilityTypeOK
  <2>11. /\ now' \in Time /\ calls' \in 0..MaxCalls
         /\ consents' \subseteq Consent /\ tokens' \subseteq Token /\ packs' \subseteq Pack
         /\ mapping' \in [Path -> Field \cup {None}] /\ revoked' \subseteq tokens'
         /\ window' \in [consents' -> Window \cup {None}]
         /\ usage' \in [consents' -> 0..MaxCalls]
    BY <1>1, <2>9 DEF CapabilityTypeOK
  <2> QED
    BY <2>6, <2>7, <2>8, <2>9, <2>10, <2>11 DEF CapabilityTypeOK
<1>12. CASE DenyPath
  BY <1>1, <1>12 DEF DenyPath, CapabilityTypeOK
<1>13. CASE AllowRequest
  BY <1>1, <1>13 DEF AllowRequest, CapabilityTypeOK
<1>14. ASSUME NEW t \in tokens, Flow(t) PROVE CapabilityTypeOK'
  <2>1. /\ calls' \in 0..MaxCalls /\ calls' \in Call /\ calls' = calls + 1
        /\ t.id \in TokenId /\ t.consent \in consents /\ request = None
        /\ calls \in Nat /\ MaxCalls \in Nat
    BY <1>1, <1>14, CapabilityAssumption
       DEF Flow, Idle, NextCall, CapabilityTypeOK, Call, Token, CapabilityInv, TokensBacked
  <2>2. seen' \subseteq TokenId /\ spender' \in [TokenId -> Call \cup {None}]
    BY <1>1, <1>14, <2>1 DEF Flow, Redeems, CapabilityTypeOK
  <2>3. usage' \in [consents -> 0..MaxCalls]
    <3>1. usage[t.consent] \in Nat /\ usage[t.consent] <= calls
      BY <1>1, <2>1 DEF CapabilityTypeOK, CapabilityInv, RegistriesAgree
    <3>2. usage[t.consent] + 1 \in 0..MaxCalls
      BY <2>1, <3>1
    <3> QED
      BY <1>1, <1>14, <2>1, <3>2 DEF Flow, CapabilityTypeOK
  <2>4. window' \in [consents -> Window \cup {None}]
    <3>1. CASE UNCHANGED window
      BY <1>1, <3>1 DEF CapabilityTypeOK
    <3>2. CASE Increment(t.consent)
      <4> DEFINE w == window[t.consent]
      <4>1. Seconds(now) \in Stamp
        BY <1>1, PresentStamp DEF CapabilityTypeOK
      <4>2. [count |-> 1, startedAt |-> Seconds(now)] \in Window
        BY <2>1, <4>1 DEF Window, Call
      <4>3. InWindow(t.consent) =>
              w \in Window /\ w.count + 1 \in 1..MaxCalls
        BY <1>1, <2>1 DEF InWindow, CapabilityTypeOK, CapabilityInv, RegistriesAgree, Window
      <4>4. InWindow(t.consent) => [w EXCEPT !.count = w.count + 1] \in Window
        BY <4>3 DEF Window
      <4> HIDE DEF w
      <4>5. window' = [window EXCEPT ![t.consent] =
              IF InWindow(t.consent) THEN [w EXCEPT !.count = w.count + 1]
              ELSE [count |-> 1, startedAt |-> Seconds(now)]]
        BY <3>2 DEF Increment, w
      <4> QED
        BY <1>1, <4>2, <4>4, <4>5 DEF CapabilityTypeOK
    <3> QED
      BY <1>14, <3>1, <3>2 DEF Flow
  <2> QED
    BY <1>1, <1>14, <2>1, <2>2, <2>3, <2>4 DEF Flow, CapabilityTypeOK
<1> QED
  BY <1>2, <1>3, <1>4, <1>5, <1>6, <1>7, <1>8, <1>9, <1>10, <1>11, <1>12, <1>13, <1>14,
     FlowCases DEF Next, StoreStep, VaultStep

-----------------------------------------------------------------------------
(* The checks of a token's times.                                            *)

\* The type of what the checks of a stored token compare.
LEMMA TokenTimes ==
    ASSUME CapabilityTypeOK, TokensBacked, NEW t \in tokens
    PROVE  /\ t \in Token /\ t.id \in TokenId /\ t.scope \subseteq Resource
           /\ t.issuedAt \in Nat /\ t.expiresAt \in Nat
           /\ t.notBefore \in Nat \cup {None}
           /\ t.consent \in Consent /\ t.consent.issuedAt \in Nat
           /\ t.consent.priced \in BOOLEAN
           /\ t.consent.expiresAt \in Nat \cup {Never}
           /\ t.issuedAt < t.expiresAt /\ t.issuedAt <= Seconds(now)
           /\ t.notBefore # None => t.issuedAt <= t.notBefore
           /\ t.scope \subseteq t.consent.scope
           /\ t.consent.expiresAt # Never => t.expiresAt <= t.consent.expiresAt
           /\ now \in Nat /\ Seconds(now) \in Nat
           /\ ClockSkewSeconds \in Nat /\ TicksPerSecond \in Nat \ {0}
<1>1. t \in Token /\ t.consent \in Consent
  BY DEF CapabilityTypeOK, Token
<1>2. now \in Nat /\ Seconds(now) \in Nat
  BY PresentStamp DEF CapabilityTypeOK
<1> QED
  BY <1>1, <1>2, StampIsNat, CapabilityAssumption
     DEF TokensBacked, WellFormed, Contained, Token, Consent

\* A token that is accepted is valid, and so is its consent.
LEMMA TimelyIsValid ==
    ASSUME CapabilityTypeOK, TokensBacked, NEW t \in tokens, Timely(t, now)
    PROVE  Ledger!ValidAt(t, now)
  BY TokenTimes DEF Timely, Ledger!ValidAt, Ledger!Seconds, Seconds

\* Without skew no token can be accepted: it must have been issued now and expire now.
LEMMA TimelyNeedsSkew ==
    ASSUME CapabilityTypeOK, TokensBacked, NEW t \in tokens, Timely(t, now)
    PROVE  ClockSkewSeconds # 0
<1> SUFFICES ASSUME ClockSkewSeconds = 0 PROVE FALSE
  OBVIOUS
<1>1. /\ t.issuedAt \in Nat /\ t.expiresAt \in Nat /\ now \in Nat
      /\ t.issuedAt + 1 <= t.expiresAt /\ TicksPerSecond \in Nat /\ TicksPerSecond >= 1
  BY TokenTimes
<1> DEFINE a == t.issuedAt * TicksPerSecond
           b == t.expiresAt * TicksPerSecond
<1>2. a + TicksPerSecond <= b
  <2>1. (t.issuedAt + 1) * TicksPerSecond <= b
    BY <1>1, TimesMonotone
  <2> QED
    BY <1>1, <2>1
<1>3. now - a <= 0 /\ b - now <= 0 /\ a - now <= 0 /\ now - b <= 0
  BY <1>1 DEF Timely, WithinSkew
<1>4. a \in Nat /\ b \in Nat
  BY <1>1
<1> QED
  BY <1>1, <1>2, <1>3, <1>4

\* A token the vault accepts without having redeemed it stays spendable.
LEMMA AcceptedIsSpendable ==
    ASSUME CapabilityTypeOK, TokensBacked, NEW t \in tokens, Timely(t, now),
           t \notin revoked, ~t.consent.priced
    PROVE  Spendable(t)
  BY TimelyNeedsSkew DEF Timely, WithinSkew, Spendable, Skew

\* A spendable token is denied for its scope or for its age only.
LEMMA DeniedForScopeOrAge ==
    ASSUME CapabilityTypeOK, TokensBacked, request # None, request.consumed,
           Spendable(request.token), NEW c, ~VaultAllows(c)
    PROVE  \/ {ContentScope(c), PackScope(request.pack)} \cap request.token.scope = {}
           \/ Seconds(now) > request.token.expiresAt
           \/ \E s \in {request.token.issuedAt, request.token.consent.issuedAt} :
                ~WithinSkew(s, now)
<1> DEFINE t == request.token
<1> SUFFICES ASSUME {ContentScope(c), PackScope(request.pack)} \cap t.scope # {},
                    ~(Seconds(now) > t.expiresAt),
                    WithinSkew(t.issuedAt, now), WithinSkew(t.consent.issuedAt, now)
             PROVE  VaultAllows(c)
  OBVIOUS
<1>1. t \in tokens
  BY DEF CapabilityTypeOK
<1> HIDE DEF t
<1>2. /\ t.issuedAt \in Nat /\ t.expiresAt \in Nat /\ now \in Nat /\ Seconds(now) \in Nat
      /\ TicksPerSecond \in Nat /\ ClockSkewSeconds \in Nat
      /\ t.notBefore \in Nat \cup {None} /\ t.consent.expiresAt \in Nat \cup {Never}
  BY <1>1, TokenTimes
<1>3. Presented(t, c, request.pack) \in t.scope
  BY DEF Presented
<1>4. Cleared(t, Consumes, ~t.consent.priced)
  BY DEF Cleared, Consumes, Spendable, t
<1>5. ConsentTimely(t, now)
  BY <1>1, <1>2, TokenTimes DEF ConsentTimely
<1>6. Skew \in Nat
  BY <1>2 DEF Skew
<1>7. ASSUME NEW n \in Nat, t.issuedAt <= n, n * TicksPerSecond - now <= Skew
      PROVE  WithinSkew(n, now)
  <2>1. t.issuedAt * TicksPerSecond <= n * TicksPerSecond
    BY <1>2, <1>7, TimesMonotone
  <2>2. now - t.issuedAt * TicksPerSecond <= Skew
    BY DEF WithinSkew, Skew
  <2>3. t.issuedAt * TicksPerSecond \in Nat /\ n * TicksPerSecond \in Nat
    BY <1>2
  <2>4. now - n * TicksPerSecond <= Skew
    BY <1>2, <1>6, <2>1, <2>2, <2>3
  <2> QED
    BY <1>7, <2>4 DEF WithinSkew, Skew
<1>8. WithinSkew(t.expiresAt, now)
  BY <1>1, <1>2, <1>7, TokenTimes DEF Spendable, t
<1>9. t.notBefore # None => WithinSkew(t.notBefore, now) /\ t.notBefore <= Seconds(now)
  BY <1>1, <1>2, <1>7, TokenTimes DEF Spendable, t
<1>10. Seconds(now) <= t.expiresAt
  BY <1>2
<1>11. Timely(t, now)
  BY <1>8, <1>9, <1>10 DEF Timely
<1> QED
  BY <1>3, <1>4, <1>5, <1>11 DEF VaultAllows, t

-----------------------------------------------------------------------------
(* Preservation of the invariant.                                            *)

\* Redeeming gives a redeemer to a token that had none, and changes no other.
LEMMA RedeemedOnce ==
    ASSUME CapabilityInv, NEW t \in tokens, NEW n \in Call, Redeems(t, n)
    PROVE  /\ spender[t.id] = None /\ spender'[t.id] = n /\ n # None
           /\ \A i \in TokenId : i # t.id => spender'[i] = spender[i]
           /\ \A i \in TokenId : i \in seen' <=> i \in seen \/ i = t.id
<1>1. t.id \in TokenId /\ spender \in [TokenId -> Call \cup {None}]
  BY TokenTimes DEF CapabilityInv, CapabilityTypeOK
<1>2. spender[t.id] = None
  BY <1>1 DEF CapabilityInv, RegistriesAgree, Redeems
<1>3. n # None
  BY CapabilityAssumption DEF Call
<1> QED
  BY <1>1, <1>2, <1>3 DEF Redeems

\* The registries still agree after a redemption by the last call.
LEMMA RedeemingAgrees ==
    ASSUME CapabilityInv, NEW t \in tokens, calls' \in Call, calls <= calls',
           UNCHANGED <<seen, spender>> \/ Redeems(t, calls')
    PROVE  \A i \in TokenId : /\ i \in seen' <=> spender'[i] # None
                              /\ spender'[i] # None => spender'[i] <= calls'
<1>1. /\ calls \in Nat /\ calls' \in Nat /\ Call \subseteq Nat
      /\ spender \in [TokenId -> Call \cup {None}]
  BY CapabilityAssumption DEF CapabilityInv, CapabilityTypeOK, Call
<1>2. \A i \in TokenId : /\ i \in seen <=> spender[i] # None
                         /\ spender[i] # None => spender[i] <= calls'
  <2>1. ASSUME NEW i \in TokenId
        PROVE  /\ i \in seen <=> spender[i] # None
               /\ spender[i] # None => spender[i] <= calls /\ spender[i] \in Nat
    BY <1>1, <2>1 DEF CapabilityInv, RegistriesAgree
  <2>2. ASSUME NEW i \in TokenId, spender[i] # None PROVE spender[i] <= calls'
    BY <1>1, <2>1, <2>2
  <2> QED
    BY <2>1, <2>2
<1>3. CASE UNCHANGED <<seen, spender>>
  <2>1. seen' = seen /\ spender' = spender
    BY <1>3
  <2> QED
    BY <1>2, <2>1, Zenon
<1>4. CASE Redeems(t, calls')
  BY <1>1, <1>2, <1>4, RedeemedOnce
<1> QED
  BY <1>3, <1>4

\* The first path that resolves redeems the token, and the later ones leave it at that.
LEMMA ResolvingRedeems ==
    ASSUME CapabilityInv, ResolvePath
    PROVE  /\ request # None /\ request.token \in tokens /\ request.call = calls
           /\ request.call \in Call /\ UNCHANGED calls
           /\ request.consumed => UNCHANGED <<seen, spender>>
           /\ ~request.consumed => Redeems(request.token, request.call)
           /\ spender'[request.token.id] = request.call
<1>1. /\ request # None /\ request.token \in tokens /\ request.call = calls
      /\ request.call \in Call /\ UNCHANGED calls /\ request.consumed \in BOOLEAN
  BY RequestUpdates DEF ResolvePath, CapabilityInv, CapabilityTypeOK, RequestInOrder, Request
<1>2. /\ MarkSeen(request.token, Consumes, request.call)
      /\ Cleared(request.token, Consumes, ~request.token.consent.priced)
  BY DEF ResolvePath, VaultAllows
<1>3. CASE request.consumed
  <2>1. ~Consumes
    BY <1>3 DEF Consumes
  <2>2. UNCHANGED <<seen, spender>>
    BY <1>2, <2>1 DEF MarkSeen
  <2> QED
    BY <1>1, <1>3, <2>2 DEF CapabilityInv, RequestInOrder
<1>4. CASE ~request.consumed
  <2>1. Consumes
    BY <1>4 DEF Consumes
  <2>2. Redeems(request.token, request.call) /\ spender'[request.token.id] = request.call
    BY <1>1, <1>2, <2>1, MarkingRedeems
  <2> QED
    BY <1>1, <1>4, <2>2
<1> QED
  BY <1>3, <1>4

\* Denials keep their explanation when a later call redeems a token.
LEMMA DenialsStayExplained ==
    ASSUME CapabilityInv, NEW t \in tokens, NEW n \in Call,
           UNCHANGED <<seen, spender>> \/ Redeems(t, n),
           \A d \in denials : d.call < n, UNCHANGED denials
    PROVE  SpendingDenialsExplained'
<1>1. SUFFICES ASSUME NEW d \in denials, spender[d.token.id] # d.call
               PROVE  spender'[d.token.id] # d.call
  BY DEF CapabilityInv, SpendingDenialsExplained
<1>2. d.token.id \in TokenId /\ d.call \in Nat /\ d.call < n /\ n \in Nat
  BY CapabilityAssumption DEF CapabilityInv, DenialsPast, Token, Call
<1> QED
  BY <1>1, <1>2, RedeemedOnce

\* The clock moves, whether or not a request is being resolved.
LEMMA TickKeepsInv ==
    ASSUME CapabilityInv, CapabilityTypeOK', Tick
    PROVE  CapabilityInv'
<1> USE DEF store, registries, history
<1>1. /\ now' = now + 1 /\ now \in Nat /\ now' \in Nat /\ Seconds(now) <= Seconds(now')
      /\ Seconds(now) \in Nat /\ Seconds(now') \in Nat
      /\ UNCHANGED <<consents, tokens, seen, revoked, window, usage, request, calls,
                     spender, denials>>
  BY PresentStamp, SecondsMonotone, SecondsBounds DEF Tick, CapabilityInv, CapabilityTypeOK
<1>2. RegistriesAgree'
  BY <1>1 DEF CapabilityInv, RegistriesAgree
<1>3. TokensBacked'
  <2>1. ASSUME NEW t \in tokens PROVE t.issuedAt <= Seconds(now')
    BY <1>1, <2>1, TokenTimes DEF CapabilityInv
  <2> QED
    BY <1>1, <2>1 DEF CapabilityInv, TokensBacked
<1>4. RequestInOrder'
  <2>1. ASSUME request # None, request.consumed
        PROVE  Spendable(request.token)'
    <3> DEFINE t == request.token
    <3>1. t \in tokens /\ Spendable(t)
      BY <2>1 DEF CapabilityInv, CapabilityTypeOK, RequestInOrder
    <3>2. /\ t.expiresAt \in Nat /\ t.notBefore \in Nat \cup {None}
          /\ TicksPerSecond \in Nat /\ ClockSkewSeconds \in Nat
      BY <3>1, TokenTimes DEF CapabilityInv
    <3>3. t.expiresAt * TicksPerSecond \in Nat /\ Skew \in Nat
      BY <3>2 DEF Skew
    <3>4. ASSUME NEW n \in Nat, n * TicksPerSecond - now <= Skew
          PROVE  n * TicksPerSecond - now' <= Skew
      <4>1. n * TicksPerSecond \in Nat
        BY <3>2
      <4> HIDE DEF Skew
      <4> QED
        BY <1>1, <3>3, <3>4, <4>1
    <3> HIDE DEF t
    <3>5. t.expiresAt * TicksPerSecond - now' <= Skew
      BY <3>1, <3>2, <3>4 DEF Spendable
    <3>6. ASSUME t.notBefore # None
          PROVE  /\ t.notBefore <= Seconds(now')
                 /\ t.notBefore * TicksPerSecond - now' <= Skew
      <4>1. /\ t.notBefore \in Nat /\ t.notBefore <= Seconds(now)
            /\ t.notBefore * TicksPerSecond - now <= Skew
        BY <3>1, <3>2, <3>6 DEF Spendable
      <4> QED
        BY <1>1, <3>4, <4>1
    <3>7. t \notin revoked' /\ ~t.consent.priced /\ ClockSkewSeconds # 0
      BY <1>1, <3>1 DEF Spendable
    <3>8. request'.token = t
      BY <1>1 DEF t
    <3> QED
      BY <3>5, <3>6, <3>7, <3>8 DEF Spendable, Skew
  <2>2. ASSUME request # None, NEW d \in request.resolved PROVE d.at <= now'
    <3>1. request \in Request
      BY <2>2 DEF CapabilityInv, CapabilityTypeOK
    <3>2. d \in Disclosure
      BY <3>1, RequestUpdates
    <3>3. d.at \in Nat
      BY <3>2 DEF Disclosure, Time
    <3>4. d.at <= now
      BY <2>2 DEF CapabilityInv, RequestInOrder
    <3> QED
      BY <1>1, <3>3, <3>4
  <2> QED
    BY <1>1, <2>1, <2>2 DEF CapabilityInv, RequestInOrder
<1>5. DenialsPast'
  BY <1>1 DEF CapabilityInv, DenialsPast
<1>6. SpendingDenialsExplained'
  BY <1>1 DEF CapabilityInv, SpendingDenialsExplained
<1> QED
  BY <1>2, <1>3, <1>4, <1>5, <1>6 DEF CapabilityInv

\* The store changes only while no request is being resolved.
LEMMA StoreKeepsInv ==
    ASSUME CapabilityInv, CapabilityTypeOK', StoreStep
    PROVE  CapabilityInv'
<1> USE DEF store, registries, history, CapabilityInv
<1>1. /\ Idle /\ UNCHANGED <<now, seen, request, calls, spender, denials>>
      /\ UNCHANGED <<consents, window, usage>> \/ \E c \in Consent : StoreConsent(c)
      /\ UNCHANGED tokens \/ \E t : Mint(t)
  <2> DEFINE A == /\ Idle /\ UNCHANGED <<now, seen, request, calls, spender, denials>>
                  /\ UNCHANGED <<consents, window, usage>> \/ \E c \in Consent : StoreConsent(c)
                  /\ UNCHANGED tokens \/ \E t : Mint(t)
  <2>1. ASSUME NEW p \in Pack, StorePack(p) PROVE A
    BY <2>1 DEF StorePack
  <2>2. ASSUME NEW p \in Path, NEW f \in Field, RegisterSdlMapping(p, f) PROVE A
    BY <2>2 DEF RegisterSdlMapping
  <2>3. ASSUME NEW terms \in Terms, StoreConsent(ConsentOf(terms)) PROVE A
    BY <2>3, ConsentType DEF CapabilityTypeOK, StoreConsent
  <2>4. ASSUME NEW t, Mint(t) PROVE A
    BY <2>4 DEF Mint
  <2>5. ASSUME NEW t, Revoke(t) PROVE A
    BY <2>5 DEF Revoke
  <2> HIDE DEF A
  <2>6. A
    BY <2>1, <2>2, <2>3, <2>4, <2>5 DEF StoreStep
  <2> QED
    BY <2>6 DEF A
<1>2. RegistriesAgree'
  <2>1. CASE UNCHANGED <<consents, window, usage>>
    BY <1>1, <2>1 DEF RegistriesAgree
  <2>2. ASSUME NEW c \in Consent, StoreConsent(c) PROVE RegistriesAgree'
    <3>1. /\ calls \in Nat /\ usage' = With(usage, c, 0) /\ window' = With(window, c, None)
          /\ consents' = consents \cup {c} /\ c \notin consents
          /\ DOMAIN usage = consents /\ DOMAIN window = consents
      BY <2>2, CapabilityAssumption DEF StoreConsent, CapabilityTypeOK
    <3>2. /\ usage'[c] = 0 /\ window'[c] = None
          /\ \A b \in consents : usage'[b] = usage[b] /\ window'[b] = window[b]
      BY <3>1 DEF With
    <3> QED
      BY <1>1, <3>1, <3>2 DEF RegistriesAgree
  <2> QED
    BY <1>1, <2>1, <2>2
<1>3. TokensBacked'
  <2>1. CASE UNCHANGED tokens
    <3>1. consents \subseteq consents'
      BY <1>1 DEF StoreConsent
    <3> QED
      BY <1>1, <2>1, <3>1 DEF TokensBacked
  <2>2. ASSUME NEW t, Mint(t) PROVE TokensBacked'
    <3>1. /\ tokens' = tokens \cup {t} /\ t.consent \in consents /\ UNCHANGED <<consents, now>>
          /\ t.issuedAt = Seconds(now) /\ WellFormed(t) /\ Contained(t)
      BY <2>2 DEF Mint
    <3>2. Seconds(now) \in Nat
      BY PresentStamp DEF CapabilityTypeOK
    <3> QED
      BY <3>1, <3>2 DEF TokensBacked
  <2> QED
    BY <1>1, <2>1, <2>2
<1>4. RequestInOrder'
  BY <1>1 DEF RequestInOrder, Idle
<1>5. DenialsPast'
  BY <1>1 DEF DenialsPast
<1>6. SpendingDenialsExplained'
  BY <1>1 DEF SpendingDenialsExplained
<1> QED
  BY <1>2, <1>3, <1>4, <1>5, <1>6

\* A request begins with the next call, so that nobody has redeemed for it yet.
LEMMA BeginKeepsInv ==
    ASSUME CapabilityInv, CapabilityTypeOK', NEW t \in tokens, NEW p, NEW paths,
           BeginRequest(t, p, paths)
    PROVE  CapabilityInv'
<1> USE DEF store, registries, history, CapabilityInv
<1>1. /\ calls \in Nat /\ calls' = calls + 1
      /\ UNCHANGED <<now, consents, tokens, seen, revoked, window, usage, spender, denials>>
      /\ window \in [consents -> Window \cup {None}] /\ usage \in [consents -> 0..MaxCalls]
      /\ spender \in [TokenId -> Call \cup {None}]
  BY CapabilityAssumption DEF BeginRequest, NextCall, CapabilityTypeOK
<1>2. request' # None => /\ request'.call = calls' /\ request'.consumed = FALSE
                         /\ request'.resolved = {}
  BY DEF BeginRequest
<1>3. RegistriesAgree'
  <2>1. ASSUME NEW c \in consents
        PROVE  usage[c] <= calls' /\ (window[c] # None => window[c].count <= calls')
    <3>1. usage[c] \in Nat /\ (window[c] # None => window[c].count \in Nat)
      BY <1>1, <2>1, CapabilityAssumption DEF Window
    <3>2. usage[c] <= calls /\ (window[c] # None => window[c].count <= calls)
      BY <2>1 DEF RegistriesAgree
    <3> QED
      BY <1>1, <3>1, <3>2
  <2>2. ASSUME NEW i \in TokenId, spender[i] # None PROVE spender[i] <= calls'
    <3>1. spender[i] \in Nat /\ spender[i] <= calls
      BY <1>1, <2>2 DEF Call, RegistriesAgree
    <3> QED
      BY <1>1, <3>1
  <2> QED
    BY <1>1, <2>1, <2>2 DEF RegistriesAgree
<1>4. TokensBacked'
  BY <1>1 DEF TokensBacked
<1>5. RequestInOrder'
  <2>1. ASSUME NEW i \in TokenId PROVE spender[i] # calls'
    <3>1. spender[i] = None \/ (spender[i] \in Nat /\ spender[i] <= calls)
      BY <1>1, <2>1 DEF Call, RegistriesAgree
    <3>2. None \notin Nat
      BY CapabilityAssumption
    <3> QED
      BY <1>1, <3>1, <3>2
  <2> QED
    BY <1>1, <1>2, <2>1 DEF RequestInOrder
<1>6. DenialsPast'
  <2>1. ASSUME NEW d \in denials PROVE d.call \in Nat /\ d.call <= calls
    BY <2>1 DEF DenialsPast, Call
  <2> QED
    BY <1>1, <1>2, <2>1 DEF DenialsPast
<1>7. SpendingDenialsExplained'
  BY <1>1 DEF SpendingDenialsExplained
<1> QED
  BY <1>3, <1>4, <1>5, <1>6, <1>7

\* A path that leads nowhere is dropped.
LEMMA SkipKeepsInv ==
    ASSUME CapabilityInv, CapabilityTypeOK', SkipPath
    PROVE  CapabilityInv'
<1> USE DEF store, registries, history, CapabilityInv
<1>1. /\ request # None /\ request \in Request
      /\ UNCHANGED <<now, consents, tokens, seen, revoked, window, usage, calls, spender,
                     denials>>
      /\ request' = [request EXCEPT !.paths = Tail(request.paths)]
  BY DEF SkipPath, CapabilityTypeOK
<1>2. /\ request'.call = request.call /\ request'.token = request.token
      /\ request'.consumed = request.consumed /\ request'.resolved = request.resolved
  BY <1>1 DEF Request
<1>3. RegistriesAgree'
  BY <1>1 DEF RegistriesAgree
<1>4. TokensBacked'
  BY <1>1 DEF TokensBacked
<1>5. RequestInOrder'
  BY <1>1, <1>2 DEF RequestInOrder, Spendable
<1>6. DenialsPast'
  BY <1>1, <1>2 DEF DenialsPast
<1>7. SpendingDenialsExplained'
  BY <1>1 DEF SpendingDenialsExplained
<1> QED
  BY <1>3, <1>4, <1>5, <1>6, <1>7

\* Resolving a path redeems the token unless an earlier path has.
LEMMA ResolveKeepsInv ==
    ASSUME CapabilityInv, CapabilityTypeOK', ResolvePath
    PROVE  CapabilityInv'
<1> USE DEF store, registries, history, CapabilityInv
<1> DEFINE t == request.token
           e == [call |-> request.call, token |-> request.token, at |-> now,
                 under |-> Presented(request.token, Located, request.pack),
                 redeemed |-> TRUE]
<1>1. /\ request # None /\ request \in Request /\ t \in tokens /\ request.call = calls
      /\ request.call \in Call /\ calls \in Nat /\ now \in Nat
      /\ UNCHANGED <<now, consents, tokens, revoked, window, usage, calls, denials>>
      /\ request' = [request EXCEPT !.paths = Tail(request.paths), !.consumed = TRUE,
                                    !.resolved = request.resolved \cup {e}]
  BY ResolvingRedeems, PresentStamp, CapabilityAssumption DEF ResolvePath, CapabilityTypeOK
<1>2. /\ request'.call = request.call /\ request'.token = t
      /\ request'.consumed = TRUE /\ request'.resolved = request.resolved \cup {e}
  <2> HIDE DEF e
  <2> QED
    BY <1>1 DEF Request
<1>3. UNCHANGED <<seen, spender>> \/ Redeems(t, calls)
  BY <1>1, ResolvingRedeems DEF CapabilityTypeOK
<1>4. /\ e.call = request.call /\ e.token = t /\ e.at = now
      /\ e.under = Presented(t, Located, request.pack)
  OBVIOUS
<1> HIDE DEF e, t
<1>5. /\ Timely(t, now) /\ t \notin revoked /\ ~t.consent.priced
      /\ Presented(t, Located, request.pack) \in t.scope
  BY DEF ResolvePath, VaultAllows, Cleared, t
<1>6. RegistriesAgree'
  <2>1. \A i \in TokenId : /\ i \in seen' <=> spender'[i] # None
                           /\ spender'[i] # None => spender'[i] <= calls'
    BY <1>1, <1>3, RedeemingAgrees
  <2> QED
    BY <1>1, <2>1 DEF RegistriesAgree
<1>7. TokensBacked'
  BY <1>1 DEF TokensBacked
<1>8. RequestInOrder'
  <2>1. Spendable(t)'
    <3>1. Spendable(t)
      BY <1>1, <1>5, AcceptedIsSpendable
    <3>2. t' = t
      BY <1>2 DEF t
    <3> QED
      BY <1>1, <3>1, <3>2 DEF Spendable
  <2>2. spender'[t.id] = request.call
    BY ResolvingRedeems DEF t
  <2>3. \A d \in request.resolved \cup {e} :
           /\ d.call = request.call /\ d.token = t
           /\ d.at <= now /\ Ledger!ValidAt(d.token, d.at)
           /\ d.under \in d.token.consent.scope
    <3>1. Ledger!ValidAt(t, now) /\ t.scope \subseteq t.consent.scope
      BY <1>1, <1>5, TimelyIsValid, TokenTimes
    <3>2. /\ e.call = request.call /\ e.token = t /\ e.at <= now
          /\ Ledger!ValidAt(e.token, e.at) /\ e.under \in e.token.consent.scope
      BY <1>1, <1>4, <1>5, <3>1
    <3> QED
      BY <1>1, <3>2 DEF RequestInOrder, t
  <2>4. \A i \in TokenId : spender'[i] = request'.call => request'.consumed
    BY <1>2
  <2>5. Spendable(request.token)'
    BY <1>2, <2>1 DEF t
  <2> QED
    BY <1>1, <1>2, <2>2, <2>3, <2>4, <2>5 DEF RequestInOrder
<1>9. DenialsPast'
  BY <1>1, <1>2 DEF DenialsPast
<1>10. SpendingDenialsExplained'
  <2>1. \A d \in denials : d.call < calls
    BY <1>1 DEF DenialsPast
  <2> QED
    BY <1>1, <1>3, <2>1, DenialsStayExplained
<1> QED
  BY <1>6, <1>7, <1>8, <1>9, <1>10

\* Denying a path ends the request; if it has redeemed its token, then for a reason.
LEMMA DenyKeepsInv ==
    ASSUME CapabilityInv, CapabilityTypeOK', DenyPath
    PROVE  CapabilityInv'
<1> USE DEF store, registries, history, CapabilityInv
<1> DEFINE e == [call |-> request.call, token |-> request.token, at |-> now,
                 content |-> Located, pack |-> request.pack]
<1>1. /\ request \in Request /\ request.token \in tokens /\ request.call = calls
      /\ calls \in Nat
  BY CapabilityAssumption DEF DenyPath, CapabilityTypeOK, RequestInOrder
<1>2. /\ request # None /\ request' = None
      /\ request.token \in tokens /\ request.token \in Token
      /\ request.call = calls /\ request.call \in Call /\ calls \in Nat
      /\ UNCHANGED <<now, consents, tokens, seen, revoked, window, usage, calls, spender>>
      /\ denials' = denials \cup {e}
  BY <1>1, TokenTimes, RequestUpdates DEF DenyPath
<1>3. /\ e.call = request.call /\ e.token = request.token /\ e.at = now
      /\ e.content = Located /\ e.pack = request.pack
  OBVIOUS
<1> HIDE DEF e
<1>4. RegistriesAgree'
  BY <1>2 DEF RegistriesAgree
<1>5. TokensBacked'
  BY <1>2 DEF TokensBacked
<1>6. RequestInOrder'
  BY <1>2 DEF RequestInOrder
<1>7. DenialsPast'
  <2>1. e.token \in Token /\ e.call \in Call /\ e.call <= calls
    BY <1>2, <1>3
  <2> QED
    BY <1>2, <2>1 DEF DenialsPast
<1>8. SpendingDenialsExplained'
  <2>1. ASSUME spender[e.token.id] = e.call
        PROVE  \/ {ContentScope(e.content), PackScope(e.pack)} \cap e.token.scope = {}
               \/ Seconds(e.at) > e.token.expiresAt
               \/ \E s \in {e.token.issuedAt, e.token.consent.issuedAt} :
                    ~WithinSkew(s, e.at)
    <3>1. request.token.id \in TokenId
      BY <1>2 DEF Token
    <3>2. request.consumed /\ Spendable(request.token)
      BY <1>2, <1>3, <2>1, <3>1 DEF RequestInOrder
    <3>3. ~VaultAllows(Located)
      BY DEF DenyPath
    <3> QED
      BY <1>2, <1>3, <3>2, <3>3, DeniedForScopeOrAge
  <2> QED
    BY <1>2, <2>1 DEF SpendingDenialsExplained
<1> QED
  BY <1>4, <1>5, <1>6, <1>7, <1>8

\* A request that is allowed ends without touching a registry.
LEMMA AllowKeepsInv ==
    ASSUME CapabilityInv, CapabilityTypeOK', AllowRequest
    PROVE  CapabilityInv'
<1> USE DEF store, registries, history, CapabilityInv
<1>1. /\ request' = None
      /\ UNCHANGED <<now, consents, tokens, seen, revoked, window, usage, calls, spender,
                     denials>>
  BY DEF AllowRequest
<1>2. RegistriesAgree' /\ TokensBacked' /\ RequestInOrder'
  BY <1>1 DEF RegistriesAgree, TokensBacked, RequestInOrder
<1>3. DenialsPast' /\ SpendingDenialsExplained'
  BY <1>1 DEF DenialsPast, SpendingDenialsExplained
<1> QED
  BY <1>2, <1>3

\* A flow redeems for a call later than every denial.
LEMMA FlowKeepsInv ==
    ASSUME CapabilityInv, CapabilityTypeOK', NEW t \in tokens, Flow(t)
    PROVE  CapabilityInv'
<1> USE DEF CapabilityInv
<1>1. /\ calls \in Nat /\ calls' = calls + 1 /\ calls' \in Call /\ request' = None
      /\ UNCHANGED <<now, consents, tokens, revoked, request, denials>>
      /\ window \in [consents -> Window \cup {None}] /\ usage \in [consents -> 0..MaxCalls]
      /\ t.consent \in consents
      /\ UNCHANGED <<seen, spender>> \/ Redeems(t, calls')
  BY CapabilityAssumption DEF Flow, Idle, NextCall, CapabilityTypeOK, Call, TokensBacked
<1>2. RegistriesAgree'
  <2>1. ASSUME NEW c \in consents PROVE usage'[c] <= calls'
    <3>1. usage[c] \in Nat /\ usage[c] <= calls
      BY <1>1, <2>1 DEF RegistriesAgree
    <3>2. usage'[c] = usage[c] \/ usage'[c] = usage[c] + 1
      BY <1>1, <2>1 DEF Flow
    <3> QED
      BY <1>1, <3>1, <3>2
  <2>2. ASSUME NEW c \in consents, window'[c] # None PROVE window'[c].count <= calls'
    <3>1. window[c] # None => /\ window[c] \in Window /\ window[c].count \in Nat
                              /\ window[c].count <= calls
      BY <1>1, <2>2 DEF RegistriesAgree, Window
    <3>2. CASE window'[c] = window[c]
      BY <1>1, <2>2, <3>1, <3>2
    <3>3. CASE window[c] # None /\ window'[c] = [window[c] EXCEPT !.count = window[c].count + 1]
      BY <1>1, <2>2, <3>1, <3>3 DEF Window
    <3>4. CASE window'[c] = [count |-> 1, startedAt |-> Seconds(now)]
      BY <1>1, <3>4
    <3> QED
      BY <1>1, <2>2, <3>2, <3>3, <3>4 DEF Flow, Increment, InWindow
  <2>3. \A i \in TokenId : /\ i \in seen' <=> spender'[i] # None
                           /\ spender'[i] # None => spender'[i] <= calls'
    BY <1>1, RedeemingAgrees
  <2> QED
    BY <1>1, <2>1, <2>2, <2>3 DEF RegistriesAgree
<1>3. TokensBacked'
  BY <1>1 DEF TokensBacked
<1>4. RequestInOrder'
  BY <1>1 DEF RequestInOrder
<1>5. \A d \in denials : d.call \in Nat /\ d.call <= calls
  BY DEF DenialsPast, Call
<1>6. DenialsPast'
  <2>1. \A d \in denials : d.call <= calls'
    BY <1>1, <1>5
  <2> QED
    BY <1>1, <2>1 DEF DenialsPast
<1>7. SpendingDenialsExplained'
  <2>1. \A d \in denials : d.call < calls'
    BY <1>1, <1>5
  <2> QED
    BY <1>1, <2>1, DenialsStayExplained
<1> QED
  BY <1>2, <1>3, <1>4, <1>6, <1>7

\* Every step preserves the invariant.
LEMMA CapabilityStep ==
    ASSUME CapabilityInv, [Next]_vars
    PROVE  CapabilityInv'
<1>1. CapabilityTypeOK'
  BY TypeStep
<1>2. CASE UNCHANGED vars
  <2>1. UNCHANGED <<now, consents, tokens, seen, revoked, window, usage, request, calls,
                    spender, denials>>
    BY <1>2 DEF vars, store, registries, history
  <2>2. RegistriesAgree' /\ TokensBacked'
    BY <2>1 DEF CapabilityInv, RegistriesAgree, TokensBacked
  <2>3. RequestInOrder'
    BY <2>1 DEF CapabilityInv, RequestInOrder, Spendable
  <2>4. DenialsPast' /\ SpendingDenialsExplained'
    BY <2>1 DEF CapabilityInv, DenialsPast, SpendingDenialsExplained
  <2> QED
    BY <1>1, <2>2, <2>3, <2>4 DEF CapabilityInv
<1>3. CASE Tick
  BY <1>1, <1>3, TickKeepsInv
<1>4. CASE StoreStep
  BY <1>1, <1>4, StoreKeepsInv
<1>5. CASE VaultStep
  BY <1>1, <1>5, BeginKeepsInv, SkipKeepsInv, ResolveKeepsInv, DenyKeepsInv, AllowKeepsInv
     DEF VaultStep
<1>6. CASE FlowStep
  BY <1>1, <1>6, FlowCases, FlowKeepsInv
<1> QED
  BY <1>2, <1>3, <1>4, <1>5, <1>6 DEF Next

\* The invariant holds at the start.
LEMMA CapabilityInit ==
    ASSUME Init
    PROVE  CapabilityInv
<1> USE DEF Init
<1>1. CapabilityTypeOK
  BY CapabilityAssumption DEF CapabilityTypeOK, Time
<1>2. RegistriesAgree /\ TokensBacked /\ RequestInOrder
  BY DEF RegistriesAgree, TokensBacked, RequestInOrder
<1>3. DenialsPast /\ SpendingDenialsExplained
  BY DEF DenialsPast, SpendingDenialsExplained
<1> QED
  BY <1>1, <1>2, <1>3 DEF CapabilityInv

\* The store, the registries and the request being resolved always hold values of
\* their types, and a request that has redeemed its token is recorded in the nonce
\* registry and has something to return.
THEOREM CapabilityTypeCorrect == Spec => []CapabilityTypeOK
<1>1. CapabilityInv => CapabilityTypeOK
  BY DEF CapabilityInv
<1> QED
  BY <1>1, CapabilityInit, CapabilityStep, PTL DEF Spec

\* A vault request that is denied after it has redeemed its token either asked for
\* what the token does not cover or outlived the token or its freshness.
THEOREM SpendingTheorem == Spec => []SpendingDenialsExplained
<1>1. CapabilityInv => SpendingDenialsExplained
  BY DEF CapabilityInv
<1> QED
  BY <1>1, CapabilityInit, CapabilityStep, PTL DEF Spec

-----------------------------------------------------------------------------
(* The refinement of CapabilityLedger.                                       *)

\* What changes the store changes the ledger's tokens at most.
LEMMA StoreRefines ==
    ASSUME CapabilityInv, StoreStep
    PROVE  [Ledger!Next]_(Ledger!vars)
<1> USE DEF store, registries, history, Ledger!vars
<1>1. ASSUME NEW p \in Pack, StorePack(p) PROVE UNCHANGED Ledger!vars
  BY <1>1 DEF StorePack
<1>2. ASSUME NEW p \in Path, NEW f \in Field, RegisterSdlMapping(p, f)
      PROVE  UNCHANGED Ledger!vars
  BY <1>2 DEF RegisterSdlMapping
<1>3. ASSUME NEW c, StoreConsent(c) PROVE UNCHANGED Ledger!vars
  BY <1>3 DEF StoreConsent
<1>4. ASSUME NEW t, Mint(t) PROVE Ledger!Issue
  <2>1. t \notin tokens /\ t \in tokens'
    BY <1>4 DEF Mint
  <2> QED
    BY <1>4, <2>1 DEF Mint, Ledger!Issue
<1>5. ASSUME NEW t \in tokens, Revoke(t) PROVE Ledger!Revoke(t)
  BY <1>5 DEF Revoke, Ledger!Revoke
<1> QED
  BY <1>1, <1>2, <1>3, <1>4, <1>5 DEF StoreStep, Ledger!Next

\* Resolving a path may redeem the token, and returns nothing yet.
LEMMA ResolveRefines ==
    ASSUME CapabilityInv, ResolvePath
    PROVE  [Ledger!Next]_(Ledger!vars)
<1>1. UNCHANGED <<now, tokens, revoked, disclosed>>
  BY DEF ResolvePath, store
<1>2. CASE UNCHANGED spender
  BY <1>1, <1>2 DEF Ledger!vars
<1>3. CASE Redeems(request.token, request.call)
  <2>1. request.token \in tokens /\ request.call \in Call
    BY ResolvingRedeems
  <2>2. Ledger!Redeem(request.token, request.call)
    BY <1>3, <2>1, RedeemedOnce DEF Redeems, Ledger!Redeem
  <2> QED
    BY <1>1, <2>1, <2>2 DEF Ledger!Use, Ledger!Next
<1> QED
  BY <1>2, <1>3, ResolvingRedeems DEF CapabilityInv, CapabilityTypeOK

\* What the request resolved was permitted when it was resolved; the token cannot
\* have been revoked since.
LEMMA AllowRefines ==
    ASSUME CapabilityInv, AllowRequest
    PROVE  Ledger!Use
<1>1. /\ request # None /\ disclosed' = disclosed \cup request.resolved
      /\ UNCHANGED <<now, tokens, revoked, spender>>
  BY DEF AllowRequest, store, registries
<1>2. ASSUME NEW d \in request.resolved
      PROVE  Ledger!Permitted(d) /\ spender[d.token.id] = d.call
  <2>1. request.token \in tokens /\ request.consumed
    BY <1>1, <1>2 DEF CapabilityInv, CapabilityTypeOK
  <2>2. /\ d.call = request.call /\ d.token = request.token /\ d.at <= now
        /\ Ledger!ValidAt(d.token, d.at) /\ d.under \in d.token.consent.scope
        /\ spender[request.token.id] = request.call /\ request.token \notin revoked
    BY <1>1, <1>2, <2>1 DEF CapabilityInv, RequestInOrder, Spendable
  <2> QED
    BY <2>1, <2>2 DEF Ledger!Permitted
<1> QED
  BY <1>1, <1>2 DEF Ledger!Use

\* A flow redeems for the present call what nobody had redeemed, and learns only
\* what the token permits.
LEMMA FlowRefines ==
    ASSUME CapabilityInv, NEW t \in tokens, Flow(t)
    PROVE  Ledger!Use
<1>1. calls' \in Call /\ UNCHANGED <<now, tokens, revoked>>
  BY CapabilityAssumption DEF Flow, NextCall, CapabilityInv, CapabilityTypeOK, Call
<1>2. spender' = spender \/ Ledger!Redeem(t, calls')
  <2>1. ASSUME Redeems(t, calls') PROVE Ledger!Redeem(t, calls')
    BY <1>1, <2>1, RedeemedOnce DEF Redeems, Ledger!Redeem
  <2> QED
    BY <2>1 DEF Flow
<1> DEFINE Permits == /\ disclosed \subseteq disclosed'
                      /\ \A d \in disclosed' \ disclosed :
                           /\ Ledger!Permitted(d)
                           /\ d.redeemed => spender'[d.token.id] = d.call
<1>3. Permits
  <2>1. CASE UNCHANGED disclosed
    BY <2>1
  <2>2. ASSUME NEW r \in Resource, NEW redeemed \in BOOLEAN, r \in t.scope,
               Timely(t, now), t \notin revoked,
               redeemed => spender'[t.id] = calls',
               Disclosing(calls', t, r, redeemed)
        PROVE  Permits
    <3> DEFINE e == [call |-> calls', token |-> t, under |-> r, at |-> now,
                     redeemed |-> redeemed]
    <3>1. /\ e.call = calls' /\ e.token = t /\ e.under = r /\ e.at = now
          /\ e.redeemed = redeemed /\ disclosed' = disclosed \cup {e}
      BY <2>2 DEF Disclosing
    <3> HIDE DEF e
    <3>2. Ledger!ValidAt(t, now) /\ t.scope \subseteq t.consent.scope /\ now \in Nat
      BY <2>2, TimelyIsValid, TokenTimes DEF CapabilityInv
    <3>3. Ledger!Permitted(e) /\ (e.redeemed => spender'[e.token.id] = e.call)
      BY <2>2, <3>1, <3>2 DEF Ledger!Permitted
    <3> QED
      BY <3>1, <3>3
  <2> QED
    BY <2>1, <2>2 DEF Flow, Learns
<1> QED
  BY <1>1, <1>2, <1>3 DEF Ledger!Use

\* Every step is a step of the ledger or leaves it alone.
LEMMA LedgerStep ==
    ASSUME CapabilityInv, [Next]_vars
    PROVE  [Ledger!Next]_(Ledger!vars)
<1> USE DEF store, registries, history
<1>1. CASE UNCHANGED vars
  BY <1>1 DEF vars, Ledger!vars
<1>2. CASE Tick
  BY <1>2 DEF Tick, Ledger!Next, Ledger!Advance
<1>3. CASE StoreStep
  BY <1>3, StoreRefines
<1>4. ASSUME NEW t \in tokens, NEW p \in Pack, NEW paths \in SortedPaths,
             BeginRequest(t, p, paths)
      PROVE  UNCHANGED Ledger!vars
  BY <1>4 DEF BeginRequest, Ledger!vars
<1>5. CASE SkipPath
  BY <1>5 DEF SkipPath, Ledger!vars
<1>6. CASE ResolvePath
  BY <1>6, ResolveRefines
<1>7. CASE DenyPath
  BY <1>7 DEF DenyPath, Ledger!vars
<1>8. CASE AllowRequest
  BY <1>8, AllowRefines DEF Ledger!Next
<1>9. CASE FlowStep
  BY <1>9, FlowCases, FlowRefines DEF Ledger!Next
<1> QED
  BY <1>1, <1>2, <1>3, <1>4, <1>5, <1>6, <1>7, <1>8, <1>9 DEF Next, VaultStep

\* Minting, redeeming and presenting tokens, by the vault path by path and by the SDK
\* at once, implement CapabilityLedger: one redeemer per token, and nothing learned
\* after a revocation, outside the validity, or beyond the consent.
THEOREM LedgerTheorem == Spec => KeepsLedger
<1>1. Init => Ledger!Init
  BY DEF Init, Ledger!Init
<1> QED
  BY <1>1, CapabilityInit, CapabilityStep, LedgerStep, PTL
     DEF Spec, KeepsLedger, Ledger!Spec

-----------------------------------------------------------------------------
(* What the ledger means for those who read it.                              *)

\* A ledger step adds tokens, revocations and disclosures and takes none back.
LEMMA LedgerOnlyGrows ==
    ASSUME CapabilityTypeOK, [Ledger!Next]_(Ledger!vars)
    PROVE  /\ tokens \subseteq tokens' /\ revoked \subseteq revoked'
           /\ \A t, u \in tokens' : t.id = u.id /\ t # u => t \in tokens /\ u \in tokens
           /\ \A i \in TokenId : spender[i] # None => spender'[i] = spender[i]
           /\ disclosed \subseteq disclosed'
           /\ \A d \in disclosed' \ disclosed :
                /\ Ledger!Permitted(d)
                /\ d.redeemed => spender'[d.token.id] = d.call
<1>1. CASE UNCHANGED Ledger!vars
  BY <1>1 DEF Ledger!vars
<1>2. CASE Ledger!Advance
  BY <1>2 DEF Ledger!Advance
<1>3. CASE Ledger!Issue
  BY <1>3 DEF Ledger!Issue
<1>4. ASSUME NEW t \in tokens, Ledger!Revoke(t)
      PROVE  revoked \subseteq revoked' /\ UNCHANGED <<tokens, spender, disclosed>>
  BY <1>4 DEF Ledger!Revoke
<1>5. CASE Ledger!Use
  <2>1. \A i \in TokenId : spender[i] # None => spender'[i] = spender[i]
    <3>1. CASE UNCHANGED spender
      BY <3>1
    <3>2. ASSUME NEW t \in tokens, NEW n \in Call, Ledger!Redeem(t, n)
          PROVE  \A i \in TokenId : spender[i] # None => spender'[i] = spender[i]
      BY <3>2 DEF Ledger!Redeem, CapabilityTypeOK
    <3> QED
      BY <1>5, <3>1, <3>2 DEF Ledger!Use
  <2> QED
    BY <1>5, <2>1 DEF Ledger!Use
<1> QED
  BY <1>1, <1>2, <1>3, <1>4, <1>5 DEF Ledger!Next

\* Whoever learned something did so from a token that exists and has its id for
\* itself, at an instant at which the token and its consent were valid, under a
\* resource the subject had consented to; and if it redeemed the token, it is the
\* call the token was redeemed by.  Two calls that redeem learn from two tokens.
DisclosedInTerms ==
    /\ \A t, u \in tokens : t.id = u.id => t = u
    /\ \A d \in disclosed :
         /\ d.token \in tokens /\ Ledger!ValidAt(d.token, d.at)
         /\ d.under \in d.token.consent.scope
         /\ d.redeemed => spender[d.token.id] = d.call
    /\ \A d, e \in disclosed :
         d.redeemed /\ e.redeemed /\ d.token.id = e.token.id => d.call = e.call

\* What a call learned carries its number.
LEMMA DisclosedCalls ==
    ASSUME CapabilityInv, [Next]_vars, \A d \in disclosed : d.call \in Call
    PROVE  \A d \in disclosed' : d.call \in Call
<1> USE DEF store, registries, history
<1>1. CASE UNCHANGED disclosed
  BY <1>1
<1>2. CASE AllowRequest
  <2>1. request \in Request /\ disclosed' = disclosed \cup request.resolved
    BY <1>2 DEF AllowRequest, CapabilityInv, CapabilityTypeOK
  <2>2. request.resolved \subseteq Disclosure
    BY <2>1, RequestUpdates
  <2> QED
    BY <2>1, <2>2 DEF Disclosure
<1>3. ASSUME NEW t \in tokens, Flow(t)
      PROVE  \A d \in disclosed' : d.call \in Call
  <2>1. calls' \in Call
    BY <1>3, CapabilityAssumption DEF Flow, NextCall, CapabilityInv, CapabilityTypeOK, Call
  <2> QED
    BY <1>1, <1>3, <2>1 DEF Flow, Learns, Disclosing
<1>4. UNCHANGED disclosed \/ AllowRequest \/ FlowStep
  <2>1. CASE StoreStep
    <3>1. ASSUME NEW c, StoreConsent(c) PROVE UNCHANGED disclosed
      BY <3>1 DEF StoreConsent
    <3>2. ASSUME NEW t, Mint(t) \/ Revoke(t) PROVE UNCHANGED disclosed
      BY <3>2 DEF Mint, Revoke
    <3>3. ASSUME NEW p, NEW f, StorePack(p) \/ RegisterSdlMapping(p, f)
          PROVE  UNCHANGED disclosed
      BY <3>3 DEF StorePack, RegisterSdlMapping
    <3> QED
      BY <2>1, <3>1, <3>2, <3>3 DEF StoreStep
  <2>2. VaultStep => AllowRequest \/ UNCHANGED disclosed
    BY DEF VaultStep, BeginRequest, SkipPath, ResolvePath, DenyPath
  <2>3. Tick \/ UNCHANGED vars => UNCHANGED disclosed
    BY DEF Tick, vars
  <2> QED
    BY <2>1, <2>2, <2>3 DEF Next
<1> QED
  BY <1>1, <1>2, <1>3, <1>4, FlowCases

\* By whichever way tokens are presented, disclosures stay within the terms of
\* their tokens and no token serves two redeemers (vault.requestAccess,
\* executeCapabilityFlow, interpretWithCapability, verifyCapabilityToken).
THEOREM DisclosuresTheorem == Spec => []DisclosedInTerms
<1> DEFINE Inv == /\ CapabilityInv /\ DisclosedInTerms
                  /\ \A d \in disclosed : d.call \in Call
<1>1. Init => Inv
  BY CapabilityInit DEF Init, DisclosedInTerms
<1>2. Inv /\ [Next]_vars => Inv'
  <2> SUFFICES ASSUME Inv, [Next]_vars PROVE Inv'
    OBVIOUS
  <2>1. CapabilityInv' /\ \A d \in disclosed' : d.call \in Call
    BY CapabilityStep, DisclosedCalls
  <2>2. CapabilityTypeOK /\ CapabilityTypeOK'
    BY <2>1 DEF CapabilityInv
  <2>3. /\ tokens \subseteq tokens'
        /\ \A t, u \in tokens' : t.id = u.id /\ t # u => t \in tokens /\ u \in tokens
        /\ \A i \in TokenId : spender[i] # None => spender'[i] = spender[i]
        /\ \A d \in disclosed' \ disclosed :
             Ledger!Permitted(d) /\ (d.redeemed => spender'[d.token.id] = d.call)
    BY <2>2, LedgerStep, LedgerOnlyGrows
  <2>4. \A t, u \in tokens' : t.id = u.id => t = u
    BY <2>3 DEF DisclosedInTerms
  <2>5. ASSUME NEW d \in disclosed'
        PROVE  /\ d.token \in tokens' /\ Ledger!ValidAt(d.token, d.at)
               /\ d.under \in d.token.consent.scope
               /\ d.redeemed => spender'[d.token.id] = d.call
    <3>1. CASE d \in disclosed
      <4>1. d.token \in tokens /\ d.token.id \in TokenId
        BY <2>2, <3>1 DEF DisclosedInTerms, CapabilityTypeOK, Token
      <4>2. d.call # None
        BY <3>1, CapabilityAssumption DEF Call
      <4> QED
        BY <2>3, <3>1, <4>1, <4>2 DEF DisclosedInTerms
    <3>2. CASE d \notin disclosed
      BY <2>3, <3>2 DEF Ledger!Permitted
    <3> QED
      BY <3>1, <3>2
  <2> QED
    BY <2>1, <2>4, <2>5 DEF DisclosedInTerms, Ledger!ValidAt, Ledger!Seconds
<1> QED
  BY <1>1, <1>2, PTL DEF Spec

\* What is over is over: a revocation stands, nothing more is learned from a
\* token that has been revoked, what was learned is not forgotten, and a token
\* that was redeemed keeps the call that redeemed it.
LedgerStands ==
    [][/\ revoked \subseteq revoked'
       /\ disclosed \subseteq disclosed'
       /\ \A d \in disclosed' \ disclosed : d.token \in tokens \ revoked
       /\ \A i \in TokenId : spender[i] # None => spender'[i] = spender[i]]_vars

\* No step of the vault or the SDK undoes a revocation or a redemption, or
\* discloses anything under a revoked token, a request begun before included.
THEOREM LedgerStandsTheorem == Spec => LedgerStands
<1>1. CapabilityInv /\ [Next]_vars =>
        [/\ revoked \subseteq revoked'
         /\ disclosed \subseteq disclosed'
         /\ \A d \in disclosed' \ disclosed : d.token \in tokens \ revoked
         /\ \A i \in TokenId : spender[i] # None => spender'[i] = spender[i]]_vars
  <2> SUFFICES ASSUME CapabilityInv, [Next]_vars
               PROVE  /\ revoked \subseteq revoked'
                      /\ disclosed \subseteq disclosed'
                      /\ \A d \in disclosed' \ disclosed : d.token \in tokens \ revoked
                      /\ \A i \in TokenId : spender[i] # None => spender'[i] = spender[i]
    OBVIOUS
  <2>1. CapabilityTypeOK
    BY DEF CapabilityInv
  <2> QED
    BY <2>1, LedgerStep, LedgerOnlyGrows DEF Ledger!Permitted
<1> QED
  BY <1>1, CapabilityInit, CapabilityStep, PTL DEF Spec, LedgerStands

-----------------------------------------------------------------------------
(* The rate limit.                                                           *)

\* What an attempt adds to the ones before it.
LEMMA AttemptAppended ==
    ASSUME NEW S, NEW a \in Seq(S), NEW at \in S
    PROVE  /\ Append(a, at) \in Seq(S) /\ Len(Append(a, at)) = Len(a) + 1
           /\ Append(a, at)[Len(a) + 1] = at
           /\ \A i \in 1..Len(a) : Append(a, at)[i] = a[i]
           /\ Len(a) \in Nat
  OBVIOUS

\* What a window counts and when it started are natural numbers.
LEMMA WindowType ==
    ASSUME NEW w \in Window
    PROVE  w # None /\ w.count \in Nat /\ w.startedAt \in Nat
<1>1. w.count \in Nat /\ w.startedAt \in Stamp
  BY CapabilityAssumption DEF Window
<1>2. w # None
  BY CapabilityAssumption
<1> QED
  BY <1>1, <1>2, StampIsNat

\* Attempts of the past remain so.
LEMMA AttemptsLater ==
    ASSUME NEW a \in Seq(Nat), NEW w, NEW F, NEW at \in Nat, NEW later \in Nat, at <= later,
           FallsIntoWindows(a, w, F, at)
    PROVE  FallsIntoWindows(a, w, F, later)
<1>1. \A i \in 1..Len(a) : a[i] \in Nat /\ a[i] <= at
  BY DEF FallsIntoWindows
<1>2. \A i \in 1..Len(a) : a[i] <= later
  BY <1>1
<1> QED
  BY <1>2 DEF FallsIntoWindows

\* Attempts in the order of their instants stay so when the present one is added.
LEMMA AppendedInOrder ==
    ASSUME NEW a \in Seq(Nat), NEW w, NEW F, NEW at \in Nat, FallsIntoWindows(a, w, F, at),
           NEW b, b = Append(a, at)
    PROVE  /\ \A i \in 1..Len(b) : b[i] <= at
           /\ \A i, j \in 1..Len(b) : i <= j => b[i] <= b[j]
<1>1. /\ Len(b) = Len(a) + 1 /\ b[Len(a) + 1] = at /\ Len(a) \in Nat
      /\ \A i \in 1..Len(a) : b[i] = a[i]
  BY AttemptAppended
<1>2. \A i \in 1..Len(b) : i \in 1..Len(a) \/ i = Len(a) + 1
  BY <1>1
<1>3. \A i \in 1..Len(a) : a[i] <= at
  BY DEF FallsIntoWindows
<1>4. \A i \in 1..Len(b) : b[i] <= at
  BY <1>1, <1>2, <1>3
<1>5. ASSUME NEW i \in 1..Len(b), NEW j \in 1..Len(b), i <= j PROVE b[i] <= b[j]
  <2>1. CASE j = Len(a) + 1
    BY <1>1, <1>4, <2>1
  <2>2. CASE j \in 1..Len(a)
    <3>1. i \in 1..Len(a)
      BY <1>1, <1>5, <2>2
    <3> QED
      BY <1>1, <1>5, <2>2, <3>1 DEF FallsIntoWindows
  <2> QED
    BY <1>2, <2>1, <2>2
<1> QED
  BY <1>4, <1>5

\* The last m of n + 1 places, of which the last k + 1 begin at n - k + 1.
LEMMA LastBlock ==
    ASSUME NEW n \in Nat, NEW m \in Nat, NEW k \in Nat, 1 <= k, k < m, k <= n,
           NEW i, i = n - m + 2
    PROVE  i <= n - k + 1 /\ n - k + 1 <= i + m - 1
  OBVIOUS

\* What lies further apart stays so between bounds that lie further out.
LEMMA FurtherApart ==
    ASSUME NEW p \in Nat, NEW q \in Nat, NEW r \in Nat, NEW s \in Nat, NEW gap \in Int,
           p <= q, r <= s, r - q > gap
    PROVE  s - p > gap
  OBVIOUS

\* What is not later than an instant of the period from p to q is as far from at as q
\* allows.
LEMMA OpenedEarlier ==
    ASSUME NEW at \in Nat, NEW p \in Nat, NEW q, NEW period \in Nat, q = p + period,
           NEW x \in Nat, NEW y \in Nat, x <= y, y < q, NEW span \in Nat, at - p >= span
    PROVE  at - x > span - period
  OBVIOUS

\* A count below the number of an earlier call leaves room for one more.
LEMMA RoomForOne ==
    ASSUME NEW k \in Nat, NEW n \in Nat, NEW max \in Nat, NEW next \in 1..max,
           k <= n, n < next
    PROVE  k + 1 \in 1..max
  OBVIOUS

\* An attempt that is counted in the current window, which has room for it.
LEMMA CountedAttempt ==
    ASSUME NEW a \in Seq(Nat), NEW w \in Window, NEW F \in SUBSET (1..Len(a)), NEW at \in Nat,
           FallsIntoWindows(a, w, F, at), w.count < MaxAttempts,
           NEW v \in Window, v.count = w.count + 1, v.startedAt = w.startedAt
    PROVE  FallsIntoWindows(Append(a, at), v, F, at)
<1> DEFINE b == Append(a, at)
           n == Len(a)
           first == n - w.count + 1
<1>1. /\ Len(b) = n + 1 /\ b[n + 1] = at /\ n \in Nat /\ \A i \in 1..n : b[i] = a[i]
  BY AttemptAppended
<1>2. /\ w # None /\ v # None /\ w.count \in Nat /\ w.startedAt \in Nat
      /\ MaxAttempts \in Nat \ {0} /\ TicksPerSecond \in Nat
  BY WindowType, CapabilityAssumption
<1>3. /\ w.count \in 1..MaxAttempts /\ w.count <= n /\ first \in F
      /\ \A f \in F : f <= first
      /\ a[first] < (w.startedAt + 1) * TicksPerSecond
      /\ \A i \in 1..(n - MaxAttempts + 1) :
           \E f \in F : i <= f /\ f <= i + MaxAttempts - 1
      /\ \A f, g \in F : f < g => a[g] - a[f] > WindowTicks - TicksPerSecond
      /\ F \subseteq 1..n
  BY <1>2 DEF FallsIntoWindows
<1>4. /\ \A i \in 1..Len(b) : b[i] <= at
      /\ \A i, j \in 1..Len(b) : i <= j => b[i] <= b[j]
  BY AppendedInOrder
<1> HIDE DEF b, n
<1>5. /\ v.count \in 1..MaxAttempts /\ v.count <= Len(b) /\ Len(b) - v.count + 1 = first
      /\ first \in 1..n
  <2> DEFINE k == w.count
  <2>1. k \in Nat /\ k \in 1..MaxAttempts /\ k <= n /\ k < MaxAttempts /\ v.count = k + 1
    BY <1>2, <1>3
  <2>2. Len(b) = n + 1 /\ n \in Nat /\ MaxAttempts \in Nat /\ first = n - k + 1
    BY <1>1, <1>2
  <2> HIDE DEF k, first
  <2> QED
    BY <2>1, <2>2
<1> HIDE DEF first
<1>6. /\ first \in F /\ \A f \in F : f <= first
      /\ b[first] < (v.startedAt + 1) * TicksPerSecond
  BY <1>1, <1>2, <1>3, <1>5
<1>7. ASSUME NEW i \in 1..(Len(b) - MaxAttempts + 1)
      PROVE  \E f \in F : i <= f /\ f <= i + MaxAttempts - 1
  <2>1. CASE i \in 1..(n - MaxAttempts + 1)
    BY <1>3, <2>1
  <2>2. CASE i = n - MaxAttempts + 2
    <3>1. i <= first /\ first <= i + MaxAttempts - 1
      <4>1. /\ w.count \in Nat /\ 1 <= w.count /\ w.count < MaxAttempts /\ w.count <= n
            /\ n \in Nat /\ MaxAttempts \in Nat
        BY <1>1, <1>2, <1>3
      <4> QED
        BY <2>2, <4>1, LastBlock DEF first
    <3> QED
      BY <1>3, <3>1
  <2> QED
    BY <1>1, <1>2, <1>7, <2>1, <2>2
<1>8. \A f, g \in F : f < g => b[g] - b[f] > WindowTicks - TicksPerSecond
  BY <1>1, <1>3
<1>9. FallsIntoWindows(b, v, F, at)
  BY <1>2, <1>4, <1>5, <1>6, <1>7, <1>8 DEF FallsIntoWindows
<1> QED
  BY <1>9 DEF b

\* An attempt that opens a new window, its start truncated to the second.
LEMMA OpeningAttempt ==
    ASSUME NEW a \in Seq(Nat), NEW w \in Window \cup {None}, NEW F \in SUBSET (1..Len(a)),
           NEW at \in Nat, FallsIntoWindows(a, w, F, at),
           w # None => at - w.startedAt * TicksPerSecond >= WindowTicks,
           NEW v \in Window, v.count = 1, v.startedAt = Seconds(at)
    PROVE  FallsIntoWindows(Append(a, at), v, F \cup {Len(a) + 1}, at)
<1> DEFINE b == Append(a, at)
           n == Len(a)
           G == F \cup {n + 1}
<1>1. /\ Len(b) = n + 1 /\ b[n + 1] = at /\ n \in Nat /\ \A i \in 1..n : b[i] = a[i]
      /\ b \in Seq(Nat)
  BY AttemptAppended
<1>2. /\ v # None /\ MaxAttempts \in Nat \ {0} /\ WindowTicks \in Nat
      /\ TicksPerSecond \in Nat
  BY WindowType, CapabilityAssumption
<1>3. /\ \A i \in 1..(n - MaxAttempts + 1) :
           \E f \in F : i <= f /\ f <= i + MaxAttempts - 1
      /\ \A f, g \in F : f < g => a[g] - a[f] > WindowTicks - TicksPerSecond
  BY DEF FallsIntoWindows
<1>4. /\ \A i \in 1..Len(b) : b[i] <= at
      /\ \A i, j \in 1..Len(b) : i <= j => b[i] <= b[j]
  BY AppendedInOrder
<1>5. ASSUME NEW f \in F
      PROVE  f \in 1..n /\ at - a[f] > WindowTicks - TicksPerSecond
  <2>1. f \in 1..n /\ a # << >>
    BY <1>1, <1>5
  <2>2. w # None
    BY <2>1 DEF FallsIntoWindows
  <2>3. w.count \in Nat /\ w.startedAt \in Nat
    BY <2>2, WindowType
  <2> DEFINE g == n - w.count + 1
             p == w.startedAt * TicksPerSecond
             q == (w.startedAt + 1) * TicksPerSecond
  <2>4. g \in F /\ f <= g /\ a[g] < q
    BY <1>5, <2>2 DEF FallsIntoWindows
  <2>5. p \in Nat /\ q = p + TicksPerSecond
    BY <1>2, <2>3
  <2>6. at - p >= WindowTicks
    BY <2>2
  <2> HIDE DEF p, q, g
  <2>7. g \in 1..n
    BY <2>4
  <2> HIDE DEF n
  <2>8. a[f] \in Nat /\ a[g] \in Nat
    BY <2>1, <2>7 DEF n
  <2>9. a[f] <= a[g]
    BY <2>1, <2>4, <2>7 DEF FallsIntoWindows, n
  <2> QED
    BY <1>2, <2>1, <2>4, <2>5, <2>6, <2>8, <2>9, OpenedEarlier
<1> HIDE DEF b, n, G
<1>6. /\ v.count \in 1..MaxAttempts /\ v.count <= Len(b) /\ Len(b) - v.count + 1 = n + 1
      /\ n + 1 \in G /\ \A f \in G : f <= n + 1
  BY <1>1, <1>2, <1>5 DEF G
<1>7. b[n + 1] < (v.startedAt + 1) * TicksPerSecond
  BY <1>1, SecondsBounds
<1>8. ASSUME NEW i \in 1..(Len(b) - MaxAttempts + 1)
      PROVE  \E f \in G : i <= f /\ f <= i + MaxAttempts - 1
  <2>1. CASE i \in 1..(n - MaxAttempts + 1)
    BY <1>3, <2>1 DEF G
  <2>2. CASE i = n - MaxAttempts + 2
    <3>1. i <= n + 1 /\ n + 1 <= i + MaxAttempts - 1
      BY <1>1, <1>2, <2>2
    <3> QED
      BY <1>6, <3>1
  <2> QED
    BY <1>1, <1>2, <1>8, <2>1, <2>2
<1>9. ASSUME NEW f \in G, NEW g \in G, f < g
      PROVE  b[g] - b[f] > WindowTicks - TicksPerSecond
  <2>1. f \in F /\ (g \in F \/ g = n + 1)
    BY <1>1, <1>5, <1>9 DEF G
  <2>2. CASE g \in F
    BY <1>1, <1>3, <1>5, <1>9, <2>1, <2>2
  <2>3. CASE g = n + 1
    BY <1>1, <1>5, <2>1, <2>3
  <2> QED
    BY <2>1, <2>2, <2>3
<1>10. FallsIntoWindows(b, v, G, at)
  BY <1>2, <1>4, <1>6, <1>7, <1>8, <1>9 DEF FallsIntoWindows
<1> QED
  BY <1>10 DEF b, n, G

\* Sequences of instants are sequences of natural numbers.
LEMMA TimesAreNat == Seq(Time) \subseteq Seq(Nat)
<1>1. Time \subseteq Nat
  BY CapabilityAssumption DEF Time
<1>2. ASSUME NEW s \in Seq(Time) PROVE s \in Seq(Nat)
  <2>1. s \in [1..Len(s) -> Time] /\ Len(s) \in Nat
    BY <1>2, LenProperties
  <2>2. s \in [1..Len(s) -> Nat]
    BY <1>1, <2>1
  <2> QED
    BY <2>1, <2>2
<1> QED
  BY <1>2

\* A counted attempt of one consent falls into its windows.
LEMMA IncrementFalls ==
    ASSUME CapabilityInv, CapabilityTypeOK', AttemptsInv, NEW c \in consents,
           Increment(c), ~IsLimited(c), calls' \in Call, calls < calls'
    PROVE  \E F \in SUBSET (1..Len(attempts'[c])) :
             FallsIntoWindows(attempts'[c], window'[c], F, now)
<1> DEFINE a == attempts[c]
           w == window[c]
           v == IF InWindow(c) THEN [w EXCEPT !.count = w.count + 1]
                ELSE [count |-> 1, startedAt |-> Seconds(now)]
<1>1. /\ a \in Seq(Nat) /\ now \in Nat /\ w \in Window \cup {None}
      /\ attempts'[c] = Append(a, now) /\ window'[c] = v
      /\ calls' \in 1..MaxCalls /\ calls \in Nat /\ Seconds(now) \in Stamp
  <2>1. a \in Seq(Time) /\ a \in Seq(Nat)
    BY TimesAreNat DEF AttemptsInv
  <2>2. now \in Time /\ now \in Nat /\ w \in Window \cup {None} /\ calls \in Nat
    <3>1. now \in Time /\ calls \in 0..MaxCalls /\ window[c] \in Window \cup {None}
      BY DEF CapabilityInv, CapabilityTypeOK
    <3> QED
      BY <3>1, PresentStamp, CapabilityAssumption
  <2>3. attempts'[c] = Append(a, now) /\ window'[c] = v
    BY DEF AttemptsInv, CapabilityInv, CapabilityTypeOK, Increment
  <2>4. calls' \in 1..MaxCalls
    BY <2>2, CapabilityAssumption DEF Call
  <2>5. Seconds(now) \in Stamp
    BY <2>2, PresentStamp
  <2> QED
    BY <2>1, <2>2, <2>3, <2>4, <2>5
<1>2. PICK F \in SUBSET (1..Len(a)) : FallsIntoWindows(a, w, F, now)
  BY DEF AttemptsInv
<1>3. Len(Append(a, now)) = Len(a) + 1 /\ Len(a) \in Nat
  BY <1>1, AttemptAppended
<1>4. CASE InWindow(c)
  <2>1. w \in Window /\ v = [w EXCEPT !.count = w.count + 1]
    BY <1>1, <1>4 DEF InWindow
  <2>2. w.count \in Nat /\ w.count + 1 \in 1..MaxCalls /\ w.count < MaxAttempts
    <3>1. w.count \in Nat /\ w.count <= calls
      BY <1>4, <2>1, WindowType DEF InWindow, CapabilityInv, RegistriesAgree
    <3>2. w.count < MaxAttempts
      BY <1>4, <3>1, CapabilityAssumption DEF IsLimited
    <3>3. MaxCalls \in Nat
      BY CapabilityAssumption
    <3>4. w.count + 1 \in 1..MaxCalls
      BY <1>1, <3>1, <3>3, RoomForOne
    <3> QED
      BY <3>1, <3>2, <3>4
  <2>3. v \in Window /\ v.count = w.count + 1 /\ v.startedAt = w.startedAt
    BY <2>1, <2>2 DEF Window
  <2> HIDE DEF a, w, v
  <2>4. FallsIntoWindows(Append(a, now), v, F, now)
    BY <1>1, <1>2, <2>1, <2>2, <2>3, CountedAttempt
  <2>5. F \in SUBSET (1..Len(Append(a, now)))
    BY <1>2, <1>3
  <2> QED
    BY <1>1, <2>4, <2>5
<1>5. CASE ~InWindow(c)
  <2>1. v \in Window /\ v.count = 1 /\ v.startedAt = Seconds(now)
    BY <1>1, <1>5, CapabilityAssumption DEF Window
  <2>2. w # None => now - w.startedAt * TicksPerSecond >= WindowTicks
    <3> SUFFICES ASSUME w # None
                 PROVE  now - w.startedAt * TicksPerSecond >= WindowTicks
      OBVIOUS
    <3> DEFINE p == w.startedAt * TicksPerSecond
    <3>1. w.startedAt \in Nat /\ TicksPerSecond \in Nat /\ WindowTicks \in Nat
      BY <1>1, WindowType, CapabilityAssumption
    <3>2. p \in Nat
      BY <3>1
    <3>3. ~(now - p < WindowTicks)
      BY <1>5 DEF InWindow
    <3> HIDE DEF p
    <3>4. now - p >= WindowTicks
      BY <1>1, <3>1, <3>2, <3>3
    <3> QED
      BY <3>4 DEF p
  <2> DEFINE G == F \cup {Len(a) + 1}
  <2> HIDE DEF a, w, v
  <2>3. FallsIntoWindows(Append(a, now), v, G, now)
    BY <1>1, <1>2, <2>1, <2>2, OpeningAttempt
  <2>4. G \in SUBSET (1..Len(Append(a, now)))
    <3>1. ASSUME NEW n \in Nat, F \in SUBSET (1..n)
          PROVE  F \cup {n + 1} \in SUBSET (1..(n + 1))
      BY <3>1
    <3> QED
      BY <1>2, <1>3, <3>1
  <2> QED
    BY <1>1, <2>3, <2>4
<1> QED
  BY <1>4, <1>5

\* Every step keeps the attempts within their windows.
LEMMA AttemptsStep ==
    ASSUME CapabilityInv, CapabilityTypeOK', AttemptsInv, [Next]_vars
    PROVE  AttemptsInv'
<1> USE DEF store, registries, history
<1>1. /\ now \in Nat /\ attempts \in [consents -> Seq(Time)]
      /\ window \in [consents -> Window \cup {None}]
  BY CapabilityAssumption DEF AttemptsInv, CapabilityInv, CapabilityTypeOK, Time
<1>2. CASE UNCHANGED <<consents, window, attempts>> /\ now' \in Nat /\ now <= now'
  <2>1. ASSUME NEW c \in consents
        PROVE  \E F \in SUBSET (1..Len(attempts[c])) :
                 FallsIntoWindows(attempts[c], window[c], F, now')
    <3>1. PICK F \in SUBSET (1..Len(attempts[c])) :
            FallsIntoWindows(attempts[c], window[c], F, now)
      BY DEF AttemptsInv
    <3>2. attempts[c] \in Seq(Nat)
      BY <1>1, TimesAreNat
    <3>3. FallsIntoWindows(attempts[c], window[c], F, now')
      BY <1>1, <1>2, <3>1, <3>2, AttemptsLater
    <3> QED
      BY <3>1, <3>3
  <2> QED
    BY <1>1, <1>2, <2>1 DEF AttemptsInv
<1>3. ASSUME NEW c, StoreConsent(c) PROVE AttemptsInv'
  <2>1. /\ consents' = consents \cup {c} /\ c \notin consents /\ now' = now
        /\ attempts' = With(attempts, c, << >>) /\ window' = With(window, c, None)
    BY <1>3 DEF StoreConsent
  <2>2. /\ attempts' \in [consents' -> Seq(Time)] /\ attempts'[c] = << >>
        /\ window'[c] = None
        /\ \A b \in consents : attempts'[b] = attempts[b] /\ window'[b] = window[b]
    BY <1>1, <2>1 DEF With
  <2>3. FallsIntoWindows(<< >>, None, {}, now)
    BY CapabilityAssumption DEF FallsIntoWindows
  <2>4. \E F \in SUBSET (1..Len(attempts'[c])) :
          FallsIntoWindows(attempts'[c], window'[c], F, now)
    BY <2>2, <2>3
  <2> QED
    BY <2>1, <2>2, <2>4 DEF AttemptsInv
<1>4. ASSUME NEW t \in tokens, Flow(t) PROVE AttemptsInv'
  <2>1. /\ calls \in Nat /\ calls' = calls + 1 /\ calls' \in Call
        /\ now' = now /\ consents' = consents /\ t.consent \in consents /\ now \in Time
    BY <1>4, CapabilityAssumption
       DEF Flow, NextCall, CapabilityInv, CapabilityTypeOK, TokensBacked, Call
  <2>2. CASE UNCHANGED <<window, attempts>>
    BY <1>1, <1>2, <2>1, <2>2
  <2>3. CASE ~IsLimited(t.consent) /\ Increment(t.consent)
    <3> DEFINE c == t.consent
    <3>1. \E F \in SUBSET (1..Len(attempts'[c])) :
            FallsIntoWindows(attempts'[c], window'[c], F, now)
      BY <2>1, <2>3, IncrementFalls
    <3>2. /\ \A b \in consents : b # c => attempts'[b] = attempts[b] /\ window'[b] = window[b]
      BY <1>1, <2>3 DEF Increment
    <3>3. attempts' \in [consents -> Seq(Time)]
      <4>1. Append(attempts[c], now) \in Seq(Time)
        BY <1>1, <2>1, AttemptAppended
      <4> QED
        BY <1>1, <2>3, <4>1 DEF Increment
    <3> HIDE DEF c
    <3>4. \A b \in consents : b # c =>
            \E F \in SUBSET (1..Len(attempts'[b])) :
              FallsIntoWindows(attempts'[b], window'[b], F, now)
      BY <3>2 DEF AttemptsInv
    <3> QED
      BY <2>1, <3>1, <3>3, <3>4 DEF AttemptsInv
  <2> QED
    BY <1>4, <2>2, <2>3 DEF Flow
<1>5. CASE UNCHANGED vars
  BY <1>1, <1>2, <1>5 DEF vars
<1>6. CASE Tick
  BY <1>1, <1>2, <1>6 DEF Tick
<1>7. CASE StoreStep
  <2>1. ASSUME NEW p, StorePack(p) PROVE UNCHANGED <<consents, window, attempts, now>>
    BY <2>1 DEF StorePack
  <2>2. ASSUME NEW p, NEW f, RegisterSdlMapping(p, f)
        PROVE  UNCHANGED <<consents, window, attempts, now>>
    BY <2>2 DEF RegisterSdlMapping
  <2>3. ASSUME NEW t, Mint(t) PROVE UNCHANGED <<consents, window, attempts, now>>
    BY <2>3 DEF Mint
  <2>4. ASSUME NEW t, Revoke(t) PROVE UNCHANGED <<consents, window, attempts, now>>
    BY <2>4 DEF Revoke
  <2>5. UNCHANGED <<consents, window, attempts, now>> \/ \E c : StoreConsent(c)
    BY <1>7, <2>1, <2>2, <2>3, <2>4 DEF StoreStep
  <2> QED
    BY <1>1, <1>2, <1>3, <2>5
<1>8. CASE VaultStep
  <2>1. UNCHANGED <<consents, window, attempts, now>>
    BY <1>8 DEF VaultStep, BeginRequest, SkipPath, ResolvePath, DenyPath, AllowRequest
  <2> QED
    BY <1>1, <1>2, <2>1
<1>9. CASE FlowStep
  BY <1>4, <1>9, FlowCases
<1> QED
  BY <1>5, <1>6, <1>7, <1>8, <1>9 DEF Next

\* Two blocks of maxAttempts attempts each hold the first attempt of a window, and
\* these are further apart than a window less a second.
LEMMA BlocksAreApart ==
    ASSUME NEW a \in Seq(Nat), NEW w, NEW F \in SUBSET (1..Len(a)), NEW at,
           FallsIntoWindows(a, w, F, at), NEW i \in 1..(Len(a) - (2 * MaxAttempts - 1))
    PROVE  a[i + 2 * MaxAttempts - 1] - a[i] > WindowTicks - TicksPerSecond
<1> DEFINE n == Len(a)
           j == i + 2 * MaxAttempts - 1
<1>1. /\ n \in Nat /\ MaxAttempts \in Nat \ {0} /\ WindowTicks \in Nat
      /\ TicksPerSecond \in Nat /\ i \in Nat /\ i \in 1..n /\ j \in 1..n
  BY CapabilityAssumption
<1>2. i \in 1..(n - MaxAttempts + 1) /\ i + MaxAttempts \in 1..(n - MaxAttempts + 1)
  BY <1>1
<1>3. PICK f \in F : i <= f /\ f <= i + MaxAttempts - 1
  BY <1>2 DEF FallsIntoWindows
<1>4. PICK g \in F : i + MaxAttempts <= g /\ g <= i + MaxAttempts + MaxAttempts - 1
  BY <1>2 DEF FallsIntoWindows
<1>5. f \in 1..n /\ g \in 1..n
  OBVIOUS
<1>6. f < g /\ i <= f /\ g <= j
  BY <1>1, <1>3, <1>4, <1>5
<1> HIDE DEF n, j
<1>7. a[g] - a[f] > WindowTicks - TicksPerSecond /\ a[i] <= a[f] /\ a[g] <= a[j]
  <2>1. /\ \A p, q \in F : p < q => a[q] - a[p] > WindowTicks - TicksPerSecond
        /\ \A p, q \in 1..n : p <= q => a[p] <= a[q]
    BY DEF FallsIntoWindows, n
  <2>2. i \in 1..n /\ j \in 1..n
    BY <1>1
  <2>3. f \in F /\ g \in F
    BY <1>3, <1>4
  <2> QED
    BY <1>5, <1>6, <2>1, <2>2, <2>3
<1>8. a[i] \in Nat /\ a[f] \in Nat /\ a[g] \in Nat /\ a[j] \in Nat
  BY <1>1, <1>5 DEF n
<1>9. a[j] - a[i] > WindowTicks - TicksPerSecond
  <2>1. WindowTicks - TicksPerSecond \in Int
    BY <1>1
  <2> QED
    BY <1>7, <1>8, <2>1, FurtherApart
<1> QED
  BY <1>9 DEF j

\* In a span as long as a window less a second, fewer than twice the attempts of a
\* window are admitted for a consent.
THEOREM AttemptsTheorem == Spec => []AttemptsBounded
<1>1. Init => CapabilityInv /\ AttemptsInv
  <2>1. Init => AttemptsInv
    BY DEF Init, AttemptsInv
  <2> QED
    BY <2>1, CapabilityInit
<1>2. CapabilityInv /\ AttemptsInv /\ [Next]_vars => (CapabilityInv /\ AttemptsInv)'
  BY TypeStep, CapabilityStep, AttemptsStep
<1>3. CapabilityInv /\ AttemptsInv => AttemptsBounded
  <2> SUFFICES ASSUME AttemptsInv, NEW c \in consents,
                      NEW i \in 1..Len(attempts[c]) - (2 * MaxAttempts - 1)
               PROVE  attempts[c][i + 2 * MaxAttempts - 1] - attempts[c][i]
                        > WindowTicks - TicksPerSecond
    BY DEF AttemptsBounded
  <2>1. PICK F \in SUBSET (1..Len(attempts[c])) :
          FallsIntoWindows(attempts[c], window[c], F, now)
    BY DEF AttemptsInv
  <2>2. attempts[c] \in Seq(Nat)
    BY TimesAreNat DEF AttemptsInv
  <2> QED
    BY <2>1, <2>2, BlocksAreApart
<1> QED
  BY <1>1, <1>2, <1>3, PTL DEF Spec
=============================================================================
