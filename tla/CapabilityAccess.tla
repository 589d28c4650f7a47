--------------------------- MODULE CapabilityAccess ---------------------------
(***************************************************************************)
(* Capability tokens: minting from a consent, revocation, and the ways of  *)
(* presenting one.  The vault resolves the paths of a request one after    *)
(* the other and redeems the token at the first that resolves; the SDK     *)
(* flow and the interpreter present it for one resource; verification only *)
(* redeems it.  All share one nonce registry and one revocation registry.  *)
(*                                                                         *)
(* Everything is synchronous, so only the clock moves during a vault       *)
(* request (every check of a request reads it anew).  A consent or a token *)
(* is its own hash; the one permission of the vault, "read", goes with     *)
(* every scope entry.  Time is counted in ticks of a fraction of a second, *)
(* timestamps in whole seconds.                                            *)
(*                                                                         *)
(* Definitions named after another one stand right before it and are       *)
(* deliberately wrong forms of it, used to see that a property can fail.   *)
(***************************************************************************)
EXTENDS Integers, Sequences, FiniteSets

CONSTANTS
    Content, Pack, Field,
    Path,                  \* SDL paths, numbered in their sorted order
    PackField,             \* [Pack -> [Field -> Content \cup {None}]]
    TokenId,
    Terms,                 \* what a subject may grant: [scope, lifetime, priced]
    Options,               \* what callers of the SDK bring, see Option
    TicksPerSecond,
    ClockSkewSeconds,      \* CLOCK_SKEW_SECONDS
    MaxAttempts,           \* rateLimit.maxAttempts
    WindowTicks,           \* rateLimit.windowMs
    MaxPaths,              \* bound: paths of one vault request
    MaxConsents,           \* bound: stored consents
    MaxTime,               \* bound: the clock, in ticks
    MaxCalls,              \* bound: presentations of a token
    Never, None            \* an absent expiry, an absent entry

ContentScope(c) == <<"content", c>>
PackScope(p) == <<"pack", p>>
Resource == {ContentScope(c) : c \in Content} \cup {PackScope(p) : p \in Pack}

Time == 0..MaxTime
Stamp == 0..(MaxTime \div TicksPerSecond)
Call == 1..MaxCalls

Consent ==
    [scope : (SUBSET Resource) \ {{}}, priced : BOOLEAN,
     issuedAt : Stamp, expiresAt : Nat \cup {Never}]

Token ==
    [id : TokenId, consent : Consent, scope : (SUBSET Resource) \ {{}},
     issuedAt : Stamp, notBefore : Nat \cup {None}, expiresAt : Nat]

\* What a caller of the SDK brings: whether it consumes the token with a nonce
\* registry, passes a rate limit and the consent, pays, meters usage, what market
\* maker trust and hooks answer, and whether the interpretation asked for succeeds.
Option == [consuming : BOOLEAN, limited : BOOLEAN, bound : BOOLEAN, paid : BOOLEAN,
           metered : BOOLEAN, trusted : BOOLEAN, answered : BOOLEAN]

\* What a call learned under a resource, and whether it redeemed the token.
Disclosure ==
    [call : Call, token : Token, at : Time, under : Resource, redeemed : BOOLEAN]

\* A vault request: the paths still to be resolved, and what was resolved so far.
Request ==
    [call : Call, token : Token, pack : Pack, paths : Seq(Path),
     consumed : BOOLEAN, resolved : SUBSET Disclosure]

\* An entry of the rate-limit registry.
Window == [count : 1..MaxCalls, startedAt : Stamp]

ASSUME CapabilityAssumption ==
    /\ TicksPerSecond \in Nat \ {0} /\ ClockSkewSeconds \in Nat
    /\ MaxAttempts \in Nat \ {0} /\ WindowTicks \in Nat \ {0}
    /\ MaxTime \in Nat /\ MaxCalls \in Nat /\ MaxConsents \in Nat /\ MaxPaths \in Nat
    /\ Path \subseteq Nat
    /\ PackField \in [Pack -> [Field -> Content \cup {None}]]
    /\ Terms \subseteq [scope : (SUBSET Resource) \ {{}}, priced : BOOLEAN,
                        lifetime : (Nat \ {0}) \cup {Never}]
    /\ Options \subseteq Option
    /\ Never \notin Nat /\ None \notin Nat \cup Content \cup Field \cup Request \cup Window

VARIABLES
    now,
    consents,     \* the vault's grants
    tokens,       \* the vault's capabilities
    packs,        \* the packs it stores
    mapping,      \* its SDL mappings: a field for each path
    seen,         \* nonce registry: token ids
    revoked,      \* revocation registry: tokens
    window,       \* rate limit registry: [count, startedAt] per consent
    usage,        \* consent usage registry: allowed uses per consent
    request,      \* the vault request being resolved
    calls,        \* number of calls so far
    spender,      \* history: the call that redeemed each token id
    disclosed,    \* history: what calls returned
    denials,      \* history: vault requests denied, with what they had asked
    attempts      \* history: the instants of admitted attempts per consent

registries == <<seen, revoked, window, usage>>
store == <<consents, tokens, packs, mapping>>
history == <<spender, disclosed, denials, attempts>>
vars == <<now, store, registries, request, calls, history>>

Seconds(at) == at \div TicksPerSecond

Init ==
    /\ now = 0
    /\ consents = {} /\ tokens = {} /\ packs = {}
    /\ mapping = [p \in Path |-> None]
    /\ seen = {} /\ revoked = {}
    /\ window = << >> /\ usage = << >>
    /\ request = None /\ calls = 0
    /\ spender = [i \in TokenId |-> None]
    /\ disclosed = {} /\ denials = {}
    /\ attempts = << >>

\* The function f with the value v for x, whether or not f had one.
With(f, x, v) == [y \in DOMAIN f \cup {x} |-> IF y = x THEN v ELSE f[y]]

-----------------------------------------------------------------------------
(* The vault's store, minting and revocation.  A call of the vault runs to   *)
(* its end, so none of these happens while a request is being resolved.      *)

Idle == request = None

Tick ==
    /\ now < MaxTime
    /\ now' = now + 1
    /\ UNCHANGED <<store, registries, request, calls, history>>

StorePack(p) ==
    /\ Idle
    /\ packs' = packs \cup {p}
    /\ UNCHANGED <<now, consents, tokens, mapping, registries, request, calls, history>>

RegisterSdlMapping(p, f) ==
    /\ Idle
    /\ mapping' = [mapping EXCEPT ![p] = f]
    /\ UNCHANGED <<now, consents, tokens, packs, registries, request, calls, history>>

\* buildConsentObject at the present second.
ConsentOf(terms) ==
    [scope |-> terms.scope, priced |-> terms.priced, issuedAt |-> Seconds(now),
     expiresAt |-> IF terms.lifetime = Never THEN Never
                   ELSE Seconds(now) + terms.lifetime]

\* A stored consent has no usage, no rate-limit entry and no attempts yet.
StoreConsent(c) ==
    /\ Idle
    /\ c \notin consents /\ Cardinality(consents) < MaxConsents
    /\ consents' = consents \cup {c}
    /\ window' = With(window, c, None)
    /\ usage' = With(usage, c, 0)
    /\ attempts' = With(attempts, c, << >>)
    /\ UNCHANGED <<now, tokens, packs, mapping, seen, revoked, request, calls,
                   spender, disclosed, denials>>

\* The order a token's own timestamps must have.
WellFormed(t) ==
    /\ t.issuedAt < t.expiresAt
    /\ t.notBefore # None => t.issuedAt <= t.notBefore /\ t.notBefore < t.expiresAt

Contained(t) ==
    /\ t.scope \subseteq t.consent.scope
    /\ t.consent.issuedAt <= t.issuedAt
    /\ t.consent.expiresAt # Never => t.expiresAt <= t.consent.expiresAt

\* The token id is random: one that no token has.
Mint(t) ==
    /\ Idle
    /\ t.consent \in consents
    /\ \A u \in tokens : u.id # t.id
    /\ t.issuedAt = Seconds(now)
    /\ WellFormed(t) /\ Contained(t)
    /\ tokens' = tokens \cup {t}
    /\ UNCHANGED <<now, consents, packs, mapping, registries, request, calls, history>>

\* revokeCapability, or applyConsent with a revocation consent for a stored token.
Revoke(t) ==
    /\ Idle
    /\ t \in tokens
    /\ revoked' = revoked \cup {t}
    /\ UNCHANGED <<now, store, seen, window, usage, request, calls, history>>

-----------------------------------------------------------------------------
(* consumeCapabilityAccess, up to its side effects.                          *)

WithinSkew(stamp, at) ==
    /\ stamp * TicksPerSecond - at <= ClockSkewSeconds * TicksPerSecond
    /\ at - stamp * TicksPerSecond <= ClockSkewSeconds * TicksPerSecond

\* A token without a not_before has no lower bound but the skew of issued_at.
Timely(t, at) ==
    /\ WithinSkew(t.issuedAt, at) /\ WithinSkew(t.expiresAt, at)
    /\ t.notBefore # None => WithinSkew(t.notBefore, at) /\ t.notBefore <= Seconds(at)
    /\ Seconds(at) <= t.expiresAt

\* The checks that need the parent consent, which a caller may leave out.
ConsentTimely(t, at) ==
    /\ WithinSkew(t.consent.issuedAt, at)
    /\ t.consent.expiresAt # Never => Seconds(at) <= t.consent.expiresAt

\* Revocation, replay and payment, in the code's order after the rate limit.
ClearedWithoutReplay(t, consuming, paid) == t \notin revoked /\ paid

Cleared(t, consuming, paid) ==
    /\ t \notin revoked
    /\ consuming => t.id \notin seen
    /\ paid

MarkSeen(t, consuming, n) ==
    /\ seen' = IF consuming THEN seen \cup {t.id} ELSE seen
    /\ spender' = IF consuming /\ spender[t.id] = None
                  THEN [spender EXCEPT ![t.id] = n] ELSE spender

-----------------------------------------------------------------------------
(* requestAccess.  The vault passes the consent and no payment context.      *)

NextCall == calls < MaxCalls /\ calls' = calls + 1

\* A request begins when the consent and the pack are found; the others are
\* denied before the token is looked at.
BeginRequest(t, p, paths) ==
    /\ Idle
    /\ NextCall
    /\ t \in tokens
    /\ request' = IF t.consent \in consents /\ p \in packs
                  THEN [call |-> calls', token |-> t, pack |-> p, paths |-> paths,
                        consumed |-> FALSE, resolved |-> {}]
                  ELSE None
    /\ UNCHANGED <<now, store, registries, history>>

\* The content the next path leads to, None if it does not resolve.
Located ==
    LET field == mapping[Head(request.paths)] IN
    IF field = None THEN None ELSE PackField[request.pack][field]

\* The scope entry the vault presents: the pack's if the content's is missing.
Presented(t, c, p) ==
    IF ContentScope(c) \in t.scope THEN ContentScope(c) ELSE PackScope(p)

SkipPath ==
    /\ request # None /\ request.paths # << >>
    /\ Located = None
    /\ request' = [request EXCEPT !.paths = Tail(@)]
    /\ UNCHANGED <<now, store, registries, calls, history>>

\* Only the first path that resolves consumes the token.
ConsumesAlways == TRUE

Consumes == ~request.consumed

VaultAllows(c) ==
    LET t == request.token IN
    /\ Timely(t, now) /\ ConsentTimely(t, now)
    /\ Presented(t, c, request.pack) \in t.scope
    /\ Cleared(t, Consumes, ~t.consent.priced)

ResolvePath ==
    /\ request # None /\ request.paths # << >>
    /\ Located # None
    /\ VaultAllows(Located)
    /\ MarkSeen(request.token, Consumes, request.call)
    /\ request' = [request EXCEPT
         !.paths = Tail(@), !.consumed = TRUE,
         !.resolved = @ \cup {[call |-> request.call, token |-> request.token, at |-> now,
                               under |-> Presented(request.token, Located, request.pack),
                               redeemed |-> TRUE]}]
    /\ UNCHANGED <<now, store, revoked, window, usage, calls, disclosed, denials, attempts>>

\* One denial denies the request, whatever was resolved before it.
DenyPath ==
    /\ request # None /\ request.paths # << >>
    /\ Located # None
    /\ ~VaultAllows(Located)
    /\ denials' = denials \cup {[call |-> request.call, token |-> request.token,
                                 at |-> now, content |-> Located, pack |-> request.pack]}
    /\ request' = None
    /\ UNCHANGED <<now, store, registries, calls, spender, disclosed, attempts>>

\* A request that resolved nothing is allowed as well, with nothing.
AllowRequest ==
    /\ request # None /\ request.paths = << >>
    /\ disclosed' = disclosed \cup request.resolved
    /\ request' = None
    /\ UNCHANGED <<now, store, registries, calls, spender, denials, attempts>>

-----------------------------------------------------------------------------
(* The rate limiter.  A window starts at a whole second.                     *)

InWindow(c) ==
    /\ window[c] # None
    /\ now - window[c].startedAt * TicksPerSecond < WindowTicks

IsLimitedLate(c) == InWindow(c) /\ window[c].count > MaxAttempts

IsLimited(c) == InWindow(c) /\ window[c].count >= MaxAttempts

IncrementInTicks(c) ==
    /\ window' = [window EXCEPT ![c] =
         IF InWindow(c) THEN [window[c] EXCEPT !.count = @ + 1]
         ELSE [count |-> 1, startedAt |-> now]]
    /\ attempts' = [attempts EXCEPT ![c] = Append(@, now)]

Increment(c) ==
    /\ window' = [window EXCEPT ![c] =
         IF InWindow(c) THEN [window[c] EXCEPT !.count = @ + 1]
         ELSE [count |-> 1, startedAt |-> Seconds(now)]]
    /\ attempts' = [attempts EXCEPT ![c] = Append(@, now)]

-----------------------------------------------------------------------------
(* executeCapabilityFlow: evaluate, consume, and interpret the result.       *)

Evaluates(t, r, o) ==
    /\ Timely(t, now)
    /\ o.bound => ConsentTimely(t, now)
    /\ r \in t.scope
    /\ o.trusted

Disclosing(n, t, r, redeemed) ==
    disclosed' = disclosed \cup
        {[call |-> n, token |-> t, under |-> r, at |-> now, redeemed |-> redeemed]}

\* What is left once the request is authorized and within its rate limit.  A
\* token that passes is spent, whether or not the interpreter then succeeds.
Consume(t, r, o) ==
    IF Cleared(t, o.consuming, o.bound /\ t.consent.priced => o.paid)
    THEN /\ MarkSeen(t, o.consuming, calls')
         /\ usage' = IF o.metered THEN [usage EXCEPT ![t.consent] = @ + 1] ELSE usage
         /\ IF o.answered THEN Disclosing(calls', t, r, o.consuming)
            ELSE UNCHANGED disclosed
    ELSE UNCHANGED <<seen, spender, usage, disclosed>>

\* The attempt is counted before revocation, replay and payment are looked at.
ExecuteFlow(t, r, o) ==
    /\ Idle
    /\ NextCall
    /\ t \in tokens
    /\ IF ~Evaluates(t, r, o) \/ (o.limited /\ IsLimited(t.consent))
       THEN UNCHANGED <<registries, spender, disclosed, attempts>>
       ELSE /\ IF o.limited THEN Increment(t.consent) ELSE UNCHANGED <<window, attempts>>
            /\ Consume(t, r, o)
            /\ UNCHANGED revoked
    /\ UNCHANGED <<now, store, request, denials>>

\* interpretWithCapability consumes nothing, and meters once the data is found.
Interpret(t, r, o) ==
    /\ Idle
    /\ NextCall
    /\ t \in tokens
    /\ IF Evaluates(t, r, o) /\ Cleared(t, FALSE, o.bound /\ t.consent.priced => o.paid)
          /\ o.answered
       THEN /\ usage' = IF o.metered THEN [usage EXCEPT ![t.consent] = @ + 1] ELSE usage
            /\ Disclosing(calls', t, r, FALSE)
       ELSE UNCHANGED <<usage, disclosed>>
    /\ UNCHANGED <<now, store, seen, revoked, window, request, spender, denials, attempts>>

-----------------------------------------------------------------------------
(* verifyCapabilityToken, the other way to redeem a token: no skew is        *)
(* allowed for, without a not_before the token starts when it was issued,    *)
(* and a token that passes is always spent.                                  *)

Start(t) == IF t.notBefore = None THEN t.issuedAt ELSE t.notBefore

Verifies(t) ==
    /\ WellFormed(t) /\ Contained(t)
    /\ Seconds(now) \in Start(t)..t.expiresAt
    /\ Cleared(t, TRUE, TRUE)

\* A refusal leaves every registry as it was.
Verify(t) ==
    /\ Idle
    /\ NextCall
    /\ t \in tokens
    /\ IF Verifies(t) THEN MarkSeen(t, TRUE, calls') ELSE UNCHANGED <<seen, spender>>
    /\ UNCHANGED <<now, store, revoked, window, usage, request, disclosed, denials, attempts>>

-----------------------------------------------------------------------------
\* The paths of a request, sorted; a path may be asked for twice.
SortedPaths ==
    {s \in UNION {[1..n -> Path] : n \in 0..MaxPaths} :
        \A i \in 1..Len(s) - 1 : s[i] <= s[i + 1]}

StoreStep ==
    \/ \E p \in Pack : StorePack(p)
    \/ \E p \in Path, f \in Field : RegisterSdlMapping(p, f)
    \/ \E terms \in Terms : StoreConsent(ConsentOf(terms))
    \/ \E c \in consents, i \in TokenId, s \in (SUBSET Resource) \ {{}},
          b \in Stamp \cup {None}, e \in Stamp :
        Mint([id |-> i, consent |-> c, scope |-> s, issuedAt |-> Seconds(now),
              notBefore |-> b, expiresAt |-> e])
    \/ \E t \in tokens : Revoke(t)

VaultStep ==
    \/ \E t \in tokens, p \in Pack, paths \in SortedPaths : BeginRequest(t, p, paths)
    \/ SkipPath
    \/ ResolvePath
    \/ DenyPath
    \/ AllowRequest

FlowStep ==
    \E t \in tokens :
        \/ Verify(t)
        \/ \E r \in Resource, o \in Options : ExecuteFlow(t, r, o) \/ Interpret(t, r, o)

Next == Tick \/ StoreStep \/ VaultStep \/ FlowStep

Spec == Init /\ [][Next]_vars

-----------------------------------------------------------------------------
(* Properties.                                                               *)

\* The registries, the store and the request hold values of their types.
CapabilityTypeOK ==
    /\ now \in Time /\ calls \in 0..MaxCalls
    /\ consents \subseteq Consent /\ tokens \subseteq Token /\ packs \subseteq Pack
    /\ mapping \in [Path -> Field \cup {None}]
    /\ seen \subseteq TokenId /\ revoked \subseteq tokens
    /\ window \in [consents -> Window \cup {None}]
    /\ usage \in [consents -> 0..MaxCalls]
    /\ spender \in [TokenId -> Call \cup {None}]
    /\ request \in Request \cup {None}
    /\ request = None \/ /\ request.token \in tokens /\ request.pack \in packs
                         /\ request.paths \in SortedPaths
                         /\ request.consumed = (request.resolved # {})
                         /\ request.consumed => request.token.id \in seen

\* Minting, redeeming and presenting tokens, by the vault path by path and by
\* the SDK at once, keep the promise of CapabilityLedger: one redeemer per
\* token, nothing learned after a revocation, outside the validity or beyond
\* the consent.
Ledger == INSTANCE CapabilityLedger WITH
    clock <- now, issued <- tokens, owner <- spender
KeepsLedger == Ledger!Spec

\* When the vault denies a request that has already spent its token, the
\* caller asked for content beyond the token's scope, or the clock passed the
\* end of the token or of its freshness while the request was resolved: a
\* request within its rights never loses its token for nothing (requestAccess
\* consumes at the first path and denies the whole request at a later one).
SpendingDenialsExplained ==
    \A d \in denials :
        \/ spender[d.token.id] # d.call
        \/ {ContentScope(d.content), PackScope(d.pack)} \cap d.token.scope = {}
        \/ Seconds(d.at) > d.token.expiresAt
        \/ \E s \in {d.token.issuedAt, d.token.consent.issuedAt} : ~WithinSkew(s, d.at)

\* A window opens at its first attempt, its start truncated to the second, so a
\* span as long as a window less that second sees fewer than 2 * maxAttempts
\* admitted attempts of one consent, however many of them were then refused as
\* revoked, replayed or unpaid (InMemoryRateLimitRegistry).
AttemptsBounded ==
    \A c \in consents : \A i \in 1..Len(attempts[c]) - (2 * MaxAttempts - 1) :
        attempts[c][i + 2 * MaxAttempts - 1] - attempts[c][i] > WindowTicks - TicksPerSecond
=============================================================================
