# Formal models of the Architects of Change Protocol

TLA+ models, TLC runs and TLAPS proofs for the repository's core. Paths below are
relative to the repository root; `apv/` abbreviates `packages/asset-protocolization/src/`.

Four parts are modelled: the **Asset Protocolization Vertical**
(`packages/asset-protocolization`), the **capability kernel** with the vault and the SDK flow
that present its tokens, the **runtime server** with its control plane and payouts, and the
**execution gate** of the protocol layer. They are the parts of the repository with shared
mutable state, and with asynchronous steps, timers or callbacks in the middle of an operation.

## 1. The system

The repository is a TypeScript monorepo without a scheduler, a database or a network
protocol of its own: its parts are libraries, with in-memory stores behind ports that the
types allow to be asynchronous. Concurrency comes from the callers: several of them hold
case values, tokens or registries at once and interleave at every port call and `await`.

| Component | Source | State | Operations | What makes it correct |
|---|---|---|---|---|
| Protocolization case | `apv/case` | an immutable value: lifecycle, revision, materials, requirement projection, instants | create, activate, add material, associate, cancel | materials and projection agree; instants never contradict history; cancelled is final |
| Case repository | `apv/case/case-repository.ts` | a map (tenant, case) -> case | get, save | revision check is a compare-and-set; no committed work is lost |
| Evidence intake | `apv/evidence` | append-only receipts | take in evidence, save receipt | a receipt is about a committed case revision; what is taken in was not in the case before |
| Declarations | `apv/declarations` | append-only records | record a declaration, save record | supporting evidence is in the case, and precedes the declaration |
| Verification | `apv/verification` | append-only results; the locals of a run | plan, execute a check, run a batch, save result | a result describes the revision it names; late results do not mislead |
| Professional review | `apv/attestation` | requests, decisions, an index decision by request | request, packet, decide (awaits a signer), save | one decision per request; attestations and decisions correspond; basis is exact |
| Profile catalog, built-in checks | `apv/profile*.ts`, `apv/verification/verification-builtin-checks.ts` | none (configuration, pure functions) | lookup, evaluate | - |
| Vault | `vault/` | consents, packs, mappings | store, requestAccess | a denied request must not spend what an allowed one needs |
| Capability tokens and consumption | `capability/`, `aoc/capabilities/` | nonces seen, revoked hashes, rate-limit windows, usage | mint, verify, consume, revoke | a token is consumed at most once, never after revocation |
| Enforcement, authorization, revocation policy | `enforcement/`, `packages/authorization-runtime`, `protocol/enforcement`, `protocol/revocation` | mostly none | decide | denial wins; staleness is bounded |
| Execution, relationships, execution fabric | `protocol/execution`, `protocol/relationships`, `runtime/execution-fabric` | lifecycle records | transition | illegal sequences are refused |
| Marketplace, monetization, payout | `runtime/marketplace`, `runtime/monetization`, `runtime/payout` | brokerage requests, usage, payouts | submit, decide, settle | one order per answer, and an answer never changes |
| Runtime API, distributed runtime, enterprise assurance, protocol contracts, primitives | `runtime/api`, `runtime/distributed`, `enterprise/`, `packages/protocol`, `content/`, `field/`, `pack/`, ... | configuration | format, hash, validate | - |

How the modelled parts interact. In the vertical, intake, declarations and review all end in
the case's own `addProtocolizationCaseMaterial`. None of them persists anything. They return
values, and a **composition layer** (any caller of the package; not in the repository) reads the
case, calls the operation and saves what it returned. Verification reads a case and never changes
it. The review packet selects among verification results of the case it describes.

The vault, the SDK flow, the interpreter and `verifyCapabilityToken` share two registries: the
token ids seen and the capabilities revoked. The server calls the control plane, the trust
service and the payout executor synchronously from one handler, and queues a metering job behind
the response. The execution gate asks a revocation registry, directly or through a lookup that
races a timer, and decides on what it was told.

What is hard in each: in the vertical, callers that hold versions of one case; in the kernel, a
token spent at the first of several paths, and a clock that moves between them; in the server,
bodies that arrive in any order, hooks and adapters that throw after the state has changed, and
jobs nobody awaits; at the gate, an answer that is late, missing or overtaken by a revocation.

`PROJECT.json` lists every component with its status, and every hazard with its line.

## 2. Modules

```
ProtocolizationCase      the case value, its validator, its pure operations
  CaseRegister           what a repository promises: an atomic register per case
  CaseRepository         callers and the revision-checked store    --implements--> CaseRegister
    CaseIntake           evidence intake and declarations          --uses--------> CaseRepository
    CaseVerification     verification runs beside the writers
    ProfessionalReview   review requests, decisions, the signer
    CaseProofs           proofs about CaseRepository, which the next three extend
      IntakeProofs       proofs about CaseIntake
      VerificationProofs proofs about CaseVerification
      ReviewProofs       proofs about ProfessionalReview
CapabilityLedger         what tokens promise: one redeemer, nothing beyond the terms
  CapabilityAccess       vault, SDK flow, interpreter, registries --implements--> CapabilityLedger
    CapabilityProofs     proofs about CapabilityAccess and its refinement
RuntimeParties           subjects and requesters, shared by the next two
  ControlPlane           access requests, grants, idempotent revocation
  PayoutExecution        credentials, consents, the payout executor and its adapter
    RuntimeServer        connections, rate limit, handler, metering   --composes--> both
      RuntimeProofs      proofs about RuntimeServer
ExecutionGate            minting, revocation lookups, timer, authorizeExecution
  GateProofs             proofs about ExecutionGate
MC<module>               instances for TLC
```

**ProtocolizationCase.** `Case`, `CaseMaterial` and `RequirementState` are the interfaces of
`protocolization-case.ts` and `case-material.ts` without the fields no guard reads (subject,
profile reference, correlation ids). `IsValidCase` is `validateProtocolizationCase` after its
shape checks, clause by clause; the shape checks are the types. Each operation is a pair: the
value it builds (`WithMaterial`) and the conjunction of the checks in front of it
(`CanAddMaterial`), the last of which is `sealed`, the validation of the result. A throw leaves
no trace, so it is a disabled action. A payload is opaque; `CaseIntake` and
`ProfessionalReview` refine it to a kind and a reference. Instants are integers, absent ones -1.

**CaseRepository.** Each writer has what it last read or saved (`base`) and what it holds now
(`hand`). `Get`, each operation and `Save` are separate steps, as each is a separate call of a
caller. `Save` is the revision check in the order of the code: revision 1 against nothing
stored, n against n - 1. `OpsPerSave` is the caller's discipline: how many operations it applies
before it saves. The code neither enforces nor documents it as a precondition of `save`.

**CaseIntake.** `slip` is the receipt or record an operation returned and the caller has not
saved. Callers commit as they like: in one transaction (`CommitTogether`), or the case first and the
entry after it (`CommitCase`, `CommitEntry`), possibly stopping in between. Receipts and records
(`Receipt`, `Record`) have the same fields here and are kept in two stores. The profile is
`AcceptedClaims`, the declaration types each requirement asks for. `Operation` is everything else
done to a case. It adds evidence and claims directly too, since `addProtocolizationCaseMaterial`
looks neither at the kind of a material nor at what the case holds
(`tests/protocolization-case-material.test.ts` of the package does so): one evidence record may be
in a case twice, and without a receipt.

**CaseVerification.** A run captures a case value and goes through its plan; the clock reading
(`BeginCheck`) and the completion of a check (`FinishCheck`) are separate steps because the check
is awaited between them. Results come back together and are saved one by one; `Abandon` covers a
check that throws, a clock that reads before the case and a caller that stops. Check outcomes
are left out: nothing branches on them. So are the receipts and declarations a caller may supply
for a check to read, which `assertInputsBelongToCase` refuses unless they are of the case; the
inputs of a check are the materials of the captured case. `FromStore` says whether callers verify only values they
read from the repository.

**ProfessionalReview.** `Decide` is `recordProfessionalReviewDecision` to its end, or to the
awaited signer when the decision asks for an attestation; `Sign` is the rest, on the case value
captured before the await. `draft` is the decision in progress. The operation returns the decision
and the case revision together or neither (`apv/attestation/review-operations.ts:1399`). That
`Commit` persists both in one transaction is an assumption: no code makes it so, and what follows
when one of the two saves fails is not shown. `Work` is everything else a caller does with the case; callers leave
`Attestation` material to the review, and a caller that is deciding does nothing else with its
copy of the case.

**CapabilityLedger** and **CapabilityAccess.** The ledger knows tokens, one owner per token id,
revocations and what calls have learned; `Use` says that a call learns only within the terms of
an unrevoked token, and as its redeemer only from a token it owns. `CapabilityAccess` is the code:
`Mint` with the derivation checks of `mintCapabilityToken`; `requestAccess` as one action per path
(`BeginRequest`, `SkipPath`, `ResolvePath`, `DenyPath`, `AllowRequest`), because every check of a
request reads the clock anew; `ExecuteFlow`, `Interpret` and `Verify` as one action each, because
nothing moves in them. `Evaluates`, the rate limit, `Cleared` and `MarkSeen` keep the order of
`consumeCapabilityAccess`: an attempt is counted before revocation, replay and payment are looked
at. The refinement maps `now`, `tokens` and `spender` to the ledger's `clock`, `issued` and
`owner`. Abstractions: tokens are minted by the vault only; the one permission "read" goes with
every scope entry; no market maker is bound; vault, SDK, interpreter and verification are given the
same registries (the vault takes them as options); of a revocation consent only its effect on the
revocation registry is kept; callers pass no clock of their own; the content and the pack attempt
for one path read the clock once. The nonce registry never forgets (its `cleanup` is empty), so a
token cannot be replayed after its expiry.

**ControlPlane.** The service's maps as sequences numbered like its ids. `RevokeGrant` is
`revokeGrant` in the order of its returns: the cached result of a key, a grant already revoked,
the atomic section. The telemetry hook may throw on the last event (`throws`): the mutation stands
and the caller sees an error. `answers` is history.

**PayoutExecution.** `Verifies` is the identity verification, decided by the latest credential
alone, among those of the issuer the request names if it names one. Consents are kept by their id,
and an id used again replaces the earlier consent. The executor caches a result under the withdrawal
id after the adapter has returned, so an adapter that throws, before or after its provider took the
order, leaves nothing cached; one that returns a refusal (`provider_status: 'failed'`) is answered as
allowed and cached like any other. `transfers` counts the orders a provider took. The issuers are
active throughout.

**RuntimeServer.** A connection is charged when its headers arrive (`Admit`), waits for its body
(`EndBody`), and is handled in one step (`Handle`), which calls one operation of the two modules
above or refuses. `RunMetering` is the detached job. Requests that are unauthenticated, over their
limit or to unknown endpoints change nothing and are stuttering steps. Billable events, access
tokens, audit events and payout callbacks are left out: no decision reads them. An injected telemetry
sink or logger is taken not to throw: the handler calls them outside of any `try`
(`runtime/api/server.ts:144`), and one that throws may leave its request unanswered. All state is in
memory and there is no restart in the code.

**ExecutionGate.** A capability is its own terms, as its hash is computed from them and from no key.
So two mints of equal terms are one, and a capability that somebody composes is accepted when it is
well formed: `minted` is history and no guard of the gate. `BeginLookup`, `ReadRegistry`, `Deliver`
and `TimeOut` are `withRevocationTimeout`, whose lookup may also resolve to what is no status
(`Misread`): a shapeless one becomes unknown (`StatusOf`), a string of another name does not, and
`Allows` denies only the two statuses it looks for. `AuthorizeSettled` passes the settled status on
to `authorizeExecution`, `AuthorizeNow` reads an in-process registry, twice, as `evaluateEnforcement`
does. Both judge by the instant the request carries, any at all, or by the clock (`InstantOf`). The
clock counts seconds and `InItsTime` shows what the comparison of an instant with milliseconds and
one without does: both bounds bite one second late. A mint believes the `issued_at` it is given, in
the past or in the future, and reads the consent's status from an in-process registry. The
`/capability/mint` route passes a check that always answers unknown and therefore never mints; the
module is about the library function.

A definition such as `FailToPayReserved`, standing right before the one it deviates from, is
a deliberately wrong form. No specification uses it: it replaces the right one to show that the
properties can fail.

## 3. Runs

| Run | Expect | What it shows | Bounds |
|---|---|---|---|
| CaseRepository | pass | with a save after every operation the store is an atomic register (`ImplementsRegister`), loses no material, never reopens a cancelled case; the seal never refuses admitted input; instants stay in order | 2 writers, 2 materials, 2 declared requirements and 1 undeclared, 2 instants, revision <= 4 |
| CaseLostUpdate | violation | the same with two operations per save: `CommittedMaterialKept` fails | as above |
| Intake | pass | a saved receipt or record is about a material its stored case holds, no two about one revision or one reference; nothing is taken in that the case held before (`EntriesComeFirst`), and what supports a declaration precedes it (`LinksStand`), although writers race, add evidence directly and stop between the two saves; every step is a repository step | 2 writers, 3 materials, 1 evidence, 1 claim, 2 intake ids, 1 declaration id, 1 declared requirement and 1 undeclared, 2 instants, revision <= 4 |
| Verification | pass | a result of the stored revision read exactly the stored materials; older ones read a part of them; none is about a cancelled case; packet selection never regresses to an older revision | 1 writer, 2 verifiers, 1 check, 2 execution ids, 2 instants, revision <= 3 |
| VerificationBatch | violation | results of one batch carry different instants | 1 verifier, 2 checks |
| VerificationForks | violation | verifying an unsaved value makes a result look current that is not | 1 writer, 1 verifier |
| Review | pass | attestations and decisions correspond, one decision per request, one attestation per basis revision, none after cancellation | 2 writers, 3 materials, 1 claim, 2 requests, 2 decisions |
| Capability | pass | vault, SDK flow, interpreter and verification keep the ledger's promise (`KeepsLedger`); a denial that cost a token had a cause in the caller's request or in time; a span of a window sees fewer than twice the permitted attempts | 1 token id, 2 contents in 1 pack, 2 paths, 1 consent, 2 calls, half-second ticks up to 5 |
| Runtime | pass | evidence and grants correspond, answers of a revocation stay true, what was decided stands (`DecisionsStand`), received requests are answered and metered ones settled | 2 connections, 1 key with limit 1, 1 access request, 2 grants, 3 revocation inputs, 1 withdrawal, 1 issuer, 2 metered answers |
| Payouts | pass | an answer that a withdrawal was sent stands for one order, whatever the adapter does, and a withdrawal keeps its answer | 1 connection, 1 withdrawal, 2 issuers, 2 credentials, 2 consent ids, 1 adapter failure, 2 metered answers |
| Gate | pass | nothing executes beyond the consent of a minted capability, or under a revoked capability unless the registry had cleared it for that call or gave no known status; a lookup settles, once | 2 consents, 3 capabilities, 1 call, seconds 0 to 2 |
| GateUnrecognised | violation | a lookup that resolves to an unknown name of a status lets an execution through | as above |

Why these bounds suffice for what they are meant to show: every race in this code is between a
caller and one other actor that moves the same case in between, so two actors make each of them
happen. Revision 4 leaves room for creation, two adds and an association or a cancellation on
top, and `MaxSafeInteger`, which bounds the revision in the code itself, serves as the bound of
the state space, so that the end of the counter is explored too. Two instants let clocks of two
callers disagree in both directions; the review run uses one, since none of its
properties is about time. One tenant and one case: the stores are keyed by both, no operation
reads across keys, and the proofs hold for any number. Three materials in Review: a claim and
two attestations. Revision 4 and three materials in Intake
put evidence, its double and a declaration that leans on it into one case, by either writer and in
any order.

In Capability, one token id with two presentations reaches every order of redeeming, revoking and
replaying; two paths are what a request needs to spend a token and then be denied; half-second
ticks tell an instant from its second; five of them pass the end of the shortest consent (one
second) and of the skew. In Runtime two connections let any two handlers interleave around the
bodies; two grants let one key be used for a second one. Adapter failures are left to Payouts, where
one lets a withdrawal be paid, fail and be retried, and two issuers, credentials and consent ids let
the latest credential, the issuer asked for and a replaced consent each decide. In Gate calls share
nothing but the registries, which other callers' steps change as well beside a single call; a
revocation may come before, during and after its lookup; second 2 is past the expiry of the consent
that expires. The third capability goes beyond its consent and is only ever composed. Ill-formed ones
are in the proof alone: they are refused by `Allows` at once.

Deadlock is checked except in Capability, Gate and GateUnrecognised, where the bounds on calls and time really end
the behaviour. Symmetry is declared in the runs of the vertical, over sets whose members the
modules never order or name; every temporal property checked there is a safety property, which
symmetry does not affect. The runs with liveness declare none.

The pass runs of the vertical use the discipline under which the package's documentation makes its promises
(`OpsPerSave = 1`, `FromStore = TRUE`); the violation runs drop exactly one of them, or check a
sentence of the documentation that no discipline makes true.

### Disagreements found

* `save` "covers ... lost updates" (`apv/case/case-repository.ts:58`) only for callers who save
  after each operation. A draft two operations ahead skips a revision saved by somebody else.
* "the clock is read once" per batch (`apv/verification/verification-result.ts:182`): it is read
  once per execution, after the previous one was awaited.
* Result currency "is a comparison of two integers" (`apv/verification/verification-projections.ts:37`):
  the integers identify a state only among saved values.
* "A timeout, a rejection, or a malformed resolution all become `unknown`"
  (`protocol/revocation/revocation-check.ts:100`), and only `verified_not_revoked` permits
  (`revocation-types.ts:6`, `docs/architecture/adr-agent-identity-passport-trust.md:309`): the timeout
  returns what the lookup resolved to, and enforcement denies only `revoked`, `unknown` and what is no
  string.

Three more sentences of the documentation differ from the code without a run of their own, since
each is plain from reading. `protocol/capabilities/core-capability-enforcement-engine.md:128` has
the time and result of the last access updated on denials too (only allowed uses are recorded);
line 125 of it has replay checked before authorization (it is checked after). By the table of
`protocol/error-objects-spec.md:370` a revoked or expired token is denied; a request none of whose
paths resolves is allowed, with nothing, and its token is never looked at.

## 4. Fairness

The vertical and the kernel assume none. No code there schedules anything: an operation happens
when a caller calls it, and a caller may stop at any time. The only steps they would owe are the
completions of awaited ports, which are injected.

* `RuntimeServer`: weak fairness of `Handle(c)` and of `RunMetering`. Both are callbacks the event
  loop has ready: a handler whose body has arrived, a job in the microtask queue. `EndBody` has
  none: a client may never finish its body, and `ServedAndSettled` holds beside such a client.
* `ExecutionGate`: weak fairness of `TimeOut(c)`, since a timer fires. `ReadRegistry` and `Deliver`
  have none: a registry may never answer, and `LookupsSettleOnce` does not need it to.

## 5. Proofs

All theorems hold for every value of the constants that satisfies the named assumptions:
`CaseAssumption` (the declared requirements are requirements, instants are naturals),
`WriterAssumption`, `IntakeAssumption`, `VerificationAssumption` (no check is planned
twice, absent values are none of the present ones), `ReviewAssumption`, `CapabilityAssumption`
(bounds are naturals, a scope is not empty), `GateAssumption`, `ControlPlaneAssumption`, `PayoutAssumption` and
`RuntimeAssumption`. TLC evaluates them in every run. Where a theorem needs callers who save after
every operation (`OpsPerSave = 1`) or verify what they read (`FromStore = TRUE`), it says so as a hypothesis; the runs of section 3
satisfy them.

Every invariant and action property a passing run checks is stated by a theorem. Each was first
checked by TLC, and so were the inductive invariants `IntakeInv`, `ReviewInv`,
`SignedBeforeInv`, `ObservationInv`, `CapabilityInv`, `AttemptsInv` and `GateInv` on the instances of
the runs, those that need no discipline with two operations per save.

`CaseProofs`, about `CaseRepository`:

* `TypeCorrect`: `Spec => []TypeOK`. Every operation maps a case to a case.
* `SealTheorem`: the heart is that `WithMaterial` and `WithAssociation` keep
  `IsValidCase`. The material list and the requirement projection are two copies of one relation
  and the validator checks them against each other in both directions; the lemmas
  `WithMaterialValid` and `WithAssociationValid` show that the operations update both alike, so
  that `sealed` can only refuse an exhausted revision counter.
* `HistoryTheorem`: `HistoriesInOrder`, by one lemma per operation. It does not follow from the
  validator, which relates most instants only to `createdAt`.
* `LineageTheorem`: for `OpsPerSave = 1`, the inductive invariant behind the rest: what a writer
  holds is its base, or one operation on its base, or a new case. `CommittedMaterialKept` alone is
  not inductive, since nothing in it says where the held value came from; and equal revisions do not
  mean equal values, since two writers may hold different values at the same revision. The
  invariant therefore also says that a base at the stored revision *is* the stored value.
* `Refinement`, `CommittedMaterialTheorem`, `CancelledTheorem`: from it, every save is a step of
  the register, and a step of the register keeps materials and cancellation.

The last four assume `OpsPerSave = 1`: without it they are false, as the run CaseLostUpdate shows.

* `OneOperationTheorem`: what is left without it, for any `OpsPerSave`. A save replaces exactly what
  its writer read if and only if it saves one operation; such a save never follows a cancellation
  and keeps every stored material. A save of more operations always replaces a revision its writer
  has not seen. So the discipline protects the caller who keeps it whatever the others do, and a
  caller who batches overwrites what it never read at each of its saves, not by bad luck. `DraftInv`
  is `LineageInv` without the discipline: a value one revision past its base is one operation away
  from it, and of other values nothing is said.

`IntakeProofs`, about `CaseIntake`:

* `IntakeUsesRepository`: every step of intake and declaration recording is a step of the
  repository or leaves it alone, so each theorem above holds of it. The corollary
  `IntakeImplementsRegister` draws the conclusion for the register.
* `EntriesBackedTheorem`, `EntriesDistinctTheorem`, `EntriesComeFirstTheorem`, `LinksStandTheorem`: for
  `OpsPerSave = 1`, both ways to commit and direct adds of evidence and claims included.
  The properties speak of saved entries, yet what makes a new entry right is decided when its
  operation runs. `IntakeInv` is therefore about *known* entries: the saved ones, and those in the
  slip of a writer whose operation is saved and whose entry is not. `SlipInOrder` ties a slip to the
  operation the writer holds; `KnownAnswered` (the case holds what the entry says, first, and what it
  leans on), `KnownApart` and `KnownLinked` are the four properties for known entries. Which of two
  materials with one reference came first is read off their instants, so `HistoriesInOrder` is part
  of the invariant. A slip whose operation is not saved may collide with another writer's; the
  revision check then refuses its save, which is where `LineageInv` comes in.

`VerificationProofs`, about `CaseVerification`:

* `VerificationUsesRepository`: verification leaves the repository alone, so it inherits
  `LineageTheorem` and `HistoryTheorem`.
* `ObservationTheorem`, for `FromStore = TRUE`: `ObservationInv` says of every run under way, every
  result it has found and every result saved that what it saw was committed: the stored case is at
  its revision and has exactly its materials, or is past it and, if `OpsPerSave = 1`, has all of
  them. A statement about saved results alone is not inductive, since a result is made from a value
  captured any number of saves earlier.
* `CurrentTheorem`, `NoResultOfCancelledCase`, `InputsTheorem` follow from it however many operations
  the writers apply before they save: each save takes the stored revision one on, so a revision
  names one stored value even where saves lose materials. Only `OlderTheorem`, that the materials
  read are still there, needs `OpsPerSave = 1` as well.
* `SelectionTheorem` needs no discipline: a new result only ever displaces one of a revision no
  later, because the selection compares revisions before instants.

`ReviewProofs`, about `ProfessionalReview`:

* `OneDecisionTheorem` needs no discipline: saved decisions and the index of requests correspond
  (`Indexed`), and a save is refused when the request is in the index.
* `CancelledReviewTheorem` needs none either. `SignedBeforeInv` says that a signed draft is of a case
  that is not cancelled, at the revision the signature made, and that a stored case has reached the
  revisions its saved decisions made and is not cancelled at any of them. A signature answered after
  the case was cancelled is of the value before; its save is refused by the revision.
* `AttestationsTheorem`, `BasisTheorem`, for `OpsPerSave = 1`: `ReviewInv`
  adds to `LineageInv` and `Indexed` that a draft which has been signed holds its basis plus exactly
  its attestation (`DraftInOrder`) and that each attestation of a stored case has the one decision
  that extends its basis (`Corresponds`). A draft may wait for its signer while the case moves on;
  its save is then refused, because the value it holds is one revision past a base that is no longer
  the stored one.
* `ReviewImplementsRegister`: with signers in the middle, the repository still is an atomic register
  per case.

`CapabilityProofs`, about `CapabilityAccess` and `CapabilityLedger`:

* `LedgerTheorem`: `Spec => KeepsLedger`, step by step. A step of the clock, of the vault's store and
  of minting or revoking maps to the ledger's own; a presentation maps to `Use`, with a redemption
  or without; everything else stutters. `CapabilityInv` supplies what the ledger asks of a `Use`:
  the nonce registry holds exactly the tokens that have an owner (`RegistriesAgree`), a minted token
  stays within its consent (`TokensBacked`), and a request that consumed its token is its owner
  (`RequestInOrder`).
* `DisclosuresTheorem`, `LedgerStandsTheorem`: what the ledger promises, said of the vault and the
  SDK directly. Whoever learned something did so within the validity of a token and its consent, and
  if it redeemed, as the one call the token was redeemed by; no step takes back a revocation, a
  redemption or a disclosure, or discloses anything under a revoked token, a request that was
  already under way included.
* `SpendingTheorem`: why a request may be denied at a later path after it spent its token. The
  property is about a denied call that owns its token, and a later call must not come to own the
  token of an old denial as that one, so the invariant also says that denials are of earlier calls
  (`DenialsPast`) and what a token that was spent still satisfies (`Spendable`). The instants of a token are whole seconds and the clock is finer,
  so the lemmas about `Seconds` carry the arithmetic of the skew.
* `AttemptsTheorem`: `AttemptsInv` divides the attempts of a consent into the windows they fell
  into: some of them open a window, every `MaxAttempts` in a row contain one that does, and two that
  do are further apart than a window less the truncated second. `2 * MaxAttempts` attempts in a row
  contain two.

`GateProofs`, about `ExecutionGate`: `GateTheorem` is `Spec => []AuthorizedWithinTerms` for any
consents, capabilities, calls and seconds. The property speaks of the execution authorized last and
says nothing of a lookup in flight. `GateInv` adds what it needs to be inductive: minted
capabilities go no further than their consents (`MintedAttenuates`), a clean verdict comes from a
clean reading (a timer's verdict never is one), and a capability revoked after a clean reading marks
the call as overtaken (`VerdictsAreReadings`). `VerdictsTheorem` is the safety half of
`LookupsSettleOnce`: a verdict, once there, stands.

`RuntimeProofs`, about `RuntimeServer` with any number of connections, keys, grants and withdrawals:

* `EvidenceTheorem`, `AnswersTheorem`: with `EvidenceInSequence` (the numbers in the evidence are at
  most the sequence, so the next one is new) and `AnswersAreCached` (what was answered under a key is
  still cached under it, so two answers agree), `EvidenceMatchesGrants` and `AnswersStayTrue` are
  inductive together: a repeated revocation finds its evidence only because the first says it exists.
* `PaidTheorem`: inductive as it stands.
* `ServerUsesServices`: every step of the server is a step of one service or of none, which carries
  the invariants of `ControlPlane` and `PayoutExecution` to the composition. `ServerRunsPlane` states
  it for the control plane as an implementation: the server behaves, seen from there, as `PlaneInit`
  and a sequence of `PlaneStep`s.
* `DecisionsTheorem`: what has been decided stands. A revoked grant stays as it is, an idempotency
  key keeps its command and result, an answered withdrawal keeps its answer and is not ordered again.
* `MeteringTheorem`: usage records, logged failures and queued jobs add up to the answers that owe a
  record. It is the safety part of `ServedAndSettled`: no answer is metered twice or forgotten,
  whatever the scheduler does.

No run checks the properties of `OneOperationTheorem`, `DisclosuresTheorem`, `LedgerStandsTheorem`
and `MeteringTheorem`, which are stated beside their proofs; TLC found them to hold
on the instances of the runs before they were proved, the first with two operations per save.

Only model-checked: liveness under fairness, which is out of the prover's reach
(`ServedAndSettled`, and that a lookup settles at all, the other half of `LookupsSettleOnce`), and
the properties of the violation runs, which are false.

## 6. Not modelled

* Within the vertical: validation of the shape of submissions, requests and decisions, reviewer
  constraints, scopes, exceptions and the text of a packet, check outcomes, freshness and
  jurisdiction. They are pure checks on one value, without an effect on the order of anything.
* Receipts and declarations supplied to a verification run by its caller; a review whose decision and
  case are saved by two writes of which one fails; a telemetry sink or logger of the server that throws.
* Events: returned beside each result, never read by the package.
* Within the kernel: identities, permissions, hashing, market makers and hooks, which enter as
  inputs that allow or deny; field contents and storage pointers.
* Within the server: formatting, the declarative routes, prices and billable events, the
  distributed configuration. At the gate: parsing and normalisation of consents and capabilities.
* Profile catalog, built-in checks, authorization and governance packages, protocol contracts,
  memory, federation, primitives: configuration, or functions of immutable inputs, without a state
  another step could find changed.
* The execution fabric (`runtime/execution-fabric`) keeps lifecycle records of plans, leases and
  steps in memory. Nothing in the repository composes it with the parts above. Reading it shows
  where a model should start: `completeExecutionPlan` and `failExecutionStep` do not consult the
  transition table of `lifecycle.ts` first.
* The frontend, SDK wrappers, consumer packages of the test suite and integrations: clients.

The mapped lines are a small part of the repository because most of it is of these kinds: user
interface, consumers for packaging tests, wire-format contracts, validators of one value.

## 7. Plan

1. **Proofs**: that the intake, under either way to commit, implements a register of case and
   entries together, as the repository alone implements `CaseRegister`; a specification of payout
   execution of its own, implemented by the server as that of the control plane is.
2. **Review packets** (`buildProfessionalReviewPacket`): a packet as a function of a basis, and its
   stability while records arrive.
3. **Lifecycles**: the execution fabric, the marketplace brokerage.
