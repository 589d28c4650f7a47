--------------------------- MODULE CaseVerification ---------------------------
(***************************************************************************)
(* Automated verification of a case beside its writers.                    *)
(*                                                                         *)
(* A run evaluates one captured case value: it executes every check the    *)
(* pinned profile plans, one after the other, awaiting each, and returns   *)
(* all results or, when anything throws, none.  The caller then appends    *)
(* the results to the result repository one by one.  Writers go on saving  *)
(* newer revisions of the case all along; a run never touches the case.    *)
(* The outcome of a check is left out: nothing here branches on it.  So    *)
(* are the receipts and declarations a caller may supply for a check to    *)
(* read, which are refused unless they are of the case's tenant and case:  *)
(* what a check reads is the materials of the captured case.               *)
(***************************************************************************)
EXTENDS CaseRepository, Sequences, Functions

CONSTANTS
    Verifier,       \* callers that run verification
    ExecutionId,    \* execution ids, in their order
    Check,          \* the (requirement id, check id) pairs of the profile
    Plan,           \* the pairs in the profile's declaration order
    FromStore,      \* only values read from the repository are verified
    NoRun, NoResult

\* A ProtocolizationVerificationResult.  inputs is what the check was given to
\* read, to which its inputRefs refer.
Result ==
    [executionId : ExecutionId, tenantId : Tenant, caseId : CaseId, check : Check,
     evaluatedCaseRevision : Nat \ {0}, inputs : SUBSET CaseMaterial, executedAt : Time]

\* A call of runProtocolizationVerification and the saving of what it returned.
Run ==
    [case : Case,                                \* the captured value
     pending : Seq(ExecutionId \X Check),        \* executions still to be done
     now : Time \cup {NoTime},                   \* the clock as the awaited check read it
     found : Seq(Result)]                        \* results not saved yet

ASSUME VerificationAssumption ==
    /\ ExecutionId \subseteq Nat
    /\ Plan \in Seq(Check) /\ IsInjective(Plan)
    /\ FromStore \in BOOLEAN
    /\ NoRun \notin Run /\ NoResult \notin Result

VARIABLES
    run,        \* what each verifier is doing
    results     \* the verification result repository

verificationVars == <<store, base, hand, run, results>>

VerificationInit ==
    /\ Init
    /\ run = [v \in Verifier |-> NoRun]
    /\ results = [k \in Tenant \X ExecutionId |-> NoResult]

-----------------------------------------------------------------------------
\* The values a caller can hand to a run.
Verifiable ==
    ({store[k] : k \in Key} \cup (IF FromStore THEN {} ELSE {hand[w] : w \in Writer}))
      \ {NoCase}

AcceptsVerificationAlways(c) == c.state \in State

\* assertCaseAcceptsVerification
AcceptsVerification(c) == c.state # "Cancelled"

\* runProtocolizationVerification up to its first check: the case is readable,
\* owned and not cancelled, and there is a distinct id for every planned check.
StartRun(v, t, c, ids) ==
    /\ run[v] = NoRun
    /\ IsOperable(t, c)
    /\ AcceptsVerification(c)
    /\ IsInjective(ids)
    /\ run' = [run EXCEPT ![v] =
                 [case |-> c, pending |-> [i \in DOMAIN Plan |-> <<ids[i], Plan[i]>>],
                  now |-> NoTime, found |-> <<>>]]
    /\ UNCHANGED results

\* executeProtocolizationVerificationCheck up to its await: the clock is read.
BeginCheck(v, now) ==
    /\ run[v] # NoRun /\ run[v].pending # <<>> /\ run[v].now = NoTime
    /\ ClockNotBackwards(run[v].case, now)
    /\ run' = [run EXCEPT ![v].now = now]
    /\ UNCHANGED results

SealedUndated(r) ==
    [executionId |-> Head(r.pending)[1], tenantId |-> r.case.tenantId,
     caseId |-> r.case.caseId, check |-> Head(r.pending)[2],
     evaluatedCaseRevision |-> r.case.revision, inputs |-> r.case.materials,
     executedAt |-> NoTime]

SealedWithCurrentRevision(r) ==
    [executionId |-> Head(r.pending)[1], tenantId |-> r.case.tenantId,
     caseId |-> r.case.caseId, check |-> Head(r.pending)[2],
     evaluatedCaseRevision |-> store[KeyOf(r.case)].revision,
     inputs |-> r.case.materials, executedAt |-> r.now]

\* sealResult: the captured case is what was evaluated, at the instant read
\* before the check ran.
Sealed(r) ==
    [executionId |-> Head(r.pending)[1], tenantId |-> r.case.tenantId,
     caseId |-> r.case.caseId, check |-> Head(r.pending)[2],
     evaluatedCaseRevision |-> r.case.revision, inputs |-> r.case.materials,
     executedAt |-> r.now]

FinishCheck(v) ==
    /\ run[v] # NoRun /\ run[v].now # NoTime
    /\ run' = [run EXCEPT ![v] =
                 [run[v] EXCEPT !.pending = Tail(@), !.now = NoTime,
                                !.found = Append(@, Sealed(run[v]))]]
    /\ UNCHANGED results

\* A check throws or the clock reads before the case, and the results found so
\* far go with the rejected promise; or the caller stops between two saves.
Abandon(v) ==
    /\ run[v] # NoRun
    /\ run' = [run EXCEPT ![v] = NoRun]
    /\ UNCHANGED results

ResultKey(r) == <<r.tenantId, r.executionId>>

\* save of the result repository: append-only, a taken id is refused.
SaveResult(v) ==
    /\ run[v] # NoRun /\ run[v].pending = <<>> /\ run[v].found # <<>>
    /\ LET r == Head(run[v].found) IN
         /\ results[ResultKey(r)] = NoResult
         /\ results' = [results EXCEPT ![ResultKey(r)] = r]
    /\ run' = [run EXCEPT ![v] =
                 IF Len(run[v].found) = 1 THEN NoRun
                 ELSE [run[v] EXCEPT !.found = Tail(@)]]

VerifierStep(v) ==
    \/ \E t \in Tenant, c \in Verifiable, ids \in [DOMAIN Plan -> ExecutionId] :
         StartRun(v, t, c, ids)
    \/ \E now \in Time : BeginCheck(v, now)
    \/ FinishCheck(v) \/ Abandon(v) \/ SaveResult(v)

VerificationNext ==
    \/ Next /\ UNCHANGED <<run, results>>
    \/ \E v \in Verifier : VerifierStep(v) /\ UNCHANGED vars

VerificationSpec == VerificationInit /\ [][VerificationNext]_verificationVars

-----------------------------------------------------------------------------
(* What a reader makes of the history of one case.                         *)

History(k) ==
    {r \in {results[x] : x \in Tenant \X ExecutionId} \ {NoResult} :
       <<r.tenantId, r.caseId>> = k}

LaterExecuted(r, s) ==
    \/ r.executedAt > s.executedAt
    \/ r.executedAt = s.executedAt /\ r.executionId > s.executionId

\* compareResultRecency: revision first, then instant, then execution id.
MoreRecent(r, s) ==
    \/ r.evaluatedCaseRevision > s.evaluatedCaseRevision
    \/ /\ r.evaluatedCaseRevision = s.evaluatedCaseRevision
       /\ \/ r.executedAt > s.executedAt
          \/ r.executedAt = s.executedAt /\ r.executionId > s.executionId

WithinBasis(r, basis) == r.evaluatedCaseRevision <= basis

\* selectResultsForBasis: the result, if any, that speaks for one check in a
\* review packet of the given basis revision.
Selected(hist, check, basis) ==
    LET eligible == {r \in hist : r.check = check /\ WithinBasis(r, basis)}
    IN  {r \in eligible : \A s \in eligible \ {r} : MoreRecent(r, s)}

-----------------------------------------------------------------------------
\* Every value is of its type.
VerificationTypeOK ==
    /\ TypeOK
    /\ run \in [Verifier -> Run \cup {NoRun}]
    /\ results \in [Tenant \X ExecutionId -> Result \cup {NoResult}]

\* isVerificationResultCurrentForRevision compares two integers and means that
\* "this check [was] executed against the case state a reader is now looking
\* at": a result of the stored revision read exactly the stored materials, and
\* no result is of a revision that was never stored.
CurrentMeansCurrent ==
    \A k \in Key : \A r \in History(k) :
      /\ store[k] # NoCase /\ r.evaluatedCaseRevision <= store[k].revision
      /\ r.evaluatedCaseRevision = store[k].revision => r.inputs = store[k].materials

\* "A check that ran against an older revision saw strictly less", of which the
\* part that is true is checked: it saw no more, for what it read is still in
\* the case.  An association makes a revision that holds the same materials.
OlderSawLess ==
    \A k \in Key : \A r \in History(k) : \A x \in r.inputs : Retains(store[k], x)

\* No result is about a cancelled case: however late it is saved, what it
\* evaluated precedes the revision that cancelled the case.
ResultsPrecedeCancellation ==
    \A k \in Key : store[k] # NoCase /\ store[k].state = "Cancelled" =>
      \A r \in History(k) : r.evaluatedCaseRevision < store[k].revision

\* A check reasons about materials that existed at its own instant, although
\* the clock is read anew for every check and may run backwards.
InputsPrecedeExecution ==
    \A k \in Key : \A r \in History(k) : \A x \in r.inputs : x.addedAt <= r.executedAt

\* In the packet of one basis revision, a result never gives way to one of an
\* older revision, however late that one was executed or saved, nor to one of
\* a revision past the basis.
SelectionNeverRegresses ==
    [][\A k \in Key, check \in Check, basis \in 1 .. MaxSafeInteger :
         \A r \in Selected(History(k), check, basis) :
           \E s \in Selected(History(k)', check, basis) :
             s.evaluatedCaseRevision \in r.evaluatedCaseRevision .. basis]_verificationVars

\* verification-result.ts: "Every execution in one batch shares this instant
\* ... the clock is read once".
BatchSharesInstant ==
    \A v \in Verifier : run[v] # NoRun =>
      \A i, j \in DOMAIN run[v].found :
        run[v].found[i].executedAt = run[v].found[j].executedAt
=============================================================================
