-------------------------- MODULE VerificationProofs --------------------------
(***************************************************************************)
(* Proofs about verification beside writers, for any number of writers and *)
(* verifiers and any plan of checks: a result, however late it is saved,   *)
(* never contradicts the case history it is about.                         *)
(***************************************************************************)
EXTENDS CaseVerification, CaseProofs, SequenceTheorems

-----------------------------------------------------------------------------
(* What is in flight is of its type.                                         *)

\* The instant of a check is kept only while that check is pending.
InFlightHasCheck ==
    \A v \in Verifier : run[v] # NoRun /\ run[v].now # NoTime => run[v].pending # <<>>

VerificationTypeInv == VerificationTypeOK /\ InFlightHasCheck

\* What can be verified is a case.
LEMMA VerifiableIsCase ==
    ASSUME TypeOK, NEW c \in Verifiable
    PROVE  c \in Case
  BY DEF Verifiable, TypeOK

\* A run that starts has one execution for each planned check.
LEMMA PlannedExecutions ==
    ASSUME NEW ids \in [DOMAIN Plan -> ExecutionId]
    PROVE  [i \in DOMAIN Plan |-> <<ids[i], Plan[i]>>] \in Seq(ExecutionId \X Check)
<1>1. /\ Len(Plan) \in Nat /\ DOMAIN Plan = 1 .. Len(Plan)
      /\ \A i \in 1 .. Len(Plan) : Plan[i] \in Check
  BY VerificationAssumption, LenProperties, ElementOfSeq
<1> DEFINE pending == [i \in DOMAIN Plan |-> <<ids[i], Plan[i]>>]
<1>2. pending \in [1 .. Len(Plan) -> ExecutionId \X Check]
  BY <1>1
<1> QED
  BY <1>1, <1>2

\* The fields of a run, and a run with some of them replaced.
LEMMA RunUpdates ==
    ASSUME NEW r \in Run
    PROVE  /\ r.case \in Case /\ r.pending \in Seq(ExecutionId \X Check)
           /\ r.now \in Time \cup {NoTime} /\ r.found \in Seq(Result)
           /\ \A now \in Time : [r EXCEPT !.now = now] \in Run
           /\ \A f \in Seq(Result) : [r EXCEPT !.found = f] \in Run
           /\ \A p \in Seq(ExecutionId \X Check), f \in Seq(Result) :
                [r EXCEPT !.pending = p, !.now = NoTime, !.found = f] \in Run
  BY DEF Run

\* Reading the clock changes nothing else of a run.
LEMMA ClockOfRun ==
    ASSUME NEW r \in Run, NEW now \in Time, NEW u, u = [r EXCEPT !.now = now]
    PROVE  /\ u \in Run /\ u.now = now
           /\ u.case = r.case /\ u.pending = r.pending /\ u.found = r.found
<1>1. u \in Run
  BY RunUpdates
<1>2. DOMAIN r = {"case", "pending", "now", "found"}
  BY DEF Run
<1> QED
  BY <1>1, <1>2

\* A check that has been done leaves a result.
LEMMA SealedType ==
    ASSUME NEW r \in Run, r.now # NoTime, r.pending # <<>>
    PROVE  Sealed(r) \in Result
<1>1. /\ r.case \in Case /\ r.now \in Time
      /\ Head(r.pending) \in ExecutionId \X Check
  BY RunUpdates, HeadTailProperties
<1>2. Head(r.pending)[1] \in ExecutionId /\ Head(r.pending)[2] \in Check
  BY <1>1
<1>3. /\ r.case.tenantId \in Tenant /\ r.case.caseId \in CaseId
      /\ r.case.revision \in Nat \ {0} /\ r.case.materials \in SUBSET CaseMaterial
  BY <1>1 DEF Case
<1> QED
  BY <1>1, <1>2, <1>3 DEF Sealed, Result

\* What finishing a check makes of a run.
LEMMA FinishedRun ==
    ASSUME NEW r \in Run, r.now # NoTime, r.pending # <<>>
    PROVE  LET u == [r EXCEPT !.pending = Tail(@), !.now = NoTime,
                              !.found = Append(@, Sealed(r))]
           IN  /\ u \in Run /\ u.case = r.case /\ u.now = NoTime
               /\ u.found = Append(r.found, Sealed(r))
<1>1. Tail(r.pending) \in Seq(ExecutionId \X Check)
  BY RunUpdates, HeadTailProperties
<1>2. Append(r.found, Sealed(r)) \in Seq(Result)
  <2>1. r.found \in Seq(Result)
    BY RunUpdates
  <2>2. Sealed(r) \in Result
    BY SealedType
  <2> QED
    BY <2>1, <2>2
<1>3. [r EXCEPT !.pending = Tail(r.pending), !.now = NoTime,
                !.found = Append(r.found, Sealed(r))] \in Run
  BY <1>1, <1>2, RunUpdates
<1> QED
  BY <1>3 DEF Run

\* The result a run saves next, and what saving it leaves of the run.
LEMMA SavedResult ==
    ASSUME NEW r \in Run, r.found # <<>>
    PROVE  /\ Head(r.found) \in Result
           /\ ResultKey(Head(r.found)) \in Tenant \X ExecutionId
           /\ Tail(r.found) \in Seq(Result)
           /\ 1 \in DOMAIN r.found /\ Head(r.found) = r.found[1]
           /\ \A i \in DOMAIN Tail(r.found) :
                i + 1 \in DOMAIN r.found /\ Tail(r.found)[i] = r.found[i + 1]
<1>1. r.found \in Seq(Result)
  BY RunUpdates
<1>2. /\ Head(r.found) \in Result /\ Tail(r.found) \in Seq(Result)
      /\ Len(Tail(r.found)) = Len(r.found) - 1
      /\ \A i \in 1 .. Len(Tail(r.found)) : Tail(r.found)[i] = r.found[i + 1]
  BY <1>1, HeadTailProperties
<1>3. ResultKey(Head(r.found)) \in Tenant \X ExecutionId
  BY <1>2 DEF ResultKey, Result
<1>4. Len(r.found) \in Nat \ {0} /\ DOMAIN r.found = 1 .. Len(r.found)
  BY <1>1, EmptySeq, LenProperties
<1>5. Len(Tail(r.found)) \in Nat /\ DOMAIN Tail(r.found) = 1 .. Len(Tail(r.found))
  BY <1>2, LenProperties
<1>6. 1 \in DOMAIN r.found /\ \A i \in DOMAIN Tail(r.found) : i + 1 \in DOMAIN r.found
  BY <1>2, <1>4, <1>5
<1>7. Head(r.found) = r.found[1]
  BY <1>1
<1> QED
  BY <1>2, <1>3, <1>5, <1>6, <1>7

\* A verifier's step changes its own run, in one of these ways, and what is
\* saved only by adding the result the run was to save next.
LEMMA VerifierStepCases ==
    ASSUME VerificationTypeInv, NEW v \in Verifier, VerifierStep(v)
    PROVE  /\ run' = [run EXCEPT ![v] = run'[v]]
           /\ \/ /\ UNCHANGED results /\ run'[v] = NoRun
              \/ /\ UNCHANGED results /\ run'[v] \in Run /\ run[v] = NoRun
                 /\ run'[v].case \in Verifiable /\ AcceptsVerification(run'[v].case)
                 /\ run'[v].now = NoTime /\ run'[v].found = <<>>
              \/ /\ UNCHANGED results /\ run'[v] \in Run /\ run[v] \in Run
                 /\ run[v].pending # <<>> /\ run'[v].pending = run[v].pending
                 /\ run'[v].case = run[v].case /\ run'[v].found = run[v].found
                 /\ run'[v].now \in Time /\ run[v].case.updatedAt <= run'[v].now
              \/ /\ UNCHANGED results /\ run'[v] \in Run /\ run[v] \in Run
                 /\ run'[v].case = run[v].case /\ run'[v].now = NoTime
                 /\ run[v].now # NoTime /\ run[v].pending # <<>>
                 /\ run'[v].found = Append(run[v].found, Sealed(run[v]))
              \/ /\ run[v] \in Run /\ run[v].found # <<>> /\ run[v].pending = <<>>
                 /\ LET r == Head(run[v].found) IN
                      /\ results[ResultKey(r)] = NoResult
                      /\ results' = [results EXCEPT ![ResultKey(r)] = r]
                 /\ \/ run'[v] = NoRun
                    \/ /\ run'[v] \in Run /\ run'[v].case = run[v].case
                       /\ run'[v].now = run[v].now /\ run'[v].pending = <<>>
                       /\ run'[v].found = Tail(run[v].found)
<1>1. /\ run \in [Verifier -> Run \cup {NoRun}] /\ TypeOK
      /\ run[v] # NoRun => run[v] \in Run
      /\ run[v] # NoRun /\ run[v].now # NoTime => run[v].pending # <<>>
  BY DEF VerificationTypeInv, VerificationTypeOK, InFlightHasCheck
<1>2. ASSUME NEW t \in Tenant, NEW c \in Verifiable,
             NEW ids \in [DOMAIN Plan -> ExecutionId], StartRun(v, t, c, ids)
      PROVE  /\ run' = [run EXCEPT ![v] = run'[v]]
             /\ UNCHANGED results /\ run'[v] \in Run /\ run[v] = NoRun
             /\ run'[v].case \in Verifiable /\ AcceptsVerification(run'[v].case)
             /\ run'[v].now = NoTime /\ run'[v].found = <<>>
  <2> DEFINE pending == [i \in DOMAIN Plan |-> <<ids[i], Plan[i]>>]
             u == [case |-> c, pending |-> pending, now |-> NoTime, found |-> <<>>]
  <2>1. pending \in Seq(ExecutionId \X Check) /\ c \in Case
    BY <1>1, PlannedExecutions, VerifiableIsCase
  <2>2. run' = [run EXCEPT ![v] = u]
    BY <1>2 DEF StartRun
  <2> HIDE DEF pending
  <2>3. u \in Run
    BY <2>1, EmptySeq DEF Run
  <2>4. u.case = c /\ u.now = NoTime /\ u.found = <<>>
    OBVIOUS
  <2> HIDE DEF u
  <2>5. run'[v] = u
    BY <1>1, <2>2
  <2> QED
    BY <1>2, <2>2, <2>3, <2>4, <2>5 DEF StartRun
<1>3. ASSUME NEW now \in Time, BeginCheck(v, now)
      PROVE  /\ run' = [run EXCEPT ![v] = run'[v]]
             /\ UNCHANGED results /\ run'[v] \in Run /\ run[v] \in Run
             /\ run[v].pending # <<>> /\ run'[v].pending = run[v].pending
             /\ run'[v].case = run[v].case /\ run'[v].found = run[v].found
             /\ run'[v].now \in Time /\ run[v].case.updatedAt <= run'[v].now
  <2>1. /\ run[v] \in Run /\ run[v].pending # <<>> /\ UNCHANGED results
        /\ now >= run[v].case.updatedAt /\ run' = [run EXCEPT ![v].now = now]
    BY <1>1, <1>3 DEF BeginCheck, ClockNotBackwards
  <2>2. run'[v] = [run[v] EXCEPT !.now = now] /\ run' = [run EXCEPT ![v] = run'[v]]
    BY <1>1, <2>1
  <2>3. /\ run'[v] \in Run /\ run'[v].pending = run[v].pending
        /\ run'[v].case = run[v].case /\ run'[v].found = run[v].found /\ run'[v].now = now
    BY <2>1, <2>2, ClockOfRun
  <2>4. run[v].case.updatedAt <= now
    BY <2>1, RunUpdates, CaseNumbers, CaseAssumption
  <2> QED
    BY <2>1, <2>2, <2>3, <2>4
<1>4. ASSUME FinishCheck(v)
      PROVE  /\ run' = [run EXCEPT ![v] = run'[v]]
             /\ UNCHANGED results /\ run'[v] \in Run /\ run[v] \in Run
             /\ run'[v].case = run[v].case /\ run'[v].now = NoTime
             /\ run[v].now # NoTime /\ run[v].pending # <<>>
             /\ run'[v].found = Append(run[v].found, Sealed(run[v]))
  <2> DEFINE u == [run[v] EXCEPT !.pending = Tail(@), !.now = NoTime,
                                 !.found = Append(@, Sealed(run[v]))]
  <2>0. run' = [run EXCEPT ![v] = u]
    BY <1>4, Zenon DEF FinishCheck
  <2>1. /\ run[v] \in Run /\ run[v].now # NoTime /\ run[v].pending # <<>>
        /\ UNCHANGED results /\ run' = [run EXCEPT ![v] = u]
    BY <1>1, <1>4, <2>0 DEF FinishCheck
  <2>2. /\ u \in Run /\ u.case = run[v].case /\ u.now = NoTime
        /\ u.found = Append(run[v].found, Sealed(run[v]))
    BY <2>1, FinishedRun
  <2> HIDE DEF u
  <2>3. run'[v] = u
    BY <1>1, <2>1
  <2> QED
    BY <2>1, <2>2, <2>3
<1>5. ASSUME Abandon(v)
      PROVE  /\ run' = [run EXCEPT ![v] = run'[v]]
             /\ UNCHANGED results /\ run'[v] = NoRun
  BY <1>1, <1>5 DEF Abandon
<1>6. ASSUME SaveResult(v)
      PROVE  /\ run' = [run EXCEPT ![v] = run'[v]]
             /\ run[v] \in Run /\ run[v].found # <<>> /\ run[v].pending = <<>>
             /\ LET r == Head(run[v].found) IN
                  /\ results[ResultKey(r)] = NoResult
                  /\ results' = [results EXCEPT ![ResultKey(r)] = r]
             /\ \/ run'[v] = NoRun
                \/ /\ run'[v] \in Run /\ run'[v].case = run[v].case
                   /\ run'[v].now = run[v].now /\ run'[v].pending = <<>>
                   /\ run'[v].found = Tail(run[v].found)
  <2> DEFINE u == [run[v] EXCEPT !.found = Tail(run[v].found)]
  <2>1. /\ run[v] \in Run /\ run[v].found # <<>> /\ run[v].pending = <<>>
        /\ LET r == Head(run[v].found) IN
             /\ results[ResultKey(r)] = NoResult
             /\ results' = [results EXCEPT ![ResultKey(r)] = r]
    BY <1>1, <1>6 DEF SaveResult
  <2>2. run' = [run EXCEPT ![v] = IF Len(run[v].found) = 1 THEN NoRun ELSE u]
    BY <1>6, Zenon DEF SaveResult
  <2>3. /\ u \in Run /\ u.case = run[v].case /\ u.now = run[v].now
        /\ u.pending = run[v].pending /\ u.found = Tail(run[v].found)
    BY <2>1, SavedResult DEF Run
  <2> HIDE DEF u
  <2>4. run'[v] = NoRun \/ run'[v] = u
    BY <1>1, <2>2
  <2>5. run' = [run EXCEPT ![v] = run'[v]]
    BY <1>1, <2>2
  <2> QED
    BY <2>1, <2>3, <2>4, <2>5
<1> QED
  BY <1>2, <1>3, <1>4, <1>5, <1>6 DEF VerifierStep

\* Verification leaves the case repository to its writers: none of its steps is
\* a step of the repository.
LEMMA VerificationUsesRepository == VerificationSpec => Spec
<1>1. VerificationInit => Init
  BY DEF VerificationInit
<1>2. [VerificationNext]_verificationVars => [Next]_vars
  BY DEF VerificationNext, verificationVars, vars
<1> QED
  BY <1>1, <1>2, PTL DEF VerificationSpec, Spec

\* A clock reading always belongs to a check, and everything is of its type.
LEMMA VerificationTypeInvariant == VerificationSpec => []VerificationTypeInv
<1>1. VerificationInit => VerificationTypeInv
  BY DEF VerificationInit, Init, VerificationTypeInv, VerificationTypeOK, TypeOK,
         InFlightHasCheck
<1>2. VerificationTypeInv /\ TypeOK' /\ [VerificationNext]_verificationVars
        => VerificationTypeInv'
  <2> SUFFICES ASSUME VerificationTypeInv, TypeOK', [VerificationNext]_verificationVars
               PROVE  VerificationTypeInv'
    OBVIOUS
  <2> USE DEF VerificationTypeInv, VerificationTypeOK, InFlightHasCheck
  <2>1. CASE UNCHANGED <<run, results>>
    BY <2>1
  <2>2. ASSUME NEW v \in Verifier, VerifierStep(v)
        PROVE  VerificationTypeInv'
    <3>1. run' = [run EXCEPT ![v] = run'[v]] /\ run'[v] \in Run \cup {NoRun}
      BY <2>2, VerifierStepCases
    <3>2. run'[v] # NoRun /\ run'[v].now # NoTime => run'[v].pending # <<>>
      BY <2>2, VerifierStepCases, VerificationAssumption
    <3>3. UNCHANGED results \/ /\ run[v] \in Run /\ run[v].found # <<>>
                               /\ results' = [results EXCEPT ![ResultKey(Head(run[v].found))]
                                                = Head(run[v].found)]
      BY <2>2, VerifierStepCases
    <3>4. results' \in [Tenant \X ExecutionId -> Result \cup {NoResult}]
      BY <3>3, SavedResult
    <3>5. run' \in [Verifier -> Run \cup {NoRun}]
      BY <3>1
    <3>6. InFlightHasCheck'
      BY <3>1, <3>2
    <3> QED
      BY <3>4, <3>5, <3>6
  <2> QED
    BY <2>1, <2>2 DEF VerificationNext, verificationVars
<1> QED
  BY <1>1, <1>2, VerificationUsesRepository, TypeCorrect, PTL DEF VerificationSpec

\* The captured cases, the executions under way and the results, saved or not,
\* are always of their types.
THEOREM VerificationTypeCorrect == VerificationSpec => []VerificationTypeOK
<1>1. VerificationTypeInv => VerificationTypeOK
  BY DEF VerificationTypeInv
<1> QED
  BY <1>1, VerificationTypeInvariant, PTL

-----------------------------------------------------------------------------
(* What a check saw, against what is stored now.                             *)

\* What verification relies on below it.  Writers that save after every operation
\* lose nothing; of the others all that is known is that revisions advance.
RepositoryInv ==
    /\ TypeOK /\ StoreValid
    /\ OpsPerSave = 1 => LineageInv

LEMMA RepositoryInvariant == Spec => []RepositoryInv
<1>1. Init => RepositoryInv
  BY DEF Init, RepositoryInv, LineageInv, TypeOK, StoreValid, Lineage
<1>2. RepositoryInv /\ [Next]_vars => RepositoryInv'
  BY TypeStep, StoreValidStep, LineageStep DEF RepositoryInv
<1> QED
  BY <1>1, <1>2, PTL DEF Spec

\* Materials ms at revision n are what the store held before or with s: an equal
\* revision means s holds them still, uncancelled, and s has lost none of them if
\* writers save after every operation.
Past(s, n, ms) ==
    /\ s # NoCase
    /\ n <= s.revision
    /\ n = s.revision => ms = s.materials /\ s.state # "Cancelled"
    /\ OpsPerSave = 1 => \A x \in ms : Retains(s, x)

\* Captured case c came from the store, uncancelled.
Captured(c) ==
    /\ Past(store[KeyOf(c)], c.revision, c.materials)
    /\ \A x \in c.materials : x.addedAt <= c.updatedAt

\* What result r says it read was once in the store, before its instant.
Observed(r) ==
    /\ Past(store[<<r.tenantId, r.caseId>>], r.evaluatedCaseRevision, r.inputs)
    /\ \A x \in r.inputs : x.addedAt <= r.executedAt

\* All that a run holds was observed.
RunObserves(v) ==
    run[v] # NoRun =>
      /\ Captured(run[v].case)
      /\ run[v].now # NoTime => run[v].case.updatedAt <= run[v].now
      /\ \A i \in DOMAIN run[v].found : Observed(run[v].found[i])

ObservationInv ==
    /\ \A v \in Verifier : RunObserves(v)
    /\ \A x \in Tenant \X ExecutionId : results[x] # NoResult => Observed(results[x])

\* What one case retains of another is passed on.
LEMMA RetainsTransitive ==
    ASSUME NEW c, NEW d, NEW x, Retains(c, x), \A y \in c.materials : Retains(d, y)
    PROVE  Retains(d, x)
<1>1. PICK y \in c.materials :
        /\ y.materialId = x.materialId /\ y.payload = x.payload /\ y.addedAt = x.addedAt
        /\ x.requirementIds \subseteq y.requirementIds
  BY DEF Retains
<1>2. PICK z \in d.materials :
        /\ z.materialId = y.materialId /\ z.payload = y.payload /\ z.addedAt = y.addedAt
        /\ y.requirementIds \subseteq z.requirementIds
  BY DEF Retains
<1> QED
  BY <1>1, <1>2 DEF Retains

\* Whatever the writers do, what was past stays past.
LEMMA PastStaysPast ==
    ASSUME RepositoryInv, [Next]_vars, NEW k \in Key, NEW n \in Nat, NEW ms,
           Past(store[k], n, ms)
    PROVE  Past(store'[k], n, ms)
<1>1. store[k] # NoCase /\ store[k] \in Case
  BY StoreAdvances DEF Past, RepositoryInv
<1>2. CASE store'[k] = store[k]
  BY <1>2
<1>3. CASE store'[k] # store[k]
  <2>1. store'[k] \in Case /\ store'[k].revision = store[k].revision + 1
    BY <1>1, <1>3, StoreAdvances DEF RepositoryInv
  <2>2. store'[k] # NoCase /\ store[k].revision \in Nat
    BY <1>1, <2>1, CaseNumbers, CaseAssumption
  <2>3. n <= store'[k].revision /\ n # store'[k].revision
    BY <2>1, <2>2 DEF Past
  <2>4. ASSUME OpsPerSave = 1, NEW x \in ms PROVE Retains(store'[k], x)
    <3>1. \A y \in store[k].materials : Retains(store'[k], y)
      BY <1>1, <1>3, <2>4, StoredCaseSteps, OperationKeeps DEF RepositoryInv
    <3> QED
      BY <2>4, <3>1, RetainsTransitive DEF Past
  <2> QED
    BY <2>2, <2>3, <2>4 DEF Past
<1> QED
  BY <1>2, <1>3

\* A result's case is a key of the store.
LEMMA ResultCase ==
    ASSUME NEW r \in Result
    PROVE  /\ <<r.tenantId, r.caseId>> \in Key /\ r.evaluatedCaseRevision \in Nat
           /\ r.inputs \in SUBSET CaseMaterial /\ r.executedAt \in Nat
  BY CaseAssumption DEF Result, Key

\* So do captured cases and the results about them.
LEMMA ObservationsStay ==
    ASSUME RepositoryInv, [Next]_vars
    PROVE  /\ \A c \in Case : Captured(c) =>
                Past(store'[KeyOf(c)], c.revision, c.materials)
           /\ \A r \in Result : Observed(r) =>
                Past(store'[<<r.tenantId, r.caseId>>], r.evaluatedCaseRevision, r.inputs)
<1>1. \A c \in Case : KeyOf(c) \in Key /\ c.revision \in Nat
  BY DEF Case, KeyOf, Key
<1> QED
  BY <1>1, PastStaysPast, ResultCase DEF Captured, Observed

\* A stored case that is not cancelled can be captured.
LEMMA StoredIsCaptured ==
    ASSUME RepositoryInv, HistoriesInOrder, FromStore = TRUE, NEW c \in Verifiable,
           AcceptsVerification(c)
    PROVE  Captured(c)
<1>1. PICK k \in Key : c = store[k] /\ store[k] # NoCase
  BY DEF Verifiable
<1>2. KeyOf(c) = k /\ HistoryInOrder(c) /\ c \in Case
  BY <1>1 DEF RepositoryInv, StoreValid, HistoriesInOrder, TypeOK
<1>3. Past(c, c.revision, c.materials)
  BY <1>1, <1>2, CaseNumbers DEF Past, AcceptsVerification, Retains
<1> QED
  BY <1>1, <1>2, <1>3 DEF Captured, HistoryInOrder

\* The result of a check done on a captured case was observed.
LEMMA SealedObserves ==
    ASSUME NEW r \in Run, r.now # NoTime, Captured(r.case), r.case.updatedAt <= r.now
    PROVE  Observed(Sealed(r))
<1>1. /\ Sealed(r).tenantId = r.case.tenantId /\ Sealed(r).caseId = r.case.caseId
      /\ Sealed(r).evaluatedCaseRevision = r.case.revision
      /\ Sealed(r).inputs = r.case.materials /\ Sealed(r).executedAt = r.now
  BY DEF Sealed
<1>2. /\ r.now \in Nat /\ r.case.updatedAt \in Nat
      /\ \A x \in r.case.materials : x.addedAt \in Nat
  BY RunUpdates, CaseNumbers, EntryNumbers, CaseAssumption
<1>3. \A x \in r.case.materials : x.addedAt <= r.now
  BY <1>2 DEF Captured
<1> QED
  BY <1>1, <1>3 DEF Observed, Captured, KeyOf

\* Whatever a run holds and whatever was saved was in the store, unless a
\* caller verifies a value of its own.
THEOREM ObservationTheorem ==
    ASSUME FromStore = TRUE
    PROVE  VerificationSpec => []ObservationInv
<1>1. VerificationInit => ObservationInv
  BY DEF VerificationInit, ObservationInv, RunObserves
<1>2. /\ VerificationTypeInv /\ VerificationTypeInv' /\ RepositoryInv /\ HistoriesInOrder
      /\ ObservationInv /\ [VerificationNext]_verificationVars
      => ObservationInv'
  <2> SUFFICES ASSUME VerificationTypeInv, VerificationTypeInv', RepositoryInv,
                      HistoriesInOrder, ObservationInv,
                      [VerificationNext]_verificationVars
               PROVE  ObservationInv'
    OBVIOUS
  <2>1. /\ run \in [Verifier -> Run \cup {NoRun}]
        /\ results \in [Tenant \X ExecutionId -> Result \cup {NoResult}]
        /\ \A v \in Verifier : run[v] # NoRun =>
             run[v].case \in Case /\ \A i \in DOMAIN run[v].found : run[v].found[i] \in Result
    <3>1. \A v \in Verifier : run[v] # NoRun =>
            run[v].case \in Case /\ run[v].found \in Seq(Result)
      BY RunUpdates DEF VerificationTypeInv, VerificationTypeOK
    <3>2. \A s \in Seq(Result) : \A i \in DOMAIN s : s[i] \in Result
      BY ElementOfSeq, LenProperties
    <3> QED
      BY <3>1, <3>2 DEF VerificationTypeInv, VerificationTypeOK
  <2>2. CASE [Next]_vars /\ UNCHANGED <<run, results>>
    <3>1. ASSUME NEW v \in Verifier PROVE RunObserves(v)'
      <4> SUFFICES ASSUME run[v] # NoRun PROVE RunObserves(v)'
        BY <2>2 DEF RunObserves
      <4>1. RunObserves(v)
        BY DEF ObservationInv
      <4>2. Past(store'[KeyOf(run[v].case)], run[v].case.revision, run[v].case.materials)
        BY <2>1, <2>2, <4>1, ObservationsStay DEF RunObserves
      <4>3. Captured(run[v].case)'
        BY <2>2, <4>1, <4>2 DEF RunObserves, Captured
      <4>4. \A i \in DOMAIN run[v].found :
              Past(store'[<<run[v].found[i].tenantId, run[v].found[i].caseId>>],
                   run[v].found[i].evaluatedCaseRevision, run[v].found[i].inputs)
        BY <2>1, <2>2, <4>1, ObservationsStay DEF RunObserves
      <4>5. \A i \in DOMAIN run'[v].found : Observed(run[v].found[i])'
        BY <2>2, <4>1, <4>4 DEF RunObserves, Observed
      <4> QED
        BY <2>2, <4>1, <4>3, <4>5 DEF RunObserves
    <3>2. ASSUME NEW x \in Tenant \X ExecutionId, results'[x] # NoResult
          PROVE  Observed(results[x])'
      <4>1. results'[x] = results[x] /\ results[x] \in Result /\ Observed(results[x])
        BY <2>1, <2>2, <3>2 DEF ObservationInv
      <4> QED
        BY <2>2, <4>1, ObservationsStay DEF Observed
    <3> QED
      BY <3>1, <3>2 DEF ObservationInv
  <2>3. ASSUME NEW v \in Verifier, VerifierStep(v), UNCHANGED vars
        PROVE  ObservationInv'
    <3>1. /\ run' = [run EXCEPT ![v] = run'[v]] /\ store' = store
          /\ run[v] # NoRun => RunObserves(v)
          /\ run[v] \in Run => run[v] # NoRun /\ DOMAIN run[v].found = 1 .. Len(run[v].found)
                               /\ run[v].found \in Seq(Result)
      BY <2>1, <2>3, VerifierStepCases, RunUpdates, LenProperties, VerificationAssumption
         DEF vars, ObservationInv
    <3>2. ASSUME UNCHANGED results, RunObserves(v)' PROVE ObservationInv'
      <4>1. ASSUME NEW u \in Verifier PROVE RunObserves(u)'
        <5>1. CASE u = v
          BY <3>2, <5>1
        <5>2. CASE u # v
          <6>1. run'[u] = run[u] /\ RunObserves(u)
            BY <2>1, <3>1, <5>2 DEF ObservationInv
          <6> QED
            BY <3>1, <6>1 DEF RunObserves, Captured, Observed
        <5> QED
          BY <5>1, <5>2
      <4>2. ASSUME NEW x \in Tenant \X ExecutionId, results'[x] # NoResult
            PROVE  Observed(results[x])'
        BY <3>1, <3>2, <4>2 DEF ObservationInv, Observed
      <4> QED
        BY <4>1, <4>2 DEF ObservationInv
    <3>3. CASE /\ UNCHANGED results /\ run'[v] = NoRun
      BY <3>3, <3>2 DEF RunObserves
    <3>4. CASE /\ UNCHANGED results /\ run'[v] \in Run
               /\ run'[v].case \in Verifiable /\ AcceptsVerification(run'[v].case)
               /\ run'[v].now = NoTime /\ run'[v].found = <<>>
      <4>1. Captured(run'[v].case)
        BY <3>4, StoredIsCaptured
      <4>2. Captured(run[v].case)'
        BY <3>1, <4>1 DEF Captured
      <4>3. DOMAIN run'[v].found = {}
        BY <3>4
      <4> QED
        BY <3>4, <3>2, <4>2, <4>3 DEF RunObserves
    <3>5. CASE /\ UNCHANGED results /\ run'[v] \in Run /\ run[v] \in Run
               /\ run'[v].case = run[v].case /\ run'[v].found = run[v].found
               /\ run'[v].now \in Time /\ run[v].case.updatedAt <= run'[v].now
      BY <3>1, <3>5, <3>2 DEF RunObserves, Captured, Observed
    <3>6. CASE /\ UNCHANGED results /\ run'[v] \in Run /\ run[v] \in Run
               /\ run'[v].case = run[v].case /\ run'[v].now = NoTime
               /\ run[v].now # NoTime
               /\ run'[v].found = Append(run[v].found, Sealed(run[v]))
      <4>1. Observed(Sealed(run[v])) /\ Sealed(run[v]) \in Result
        BY <2>3, <3>1, <3>6, SealedObserves, SealedType
           DEF RunObserves, VerificationTypeInv, InFlightHasCheck
      <4>2. \A i \in DOMAIN run'[v].found : Observed(run'[v].found[i])
        <5> DEFINE e == Sealed(run[v])
                   s == run[v].found
        <5>1. s \in Seq(Result) /\ e \in Result /\ Observed(e)
              /\ \A i \in DOMAIN s : Observed(s[i])
          BY <3>1, <3>6, <4>1 DEF RunObserves
        <5>2. run'[v].found = Append(s, e)
          BY <3>6
        <5> HIDE DEF s, e
        <5>3. \A i \in DOMAIN Append(s, e) :
                \/ i \in DOMAIN s /\ Append(s, e)[i] = s[i]
                \/ Append(s, e)[i] = e
          BY <5>1
        <5> QED
          BY <5>1, <5>2, <5>3
      <4> QED
        BY <3>1, <3>6, <3>2, <4>2 DEF RunObserves, Captured, Observed
    <3>7. CASE /\ run[v] \in Run /\ run[v].found # <<>>
               /\ LET r == Head(run[v].found) IN
                    results' = [results EXCEPT ![ResultKey(r)] = r]
               /\ \/ run'[v] = NoRun
                  \/ /\ run'[v] \in Run /\ run'[v].case = run[v].case
                     /\ run'[v].now = run[v].now
                     /\ run'[v].found = Tail(run[v].found)
      <4> DEFINE saved == Head(run[v].found)
      <4>1. Observed(saved) /\ saved \in Result /\ ResultKey(saved) \in Tenant \X ExecutionId
        BY <3>1, <3>7, SavedResult DEF RunObserves
      <4>2. ASSUME NEW x \in Tenant \X ExecutionId, results'[x] # NoResult
            PROVE  Observed(results'[x])
        BY <2>1, <3>7, <4>1, <4>2 DEF ObservationInv
      <4>3. RunObserves(v)'
        <5>1. RunObserves(v) /\ run[v] # NoRun
          BY <3>1, <3>7
        <5>2. CASE run'[v] = NoRun
          BY <5>2 DEF RunObserves
        <5>3. CASE run'[v] # NoRun
          <6>1. ASSUME NEW i \in DOMAIN run'[v].found PROVE Observed(run'[v].found[i])
            <7>1. run'[v].found = Tail(run[v].found)
              BY <3>7, <5>3
            <7>2. /\ i + 1 \in DOMAIN run[v].found
                  /\ run'[v].found[i] = run[v].found[i + 1]
              BY <3>7, <6>1, <7>1, SavedResult
            <7> QED
              BY <5>1, <7>2 DEF RunObserves
          <6>2. Captured(run'[v].case)
                /\ (run'[v].now # NoTime => run'[v].case.updatedAt <= run'[v].now)
            BY <3>7, <5>1, <5>3 DEF RunObserves
          <6> QED
            BY <3>1, <6>1, <6>2 DEF RunObserves, Captured, Observed
        <5> QED
          BY <5>2, <5>3
      <4>4. ASSUME NEW u \in Verifier, u # v PROVE RunObserves(u)'
        <5>1. run'[u] = run[u] /\ RunObserves(u)
          BY <2>1, <3>1, <4>4 DEF ObservationInv
        <5> QED
          BY <3>1, <5>1 DEF RunObserves, Captured, Observed
      <4> QED
        BY <3>1, <4>2, <4>3, <4>4 DEF ObservationInv, Observed
    <3> QED
      BY <2>3, <3>3, <3>4, <3>5, <3>6, <3>7, VerifierStepCases
  <2> QED
    BY <2>2, <2>3 DEF VerificationNext, verificationVars, vars
<1> QED
  BY <1>1, <1>2, VerificationTypeInvariant, VerificationUsesRepository,
     RepositoryInvariant, HistoryTheorem, PTL DEF VerificationSpec

\* What a reader concludes from a result of the history of case k.
LEMMA HistoryObserved ==
    ASSUME VerificationTypeInv, ObservationInv, NEW k \in Key, NEW r \in History(k)
    PROVE  /\ r \in Result /\ k = <<r.tenantId, r.caseId>>
           /\ Past(store[k], r.evaluatedCaseRevision, r.inputs)
           /\ \A x \in r.inputs : x.addedAt <= r.executedAt
<1>1. PICK x \in Tenant \X ExecutionId : r = results[x] /\ results[x] # NoResult
  BY DEF History
<1>2. r \in Result /\ Observed(r)
  BY <1>1 DEF VerificationTypeInv, VerificationTypeOK, ObservationInv
<1> QED
  BY <1>2 DEF Observed, History

\* A result of the stored revision read exactly the stored materials, so that
\* comparing two integers is enough, and none is of a revision never stored.
THEOREM CurrentTheorem ==
    ASSUME FromStore = TRUE
    PROVE  VerificationSpec => []CurrentMeansCurrent
<1>1. VerificationTypeInv /\ ObservationInv => CurrentMeansCurrent
  BY HistoryObserved DEF CurrentMeansCurrent, Past
<1> QED
  BY <1>1, VerificationTypeInvariant, ObservationTheorem, PTL

\* What a result of an older revision read is still in the case.
THEOREM OlderTheorem ==
    ASSUME OpsPerSave = 1, FromStore = TRUE
    PROVE  VerificationSpec => []OlderSawLess
<1>1. VerificationTypeInv /\ ObservationInv => OlderSawLess
  BY HistoryObserved DEF OlderSawLess, Past
<1> QED
  BY <1>1, VerificationTypeInvariant, ObservationTheorem, PTL

\* No result is about a cancelled case, however late it was saved.
THEOREM NoResultOfCancelledCase ==
    ASSUME FromStore = TRUE
    PROVE  VerificationSpec => []ResultsPrecedeCancellation
<1>1. VerificationTypeInv /\ RepositoryInv /\ ObservationInv => ResultsPrecedeCancellation
  <2> SUFFICES ASSUME VerificationTypeInv, RepositoryInv, ObservationInv, NEW k \in Key,
                      store[k] # NoCase, store[k].state = "Cancelled", NEW r \in History(k)
               PROVE  r.evaluatedCaseRevision < store[k].revision
    BY DEF ResultsPrecedeCancellation
  <2>1. Past(store[k], r.evaluatedCaseRevision, r.inputs) /\ r \in Result
    BY HistoryObserved
  <2>2. r.evaluatedCaseRevision \in Nat /\ store[k].revision \in Nat
    BY <2>1, ResultCase, CaseNumbers DEF RepositoryInv, TypeOK
  <2> QED
    BY <2>1, <2>2 DEF Past
<1> QED
  BY <1>1, VerificationTypeInvariant, ObservationTheorem, VerificationUsesRepository,
     RepositoryInvariant, PTL

\* A check reasons only about materials that existed at its own instant.
THEOREM InputsTheorem ==
    ASSUME FromStore = TRUE
    PROVE  VerificationSpec => []InputsPrecedeExecution
<1>1. VerificationTypeInv /\ ObservationInv => InputsPrecedeExecution
  BY HistoryObserved DEF InputsPrecedeExecution
<1> QED
  BY <1>1, VerificationTypeInvariant, ObservationTheorem, PTL

-----------------------------------------------------------------------------
(* What a reader selects for a basis revision never regresses.               *)

\* Every result is stored under its own tenant and execution id.
ResultsUnderTheirKeys ==
    \A x \in Tenant \X ExecutionId : results[x] # NoResult => ResultKey(results[x]) = x

\* Results are only ever added, each under its own key.
LEMMA ResultsAppended ==
    ASSUME VerificationTypeInv, [VerificationNext]_verificationVars
    PROVE  \/ results' = results
           \/ \E r \in Result : /\ results[ResultKey(r)] = NoResult
                                /\ ResultKey(r) \in Tenant \X ExecutionId
                                /\ results' = [results EXCEPT ![ResultKey(r)] = r]
<1>1. ASSUME NEW v \in Verifier, VerifierStep(v)
      PROVE  \/ results' = results
             \/ \E r \in Result : /\ results[ResultKey(r)] = NoResult
                                  /\ ResultKey(r) \in Tenant \X ExecutionId
                                  /\ results' = [results EXCEPT ![ResultKey(r)] = r]
  BY <1>1, VerifierStepCases, SavedResult
<1> QED
  BY <1>1 DEF VerificationNext, verificationVars

\* The repository keeps every result under its own key.
LEMMA ResultsKeyed == VerificationSpec => []ResultsUnderTheirKeys
<1>1. VerificationInit => ResultsUnderTheirKeys
  BY DEF VerificationInit, ResultsUnderTheirKeys
<1>2. VerificationTypeInv /\ ResultsUnderTheirKeys /\ [VerificationNext]_verificationVars
        => ResultsUnderTheirKeys'
  BY ResultsAppended DEF ResultsUnderTheirKeys, VerificationTypeInv, VerificationTypeOK,
                         ResultKey
<1> QED
  BY <1>1, <1>2, VerificationTypeInvariant, PTL DEF VerificationSpec

\* Two results of one tenant are ordered by recency, unless they share an
\* execution id; the order is transitive.
LEMMA RecencyOrder ==
    ASSUME NEW r \in Result, NEW s \in Result
    PROVE  /\ r.executionId # s.executionId => MoreRecent(r, s) \/ MoreRecent(s, r)
           /\ MoreRecent(r, s) => r.evaluatedCaseRevision >= s.evaluatedCaseRevision
           /\ \A u \in Result : MoreRecent(r, s) /\ MoreRecent(s, u) => MoreRecent(r, u)
<1>1. \A u \in Result : /\ u.executionId \in Nat /\ u.evaluatedCaseRevision \in Nat
                        /\ u.executedAt \in Nat
  BY CaseAssumption, VerificationAssumption DEF Result
<1> QED
  BY <1>1 DEF MoreRecent

\* In the review packet of a basis revision a result gives way only to one of
\* the same or a later revision within that basis, for any discipline of the
\* writers and for any value verified.
THEOREM SelectionTheorem == VerificationSpec => SelectionNeverRegresses
<1>1. /\ VerificationTypeInv /\ VerificationTypeInv' /\ ResultsUnderTheirKeys
      /\ [VerificationNext]_verificationVars
      => [\A k \in Key, check \in Check, basis \in 1 .. MaxSafeInteger :
            \A r \in Selected(History(k), check, basis) :
              \E s \in Selected(History(k)', check, basis) :
                s.evaluatedCaseRevision \in r.evaluatedCaseRevision .. basis]_verificationVars
  <2> SUFFICES ASSUME VerificationTypeInv, VerificationTypeInv', ResultsUnderTheirKeys,
                      [VerificationNext]_verificationVars,
                      NEW k \in Key, NEW check \in Check, NEW basis \in 1 .. MaxSafeInteger,
                      NEW r \in Selected(History(k), check, basis)
               PROVE  \E s \in Selected(History(k)', check, basis) :
                        s.evaluatedCaseRevision \in r.evaluatedCaseRevision .. basis
    OBVIOUS
  <2> DEFINE H == History(k)
             J == History(k)'
  <2>1. /\ results \in [Tenant \X ExecutionId -> Result \cup {NoResult}]
        /\ NoResult \notin Result
    BY VerificationAssumption DEF VerificationTypeInv, VerificationTypeOK
  <2>2. H \in SUBSET Result
    BY <2>1 DEF History
  <2>3. /\ r \in H /\ r.check = check /\ WithinBasis(r, basis)
        /\ \A s \in H : s.check = check /\ WithinBasis(s, basis) /\ s # r => MoreRecent(r, s)
    BY DEF Selected
  <2>4. r \in Result /\ r.evaluatedCaseRevision \in Nat /\ basis \in Nat
        /\ r.evaluatedCaseRevision <= basis
    <3>1. r \in Result /\ r.evaluatedCaseRevision <= basis
      BY <2>2, <2>3 DEF WithinBasis
    <3>2. basis \in Nat
      BY CaseAssumption
    <3> QED
      BY <3>1, <3>2, ResultCase
  <2>5. J = H \/ \E n \in Result : /\ J = H \cup {n}
                                   /\ \A s \in H : s.executionId # n.executionId
    <3>1. CASE results' = results
      BY <3>1 DEF History
    <3>2. ASSUME NEW n \in Result, results[ResultKey(n)] = NoResult,
                 ResultKey(n) \in Tenant \X ExecutionId,
                 results' = [results EXCEPT ![ResultKey(n)] = n]
          PROVE  \/ J = H
                 \/ J = H \cup {n} /\ \A s \in H : s.executionId # n.executionId
      <4>1. \A x \in Tenant \X ExecutionId :
              results'[x] = IF x = ResultKey(n) THEN n ELSE results[x]
        BY <2>1, <3>2
      <4>2. CASE <<n.tenantId, n.caseId>> # k
        <5>1. J = H
          BY <2>1, <3>2, <4>1, <4>2 DEF History
        <5> QED
          BY <5>1
      <4>3. CASE <<n.tenantId, n.caseId>> = k
        <5>1. J = H \cup {n}
          BY <2>1, <3>2, <4>1, <4>3 DEF History
        <5>2. ASSUME NEW s \in H PROVE s.executionId # n.executionId
          <6>1. PICK x \in Tenant \X ExecutionId : s = results[x] /\ s # NoResult
            BY DEF History
          <6>2. ResultKey(s) = x /\ s.tenantId = k[1] /\ n.tenantId = k[1]
            BY <4>3, <6>1 DEF ResultsUnderTheirKeys, History
          <6> QED
            BY <3>2, <6>1, <6>2 DEF ResultKey
        <5> QED
          BY <5>1, <5>2
      <4> QED
        BY <4>2, <4>3
    <3> QED
      BY <3>1, <3>2, ResultsAppended
  <2>6. CASE J = H
    BY <2>4, <2>6
  <2>7. ASSUME NEW n \in Result, J = H \cup {n}, \A s \in H : s.executionId # n.executionId
        PROVE  \E s \in Selected(J, check, basis) :
                 s.evaluatedCaseRevision \in r.evaluatedCaseRevision .. basis
    <3>1. r.executionId # n.executionId /\ n.evaluatedCaseRevision \in Nat
      BY <2>3, <2>7, ResultCase
    <3>2. CASE n.check = check /\ WithinBasis(n, basis) /\ MoreRecent(n, r)
      <4>1. \A s \in H : s.check = check /\ WithinBasis(s, basis) => MoreRecent(n, s)
        BY <2>2, <2>3, <2>4, <2>7, <3>2, RecencyOrder
      <4>2. n \in Selected(J, check, basis)
        BY <2>7, <3>2, <4>1 DEF Selected
      <4>3. n.evaluatedCaseRevision >= r.evaluatedCaseRevision
        BY <2>4, <2>7, <3>2, RecencyOrder
      <4>4. n.evaluatedCaseRevision \in r.evaluatedCaseRevision .. basis
        BY <2>4, <3>1, <3>2, <4>3 DEF WithinBasis
      <4> QED
        BY <4>2, <4>4
    <3>3. CASE n.check = check /\ WithinBasis(n, basis) /\ ~MoreRecent(n, r)
      <4>1. MoreRecent(r, n)
        BY <2>4, <2>7, <3>1, <3>3, RecencyOrder
      <4>2. r \in Selected(J, check, basis)
        BY <2>3, <2>7, <4>1 DEF Selected
      <4> QED
        BY <2>4, <4>2
    <3>4. CASE ~(n.check = check /\ WithinBasis(n, basis))
      <4>1. r \in Selected(J, check, basis)
        BY <2>3, <2>7, <3>4 DEF Selected
      <4> QED
        BY <2>4, <4>1
    <3> QED
      BY <3>2, <3>3, <3>4
  <2> QED
    BY <2>5, <2>6, <2>7
<1> QED
  BY <1>1, VerificationTypeInvariant, ResultsKeyed, PTL
     DEF VerificationSpec, SelectionNeverRegresses
=============================================================================
