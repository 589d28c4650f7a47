---------------------------- MODULE CaseRepository ----------------------------
(***************************************************************************)
(* The revision-checked case repository under concurrent writers.          *)
(*                                                                         *)
(* A writer is any caller of the package: it reads a case, applies         *)
(* operations to the value it holds, and saves the result.  Reading and    *)
(* saving are separate calls of a port that may be asynchronous, so other  *)
(* writers run between them; the only coordination is the revision save    *)
(* compares.  A call that throws changes nothing and is not a step.        *)
(***************************************************************************)
EXTENDS ProtocolizationCase

CONSTANTS
    Writer,       \* concurrent callers
    OpsPerSave    \* how many operations a caller applies before it saves

ASSUME WriterAssumption == OpsPerSave \in Nat \ {0}

VARIABLES
    store,        \* the entries map of the repository
    base,         \* the value each writer last read or saved, NoCase for none
    hand          \* the value each writer holds now

vars == <<store, base, hand>>

Key == Tenant \X CaseId

KeyOf(c) == <<c.tenantId, c.caseId>>

Init ==
    /\ store = [k \in Key |-> NoCase]
    /\ base = [w \in Writer |-> NoCase]
    /\ hand = [w \in Writer |-> NoCase]

\* get: only the tenant named in the call is looked at.
Get(w, t, id) ==
    /\ store[<<t, id>>] # NoCase
    /\ base' = [base EXCEPT ![w] = store[<<t, id>>]]
    /\ hand' = [hand EXCEPT ![w] = store[<<t, id>>]]
    /\ UNCHANGED store

-----------------------------------------------------------------------------
(* The operations.  Each is local to the writer that calls it.             *)

Create(w, t, id, now) ==
    /\ CanCreate(t, id, now)
    /\ base' = [base EXCEPT ![w] = NoCase]
    /\ hand' = [hand EXCEPT ![w] = Created(t, id, now)]
    /\ UNCHANGED store

\* The revision of what the writer started from.
BaseRevision(w) == IF base[w] = NoCase THEN 0 ELSE base[w].revision

\* The caller's own discipline: save before operating again, once OpsPerSave
\* operations wait to be saved.
MayOperate(w) ==
    /\ hand[w] # NoCase
    /\ hand[w].revision < BaseRevision(w) + OpsPerSave

Activate(w, t, now) ==
    /\ MayOperate(w)
    /\ CanActivate(t, hand[w], now)
    /\ hand' = [hand EXCEPT ![w] = Activated(hand[w], now)]
    /\ UNCHANGED <<store, base>>

Cancel(w, t, now) ==
    /\ MayOperate(w)
    /\ CanCancel(t, hand[w], now)
    /\ hand' = [hand EXCEPT ![w] = Cancelled(hand[w], now)]
    /\ UNCHANGED <<store, base>>

AddMaterial(w, t, m, p, rs, now) ==
    /\ MayOperate(w)
    /\ CanAddMaterial(t, hand[w], m, p, rs, now)
    /\ hand' = [hand EXCEPT ![w] = WithMaterial(hand[w], m, p, rs, now)]
    /\ UNCHANGED <<store, base>>

Associate(w, t, m, rs, now) ==
    /\ MayOperate(w)
    /\ CanAssociate(t, hand[w], m, rs, now)
    /\ hand' = [hand EXCEPT ![w] = WithAssociation(hand[w], m, rs, now)]
    /\ UNCHANGED <<store, base>>

-----------------------------------------------------------------------------
(* save: a case at revision 1 must be new, and a case at revision n must   *)
(* replace a stored revision n - 1.                                        *)

RevisionAdmitsEqual(stored, c) ==
    IF stored = NoCase THEN c.revision = 1
    ELSE c.revision # 1 /\ c.revision >= stored.revision

RevisionAdmitsRecreation(stored, c) ==
    IF stored = NoCase THEN c.revision = 1
    ELSE c.revision \in {1, stored.revision + 1}

RevisionAdmits(stored, c) ==
    IF stored = NoCase THEN c.revision = 1
    ELSE c.revision # 1 /\ c.revision = stored.revision + 1

Save(w) ==
    /\ hand[w] # NoCase
    /\ IsValidCase(hand[w])
    /\ RevisionAdmits(store[KeyOf(hand[w])], hand[w])
    /\ store' = [store EXCEPT ![KeyOf(hand[w])] = hand[w]]
    /\ base' = [base EXCEPT ![w] = hand[w]]
    /\ UNCHANGED hand

Step(w) ==
    \/ Save(w)
    \/ \E t \in Tenant, id \in CaseId : Get(w, t, id)
    \/ \E t \in Tenant, now \in Time :
         \/ \E id \in CaseId : Create(w, t, id, now)
         \/ Activate(w, t, now)
         \/ Cancel(w, t, now)
         \/ \E m \in Material, rs \in SUBSET Requirement :
              \/ \E p \in Payload : AddMaterial(w, t, m, p, rs, now)
              \/ Associate(w, t, m, rs, now)

Next == \E w \in Writer : Step(w)

Spec == Init /\ [][Next]_vars

-----------------------------------------------------------------------------
\* Every value is of its type; a held value without a base is a new case.
TypeOK ==
    /\ store \in [Key -> Case \cup {NoCase}]
    /\ base \in [Writer -> Case \cup {NoCase}]
    /\ hand \in [Writer -> Case \cup {NoCase}]

\* sealed() never refuses what an operation built out of admissible input: the
\* operations keep the material list and the requirement projection in
\* agreement by themselves.  Only the revision counter can run out.
SealNeverRefuses ==
    \A w \in Writer, t \in Tenant, now \in Time :
      hand[w] # NoCase /\ IsOperable(t, hand[w]) /\ hand[w].revision < MaxSafeInteger =>
        \A m \in Material, rs \in SUBSET Requirement :
          /\ AdmitsAssociation(t, hand[w], m, rs, now) =>
               CanAssociate(t, hand[w], m, rs, now)
          /\ \A p \in Payload : AdmitsMaterial(t, hand[w], m, rs, now) =>
               CanAddMaterial(t, hand[w], m, p, rs, now)

\* The instants of one case, which the validator relates only to createdAt,
\* never contradict its history: nothing happened after the last update,
\* activation precedes cancellation, and no requirement received material
\* before that material entered the case.
HistoryInOrder(c) ==
    /\ c.activatedAt <= c.updatedAt /\ c.cancelledAt <= c.updatedAt
    /\ c.state = "Cancelled" => c.cancelledAt = c.updatedAt /\ c.activatedAt <= c.cancelledAt
    /\ \A x \in c.materials : x.addedAt <= c.updatedAt
    /\ \A r \in Declared : LET s == c.requirementStates[r] IN
         /\ s.firstMaterialAt <= s.updatedAt /\ s.updatedAt <= c.updatedAt
         /\ \A m \in s.materialIds : \E x \in c.materials :
              x.materialId = m /\ x.addedAt <= s.updatedAt

\* HistoryInOrder holds of every value a writer holds and of every stored one.
HistoriesInOrder ==
    /\ \A w \in Writer : hand[w] # NoCase => HistoryInOrder(hand[w])
    /\ \A k \in Key : store[k] # NoCase => HistoryInOrder(store[k])

\* c holds material x, answering at least the requirements x answers.
Retains(c, x) ==
    \E y \in c.materials :
      /\ y.materialId = x.materialId /\ y.payload = x.payload /\ y.addedAt = x.addedAt
      /\ x.requirementIds \subseteq y.requirementIds

\* A material the repository accepted is still there after any later save of
\* that case, the same reference added at the same instant, answering at least
\* the requirements it answered: "lost updates" are what save's doc rules out.
CommittedMaterialKept ==
    [][\A k \in Key : store[k] # NoCase =>
         \A x \in store[k].materials : Retains(store'[k], x)]_vars

\* A case stored as Cancelled is never stored in any other value again.
CancelledIsTerminal ==
    [][\A k \in Key : store[k] # NoCase /\ store[k].state = "Cancelled" =>
         store'[k] = store[k]]_vars

\* The repository is an atomic register per case.
Register == INSTANCE CaseRegister WITH cases <- store
ImplementsRegister == Register!Spec
=============================================================================
